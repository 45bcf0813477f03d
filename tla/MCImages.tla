------------------------------ MODULE MCImages ------------------------------
\* Model-checking instance of Images: a profile that builds on change and
\* keeps one succeeded build, one that builds when asked and whose retention
\* only says how many failed builds to keep, and one without a build host.
EXTENDS Images

MCProfiles == {[policy |-> "onChange", host |-> TRUE, retain |-> "succeeded",
                events |-> 1],
               [policy |-> "manual", host |-> TRUE, retain |-> "failedOnly",
                events |-> 2],
               [policy |-> "onChange", host |-> FALSE, retain |-> "none",
                events |-> 1]}

\* A profile that builds on change, edited while its build-now is served.
StripProfiles == {[policy |-> "onChange", host |-> TRUE, retain |-> "none",
                   events |-> 2]}

============================================================================
