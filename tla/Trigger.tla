------------------------------ MODULE Trigger ------------------------------
(***************************************************************************)
(* What api/v1alpha1/annotations.go promises of the one-shot annotations   *)
(* rerun, build-now, sync-now, reinstall-now, apply-formula-values and     *)
(* refresh-now: a user sets one, the operator does what it asks for, at    *)
(* least once, and only then strips it.  The reconcilers that take them    *)
(* are shown to implement this.                                            *)
(***************************************************************************)
CONSTANT Asker      \* the resources that carry the annotation

VARIABLES
    asked,      \* resources with the annotation
    owed        \* resources whose request nobody has served yet

triggerVars == <<asked, owed>>

Init == asked = {} /\ owed = {}

Ask(c) == /\ c \notin asked
          /\ asked' = asked \cup {c} /\ owed' = owed \cup {c}

Serve(c) == /\ c \in owed
            /\ owed' = owed \ {c} /\ UNCHANGED asked

Strip(c) == /\ c \in asked \ owed
            /\ asked' = asked \ {c} /\ UNCHANGED owed

\* The resource is deleted with its request.
Withdraw(c) == /\ c \in asked
               /\ asked' = asked \ {c} /\ owed' = owed \ {c}

Next == \E c \in Asker : Ask(c) \/ Serve(c) \/ Strip(c) \/ Withdraw(c)

Spec == Init /\ [][Next]_triggerVars

============================================================================
