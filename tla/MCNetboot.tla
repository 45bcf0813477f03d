----------------------------- MODULE MCNetboot -----------------------------
(* One System and the CobblerSystem it owns; Netboot has no sets to size.  *)
EXTENDS Netboot

\* A Cobbler that refuses bare records does nothing the other one does not do,
\* but for refusing; one disturbance less shows it.
Events == [saves \in BOOLEAN |-> IF saves THEN 3 ELSE 2]
FewEvents == [saves \in BOOLEAN |-> IF saves THEN 2 ELSE 1]
============================================================================
