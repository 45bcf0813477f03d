---------------------------- MODULE MCClientPool ----------------------------
(* One provider, one Organization referred to by both of its names.        *)
EXTENDS ClientPool

CONSTANTS w1, pr, o1

ProviderRef == [o \in {o1} |-> pr]
============================================================================
