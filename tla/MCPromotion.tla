---------------------------- MODULE MCPromotion ----------------------------
(* A project with the chain dev -> test and a spare environment qa.        *)
EXTENDS Promotion

CONSTANTS dev, test, qa, p1, p2

Chain == [l \in {dev, test, qa, NoEnv} |->
            CASE l = NoEnv -> dev [] l = dev -> test [] OTHER -> NoEnv]

Ungated == [p \in Promotion |-> 0]
Gated == [p \in Promotion |-> 1]
============================================================================
