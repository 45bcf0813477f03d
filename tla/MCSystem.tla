------------------------------ MODULE MCSystem ------------------------------
(* A small instance of module System for TLC.                              *)
EXTENDS System, TLC

============================================================================
