------------------------------ MODULE MCTask ------------------------------
(* One task on two systems; Uyuni has a few action ids to give out.        *)
EXTENDS Task

CONSTANTS s1, s2
============================================================================
