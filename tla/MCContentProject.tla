------------------------- MODULE MCContentProject -------------------------
(* TLC instance of ContentProject: two resources, of one label or of two,  *)
(* that name one filter.                                                   *)
EXTENDS ContentProject
=============================================================================
