-------------------------- MODULE MCOrganization --------------------------
(* TLC instance of Organization: two resources of one name, each with or   *)
(* without spec.import.                                                    *)
EXTENDS Organization
=============================================================================
