------------------------------ MODULE MC_FinalPass ------------------------------
(* Identities for the database threads of FinalPass.                       *)
EXTENDS FinalPass

CONSTANTS t1, t2
=============================================================================
