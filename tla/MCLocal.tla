------------------------------ MODULE MCLocal -------------------------------
(***************************************************************************)
(* The bounds of README.md, section 4, for the parts in LocalSystem.       *)
(***************************************************************************)
EXTENDS LocalSystem
=============================================================================
