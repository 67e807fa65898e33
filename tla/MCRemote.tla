------------------------------ MODULE MCRemote ------------------------------
(***************************************************************************)
(* RemoteSystem at the bounds of README.md, section 4.                     *)
(***************************************************************************)
EXTENDS RemoteSystem

CONSTANTS h1, h2

MCSameSize == {<<h1, h2>>}
=============================================================================
