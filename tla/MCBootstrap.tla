----------------------------- MODULE MCBootstrap -----------------------------
(***************************************************************************)
(* Instances of Bootstrap for TLC.                                         *)
(***************************************************************************)
EXTENDS Bootstrap

CONSTANTS x, y

=============================================================================
