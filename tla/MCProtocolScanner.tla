-------------------------- MODULE MCProtocolScanner --------------------------
(***************************************************************************)
(* The instance of ProtocolScanner for TLC.                                *)
(***************************************************************************)
EXTENDS ProtocolScanner

CONSTANTS aave

=============================================================================
