---------------------------- MODULE MCSessionInput ----------------------------
(***************************************************************************)
(* Small instances of SessionInput.                                        *)
(***************************************************************************)
EXTENDS SessionInput
===============================================================================
