----------------------------- MODULE MCWaiting -----------------------------
(***************************************************************************)
(* Small instances of Waiting.                                             *)
(***************************************************************************)
EXTENDS Waiting
=============================================================================
