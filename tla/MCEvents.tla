------------------------------ MODULE MCEvents ------------------------------
(***************************************************************************)
(* Small instances of Events.                                              *)
(***************************************************************************)
EXTENDS Events

CONSTANTS t1, t2, c1, c2
=============================================================================
