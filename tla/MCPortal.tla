------------------------------ MODULE MCPortal ------------------------------
(***************************************************************************)
(* Small instances of Portal.                                              *)
(***************************************************************************)
EXTENDS Portal, TLC

CONSTANTS j1, j2, t1, t2, t3, s1, s2

MCPoolOf == [t \in Threads |-> IF t = t1 THEN s1 ELSE s2]
MCMaxCalls == [j \in Journeys |-> IF j = j1 THEN 3 ELSE 2]
=============================================================================
