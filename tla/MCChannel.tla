----------------------------- MODULE MCChannel -----------------------------
(***************************************************************************)
(* Small instances of Channel.                                             *)
(***************************************************************************)
EXTENDS Channel, TLC

CONSTANTS g1, g2, g3, p1, p2, c1

MCPutLimit == [p \in Putters |-> IF p = p1 THEN 2 ELSE 1]
=============================================================================
