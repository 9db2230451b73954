----------------------------- MODULE MCExchange -----------------------------
(***************************************************************************)
(* Two connections, the client of one of which is interrupted. A char has  *)
(* eight values here: a key of 1 byte is answered, one of 2 makes the size *)
(* of the answer negative, one of 4 its own, and one of 9 looks like one.  *)
(***************************************************************************)
EXTENDS Exchange, TLC

CONSTANTS c1, c2

Get(n) == [program |-> "get", size |-> n, chunked |-> FALSE]
Load(n, chunks) == [program |-> "load", size |-> n, chunked |-> chunks]

MCInterruptible == {<<c1, "client">>}
Nothing == [program |-> "none", size |-> 0, chunked |-> FALSE]
Both(r1, r2) == c1 :> r1 @@ c2 :> r2
MCRequests ==
  {Both(Get(2), Get(1)), Both(Nothing, Get(9)), Both(Get(4), Nothing)}
    \cup {Both(Load(n, chunks), Nothing) : n \in {1, 2}, chunks \in BOOLEAN}
=============================================================================
