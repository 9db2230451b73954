------------------------------ MODULE Conduit ------------------------------
(***************************************************************************)
(* What a channel promises, without mutexes, waiter records or journeys    *)
(* that switch out: each value put is handed to one getter, in the order   *)
(* of the puts; a getter waits only while there is nothing to hand out;    *)
(* close() sends every waiting getter away.  A getter that events          *)
(* interrupt may lose the value it was handed last.                        *)
(***************************************************************************)
EXTENDS Integers, Sequences

CONSTANTS Getters, Interruptible, Values

VARIABLES
  items,    \* the values nobody has got yet
  open,     \* the channel is not closed
  waiting,  \* the getters that wait
  received  \* the values handed to each getter

conduitVars == <<items, open, waiting, received>>

ConduitInit ==
  /\ items = <<>>
  /\ open = TRUE
  /\ waiting = {}
  /\ received = [g \in Getters |-> <<>>]

Hand(g, v) == received' = [received EXCEPT ![g] = Append(@, v)]

Put(v) ==
  \/ /\ waiting = {}
     /\ items' = Append(items, v)
     /\ UNCHANGED <<open, waiting, received>>
  \/ \E g \in waiting :
       /\ Hand(g, v)
       /\ waiting' = waiting \ {g}
       /\ UNCHANGED <<items, open>>

Get(g) ==
  \/ /\ items # <<>>
     /\ Hand(g, Head(items))
     /\ items' = Tail(items)
     /\ UNCHANGED <<open, waiting>>
  \/ /\ items = <<>> /\ open
     /\ waiting' = waiting \cup {g}
     /\ UNCHANGED <<items, open, received>>

Lose(g) ==
  /\ received[g] # <<>>
  /\ received' = [received EXCEPT ![g] = SubSeq(@, 1, Len(@) - 1)]
  /\ UNCHANGED <<items, open, waiting>>

Close ==
  /\ open' = FALSE
  /\ waiting' = {}
  /\ UNCHANGED <<items, received>>

Open == open' = TRUE /\ UNCHANGED <<items, waiting, received>>

ConduitNext ==
  \/ \E v \in Values : Put(v)
  \/ \E g \in Getters \ waiting : Get(g)
  \/ \E g \in Interruptible : Lose(g)
  \/ Close \/ Open

ConduitSpec == ConduitInit /\ [][ConduitNext]_conduitVars

=============================================================================
