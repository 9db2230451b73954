------------------------------- MODULE Travel -------------------------------
(***************************************************************************)
(* What the scheduling core promises its user, without threads, queues or  *)
(* coroutines: a journey is one sequential activity that is always in one  *)
(* place; it moves between schedulers only where its own code says so; and *)
(* at most one journey is active in an Alone.  An event may interrupt a    *)
(* move of the journeys in Interruptible, which then may wake up           *)
(* elsewhere.                                                              *)
(***************************************************************************)
CONSTANTS Journeys, Pools, Alones, Interruptible, None

VARIABLES
  stage,  \* what each journey does
  place   \* the scheduler it is in

travelVars == <<stage, place>>

Stages == {"unborn", "ready", "active", "parked", "done"}

TravelTypeOK ==
  /\ stage \in [Journeys -> Stages]
  /\ place \in [Journeys -> Pools \cup Alones \cup {None}]

TravelInit ==
  /\ stage = [j \in Journeys |-> "unborn"]
  /\ place = [j \in Journeys |-> None]

Stage(j, from, to) ==
  /\ stage[j] = from
  /\ stage' = [stage EXCEPT ![j] = to]

Put(j, s) == place' = [place EXCEPT ![j] = s]

Begin(j, s) == Stage(j, "unborn", "ready") /\ Put(j, s)

\* An Alone admits one journey at a time.
Activate(j) ==
  /\ place[j] \in Alones =>
       \A k \in Journeys : stage[k] = "active" => place[k] # place[j]
  /\ Stage(j, "ready", "active")
  /\ UNCHANGED place

\* teleport: the journey queues at its destination.
Move(j, s) ==
  /\ s # place[j] \/ j \in Interruptible
  /\ Stage(j, "active", "ready")
  /\ Put(j, s)

\* The journey waits for an asynchronous operation where it is.
Park(j, s) ==
  /\ s = place[j] \/ j \in Interruptible
  /\ Stage(j, "active", "parked")
  /\ Put(j, s)

Wake(j) == Stage(j, "parked", "ready") /\ UNCHANGED place

End(j) ==
  /\ Stage(j, "active", "done")
  /\ Put(j, None)

TravelNext ==
  \E j \in Journeys :
    \/ \E s \in Pools \cup Alones : Begin(j, s) \/ Move(j, s) \/ Park(j, s)
    \/ Activate(j) \/ Wake(j) \/ End(j)

TravelSpec == TravelInit /\ [][TravelNext]_travelVars

\* The mutual exclusion an Alone gives: two journeys in it are never active.
TravelMutex ==
  \A j, k \in Journeys :
    /\ stage[j] = "active" /\ stage[k] = "active"
    /\ place[j] \in Alones /\ place[j] = place[k]
    => j = k

=============================================================================
