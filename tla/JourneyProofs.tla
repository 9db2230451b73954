--------------------------- MODULE JourneyProofs ---------------------------
(***************************************************************************)
(* Proofs about Journey for all numbers of journeys, threads, pools and    *)
(* Alones: the inductive invariant IInv and what follows from it.          *)
(***************************************************************************)
EXTENDS Journey, SequenceTheorems, TLAPS

LEMMA AppendFacts ==
  ASSUME NEW S, NEW q \in Seq(S), NEW e \in S
  PROVE  /\ Append(q, e) \in Seq(S)
         /\ DOMAIN Append(q, e) = 1 .. Len(q) + 1
         /\ \A i \in DOMAIN Append(q, e) :
              IF i = Len(q) + 1 THEN Append(q, e)[i] = e
              ELSE i \in DOMAIN q /\ Append(q, e)[i] = q[i]
         /\ \A i \in DOMAIN q : i \in DOMAIN Append(q, e) /\ Append(q, e)[i] = q[i]
         /\ Len(q) + 1 \notin DOMAIN q
  OBVIOUS

LEMMA TailFacts ==
  ASSUME NEW S, NEW q \in Seq(S), q # <<>>
  PROVE  /\ Tail(q) \in Seq(S)
         /\ 1 \in DOMAIN q /\ Head(q) = q[1] /\ Head(q) \in S
         /\ \A i \in DOMAIN Tail(q) :
              i \in Int /\ i > 0 /\ i + 1 \in DOMAIN q /\ Tail(q)[i] = q[i + 1]
         /\ \A i \in DOMAIN q : i # 1 =>
              i - 1 \in DOMAIN Tail(q) /\ Tail(q)[i - 1] = q[i]
  OBVIOUS

LEMMA InitIInv == Init => IInv
  BY JourneyAssumption DEF Init, IInv, TypeOK, QueuedInv, ArmedInv, ThreadInv,
     ExecutedInv, PlaceInv, LifeInv, NeverLost, Executes, InsideCoro, AtRest,
     EventStatus, DeferHandlers, Places, Schedulers

-----------------------------------------------------------------------------
(* What posting and taking a handler do to the queues. *)

LEMMA ScheduleFacts ==
  ASSUME TypeOK, NEW s \in Schedulers, NEW j \in Journeys,
         NEW act \in {"start", "resume"}, Schedule(s, act, j)
  PROVE  /\ queue' \in [Schedulers -> Seq(Handlers)]
         /\ \A r \in Schedulers : \A i \in DOMAIN queue'[r] :
              \/ i \in DOMAIN queue[r] /\ queue'[r][i] = queue[r][i]
              \/ /\ r = s /\ i = Len(queue[s]) + 1
                 /\ queue'[r][i].act = act /\ queue'[r][i].of = j
         /\ \A r \in Schedulers : \A i \in DOMAIN queue[r] :
              i \in DOMAIN queue'[r] /\ queue'[r][i] = queue[r][i]
         /\ Len(queue[s]) + 1 \in DOMAIN queue'[s]
         /\ queue'[s][Len(queue[s]) + 1].of = j
  <1> DEFINE h == [act |-> act, of |-> j]
  <1>1. h \in Handlers /\ h.act = act /\ h.of = j
    BY DEF Handlers
  <1>2. queue[s] \in Seq(Handlers) /\ queue \in [Schedulers -> Seq(Handlers)]
    BY DEF TypeOK
  <1>3. queue' = [queue EXCEPT ![s] = Append(queue[s], h)]
    BY DEF Schedule
  <1> HIDE DEF h
  <1>4. /\ queue'[s] = Append(queue[s], h)
        /\ \A r \in Schedulers : r # s => queue'[r] = queue[r]
        /\ Append(queue[s], h) \in Seq(Handlers)
    BY <1>1, <1>2, <1>3, AppendFacts
  <1>5. queue' \in [Schedulers -> Seq(Handlers)]
    BY <1>2, <1>3, <1>4
  <1>6. /\ \A i \in DOMAIN queue'[s] :
             IF i = Len(queue[s]) + 1 THEN queue'[s][i] = h
             ELSE i \in DOMAIN queue[s] /\ queue'[s][i] = queue[s][i]
        /\ \A i \in DOMAIN queue[s] :
             i \in DOMAIN queue'[s] /\ queue'[s][i] = queue[s][i]
        /\ Len(queue[s]) + 1 \in DOMAIN queue'[s]
    BY <1>1, <1>2, <1>4, AppendFacts
  <1>7. queue'[s][Len(queue[s]) + 1].of = j
    BY <1>1, <1>6
  <1>8. \A r \in Schedulers : \A i \in DOMAIN queue'[r] :
          \/ i \in DOMAIN queue[r] /\ queue'[r][i] = queue[r][i]
          \/ /\ r = s /\ i = Len(queue[s]) + 1
             /\ queue'[r][i].act = act /\ queue'[r][i].of = j
    BY <1>1, <1>4, <1>6
  <1>9. \A r \in Schedulers : \A i \in DOMAIN queue[r] :
          i \in DOMAIN queue'[r] /\ queue'[r][i] = queue[r][i]
    BY <1>4, <1>6
  <1> QED
    BY <1>5, <1>6, <1>7, <1>8, <1>9

LEMMA TakeFacts ==
  ASSUME TypeOK, NEW s \in Schedulers, queue[s] # <<>>,
         queue' = [queue EXCEPT ![s] = Tail(@)]
  PROVE  /\ queue' \in [Schedulers -> Seq(Handlers)]
         /\ 1 \in DOMAIN queue[s] /\ Head(queue[s]) = queue[s][1]
         /\ Head(queue[s]) \in Handlers
         /\ \A r \in Schedulers : \A i \in DOMAIN queue'[r] :
              \/ r # s /\ i \in DOMAIN queue[r] /\ queue'[r][i] = queue[r][i]
              \/ /\ r = s /\ i \in Int /\ i > 0 /\ i + 1 \in DOMAIN queue[s]
                 /\ queue'[r][i] = queue[s][i + 1]
         /\ \A r \in Schedulers : \A i \in DOMAIN queue[r] :
              \/ r # s /\ i \in DOMAIN queue'[r] /\ queue'[r][i] = queue[r][i]
              \/ r = s /\ i = 1
              \/ r = s /\ i - 1 \in DOMAIN queue'[r] /\ queue'[r][i - 1] = queue[r][i]
  <1>1. queue[s] \in Seq(Handlers) /\ queue \in [Schedulers -> Seq(Handlers)]
    BY DEF TypeOK
  <1>2. /\ queue'[s] = Tail(queue[s])
        /\ \A r \in Schedulers : r # s => queue'[r] = queue[r]
    BY <1>1
  <1>3. Tail(queue[s]) \in Seq(Handlers)
    BY <1>1, TailFacts
  <1>4. queue' \in [Schedulers -> Seq(Handlers)]
    BY <1>1, <1>3
  <1>5. /\ 1 \in DOMAIN queue[s] /\ Head(queue[s]) = queue[s][1]
        /\ Head(queue[s]) \in Handlers
        /\ \A i \in DOMAIN queue'[s] :
             i \in Int /\ i > 0 /\ i + 1 \in DOMAIN queue[s]
               /\ queue'[s][i] = queue[s][i + 1]
        /\ \A i \in DOMAIN queue[s] : i # 1 =>
             i - 1 \in DOMAIN queue'[s] /\ queue'[s][i - 1] = queue[s][i]
    BY <1>1, <1>2, TailFacts
  <1>6. \A r \in Schedulers : \A i \in DOMAIN queue'[r] :
          \/ r # s /\ i \in DOMAIN queue[r] /\ queue'[r][i] = queue[r][i]
          \/ /\ r = s /\ i \in Int /\ i > 0 /\ i + 1 \in DOMAIN queue[s]
             /\ queue'[r][i] = queue[s][i + 1]
    BY <1>2, <1>5
  <1>7. \A r \in Schedulers : \A i \in DOMAIN queue[r] :
          \/ r # s /\ i \in DOMAIN queue'[r] /\ queue'[r][i] = queue[r][i]
          \/ r = s /\ i = 1
          \/ r = s /\ i - 1 \in DOMAIN queue'[r] /\ queue'[r][i - 1] = queue[r][i]
    BY <1>2, <1>5
  <1> QED
    BY <1>4, <1>5, <1>6, <1>7

LEMMA HandlerFacts ==
  ASSUME TypeOK, NEW s \in Schedulers, NEW i \in DOMAIN queue[s]
  PROVE  queue[s][i] \in Handlers /\ queue[s][i].of \in Journeys
  <1>1. queue[s] \in Seq(Handlers)
    BY DEF TypeOK
  <1>2. queue[s][i] \in Handlers
    BY <1>1, ElementOfSeq
  <1> QED
    BY <1>2 DEF Handlers

\* A handler of j posted to s keeps QueuedInv when j is at rest, has no other
\* queued handler, and the other journeys keep what QueuedInv says of them.
LEMMA ScheduleQueuedInv ==
  ASSUME TypeOK, QueuedInv,
         NEW s \in Schedulers, NEW j \in Journeys,
         NEW act \in {"start", "resume"}, Schedule(s, act, j),
         \A r \in Schedulers : \A i \in DOMAIN queue[r] : queue[r][i].of # j,
         AtRest(j)', sched'[j] = s, started'[j] <=> act = "resume", j \notin armed',
         \A k \in Journeys \ {j} :
           /\ AtRest(k) => AtRest(k)'
           /\ sched'[k] = sched[k] /\ started'[k] = started[k]
           /\ k \in armed' => k \in armed
  PROVE  QueuedInv'
  <1> SUFFICES ASSUME NEW r \in Schedulers, NEW i \in DOMAIN queue'[r],
                      NEW o, o = queue'[r][i].of
               PROVE  /\ AtRest(o)'
                      /\ sched'[o] = r
                      /\ started'[o] <=> queue'[r][i].act = "resume"
                      /\ o \notin armed'
                      /\ \A k \in DOMAIN queue'[r] : queue'[r][k].of = o => k = i
    BY DEF QueuedInv, AtRest, Executes
  <1>1. /\ \A k \in DOMAIN queue'[r] :
             \/ k \in DOMAIN queue[r] /\ queue'[r][k] = queue[r][k]
             \/ /\ r = s /\ k = Len(queue[s]) + 1
                /\ queue'[r][k].act = act /\ queue'[r][k].of = j
        /\ queue[r] \in Seq(Handlers)
    BY ScheduleFacts DEF TypeOK
  <1>2. CASE i \in DOMAIN queue[r] /\ queue'[r][i] = queue[r][i]
    <2>1. o = queue[r][i].of /\ queue[r][i] \in Handlers
      BY <1>1, <1>2, ElementOfSeq
    <2>2. o \in Journeys \ {j}
      BY <1>2, <2>1 DEF Handlers
    <2>3. /\ AtRest(o) /\ sched[o] = r /\ o \notin armed
          /\ started[o] <=> queue[r][i].act = "resume"
          /\ \A k \in DOMAIN queue[r] : queue[r][k].of = o => k = i
      BY <1>2, <2>1 DEF QueuedInv, AtRest, Executes
    <2>4. AtRest(o)' /\ sched'[o] = r /\ o \notin armed' /\ started'[o] = started[o]
      BY <2>2, <2>3
    <2>5. \A k \in DOMAIN queue'[r] : queue'[r][k].of = o => k = i
      BY <1>1, <2>2, <2>3
    <2> QED
      BY <1>2, <2>3, <2>4, <2>5
  <1>3. CASE /\ r = s /\ i = Len(queue[s]) + 1
             /\ queue'[r][i].act = act /\ queue'[r][i].of = j
    BY <1>1, <1>3
  <1> QED
    BY <1>1, <1>2, <1>3

\* What posting a handler of j does to NeverLost.
LEMMA ScheduleNeverLost ==
  ASSUME TypeOK, NeverLost,
         NEW s \in Schedulers, NEW j \in Journeys,
         NEW act \in {"start", "resume"}, Schedule(s, act, j),
         \A k \in Journeys \ {j} :
           /\ life'[k] = life[k]
           /\ k \in armed => k \in armed'
           /\ \A t \in Threads : Executes(t, k) => Executes(t, k)'
  PROVE  NeverLost'
  <1> SUFFICES ASSUME NEW k \in Journeys, life'[k] = "alive"
               PROVE  \/ \E r \in Schedulers : \E i \in DOMAIN queue'[r] :
                           QueuedAt(r, i, k)'
                      \/ \E t \in Threads : Executes(t, k)'
                      \/ k \in armed'
    BY DEF NeverLost
  <1>1. CASE k = j
    BY <1>1, ScheduleFacts DEF QueuedAt
  <1>2. CASE k # j
    BY <1>2, ScheduleFacts DEF NeverLost, QueuedAt
  <1> QED
    BY <1>1, <1>2

-----------------------------------------------------------------------------
(* Every action preserves IInv. *)

\* Steps that only change the event state of journeys.
LEMMA EventStep ==
  ASSUME IInv,
         UNCHANGED <<journeyVars, coroVars, armed, queue, threadVars>>,
         status' \in [Journeys -> EventStatus],
         eventsAllowed' \in [Journeys -> BOOLEAN],
         \A j \in Journeys \ Interruptible : status'[j] = "NORMAL"
  PROVE  IInv'
  <1> USE DEF journeyVars, coroVars, threadVars
  <1>1. TypeOK' /\ LifeInv'
    BY DEF IInv, TypeOK, LifeInv
  <1>2. QueuedInv' /\ ArmedInv'
    BY DEF IInv, QueuedInv, ArmedInv, AtRest, Executes
  <1>3. ThreadInv' /\ ExecutedInv' /\ PlaceInv'
    BY DEF IInv, ThreadInv, ExecutedInv, PlaceInv, Executes, InsideCoro
  <1>4. NeverLost'
    BY DEF IInv, NeverLost, Executes, QueuedAt
  <1> QED
    BY <1>1, <1>2, <1>3, <1>4 DEF IInv

\* What a thread in user code knows of its journey.
LEMMA InCoroFacts ==
  ASSUME IInv, NEW t \in Threads, InCoro(t)
  PROVE  /\ t_journey[t] \in Journeys
         /\ Executes(t, t_journey[t])
         /\ t_coro[t] = t_journey[t]
         /\ life[t_journey[t]] = "alive"
         /\ running[t_journey[t]] /\ started[t_journey[t]]
         /\ deferHandler[t_journey[t]] = "null"
         /\ t_journey[t] \notin armed
         /\ \A s \in Schedulers : \A i \in DOMAIN queue[s] :
              queue[s][i].of # t_journey[t]
         /\ \A u \in Threads : Executes(u, t_journey[t]) => u = t
  BY DEF IInv, InCoro, ThreadInv, ExecutedInv, ArmedInv, QueuedInv, AtRest,
         Executes, InsideCoro

LEMMA EventActions ==
  ASSUME IInv,
         \/ \E j \in Journeys : Cancel(j) \/ Timedout(j)
         \/ \E t \in Threads : HandleEvents(t) \/ DisableEvents(t) \/ EnableEvents(t)
  PROVE  IInv'
  <1>1. ASSUME NEW j \in Journeys, Cancel(j) \/ Timedout(j) PROVE IInv'
    BY <1>1, EventStep
       DEF IInv, TypeOK, LifeInv, Cancel, Timedout, SetStatus, EventStatus
  <1>2. ASSUME NEW t \in Threads, HandleEvents(t) PROVE IInv'
    BY <1>2, InCoroFacts, EventStep
       DEF IInv, TypeOK, LifeInv, HandleEvents, ResetStatus, EventStatus
  <1>3. ASSUME NEW t \in Threads, DisableEvents(t) PROVE IInv'
    <2>1. /\ status' \in [Journeys -> EventStatus]
          /\ \A j \in Journeys \ Interruptible : status'[j] = "NORMAL"
      BY <1>3 DEF IInv, TypeOK, LifeInv, DisableEvents, ResetStatus, EventStatus
    <2>2. eventsAllowed' \in [Journeys -> BOOLEAN]
      BY <1>3 DEF IInv, TypeOK, DisableEvents
    <2> QED
      BY <1>3, <2>1, <2>2, EventStep DEF DisableEvents
  <1>4. ASSUME NEW t \in Threads, EnableEvents(t) PROVE IInv'
    <2>1. /\ status' \in [Journeys -> EventStatus]
          /\ \A j \in Journeys \ Interruptible : status'[j] = "NORMAL"
      BY <1>4 DEF IInv, TypeOK, LifeInv, EnableEvents, ResetStatus, EventStatus
    <2>2. eventsAllowed' \in [Journeys -> BOOLEAN]
      BY <1>4 DEF IInv, TypeOK, EnableEvents
    <2> QED
      BY <1>4, <2>1, <2>2, EventStep DEF EnableEvents
  <1> QED
    BY <1>1, <1>2, <1>3, <1>4

\* Journey::defer, with the scheduler teleport has assigned before.
LEMMA DeferStep ==
  ASSUME IInv, NEW t \in Threads, InCoro(t),
         NEW handler \in {"proceed", "handoff"}, Defer(t, handler),
         NEW s \in Schedulers, sched' = [sched EXCEPT ![t_journey[t]] = s],
         handler = "proceed" <=> s # sched[t_journey[t]]
  PROVE  IInv'
  <1> DEFINE j == t_journey[t]
  <1>1. /\ j \in Journeys /\ Executes(t, j) /\ life[j] = "alive"
        /\ running[j] /\ started[j] /\ deferHandler[j] = "null" /\ j \notin armed
        /\ \A r \in Schedulers : \A i \in DOMAIN queue[r] : queue[r][i].of # j
        /\ \A u \in Threads : Executes(u, j) => u = t
        /\ t_coro[t] = j
    BY InCoroFacts
  <1>2. /\ UNCHANGED <<life, coroVars, eventsAllowed, via, t_journey, t_coro>>
        /\ UNCHANGED <<armed, queue>>
        /\ \/ /\ j \in Interruptible
              /\ status' = [status EXCEPT ![j] = "NORMAL"]
              /\ UNCHANGED <<deferHandler, at>>
           \/ /\ deferHandler' = [deferHandler EXCEPT ![j] = handler]
              /\ at' = [at EXCEPT ![t] = "yield"]
              /\ UNCHANGED status
    BY <1>1 DEF Defer, StoreHandler, EventThrown, ResetStatus, IInv, LifeInv
  <1> USE <1>1, <1>2 DEF coroVars
  <1>3. TypeOK'
    <2>1. sched' \in [Journeys -> Schedulers \cup {None}]
      BY DEF IInv, TypeOK
    <2>2. deferHandler' \in [Journeys -> DeferHandlers]
      BY DEF IInv, TypeOK, DeferHandlers
    <2>3. status' \in [Journeys -> EventStatus]
      BY DEF IInv, TypeOK, EventStatus
    <2>4. at' \in [Threads -> Places]
      BY DEF IInv, TypeOK, Places
    <2> QED
      BY <2>1, <2>2, <2>3, <2>4 DEF IInv, TypeOK
  <1>4. QueuedInv' /\ ArmedInv'
    <2>1. \A r \in Schedulers : \A i \in DOMAIN queue[r] :
            /\ queue[r][i].of \in Journeys
            /\ queue[r][i].of # j
      BY HandlerFacts DEF IInv
    <2>2. \A k \in Journeys \ {j} :
            /\ AtRest(k) => AtRest(k)'
            /\ sched'[k] = sched[k]
      BY DEF IInv, TypeOK, AtRest, Executes, InCoro
    <2>3. QueuedInv'
      BY <2>1, <2>2 DEF IInv, QueuedInv, AtRest, Executes, InCoro
    <2> QED
      BY <2>2, <2>3 DEF IInv, TypeOK, ArmedInv
  <1>5. ThreadInv' /\ ExecutedInv'
    BY DEF IInv, TypeOK, ThreadInv, ExecutedInv, Executes, InsideCoro, InCoro
  <1>6. PlaceInv' /\ LifeInv'
    BY DEF IInv, TypeOK, PlaceInv, LifeInv, Executes, InCoro
  <1>7. NeverLost'
    BY DEF IInv, TypeOK, NeverLost, Executes, QueuedAt, InCoro
  <1> QED
    BY <1>3, <1>4, <1>5, <1>6, <1>7 DEF IInv

LEMMA TeleportStep ==
  ASSUME IInv, NEW t \in Threads, NEW s \in Schedulers, Teleport(t, s)
  PROVE  IInv'
  BY DeferStep DEF Teleport

LEMMA DeferProceedStep ==
  ASSUME IInv, NEW t \in Threads, DeferProceed(t)
  PROVE  IInv'
  <1>1. /\ t_journey[t] \in Journeys
        /\ sched[t_journey[t]] \in Schedulers
        /\ sched' = [sched EXCEPT ![t_journey[t]] = sched[t_journey[t]]]
    BY InCoroFacts DEF DeferProceed, IInv, TypeOK, LifeInv
  <1> QED
    BY <1>1, DeferStep DEF DeferProceed

LEMMA FinishStep ==
  ASSUME IInv, NEW t \in Threads, Finish(t)
  PROVE  IInv'
  <1> USE DEF Finish, InCoro, journeyVars, eventVars
  <1>1. TypeOK'
    BY DEF IInv, TypeOK, ThreadInv, Places
  <1>2. QueuedInv' /\ ArmedInv'
    BY DEF IInv, TypeOK, QueuedInv, ArmedInv, ThreadInv, ExecutedInv, AtRest, Executes, InsideCoro
  <1>3. ThreadInv' /\ ExecutedInv'
    BY DEF IInv, TypeOK, ThreadInv, ExecutedInv, Executes, InsideCoro
  <1>4. PlaceInv' /\ LifeInv'
    BY DEF IInv, TypeOK, PlaceInv, LifeInv, ThreadInv, ExecutedInv, Executes, InsideCoro
  <1>5. NeverLost'
    BY DEF IInv, TypeOK, NeverLost, ThreadInv, ExecutedInv, Executes, QueuedAt, InsideCoro
  <1> QED
    BY <1>1, <1>2, <1>3, <1>4, <1>5 DEF IInv

LEMMA AfterYieldStep ==
  ASSUME IInv, NEW t \in Threads, AfterYield(t)
  PROVE  IInv'
  <1> USE DEF AfterYield, EventThrown, ResetStatus, journeyVars, coroVars
  <1>1. TypeOK'
    BY DEF IInv, TypeOK, ThreadInv, Places, EventStatus
  <1>2. QueuedInv' /\ ArmedInv'
    BY DEF IInv, TypeOK, QueuedInv, ArmedInv, ThreadInv, ExecutedInv, AtRest, Executes, InsideCoro
  <1>3. ThreadInv' /\ ExecutedInv'
    BY DEF IInv, TypeOK, ThreadInv, ExecutedInv, Executes, InsideCoro
  <1>4. PlaceInv' /\ LifeInv'
    BY DEF IInv, TypeOK, PlaceInv, LifeInv, ThreadInv, ExecutedInv, Executes, InsideCoro
  <1>5. NeverLost'
    BY DEF IInv, TypeOK, NeverLost, ThreadInv, ExecutedInv, Executes, QueuedAt, InsideCoro
  <1> QED
    BY <1>1, <1>2, <1>3, <1>4, <1>5 DEF IInv

LEMMA SwitchOutStep ==
  ASSUME IInv, NEW t \in Threads, SwitchOut(t)
  PROVE  IInv'
  <1> USE DEF SwitchOut, journeyVars, eventVars
  <1>1. TypeOK'
    BY DEF IInv, TypeOK, ThreadInv, Places
  <1>2. QueuedInv' /\ ArmedInv'
    BY DEF IInv, TypeOK, QueuedInv, ArmedInv, ThreadInv, ExecutedInv, AtRest, Executes, InsideCoro
  <1>3. ThreadInv' /\ ExecutedInv'
    BY DEF IInv, TypeOK, ThreadInv, ExecutedInv, Executes, InsideCoro
  <1>4. PlaceInv' /\ LifeInv'
    BY DEF IInv, TypeOK, PlaceInv, LifeInv, ThreadInv, ExecutedInv, Executes, InsideCoro
  <1>5. NeverLost'
    BY DEF IInv, TypeOK, NeverLost, ThreadInv, ExecutedInv, Executes, QueuedAt, InsideCoro
  <1> QED
    BY <1>1, <1>2, <1>3, <1>4, <1>5 DEF IInv

LEMMA LeaveStep ==
  ASSUME IInv, NEW t \in Threads, Leave(t)
  PROVE  IInv'
  <1> USE DEF Leave, journeyVars, coroVars, eventVars
  <1>1. TypeOK'
    BY DEF IInv, TypeOK, ThreadInv, Places
  <1>2. QueuedInv' /\ ArmedInv'
    BY DEF IInv, TypeOK, QueuedInv, ArmedInv, ThreadInv, ExecutedInv, AtRest, Executes, InsideCoro
  <1>3. ThreadInv' /\ ExecutedInv'
    BY DEF IInv, TypeOK, ThreadInv, ExecutedInv, Executes, InsideCoro
  <1>4. PlaceInv' /\ LifeInv'
    BY JourneyAssumption
       DEF IInv, TypeOK, PlaceInv, LifeInv, ThreadInv, ExecutedInv, Executes, InsideCoro
  <1>5. NeverLost'
    BY DEF IInv, TypeOK, NeverLost, ThreadInv, ExecutedInv, Executes, QueuedAt, InsideCoro
  <1> QED
    BY <1>1, <1>2, <1>3, <1>4, <1>5 DEF IInv

\* Start and Resume: the handler a thread takes carries its journey into the
\* coroutine.
LEMMA EnterStep ==
  ASSUME IInv, NEW t \in Threads, NEW s \in Schedulers,
         NEW act \in {"start", "resume"}, CanTake(t, s, act),
         NEW j, j = Head(queue[s]).of,
         NEW where \in {"back", "coro"}, Enter(t, s, j, where),
         started' = [started EXCEPT ![j] = TRUE]
  PROVE  IInv'
  <1>1. /\ queue' \in [Schedulers -> Seq(Handlers)]
        /\ 1 \in DOMAIN queue[s] /\ j = queue[s][1].of
        /\ \A r \in Schedulers : \A i \in DOMAIN queue'[r] :
              \/ r # s /\ i \in DOMAIN queue[r] /\ queue'[r][i] = queue[r][i]
              \/ /\ r = s /\ i \in Int /\ i > 0 /\ i + 1 \in DOMAIN queue[s]
                 /\ queue'[r][i] = queue[s][i + 1]
        /\ \A r \in Schedulers : \A i \in DOMAIN queue[r] :
              \/ r # s /\ i \in DOMAIN queue'[r] /\ queue'[r][i] = queue[r][i]
              \/ r = s /\ i = 1
              \/ r = s /\ i - 1 \in DOMAIN queue'[r] /\ queue'[r][i - 1] = queue[r][i]
    BY TakeFacts DEF IInv, CanTake, Enter
  <1>2. /\ j \in Journeys
        /\ AtRest(j) /\ sched[j] = s /\ j \notin armed
        /\ \A k \in DOMAIN queue[s] : queue[s][k].of = j => k = 1
    BY <1>1, HandlerFacts DEF IInv, QueuedInv, AtRest, Executes
  <1>3. /\ \A u \in Threads : ~Executes(u, j)
        /\ life[j] = "alive" /\ ~running[j] /\ deferHandler[j] = "null"
    BY <1>2 DEF AtRest
  <1>4. /\ at[t] = "run" /\ via[t] = None
        /\ s \in Alones => \A u \in Threads : via[u] # s
        /\ \A k \in Journeys : ~Executes(t, k)
    BY DEF CanTake, IInv, ThreadInv, Executes
  <1>5. /\ via' = [via EXCEPT ![t] = s]
        /\ t_journey' = [t_journey EXCEPT ![t] = j]
        /\ t_coro' = [t_coro EXCEPT ![t] = j]
        /\ running' = [running EXCEPT ![j] = TRUE]
        /\ at' = [at EXCEPT ![t] = where]
        /\ UNCHANGED <<life, sched, deferHandler, status, eventsAllowed, armed>>
    BY DEF Enter, journeyVars, eventVars
  <1>6. /\ \A u \in Threads, k \in Journeys \ {j} : Executes(u, k)' <=> Executes(u, k)
        /\ \A u \in Threads : Executes(u, j)' <=> u = t
    BY <1>2, <1>3, <1>4, <1>5 DEF Executes, IInv, TypeOK
  <1>7. \A k \in Journeys \ {j} : AtRest(k) => AtRest(k)'
    BY <1>5, <1>6 DEF AtRest, IInv, TypeOK
  <1>8. TypeOK'
    BY <1>1, <1>2, <1>5 DEF IInv, TypeOK, Places
  <1>9. QueuedInv'
    <2> SUFFICES ASSUME NEW r \in Schedulers, NEW i \in DOMAIN queue'[r],
                        NEW o, o = queue'[r][i].of
                 PROVE  /\ AtRest(o)'
                        /\ sched'[o] = r
                        /\ started'[o] <=> queue'[r][i].act = "resume"
                        /\ o \notin armed'
                        /\ \A k \in DOMAIN queue'[r] : queue'[r][k].of = o => k = i
      BY DEF QueuedInv, AtRest, Executes
    <2>1. PICK m \in DOMAIN queue[r] :
            /\ queue'[r][i] = queue[r][m]
            /\ r = s => m = i + 1 /\ m # 1
            /\ r # s => m = i
      BY <1>1
    <2>2. o \in Journeys
      BY <2>1, HandlerFacts DEF IInv
    <2>3. /\ AtRest(o) /\ sched[o] = r /\ o \notin armed
          /\ started[o] <=> queue[r][m].act = "resume"
          /\ \A k \in DOMAIN queue[r] : queue[r][k].of = o => k = m
      BY <2>1 DEF IInv, QueuedInv, AtRest, Executes
    <2>4. o # j
      BY <1>2, <2>1, <2>3
    <2>5. /\ AtRest(o)' /\ sched'[o] = r /\ o \notin armed'
          /\ started'[o] <=> queue'[r][i].act = "resume"
      BY <1>5, <1>7, <2>1, <2>2, <2>3, <2>4 DEF IInv, TypeOK
    <2>6. \A k \in DOMAIN queue'[r] : queue'[r][k].of = o => k = i
      <3>1. CASE r = s
        BY <1>1, <2>1, <2>3, <3>1
      <3>2. CASE r # s
        BY <1>1, <2>1, <2>3, <3>2
      <3> QED
        BY <3>1, <3>2
    <2> QED
      BY <2>5, <2>6
  <1>10. ArmedInv'
    BY <1>2, <1>5, <1>7 DEF IInv, TypeOK, ArmedInv
  <1>11. ThreadInv'
    BY <1>2, <1>4, <1>5 DEF IInv, TypeOK, ThreadInv, InsideCoro
  <1>12. ExecutedInv'
    <2>1. /\ \A k \in Journeys : k # j =>
                running'[k] = running[k] /\ started'[k] = started[k]
          /\ \A u \in Threads : u # t => at'[u] = at[u]
          /\ at'[t] = where /\ running'[j] /\ started'[j]
      BY <1>2, <1>5 DEF IInv, TypeOK
    <2> QED
      BY <1>2, <1>3, <1>4, <1>5, <1>6, <2>1 DEF IInv, ExecutedInv, InsideCoro
  <1>13. PlaceInv' /\ LifeInv'
    <2>1. LifeInv'
      BY <1>2, <1>3, <1>5 DEF IInv, TypeOK, LifeInv
    <2>2. /\ \A u \in Threads : via'[u] = IF u = t THEN s ELSE via[u]
      BY <1>5 DEF IInv, TypeOK
    <2>3. \A u, v \in Threads : via'[u] \in Alones /\ via'[u] = via'[v] => u = v
      BY <1>4, <2>2 DEF IInv, PlaceInv
    <2>4. \A u \in Threads : \A k \in Journeys \ Interruptible : Executes(u, k)' =>
            (via'[u] = sched'[k] <=> deferHandler'[k] # "proceed")
      BY <1>2, <1>3, <1>4, <1>5, <1>6, <2>2 DEF IInv, PlaceInv
    <2> QED
      BY <2>1, <2>3, <2>4 DEF PlaceInv
  <1>14. NeverLost'
    <2> SUFFICES ASSUME NEW k \in Journeys, life'[k] = "alive"
                 PROVE  \/ \E r \in Schedulers : \E i \in DOMAIN queue'[r] :
                             queue'[r][i].of = k
                        \/ \E u \in Threads : Executes(u, k)'
                        \/ k \in armed'
      BY DEF NeverLost, QueuedAt
    <2>1. CASE k = j
      BY <1>6, <2>1
    <2>2. CASE k # j
      <3>1. CASE \E r \in Schedulers : \E i \in DOMAIN queue[r] : queue[r][i].of = k
        <4>1. PICK r \in Schedulers : \E i \in DOMAIN queue[r] : queue[r][i].of = k
          BY <3>1
        <4>2. PICK i \in DOMAIN queue[r] : queue[r][i].of = k
          BY <4>1
        <4>3. \/ i \in DOMAIN queue'[r] /\ queue'[r][i].of = k
              \/ i - 1 \in DOMAIN queue'[r] /\ queue'[r][i - 1].of = k
          BY <1>1, <2>2, <4>2
        <4> QED
          BY <4>3
      <3>2. CASE (\E u \in Threads : Executes(u, k)) \/ k \in armed
        BY <1>5, <1>6, <2>2, <3>2
      <3> QED
        BY <1>5, <3>1, <3>2 DEF IInv, NeverLost, QueuedAt
    <2> QED
      BY <2>1, <2>2
  <1> QED
    BY <1>8, <1>9, <1>10, <1>11, <1>12, <1>13, <1>14 DEF IInv

LEMMA StartStep ==
  ASSUME IInv, NEW t \in Threads, NEW s \in Schedulers, Start(t, s)
  PROVE  IInv'
  BY EnterStep DEF Start

LEMMA ResumeStep ==
  ASSUME IInv, NEW t \in Threads, NEW s \in Schedulers, Resume(t, s)
  PROVE  IInv'
  <1> DEFINE j == Head(queue[s]).of
  <1>1. CanTake(t, s, "resume") /\ Enter(t, s, j, "back") /\ started' = started
    BY DEF Resume
  <1>2. /\ 1 \in DOMAIN queue[s] /\ Head(queue[s]) = queue[s][1]
    BY <1>1, TakeFacts DEF IInv, CanTake, Enter
  <1>3. j \in Journeys /\ started[j]
    BY <1>1, <1>2, HandlerFacts DEF IInv, QueuedInv, CanTake
  <1>4. started' = [started EXCEPT ![j] = TRUE]
    BY <1>1, <1>3 DEF IInv, TypeOK
  <1> QED
    BY <1>1, <1>4, EnterStep

\* A journey nothing carries has no queued handler.
LEMMA CarriedOnce ==
  ASSUME IInv, NEW j \in Journeys,
         life[j] # "alive" \/ j \in armed \/ \E t \in Threads : Executes(t, j)
  PROVE  \A s \in Schedulers : \A i \in DOMAIN queue[s] : queue[s][i].of # j
  BY DEF IInv, QueuedInv, AtRest

LEMMA GoStep ==
  ASSUME IInv, NEW j \in Journeys, NEW s \in Schedulers, Go(j, s)
  PROVE  IInv'
  <1>1. /\ life[j] = "unborn" /\ Schedule(s, "start", j)
        /\ life' = [life EXCEPT ![j] = "alive"]
        /\ sched' = [sched EXCEPT ![j] = s]
        /\ UNCHANGED <<deferHandler, started, running, status, eventsAllowed,
                       armed, at, via, t_journey, t_coro>>
    BY DEF Go, coroVars, eventVars, threadVars
  <1>2. /\ ~started[j] /\ ~running[j] /\ deferHandler[j] = "null" /\ j \notin armed
        /\ \A t \in Threads : ~Executes(t, j)
        /\ \A r \in Schedulers : \A i \in DOMAIN queue[r] : queue[r][i].of # j
    BY <1>1, CarriedOnce DEF IInv, LifeInv, ArmedInv, ExecutedInv, AtRest
  <1>3. /\ \A t \in Threads, k \in Journeys : Executes(t, k)' <=> Executes(t, k)
        /\ life'[j] = "alive" /\ sched'[j] = s
        /\ \A k \in Journeys \ {j} : life'[k] = life[k] /\ sched'[k] = sched[k]
    BY <1>1 DEF Executes, IInv, TypeOK
  <1>4. /\ AtRest(j)'
        /\ \A k \in Journeys \ {j} : AtRest(k) => AtRest(k)'
    BY <1>1, <1>2, <1>3 DEF AtRest
  <1>5. TypeOK'
    BY <1>1, ScheduleFacts DEF IInv, TypeOK
  <1>6. QueuedInv'
    BY <1>1, <1>2, <1>3, <1>4, ScheduleQueuedInv DEF IInv
  <1>7. NeverLost'
    BY <1>1, <1>3, ScheduleNeverLost DEF IInv
  <1>8. ArmedInv' /\ ThreadInv'
    BY <1>1, <1>2, <1>4 DEF IInv, TypeOK, ArmedInv, ThreadInv, InsideCoro
  <1>9. ExecutedInv'
    BY <1>1, <1>2, <1>3 DEF IInv, ExecutedInv, InsideCoro
  <1>10. PlaceInv'
    BY <1>1, <1>2, <1>3 DEF IInv, PlaceInv
  <1>11. LifeInv'
    BY <1>1, <1>3 DEF IInv, LifeInv
  <1> QED
    BY <1>5, <1>6, <1>7, <1>8, <1>9, <1>10, <1>11 DEF IInv

LEMMA ProceedStep ==
  ASSUME IInv, NEW j \in Journeys, Proceed(j)
  PROVE  IInv'
  <1>1. /\ j \in armed /\ armed' = armed \ {j}
        /\ Schedule(sched[j], "resume", j)
        /\ UNCHANGED <<life, sched, deferHandler, started, running, status,
                       eventsAllowed, at, via, t_journey, t_coro>>
    BY DEF Proceed, journeyVars, coroVars, eventVars, threadVars
  <1>2. /\ AtRest(j) /\ started[j] /\ sched[j] \in Schedulers
        /\ \A r \in Schedulers : \A i \in DOMAIN queue[r] : queue[r][i].of # j
    BY <1>1, CarriedOnce DEF IInv, ArmedInv, LifeInv, AtRest
  <1>3. /\ \A t \in Threads, k \in Journeys : Executes(t, k)' <=> Executes(t, k)
        /\ \A k \in Journeys : AtRest(k)' <=> AtRest(k)
    BY <1>1 DEF Executes, AtRest
  <1>4. TypeOK'
    BY <1>1, <1>2, ScheduleFacts DEF IInv, TypeOK
  <1>5. QueuedInv'
    BY <1>1, <1>2, <1>3, ScheduleQueuedInv DEF IInv
  <1>6. NeverLost'
    BY <1>1, <1>2, <1>3, ScheduleNeverLost DEF IInv
  <1>7. ArmedInv' /\ ThreadInv'
    BY <1>1, <1>3 DEF IInv, TypeOK, ArmedInv, ThreadInv, InsideCoro
  <1>8. ExecutedInv' /\ PlaceInv' /\ LifeInv'
    BY <1>1, <1>3 DEF IInv, ExecutedInv, PlaceInv, LifeInv, InsideCoro
  <1> QED
    BY <1>4, <1>5, <1>6, <1>7, <1>8 DEF IInv

\* onExit0: the thread hands its journey on, or deletes it.
LEMMA OnExitStep ==
  ASSUME IInv, NEW t \in Threads, OnExit(t)
  PROVE  IInv'
  <1> DEFINE j == t_journey[t]
  <1>1. /\ at[t] = "exit" /\ at' = [at EXCEPT ![t] = "leave"]
        /\ UNCHANGED <<sched, started, running, status, eventsAllowed,
                       via, t_journey, t_coro>>
    BY DEF OnExit, coroVars, eventVars
  <1>2. /\ j \in Journeys /\ Executes(t, j)
        /\ life[j] = "alive" /\ ~running[j] /\ sched[j] \in Schedulers
        /\ started[j] <=> deferHandler[j] # "null"
        /\ \A u \in Threads : Executes(u, j) => u = t
        /\ j \notin armed
    BY <1>1 DEF IInv, ThreadInv, ExecutedInv, ArmedInv, LifeInv, AtRest, Executes,
                InsideCoro
  <1>3. \A r \in Schedulers : \A i \in DOMAIN queue[r] : queue[r][i].of # j
    BY <1>2, CarriedOnce
  <1>4. /\ \A u \in Threads, k \in Journeys \ {j} : Executes(u, k)' <=> Executes(u, k)
        /\ \A u \in Threads : ~Executes(u, j)'
    BY <1>1, <1>2 DEF Executes, IInv, TypeOK
  <1>5. /\ at' \in [Threads -> Places]
        /\ \A u \in Threads : u # t => at'[u] = at[u]
        /\ at'[t] = "leave"
    BY <1>1 DEF IInv, TypeOK, Places
  <1>6. ThreadInv'
    BY <1>1, <1>5 DEF IInv, ThreadInv, InsideCoro
  <1>7. CASE /\ deferHandler[j] = "null"
             /\ life' = [life EXCEPT ![j] = "deleted"]
             /\ UNCHANGED <<deferHandler, armed, queue>>
    <2>1. /\ life'[j] = "deleted"
          /\ \A k \in Journeys \ {j} : life'[k] = life[k]
          /\ \A k \in Journeys \ {j} : AtRest(k) => AtRest(k)'
      BY <1>1, <1>2, <1>4, <1>7 DEF IInv, TypeOK, AtRest
    <2>2. TypeOK'
      BY <1>1, <1>5, <1>7 DEF IInv, TypeOK
    <2>3. \A r \in Schedulers : \A i \in DOMAIN queue[r] : queue[r][i].of \in Journeys
      BY HandlerFacts DEF IInv
    <2>4. QueuedInv'
      BY <1>1, <1>3, <1>7, <2>1, <2>3 DEF IInv, QueuedInv, AtRest, Executes
    <2>5. ArmedInv'
      BY <1>1, <1>2, <1>7, <2>1 DEF IInv, TypeOK, ArmedInv
    <2>6. ExecutedInv' /\ PlaceInv'
      BY <1>1, <1>4, <1>5, <1>7, <2>1 DEF IInv, ExecutedInv, PlaceInv, InsideCoro
    <2>7. LifeInv'
      BY <1>1, <1>2, <1>7, <2>1 DEF IInv, LifeInv
    <2>8. NeverLost'
      BY <1>4, <1>7, <2>1 DEF IInv, NeverLost, QueuedAt
    <2> QED
      BY <1>6, <2>2, <2>4, <2>5, <2>6, <2>7, <2>8 DEF IInv
  <1>8. CASE /\ CallDeferred(j)
             /\ deferHandler' = [deferHandler EXCEPT ![j] = "null"]
             /\ UNCHANGED life
    <2>1. /\ deferHandler' \in [Journeys -> DeferHandlers]
          /\ deferHandler'[j] = "null"
          /\ \A k \in Journeys \ {j} : deferHandler'[k] = deferHandler[k]
          /\ started[j]
      BY <1>2, <1>8 DEF IInv, TypeOK, DeferHandlers, CallDeferred
    <2>2. /\ AtRest(j)'
          /\ \A k \in Journeys \ {j} : AtRest(k) => AtRest(k)'
      BY <1>1, <1>2, <1>4, <1>8, <2>1 DEF AtRest
    <2>3. ExecutedInv' /\ PlaceInv' /\ LifeInv'
      BY <1>1, <1>2, <1>4, <1>5, <1>8, <2>1
         DEF IInv, ExecutedInv, PlaceInv, LifeInv, InsideCoro
    <2>4. CASE Schedule(sched[j], "resume", j) /\ UNCHANGED armed
      <3>1. TypeOK'
        BY <1>1, <1>2, <1>5, <1>8, <2>1, <2>4, ScheduleFacts DEF IInv, TypeOK
      <3>2. QueuedInv'
        BY <1>1, <1>2, <1>3, <2>1, <2>2, <2>4, ScheduleQueuedInv DEF IInv
      <3>3. ArmedInv'
        BY <1>1, <1>2, <2>2, <2>4 DEF IInv, TypeOK, ArmedInv
      <3>4. NeverLost'
        BY <1>2, <1>4, <1>8, <2>4, ScheduleNeverLost DEF IInv
      <3> QED
        BY <1>6, <2>3, <3>1, <3>2, <3>3, <3>4 DEF IInv
    <2>5. CASE armed' = armed \cup {j} /\ UNCHANGED queue
      <3>1. TypeOK'
        BY <1>1, <1>2, <1>5, <1>8, <2>1, <2>5 DEF IInv, TypeOK
      <3>2. \A r \in Schedulers : \A i \in DOMAIN queue[r] : queue[r][i].of \in Journeys
        BY HandlerFacts DEF IInv
      <3>3. QueuedInv'
        BY <1>1, <1>3, <2>2, <2>5, <3>2 DEF IInv, QueuedInv, AtRest, Executes
      <3>4. ArmedInv'
        BY <1>1, <2>1, <2>2, <2>5 DEF IInv, TypeOK, ArmedInv
      <3>5. NeverLost'
        BY <1>4, <1>8, <2>5 DEF IInv, NeverLost, QueuedAt
      <3> QED
        BY <1>6, <2>3, <3>1, <3>3, <3>4, <3>5 DEF IInv
    <2> QED
      BY <1>8, <2>4, <2>5 DEF CallDeferred
  <1> QED
    BY <1>7, <1>8 DEF OnExit

LEMMA NextIInv == IInv /\ [Next]_vars => IInv'
  <1> SUFFICES ASSUME IInv, [Next]_vars PROVE IInv'
    OBVIOUS
  <1>1. CASE UNCHANGED vars
    BY <1>1, EventStep DEF vars, eventVars, IInv, TypeOK, LifeInv
  <1>2. ASSUME NEW j \in Journeys, NEW s \in Schedulers, Go(j, s) PROVE IInv'
    BY <1>2, GoStep
  <1>3. ASSUME NEW j \in Journeys, Proceed(j) \/ Cancel(j) \/ Timedout(j) PROVE IInv'
    BY <1>3, ProceedStep, EventActions
  <1>4. ASSUME NEW t \in Threads, NEW s \in Schedulers, Start(t, s) \/ Resume(t, s)
        PROVE  IInv'
    BY <1>4, StartStep, ResumeStep
  <1>5. ASSUME NEW t \in Threads, UserStep(t) PROVE IInv'
    BY <1>5, TeleportStep, DeferProceedStep, EventActions, FinishStep DEF UserStep
  <1>6. ASSUME NEW t \in Threads,
               AfterYield(t) \/ SwitchOut(t) \/ OnExit(t) \/ Leave(t)
        PROVE  IInv'
    BY <1>6, AfterYieldStep, SwitchOutStep, OnExitStep, LeaveStep
  <1> QED
    BY <1>1, <1>2, <1>3, <1>4, <1>5, <1>6 DEF Next

-----------------------------------------------------------------------------

\* IInv holds in every reachable state, for all numbers of journeys, threads,
\* pools and Alones: each journey has exactly one carrier, and it is ready for
\* what the carrier will do with it.
THEOREM InductiveInvariant == Spec => []IInv
  BY InitIInv, NextIInv, PTL DEF Spec

\* Every variable keeps its type.
THEOREM TypeCorrect == Spec => []TypeOK
  <1>1. IInv => TypeOK
    BY DEF IInv
  <1> QED
    BY <1>1, InductiveInvariant, PTL

\* A journey is continued once: one queued handler, or one executing thread, or
\* one asynchronous operation (journey.cpp:54-60, 165-178).
THEOREM ContinuedOnce == Spec => []OneContinuation
  <1>1. ASSUME IInv, NEW j \in Journeys,
               NEW r \in Schedulers, NEW s \in Schedulers,
               NEW i \in DOMAIN queue[r], NEW k \in DOMAIN queue[s],
               QueuedAt(r, i, j), QueuedAt(s, k, j)
        PROVE  r = s /\ i = k
    BY <1>1 DEF IInv, QueuedInv, QueuedAt
  <1>2. IInv => OneContinuation
    BY <1>1 DEF OneContinuation, IInv, QueuedInv, ArmedInv, ExecutedInv, AtRest,
                QueuedAt
  <1> QED
    BY <1>2, InductiveInvariant, PTL

\* No journey that has begun is forgotten before it ends.
THEOREM NothingLost == Spec => []NeverLost
  <1>1. IInv => NeverLost
    BY DEF IInv
  <1> QED
    BY <1>1, InductiveInvariant, PTL

\* The bare this in the queued lambdas always points to a living journey.
THEOREM NothingDangling == Spec => []NoDangling
  <1>1. IInv => NoDangling
    BY DEF IInv, NoDangling, QueuedInv, ArmedInv, ExecutedInv, AtRest
  <1> QED
    BY <1>1, InductiveInvariant, PTL

\* The VERIFYs of Coro::start and Coro::resume never fail.
THEOREM VerifiesHold == Spec => []VerifyHolds
  <1>1. IInv => VerifyHolds
    BY DEF IInv, VerifyHolds, QueuedInv, AtRest
  <1> QED
    BY <1>1, InductiveInvariant, PTL

\* Code behind teleport(s) runs in s, unless an event interrupted the teleport.
THEOREM CodeIsLocated == Spec => []Located
  <1>1. ASSUME IInv, NEW t \in Threads, InCoro(t), t_journey[t] \notin Interruptible
        PROVE  via[t] = sched[t_journey[t]]
    BY <1>1, InCoroFacts DEF IInv, PlaceInv
  <1>2. IInv => Located
    BY <1>1 DEF Located
  <1> QED
    BY <1>2, InductiveInvariant, PTL

\* An Alone is a mutex for the journeys no event interrupts.
THEOREM AloneIsMutex == Spec => []AloneMutex
  <1>1. ASSUME IInv, NEW t \in Threads, InCoro(t), t_journey[t] \notin Interruptible
        PROVE  via[t] = sched[t_journey[t]]
    BY <1>1, InCoroFacts DEF IInv, PlaceInv
  <1>2. IInv => AloneMutex
    BY <1>1 DEF IInv, PlaceInv, AloneMutex, InAlone
  <1> QED
    BY <1>2, InductiveInvariant, PTL

\* Whoever touches a journey in a step finds it alive before the step.
LEMMA NextSparesDeleted ==
  ASSUME IInv, [Next]_vars, NEW j \in Journeys, life[j] = "deleted"
  PROVE  UNCHANGED <<life[j], sched[j], deferHandler[j], eventsAllowed[j],
                     started[j], running[j]>>
  <1>1. /\ j \notin armed
        /\ \A t \in Threads : ~Executes(t, j)
        /\ \A s \in Schedulers : \A i \in DOMAIN queue[s] : queue[s][i].of # j
    BY CarriedOnce DEF IInv, ArmedInv, ExecutedInv, AtRest
  <1>2. CASE UNCHANGED vars
    BY <1>2 DEF vars, journeyVars, coroVars, eventVars
  <1>3. ASSUME NEW k \in Journeys,
               \/ \E s \in Schedulers : Go(k, s)
               \/ Proceed(k) \/ Cancel(k) \/ Timedout(k)
        PROVE  UNCHANGED <<life[j], sched[j], deferHandler[j], eventsAllowed[j],
                           started[j], running[j]>>
    BY <1>3 DEF Go, Proceed, Cancel, Timedout, SetStatus, IInv, TypeOK,
                journeyVars, coroVars, eventVars
  <1>4. ASSUME NEW t \in Threads, NEW s \in Schedulers, Start(t, s) \/ Resume(t, s)
        PROVE  UNCHANGED <<life[j], sched[j], deferHandler[j], eventsAllowed[j],
                           started[j], running[j]>>
    <2>1. Head(queue[s]).of # j
      BY <1>1, <1>4, TakeFacts DEF Start, Resume, CanTake, Enter, IInv
    <2> QED
      BY <1>4, <2>1 DEF Start, Resume, Enter, IInv, TypeOK, journeyVars, eventVars
  <1>5. ASSUME NEW t \in Threads, UserStep(t)
        PROVE  UNCHANGED <<life[j], sched[j], deferHandler[j], eventsAllowed[j],
                           started[j], running[j]>>
    <2>1. t_journey[t] # j
      BY <1>1, <1>5, InCoroFacts DEF UserStep, Teleport, DeferProceed, HandleEvents,
         DisableEvents, EnableEvents, Finish
    <2> QED
      BY <1>5, <2>1 DEF UserStep, Teleport, DeferProceed, Defer, StoreHandler,
         HandleEvents, DisableEvents, EnableEvents, Finish, IInv, TypeOK,
         journeyVars, coroVars, eventVars
  <1>6. ASSUME NEW t \in Threads,
               AfterYield(t) \/ SwitchOut(t) \/ OnExit(t) \/ Leave(t)
        PROVE  UNCHANGED <<life[j], sched[j], deferHandler[j], eventsAllowed[j],
                           started[j], running[j]>>
    <2>1. at[t] \in {"back", "yield", "exit"} => t_journey[t] # j
      BY <1>1 DEF Executes
    <2>2. at[t] = "yield" => t_coro[t] = t_journey[t]
      BY DEF IInv, ThreadInv, InsideCoro
    <2> QED
      BY <1>6, <2>1, <2>2 DEF AfterYield, SwitchOut, OnExit, Leave, IInv, TypeOK,
         journeyVars, coroVars, eventVars
  <1> QED
    BY <1>2, <1>3, <1>4, <1>5, <1>6 DEF Next

\* No thread writes to a member of a deleted journey (journey.cpp:165-178).
THEOREM NothingWrittenAfterDelete == Spec => NoWriteAfterDelete
  <1>1. IInv /\ [Next]_vars =>
          [\A j \in Journeys : life[j] = "deleted" =>
             /\ UNCHANGED <<life[j], sched[j], deferHandler[j], eventsAllowed[j]>>
             /\ UNCHANGED <<started[j], running[j]>>]_vars
    BY NextSparesDeleted
  <1> QED
    BY <1>1, InductiveInvariant, PTL DEF Spec, NoWriteAfterDelete


-----------------------------------------------------------------------------
(* Journey implements Travel. *)

\* Which stage and place each carrier of a journey stands for.
StagesAgree ==
  \A j \in Journeys :
    /\ life[j] = "unborn" => Stage(j) = "unborn" /\ Place(j) = None
    /\ life[j] = "deleted" => Stage(j) = "done" /\ Place(j) = None
    /\ \A t \in Threads : Executes(t, j) => Stage(j) = "active" /\ Place(j) = via[t]
    /\ j \in armed => Stage(j) = "parked" /\ Place(j) = sched[j]
    /\ \A s \in Schedulers : \A i \in DOMAIN queue[s] : queue[s][i].of = j =>
         Stage(j) = "ready" /\ Place(j) = s

LEMMA StageFacts == IInv => StagesAgree
  <1> SUFFICES ASSUME IInv, NEW j \in Journeys
               PROVE  /\ life[j] = "unborn" => Stage(j) = "unborn" /\ Place(j) = None
                      /\ life[j] = "deleted" => Stage(j) = "done" /\ Place(j) = None
                      /\ \A t \in Threads : Executes(t, j) =>
                           Stage(j) = "active" /\ Place(j) = via[t]
                      /\ j \in armed => Stage(j) = "parked" /\ Place(j) = sched[j]
                      /\ \A s \in Schedulers : \A i \in DOMAIN queue[s] :
                           queue[s][i].of = j => Stage(j) = "ready" /\ Place(j) = s
    BY DEF StagesAgree
  <1>1. life[j] = "unborn" => Stage(j) = "unborn" /\ Place(j) = None
    BY DEF Stage, Place
  <1>2. life[j] = "deleted" => Stage(j) = "done" /\ Place(j) = None
    BY DEF Stage, Place
  <1>3. ASSUME NEW t \in Threads, Executes(t, j)
        PROVE  Stage(j) = "active" /\ Place(j) = via[t]
    <2>1. life[j] = "alive" /\ \A u \in Threads : Executes(u, j) => u = t
      BY <1>3 DEF IInv, ExecutedInv
    <2>2. Stage(j) = "active"
      BY <1>3, <2>1 DEF Stage
    <2>3. (CHOOSE u \in Threads : Executes(u, j)) = t
      BY <1>3, <2>1
    <2> QED
      BY <2>2, <2>3 DEF Place
  <1>4. ASSUME j \in armed PROVE Stage(j) = "parked" /\ Place(j) = sched[j]
    <2>1. AtRest(j)
      BY <1>4 DEF IInv, ArmedInv
    <2>2. Stage(j) = "parked"
      BY <1>4, <2>1 DEF Stage, AtRest
    <2> QED
      BY <2>2 DEF Place
  <1>5. ASSUME NEW s \in Schedulers, NEW i \in DOMAIN queue[s], queue[s][i].of = j
        PROVE  Stage(j) = "ready" /\ Place(j) = s
    <2>1. AtRest(j) /\ sched[j] = s /\ j \notin armed
      BY <1>5 DEF IInv, QueuedInv
    <2>2. Stage(j) = "ready"
      BY <2>1 DEF Stage, AtRest
    <2> QED
      BY <2>1, <2>2 DEF Place
  <1> QED
    BY <1>1, <1>2, <1>3, <1>4, <1>5

\* A step in which journey j stays with its carrier.
Still(j) ==
  /\ life'[j] = life[j]
  /\ j \in armed' <=> j \in armed
  /\ \A t \in Threads : Executes(t, j)' <=> Executes(t, j)
  /\ \A t \in Threads : Executes(t, j) => via'[t] = via[t]
  /\ sched'[j] = sched[j] \/ \E t \in Threads : Executes(t, j)

LEMMA StillStays ==
  ASSUME IInv, IInv', NEW j \in Journeys, Still(j)
  PROVE  Stage(j)' = Stage(j) /\ Place(j)' = Place(j)
  <1>1. CASE \E t \in Threads : Executes(t, j)
    <2>1. PICK t \in Threads : Executes(t, j)
      BY <1>1
    <2>2. Executes(t, j)' /\ via'[t] = via[t]
      BY <2>1 DEF Still
    <2>3. Stage(j) = "active" /\ Place(j) = via[t]
      BY <2>1, StageFacts DEF StagesAgree
    <2>4. StagesAgree'
      BY StageFacts, PTL
    <2>5. Stage(j)' = "active" /\ Place(j)' = via'[t]
      BY <2>2, <2>4 DEF StagesAgree
    <2> QED
      BY <2>2, <2>3, <2>5
  <1>2. CASE \A t \in Threads : ~Executes(t, j)
    <2>1. \A t \in Threads : ~Executes(t, j)'
      BY <1>2 DEF Still
    <2>2. Stage(j)' = Stage(j) /\ Stage(j) # "active"
      BY <1>2, <2>1 DEF Still, Stage
    <2>3. sched'[j] = sched[j]
      BY <1>2 DEF Still
    <2> QED
      BY <2>2, <2>3 DEF Place
  <1> QED
    BY <1>1, <1>2

\* A step that moves no journey is no step of Travel.
LEMMA NobodyMoves ==
  ASSUME IInv, IInv', \A j \in Journeys : Still(j)
  PROVE  UNCHANGED Abstract!travelVars
  <1>1. \A j \in Journeys : Stage(j)' = Stage(j) /\ Place(j)' = Place(j)
    BY StillStays
  <1> QED
    BY <1>1 DEF Abstract!travelVars

\* A step that moves journey j only.
LEMMA OneMoves ==
  ASSUME IInv, IInv', NEW j \in Journeys, NEW from, NEW to, NEW p,
         \A k \in Journeys \ {j} : Still(k),
         Stage(j) = from, Stage(j)' = to, Place(j)' = p
  PROVE  /\ Abstract!Stage(j, from, to)
         /\ Abstract!Put(j, p)
         /\ Place(j) = p => UNCHANGED [k \in Journeys |-> Place(k)]
  <1>1. \A k \in Journeys \ {j} : Stage(k)' = Stage(k) /\ Place(k)' = Place(k)
    BY StillStays
  <1>2. Abstract!Stage(j, from, to)
    BY <1>1 DEF Abstract!Stage
  <1>3. Abstract!Put(j, p)
    BY <1>1 DEF Abstract!Put
  <1>4. Place(j) = p => UNCHANGED [k \in Journeys |-> Place(k)]
    BY <1>1
  <1> QED
    BY <1>2, <1>3, <1>4

\* Steps that change no journey's carrier.
LEMMA QuietSteps ==
  ASSUME IInv, IInv',
         \/ UNCHANGED vars
         \/ \E j \in Journeys : Cancel(j) \/ Timedout(j)
         \/ \E t \in Threads : UserStep(t) \/ AfterYield(t) \/ SwitchOut(t) \/ Leave(t)
  PROVE  UNCHANGED Abstract!travelVars
  <1> SUFFICES ASSUME NEW j \in Journeys PROVE Still(j)
    BY NobodyMoves
  <1> USE DEF journeyVars, coroVars, eventVars, threadVars, Still, Executes
  <1>1. CASE UNCHANGED vars
    BY <1>1 DEF vars
  <1>2. ASSUME NEW k \in Journeys, Cancel(k) \/ Timedout(k) PROVE Still(j)
    BY <1>2 DEF Cancel, Timedout, SetStatus
  <1>3. ASSUME NEW t \in Threads, UserStep(t) PROVE Still(j)
    <2>1. CASE HandleEvents(t) \/ DisableEvents(t) \/ EnableEvents(t)
      BY <2>1 DEF HandleEvents, DisableEvents, EnableEvents
    <2>2. CASE Finish(t)
      BY <2>2 DEF Finish, InCoro, IInv, TypeOK
    <2>3. CASE DeferProceed(t)
      BY <2>3 DEF DeferProceed, Defer, StoreHandler, InCoro, IInv, TypeOK
    <2>4. ASSUME NEW s \in Schedulers, Teleport(t, s) PROVE Still(j)
      <3>1. sched'[j] = sched[j] \/ Executes(t, j)
        BY <2>4 DEF Teleport, InCoro, IInv, TypeOK
      <3>2. \A u \in Threads : Executes(u, j)' <=> Executes(u, j)
        BY <2>4 DEF Teleport, Defer, StoreHandler, InCoro, IInv, TypeOK
      <3> QED
        BY <2>4, <3>1, <3>2 DEF Teleport, Defer, StoreHandler
    <2> QED
      BY <1>3, <2>1, <2>2, <2>3, <2>4 DEF UserStep
  <1>4. ASSUME NEW t \in Threads, AfterYield(t) \/ SwitchOut(t) PROVE Still(j)
    BY <1>4 DEF AfterYield, SwitchOut, IInv, TypeOK
  <1>5. ASSUME NEW t \in Threads, Leave(t) PROVE Still(j)
    BY <1>5 DEF Leave, IInv, TypeOK
  <1> QED
    BY <1>1, <1>2, <1>3, <1>4, <1>5

LEMMA GoBegins ==
  ASSUME IInv, IInv', NEW j \in Journeys, NEW s \in Schedulers, Go(j, s)
  PROVE  Abstract!Begin(j, s)
  <1>1. /\ life[j] = "unborn" /\ Schedule(s, "start", j)
        /\ life' = [life EXCEPT ![j] = "alive"]
        /\ sched' = [sched EXCEPT ![j] = s]
        /\ UNCHANGED <<armed, at, via, t_journey>>
    BY DEF Go, threadVars
  <1>2. \A k \in Journeys \ {j} : Still(k)
    BY <1>1 DEF Still, Executes, IInv, TypeOK
  <1>3. Stage(j) = "unborn" /\ Place(j) = None
    BY <1>1, StageFacts DEF StagesAgree
  <1>4. \E i \in DOMAIN queue'[s] : queue'[s][i].of = j
    BY <1>1, ScheduleFacts DEF IInv
  <1>5. StagesAgree'
    BY StageFacts, PTL
  <1>6. Stage(j)' = "ready" /\ Place(j)' = s
    BY <1>4, <1>5 DEF StagesAgree
  <1> QED
    BY <1>2, <1>3, <1>6, OneMoves DEF Abstract!Begin

LEMMA ProceedWakes ==
  ASSUME IInv, IInv', NEW j \in Journeys, Proceed(j)
  PROVE  Abstract!Wake(j)
  <1>1. /\ j \in armed /\ armed' = armed \ {j}
        /\ Schedule(sched[j], "resume", j)
        /\ UNCHANGED <<life, sched, at, via, t_journey>>
    BY DEF Proceed, journeyVars, threadVars
  <1>2. \A k \in Journeys \ {j} : Still(k)
    BY <1>1 DEF Still, Executes
  <1>3. Stage(j) = "parked" /\ Place(j) = sched[j]
    BY <1>1, StageFacts DEF StagesAgree
  <1>4. sched[j] \in Schedulers
    BY <1>1 DEF IInv, ArmedInv, LifeInv, AtRest
  <1>5. \E i \in DOMAIN queue'[sched[j]] : queue'[sched[j]][i].of = j
    BY <1>1, <1>4, ScheduleFacts DEF IInv
  <1>6. StagesAgree'
    BY StageFacts, PTL
  <1>7. Stage(j)' = "ready" /\ Place(j)' = sched[j]
    BY <1>4, <1>5, <1>6 DEF StagesAgree
  <1> QED
    BY <1>2, <1>3, <1>7, OneMoves DEF Abstract!Wake

\* The strand of an Alone admits no thread while another executes a handler of it.
LEMMA TakingActivates ==
  ASSUME IInv, IInv', NEW t \in Threads, NEW s \in Schedulers,
         NEW act, CanTake(t, s, act),
         NEW j, j = Head(queue[s]).of,
         NEW place \in {"coro", "back"}, Enter(t, s, j, place)
  PROVE  j \in Journeys /\ Abstract!Activate(j)
  <1>1. /\ at[t] = "run" /\ queue[s] # <<>>
        /\ s \in Alones => \A u \in Threads : via[u] # s
        /\ queue' = [queue EXCEPT ![s] = Tail(@)]
        /\ via' = [via EXCEPT ![t] = s]
        /\ t_journey' = [t_journey EXCEPT ![t] = j]
        /\ at' = [at EXCEPT ![t] = place]
        /\ UNCHANGED <<life, sched, armed>>
    BY DEF CanTake, Enter, journeyVars
  <1>2. 1 \in DOMAIN queue[s] /\ queue[s][1].of = j /\ j \in Journeys
    <2>1. 1 \in DOMAIN queue[s] /\ Head(queue[s]) = queue[s][1]
      BY <1>1, TakeFacts DEF IInv
    <2> QED
      BY <2>1, HandlerFacts DEF IInv
  <1>3. \A k \in Journeys \ {j} : Still(k)
    BY <1>1 DEF Still, Executes, IInv, TypeOK
  <1>4. Stage(j) = "ready" /\ Place(j) = s
    BY <1>2, StageFacts DEF StagesAgree
  <1>5. Executes(t, j)' /\ via'[t] = s
    BY <1>1 DEF Executes, IInv, TypeOK
  <1>6. StagesAgree'
    BY StageFacts, PTL
  <1>7. Stage(j)' = "active" /\ Place(j)' = s
    BY <1>2, <1>5, <1>6 DEF StagesAgree
  <1>8. ASSUME s \in Alones, NEW k \in Journeys, Stage(k) = "active"
        PROVE  Place(k) # s
    <2>1. PICK u \in Threads : Executes(u, k)
      BY <1>8 DEF Stage
    <2>2. Place(k) = via[u]
      BY <2>1, StageFacts DEF StagesAgree
    <2> QED
      BY <1>1, <1>8, <2>2
  <1>9. /\ Abstract!Stage(j, "ready", "active")
        /\ UNCHANGED [k \in Journeys |-> Place(k)]
    BY <1>2, <1>3, <1>4, <1>7, OneMoves
  <1> QED
    BY <1>2, <1>4, <1>8, <1>9 DEF Abstract!Activate

\* onExit0 ends the journey, or moves it, or parks it, as its deferred handler
\* says.
LEMMA ExitMoves ==
  ASSUME IInv, IInv', NEW t \in Threads, OnExit(t)
  PROVE  \E j \in Journeys :
           \/ Abstract!End(j)
           \/ \E s \in Schedulers : Abstract!Move(j, s) \/ Abstract!Park(j, s)
  <1>1. PICK j \in Journeys : j = t_journey[t]
    BY DEF OnExit, IInv, ThreadInv, InsideCoro
  <1>2. /\ at[t] = "exit" /\ at' = [at EXCEPT ![t] = "leave"]
        /\ UNCHANGED <<sched, via, t_journey>>
    BY DEF OnExit
  <1>3. /\ Executes(t, j)
        /\ life[j] = "alive" /\ sched[j] \in Schedulers
        /\ \A u \in Threads : Executes(u, j) => u = t
        /\ j \notin Interruptible => (via[t] = sched[j] <=> deferHandler[j] # "proceed")
    BY <1>1, <1>2 DEF IInv, ExecutedInv, LifeInv, PlaceInv, Executes
  <1>4. Stage(j) = "active" /\ Place(j) = via[t]
    BY <1>3, StageFacts DEF StagesAgree
  <1>5. \A k \in Journeys \ {j} : \A u \in Threads : Executes(u, k)' <=> Executes(u, k)
    BY <1>1, <1>2 DEF Executes, IInv, TypeOK
  <1>6. StagesAgree'
    BY StageFacts, PTL
  <1>7. CASE /\ life' = [life EXCEPT ![j] = "deleted"]
             /\ UNCHANGED <<armed, queue>>
    <2>1. life'[j] = "deleted" /\ \A k \in Journeys \ {j} : Still(k)
      BY <1>2, <1>5, <1>7 DEF Still, IInv, TypeOK
    <2>2. Stage(j)' = "done" /\ Place(j)' = None
      BY <1>6, <2>1 DEF StagesAgree
    <2> QED
      BY <1>4, <2>1, <2>2, OneMoves DEF Abstract!End
  <1>8. CASE /\ deferHandler[j] = "proceed" /\ UNCHANGED life
             /\ Schedule(sched[j], "resume", j) /\ UNCHANGED armed
    <2>1. \A k \in Journeys \ {j} : Still(k)
      BY <1>2, <1>5, <1>8 DEF Still
    <2>2. \E i \in DOMAIN queue'[sched[j]] : queue'[sched[j]][i].of = j
      BY <1>3, <1>8, ScheduleFacts DEF IInv
    <2>3. Stage(j)' = "ready" /\ Place(j)' = sched[j]
      BY <1>3, <1>6, <2>2 DEF StagesAgree
    <2>4. sched[j] # Place(j) \/ j \in Interruptible
      BY <1>3, <1>4, <1>8
    <2> QED
      BY <1>3, <1>4, <2>1, <2>3, <2>4, OneMoves DEF Abstract!Move
  <1>9. CASE /\ deferHandler[j] = "handoff" /\ UNCHANGED life
             /\ armed' = armed \cup {j} /\ UNCHANGED queue
    <2>1. \A k \in Journeys \ {j} : Still(k)
      BY <1>2, <1>5, <1>9 DEF Still
    <2>2. Stage(j)' = "parked" /\ Place(j)' = sched[j]
      BY <1>2, <1>6, <1>9 DEF StagesAgree
    <2>3. sched[j] = Place(j) \/ j \in Interruptible
      BY <1>3, <1>4, <1>9
    <2> QED
      BY <1>3, <1>4, <2>1, <2>2, <2>3, OneMoves DEF Abstract!Park
  <1> QED
    BY <1>1, <1>7, <1>8, <1>9 DEF OnExit, CallDeferred

LEMMA StepImplementsTravel ==
  ASSUME IInv, IInv', [Next]_vars
  PROVE  [Abstract!TravelNext]_(Abstract!travelVars)
  <1>1. ASSUME NEW j \in Journeys, NEW s \in Schedulers, Go(j, s)
        PROVE  Abstract!TravelNext
    BY <1>1, GoBegins DEF Abstract!TravelNext, Schedulers
  <1>2. ASSUME NEW j \in Journeys, Proceed(j) PROVE Abstract!TravelNext
    BY <1>2, ProceedWakes DEF Abstract!TravelNext
  <1>3. ASSUME NEW t \in Threads, NEW s \in Schedulers, Start(t, s) \/ Resume(t, s)
        PROVE  Abstract!TravelNext
    BY <1>3, TakingActivates DEF Start, Resume, Abstract!TravelNext
  <1>4. ASSUME NEW t \in Threads, OnExit(t) PROVE Abstract!TravelNext
    BY <1>4, ExitMoves DEF Abstract!TravelNext, Schedulers
  <1> QED
    BY <1>1, <1>2, <1>3, <1>4, QuietSteps DEF Next

\* Journeys, threads, queues and coroutines implement the sequential traveller:
\* whatever the threads interleave, a journey is in one place, moves only where
\* its own code says so, and has an Alone for itself.
THEOREM JourneyImplementsTravel == Spec => ImplementsTravel
  <1>1. Init => Abstract!TravelInit
    BY DEF Init, Abstract!TravelInit, Stage, Place
  <1>2. IInv /\ IInv' /\ [Next]_vars => [Abstract!TravelNext]_(Abstract!travelVars)
    BY StepImplementsTravel
  <1> QED
    BY <1>1, <1>2, InductiveInvariant, PTL
       DEF Spec, ImplementsTravel, Abstract!TravelSpec

=============================================================================
