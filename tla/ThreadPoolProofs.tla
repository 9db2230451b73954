-------------------------- MODULE ThreadPoolProofs --------------------------
(***************************************************************************)
(* What ThreadPool promises, for every number of workers, clients,         *)
(* handlers and calls of wait(): it neither spins nor stands still, its    *)
(* first wait() means that the work is done, and its destructor leaves no  *)
(* handler behind.                                                         *)
(***************************************************************************)
EXTENDS ThreadPool, TLAPS

\* Two workers do not execute the same handler.
OneExecutor == \A v, w \in Workers : job[v] = job[w] /\ job[v] # None => v = w

\* The destructor is called when no client is in wait(); from then on nobody
\* makes a work object.
Stopping ==
  /\ \A c \in Clients : client[c] \in {"joining", "gone"} => toStop
  /\ toStop =>
       /\ ~work /\ MutexFree
       /\ \A c \in Clients : client[c] \notin {"waiting", "woken"}
  /\ Gone => \A w \in Workers : worker[w] \in {"ended", "died"}

\* The service of a pool that stops is stopped only without handlers.
StoppedDry == toStop /\ stopped => Unfinished = {}

\* As long as the service runs there is somebody to execute its handlers: the
\* workers that are late out of run() are not all of them.
SomebodyRuns ==
  ~stopped => \E w \in Workers : worker[w] \in {"run", "renewed", "died"}

\* Nobody has come out of run() yet.
AllInside == ~stopped /\ \A w \in Workers : worker[w] \in {"run", "died"}

\* Up to the first wait() nothing has happened to the pool; and until that one's
\* handlers are done the service is not stopped, and nobody makes a work object.
FirstWait ==
  /\ \A c \in Clients : \A h \in awaited[c] : handler[h] # "new"
  /\ ~toStop /\ waits = 0 =>
       work /\ AllInside /\ \A c \in Clients : client[c] = "idle"
  /\ ~toStop /\ waits = 1 =>
       \A c \in Clients : client[c] \in {"waiting", "woken"} =>
         AwaitedDone(c) \/ (~work /\ AllInside)

IInv ==
  /\ TypeOK /\ OneExecutor
  /\ NeverSpins /\ StartedAgain
  /\ Stopping /\ StoppedDry
  /\ FirstWait

-----------------------------------------------------------------------------
(* The invariant, and one lemma for each action that changes the service. *)

LEMMA InitIInv == Init => IInv
<1> SUFFICES ASSUME Init PROVE IInv
  OBVIOUS
<1> USE DEF Init
<1>1. TypeOK /\ OneExecutor
  <2>1. waits \in 0 .. MaxWaits
    BY ThreadPoolAssumption
  <2> QED BY <2>1 DEF TypeOK, OneExecutor, WorkerPlaces, ClientPlaces
<1>2. NeverSpins /\ StartedAgain /\ Stopping /\ StoppedDry
  BY DEF NeverSpins, StartedAgain, Stopping, StoppedDry, Gone
<1>3. FirstWait
  BY DEF FirstWait, AllInside
<1> QED BY <1>1, <1>2, <1>3 DEF IInv

\* What is scheduled late, by a handler that is executed, finds a service that runs.
LEMMA ScheduleKeeps ==
  ASSUME IInv, NEW h \in Handlers, Schedule(h)
  PROVE  IInv'
<1> USE DEF IInv, Schedule, poolVars, workerVars, clientVars
<1>1. TypeOK'
  BY ThreadPoolAssumption DEF TypeOK
<1>2. OneExecutor' /\ NeverSpins' /\ StartedAgain' /\ Stopping'
  BY DEF OneExecutor, NeverSpins, StartedAgain, Stopping, MutexFree, Gone
<1>3. StoppedDry'
  <2> SUFFICES ASSUME toStop, stopped PROVE FALSE
    BY DEF StoppedDry
  <2>1. PICK w \in Workers : job[w] # None
    OBVIOUS
  <2>2. job[w] \in Unfinished
    BY <2>1 DEF TypeOK, Unfinished
  <2> QED BY <2>2 DEF StoppedDry
<1>4. FirstWait'
  BY DEF FirstWait, AllInside, AwaitedDone, TypeOK
<1> QED BY <1>1, <1>2, <1>3, <1>4

LEMMA TakeKeeps ==
  ASSUME IInv, NEW w \in Workers, NEW h \in Handlers, Take(w, h)
  PROVE  IInv'
<1> USE DEF IInv, Take, poolVars, clientVars
<1>1. TypeOK'
  BY ThreadPoolAssumption DEF TypeOK
<1>2. OneExecutor'
  BY DEF OneExecutor, TypeOK
<1>3. NeverSpins' /\ StartedAgain' /\ Stopping'
  BY DEF NeverSpins, StartedAgain, Stopping, MutexFree, Gone
<1>4. StoppedDry'
  BY DEF StoppedDry
<1>5. FirstWait'
  BY DEF FirstWait, AllInside, AwaitedDone, TypeOK
<1> QED BY <1>1, <1>2, <1>3, <1>4, <1>5

\* The last handler stops the service: then those the first wait() waits for are
\* done, and a pool that stops has none.
LEMMA CompleteKeeps ==
  ASSUME IInv, NEW w \in Workers, Complete(w)
  PROVE  IInv'
<1> USE DEF IInv, Complete, Go, clientVars
<1> DEFINE h == job[w]
<1>1. h \in Handlers /\ handler[h] = "executing" /\ worker[w] = "run"
  BY DEF TypeOK
<1>2. \A v \in Workers : worker'[v] = worker[v] \/ (worker[v] = "run" /\ worker'[v] = "died")
  <2>1. worker' = worker \/ worker' = [worker EXCEPT ![w] = "died"]
    OBVIOUS
  <2> QED BY <2>1, <1>1 DEF TypeOK
<1>3. TypeOK'
  BY <1>1 DEF TypeOK, OneExecutor, WorkerPlaces
<1>4. OneExecutor'
  BY DEF OneExecutor, TypeOK
<1>5. NeverSpins' /\ StartedAgain'
  BY <1>2 DEF NeverSpins, StartedAgain, MutexFree
<1>6. Stopping'
  BY <1>2 DEF Stopping, MutexFree, Gone
<1>7. Unfinished' = Unfinished \ {h}
  BY <1>1 DEF Unfinished, TypeOK
<1>8. StoppedDry'
  BY <1>7 DEF StoppedDry
<1>9. \A g \in Handlers : handler[g] = "done" => handler'[g] = "done"
  BY <1>1 DEF TypeOK
<1>10. \A c \in Clients : \A g \in awaited'[c] : handler'[g] # "new"
  BY <1>1 DEF FirstWait, TypeOK
<1>11. AllInside /\ ~stopped' => AllInside'
  BY <1>2 DEF AllInside
<1>12. FirstWait'
  <2>1. ~toStop /\ waits = 0 => work /\ AllInside' /\ \A c \in Clients : client[c] = "idle"
    BY <1>11 DEF FirstWait, AllInside
  <2>2. ASSUME ~toStop, waits = 1, NEW c \in Clients, client[c] \in {"waiting", "woken"}
        PROVE  AwaitedDone(c)' \/ (~work /\ AllInside')
    <3>1. CASE AwaitedDone(c)
      BY <3>1, <1>9 DEF AwaitedDone, TypeOK
    <3>2. CASE ~work /\ AllInside /\ ~stopped'
      BY <3>2, <1>11
    <3>3. CASE ~work /\ AllInside /\ stopped'
      <4>1. Unfinished' = {}
        BY <3>3, <1>7 DEF AllInside
      <4> QED
        BY <4>1, <1>3, <1>10 DEF AwaitedDone, Unfinished, TypeOK
    <3> QED BY <2>2, <3>1, <3>2, <3>3 DEF FirstWait
  <2> QED BY <1>10, <2>1, <2>2 DEF FirstWait
<1> QED BY <1>3, <1>4, <1>5, <1>6, <1>8, <1>12

LEMMA RunReturnsKeeps ==
  ASSUME IInv, NEW w \in Workers, RunReturns(w)
  PROVE  IInv'
<1> USE DEF IInv, RunReturns, Go, poolVars, clientVars
<1>1. TypeOK' /\ OneExecutor'
  BY DEF TypeOK, OneExecutor, WorkerPlaces
<1>2. NeverSpins' /\ StartedAgain'
  BY DEF NeverSpins, StartedAgain, MutexFree, TypeOK
<1>3. Stopping' /\ StoppedDry'
  BY DEF Stopping, StoppedDry, MutexFree, Gone, Unfinished, TypeOK
<1>4. FirstWait'
  BY DEF FirstWait, AllInside, AwaitedDone, TypeOK
<1> QED BY <1>1, <1>2, <1>3, <1>4

\* A worker that makes a work object does so for clients that wait, not in a pool
\* that stops, and not before the first wait() is over.
LEMMA DecideKeeps ==
  ASSUME IInv, NEW w \in Workers, Decide(w)
  PROVE  IInv'
<1> USE DEF IInv, Decide, Go, clientVars
<1>1. TypeOK' /\ OneExecutor'
  BY DEF TypeOK, OneExecutor, WorkerPlaces
<1>2. NeverSpins' /\ StartedAgain'
  BY DEF NeverSpins, StartedAgain, MutexFree, TypeOK
<1>3. Stopping' /\ StoppedDry'
  BY DEF Stopping, StoppedDry, MutexFree, Gone, Unfinished, TypeOK
<1>4. FirstWait'
  BY DEF FirstWait, AllInside, AwaitedDone, TypeOK
<1> QED BY <1>1, <1>2, <1>3, <1>4

LEMMA RenewKeeps ==
  ASSUME IInv, NEW w \in Workers, Renew(w)
  PROVE  IInv'
<1> USE DEF IInv, Renew, Go, clientVars
<1>1. TypeOK' /\ OneExecutor'
  BY DEF TypeOK, OneExecutor, WorkerPlaces
<1>2. NeverSpins' /\ StartedAgain'
  BY DEF NeverSpins, StartedAgain
<1>3. Stopping' /\ StoppedDry'
  BY DEF Stopping, StoppedDry, MutexFree, Gone, TypeOK
<1>4. FirstWait'
  BY DEF FirstWait, AllInside, AwaitedDone, TypeOK
<1> QED BY <1>1, <1>2, <1>3, <1>4

LEMMA NotifyKeeps ==
  ASSUME IInv, NEW w \in Workers, Notify(w)
  PROVE  IInv'
<1> USE DEF IInv, Notify, Go, poolVars
<1>1. TypeOK' /\ OneExecutor'
  BY DEF TypeOK, OneExecutor, WorkerPlaces, ClientPlaces
<1>2. NeverSpins' /\ StartedAgain'
  BY DEF NeverSpins, StartedAgain, MutexFree, TypeOK
<1>3. Stopping' /\ StoppedDry'
  BY DEF Stopping, StoppedDry, MutexFree, Gone, Unfinished, TypeOK
<1>4. FirstWait'
  BY DEF FirstWait, AllInside, AwaitedDone, TypeOK
<1> QED BY <1>1, <1>2, <1>3, <1>4

-----------------------------------------------------------------------------
(* The clients. *)

LEMMA WaitKeeps ==
  ASSUME IInv, NEW c \in Clients, Wait(c)
  PROVE  IInv'
<1> USE DEF IInv, Wait, DropWork, workerVars
<1>1. Unfinished \subseteq Handlers
  BY DEF Unfinished
<1>2. TypeOK' /\ OneExecutor'
  <2>1. waits' \in 0 .. MaxWaits
    BY ThreadPoolAssumption DEF TypeOK
  <2>2. client' \in [Clients -> ClientPlaces] /\ awaited' \in [Clients -> SUBSET Handlers]
    BY <1>1 DEF TypeOK, ClientPlaces
  <2> QED BY <2>1, <2>2 DEF TypeOK, OneExecutor
<1>3. NeverSpins' /\ StartedAgain' /\ Stopping' /\ StoppedDry'
  BY DEF NeverSpins, StartedAgain, Stopping, StoppedDry, MutexFree, Gone, TypeOK
<1>4. \A d \in Clients : \A h \in awaited'[d] : handler'[h] # "new"
  BY DEF FirstWait, Unfinished, TypeOK
<1>5. waits' # 0 /\ (waits' = 1 => waits = 0)
  BY ThreadPoolAssumption DEF TypeOK
<1>6. ASSUME waits' = 1, NEW d \in Clients, client'[d] \in {"waiting", "woken"}
      PROVE  AwaitedDone(d)' \/ (~work' /\ AllInside')
  <2>1. d = c /\ awaited'[d] = Unfinished
    BY <1>5, <1>6 DEF FirstWait, TypeOK
  <2>2. AllInside
    BY <1>5, <1>6 DEF FirstWait
  <2> QED BY <2>1, <2>2 DEF AwaitedDone, AllInside
<1>7. FirstWait'
  BY <1>4, <1>5, <1>6 DEF FirstWait
<1> QED BY <1>2, <1>3, <1>7

LEMMA WakeKeeps ==
  ASSUME IInv, NEW c \in Clients, WakeSpuriously(c) \/ Recheck(c)
  PROVE  IInv'
<1> USE DEF IInv, WakeSpuriously, Recheck, poolVars, workerVars
<1>1. TypeOK' /\ OneExecutor'
  BY DEF TypeOK, OneExecutor, ClientPlaces
<1>2. NeverSpins' /\ StartedAgain' /\ Stopping' /\ StoppedDry'
  BY DEF NeverSpins, StartedAgain, Stopping, StoppedDry, MutexFree, Gone, Unfinished, TypeOK
<1>3. FirstWait'
  BY DEF FirstWait, AllInside, AwaitedDone, TypeOK
<1> QED BY <1>1, <1>2, <1>3

\* The service of a pool nobody waits for is not stopped: the destructor stops it
\* only when it has no handlers.
LEMMA DestroyKeeps ==
  ASSUME IInv, NEW c \in Clients, Destroy(c)
  PROVE  IInv'
<1> USE DEF IInv, Destroy, DropWork, workerVars
<1>1. TypeOK' /\ OneExecutor'
  BY DEF TypeOK, OneExecutor, ClientPlaces
<1>2. NeverSpins' /\ StartedAgain'
  BY DEF NeverSpins, StartedAgain
<1>3. Stopping'
  BY DEF Stopping, MutexFree, Gone, TypeOK
<1>4. StoppedDry'
  BY DEF StoppedDry, NeverSpins, StartedAgain, Unfinished
<1>5. FirstWait'
  BY DEF FirstWait
<1> QED BY <1>1, <1>2, <1>3, <1>4, <1>5

LEMMA JoinKeeps ==
  ASSUME IInv, NEW c \in Clients, Join(c)
  PROVE  IInv'
<1> USE DEF IInv, Join, poolVars, workerVars
<1>1. TypeOK' /\ OneExecutor'
  BY DEF TypeOK, OneExecutor, ClientPlaces
<1>2. NeverSpins' /\ StartedAgain' /\ Stopping' /\ StoppedDry'
  BY DEF NeverSpins, StartedAgain, Stopping, StoppedDry, MutexFree, Gone, Unfinished, TypeOK
<1>3. FirstWait'
  BY DEF FirstWait, Stopping
<1> QED BY <1>1, <1>2, <1>3

LEMMA NextIInv == IInv /\ [Next]_vars => IInv'
<1> SUFFICES ASSUME IInv, [Next]_vars PROVE IInv'
  OBVIOUS
<1>1. CASE \E h \in Handlers : Schedule(h)
  BY <1>1, ScheduleKeeps
<1>2. CASE \E w \in Workers : WorkerStep(w)
  BY <1>2, TakeKeeps, CompleteKeeps, RunReturnsKeeps, DecideKeeps, RenewKeeps,
     NotifyKeeps DEF WorkerStep
<1>3. CASE \E c \in Clients :
             Wait(c) \/ WakeSpuriously(c) \/ Recheck(c) \/ Destroy(c) \/ Join(c)
  BY <1>3, WaitKeeps, WakeKeeps, DestroyKeeps, JoinKeeps
<1>4. CASE UNCHANGED vars
  <2> USE <1>4 DEF vars, poolVars, workerVars, clientVars
  <2>1. TypeOK' /\ OneExecutor' /\ NeverSpins' /\ StartedAgain'
    BY DEF IInv, TypeOK, OneExecutor, NeverSpins, StartedAgain, MutexFree
  <2>2. Stopping' /\ StoppedDry' /\ FirstWait'
    BY DEF IInv, Stopping, StoppedDry, FirstWait, MutexFree, Gone, Unfinished,
           AllInside, AwaitedDone
  <2> QED BY <2>1, <2>2 DEF IInv
<1> QED BY <1>1, <1>2, <1>3, <1>4 DEF Next

\* The invariant holds at every moment, for every number of everything.
THEOREM InductiveInvariant == Spec => []IInv
<1> QED BY InitIInv, NextIInv, PTL DEF Spec

-----------------------------------------------------------------------------
(* What follows. *)

\* A pool with a work object executes its handlers, and one without is on its way
\* to get one: workers neither spin around a stopped service nor stand still behind
\* it (mt.cpp:63-76).
THEOREM PoolKeepsRunning == Spec => []PoolInv
<1>1. IInv => PoolInv
  BY DEF IInv, PoolInv
<1> QED BY <1>1, InductiveInvariant, PTL

\* A wait() that returns has found a work object; during the first one it was made
\* by a worker that came out of a service without handlers.
LEMMA FirstReturnsDone ==
  ASSUME IInv, [Next]_vars, NEW c \in Clients, Returns(c), waits = 1
  PROVE  AwaitedDone(c)
<1>1. client[c] = "woken" /\ client'[c] = "idle"
  BY DEF Returns
<1>2. work /\ ~toStop
  <2>1. ~toStop
    BY <1>1 DEF IInv, Stopping
  <2>2. Recheck(c)
    <3>1. client' # client
      BY <1>1
    <3>2. ASSUME NEW w \in Workers, WorkerStep(w) PROVE FALSE
      BY <3>2, <1>1, <3>1 DEF WorkerStep, Take, Complete, RunReturns, Decide, Renew,
         Notify, clientVars
    <3>3. PICK d \in Clients :
            Wait(d) \/ WakeSpuriously(d) \/ Recheck(d) \/ Destroy(d) \/ Join(d)
      BY <3>1, <3>2 DEF Next, vars, clientVars, Schedule
    <3> QED
      BY <1>1, <3>3 DEF Wait, WakeSpuriously, Recheck, Destroy, Join, IInv, TypeOK
  <2> QED BY <1>1, <2>1, <2>2 DEF Recheck, IInv, TypeOK
<1> QED BY <1>1, <1>2 DEF IInv, FirstWait

\* When the first wait() of a pool returns, the handlers that were unfinished when
\* it was called are done, whatever workers and spurious wake-ups do
\* (mt.cpp:98-109).
THEOREM FirstWaitIsRight == Spec => FirstWaitMeansDone
<1>1. IInv /\ [Next]_vars
        => [\A c \in Clients : Returns(c) /\ waits = 1 => AwaitedDone(c)]_vars
  BY FirstReturnsDone
<1> QED BY <1>1, InductiveInvariant, PTL DEF Spec, FirstWaitMeansDone

LEMMA SomebodyRunsNext ==
  ASSUME IInv, SomebodyRuns, [Next]_vars
  PROVE  SomebodyRuns'
<1> USE DEF SomebodyRuns
<1>1. ASSUME NEW w \in Workers, WorkerStep(w) PROVE SomebodyRuns'
  BY <1>1 DEF WorkerStep, Take, Complete, RunReturns, Decide, Renew, Notify, Go,
     poolVars, IInv, TypeOK
<1>2. ASSUME NEW c \in Clients,
             Wait(c) \/ WakeSpuriously(c) \/ Recheck(c) \/ Destroy(c) \/ Join(c)
      PROVE  SomebodyRuns'
  BY <1>2 DEF Wait, WakeSpuriously, Recheck, Destroy, Join, DropWork, poolVars,
     workerVars
<1>3. CASE (\E h \in Handlers : Schedule(h)) \/ UNCHANGED vars
  BY <1>3 DEF Schedule, vars, poolVars, workerVars
<1> QED BY <1>1, <1>2, <1>3 DEF Next

\* ~ThreadPool of a pool that has threads leaves no handler behind, although
\* workers that are late out of run() leave the loop before the others have
\* emptied the service, unless an exception has killed a worker (mt.cpp:81-91).
THEOREM DestructorDrains == ASSUME Workers # {} PROVE Spec => []Drained
<1>1. Init => SomebodyRuns
  BY DEF Init, SomebodyRuns
<1>2. IInv /\ SomebodyRuns => Drained
  BY DEF IInv, Stopping, StoppedDry, SomebodyRuns, Drained, Gone
<1> QED BY <1>1, <1>2, SomebodyRunsNext, InductiveInvariant, PTL DEF Spec

=============================================================================
