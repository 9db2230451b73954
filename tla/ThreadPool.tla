----------------------------- MODULE ThreadPool -----------------------------
(***************************************************************************)
(* mt::ThreadPool (include/mt.h, src/mt.cpp): worker threads that loop     *)
(* around io_service::run, wait() that blocks until the pool has run dry   *)
(* and is started again, and the destructor that stops and joins the       *)
(* workers.                                                                *)
(*                                                                         *)
(* External part: the io_service counts the handlers it has and the work   *)
(* object; when the count becomes zero it is stopped, and run() returns in *)
(* every thread until reset() is called.                                   *)
(***************************************************************************)
EXTENDS Naturals

CONSTANTS
  Workers,   \* ThreadPool::threads
  Clients,   \* threads that call wait() and the destructor
  Handlers,  \* the handlers that may be scheduled
  Throwing,  \* those that throw a std::exception
  MaxWaits,  \* bound: calls of wait()
  None

ASSUME ThreadPoolAssumption ==
  /\ Throwing \subseteq Handlers
  /\ None \notin Handlers
  /\ MaxWaits \in Nat

VARIABLES
  work,     \* ThreadPool::work is not null
  stopped,  \* the io_service is stopped
  toStop,   \* ThreadPool::toStop
  handler,  \* what has become of each handler
  worker,   \* where each worker is
  job,      \* the handler it executes
  client,   \* where each client is
  awaited,  \* the handlers that were unfinished when a client called wait()
  waits     \* how often wait() has been called

poolVars == <<work, stopped, toStop>>
workerVars == <<worker, job>>
clientVars == <<client, awaited, waits>>
vars == <<poolVars, handler, workerVars, clientVars>>

\* In service.run(); behind it; in the critical section between making a new
\* work object and service.reset(); behind the critical section; left the loop;
\* left it by an exception.
WorkerPlaces == {"run", "returned", "renewing", "renewed", "ended", "died"}

ClientPlaces == {"idle", "waiting", "woken", "joining", "gone"}

Unfinished == {h \in Handlers : handler[h] \in {"queued", "executing"}}

\* ThreadPool::mutex is free between two steps of this module except in the
\* critical section of a worker.
MutexFree == \A w \in Workers : worker[w] # "renewing"

Init ==
  /\ work = TRUE
  /\ stopped = FALSE
  /\ toStop = FALSE
  /\ handler = [h \in Handlers |-> "new"]
  /\ worker = [w \in Workers |-> "run"]
  /\ job = [w \in Workers |-> None]
  /\ client = [c \in Clients |-> "idle"]
  /\ awaited = [c \in Clients |-> {}]
  /\ waits = 0

Go(w, place) == worker' = [worker EXCEPT ![w] = place]

-----------------------------------------------------------------------------
(* The io_service *)

\* ThreadPool::schedule, called by any thread while the pool lives, by the
\* pool's own handlers until they have ended.
Schedule(h) ==
  /\ handler[h] = "new"
  /\ ~toStop \/ \E w \in Workers : job[w] # None
  /\ handler' = [handler EXCEPT ![h] = "queued"]
  /\ UNCHANGED <<poolVars, workerVars, clientVars>>

Take(w, h) ==
  /\ worker[w] = "run" /\ job[w] = None
  /\ ~stopped
  /\ handler[h] = "queued"
  /\ handler' = [handler EXCEPT ![h] = "executing"]
  /\ job' = [job EXCEPT ![w] = h]
  /\ UNCHANGED <<poolVars, worker, clientVars>>

\* The last handler of a service without a work object stops it.  The exception
\* of a handler leaves run() and ends the thread in createThread.
Complete(w) ==
  /\ job[w] # None
  /\ handler' = [handler EXCEPT ![job[w]] = "done"]
  /\ job' = [job EXCEPT ![w] = None]
  /\ stopped' = (stopped \/ (~work /\ Unfinished = {job[w]}))
  /\ IF job[w] \in Throwing THEN Go(w, "died") ELSE UNCHANGED worker
  /\ UNCHANGED <<work, toStop, clientVars>>

\* Mutant of RunReturns: run() returns as soon as the pool is to stop.
RunReturnsToStop(w) ==
  /\ worker[w] = "run" /\ job[w] = None
  /\ stopped \/ toStop
  /\ Go(w, "returned")
  /\ UNCHANGED <<poolVars, handler, job, clientVars>>

RunReturns(w) ==
  /\ worker[w] = "run" /\ job[w] = None
  /\ stopped
  /\ Go(w, "returned")
  /\ UNCHANGED <<poolVars, handler, job, clientVars>>

\* work.reset(): without handlers the service stops.
DropWork ==
  /\ work' = FALSE
  /\ stopped' = (stopped \/ Unfinished = {})

-----------------------------------------------------------------------------
(* The loop of a worker, behind service.run() *)

\* Mutant of Decide: every worker that comes out of run() starts a new round.
DecideAlwaysRenew(w) ==
  /\ worker[w] = "returned" /\ MutexFree
  /\ \/ toStop /\ Go(w, "ended") /\ UNCHANGED work
     \/ ~toStop /\ Go(w, "renewed") /\ work' = TRUE
  /\ UNCHANGED <<stopped, toStop, handler, job, clientVars>>

\* The lock is taken and the pool's state looked at; the first worker that
\* finds no work object makes a new one.
Decide(w) ==
  /\ worker[w] = "returned" /\ MutexFree
  /\ \/ toStop /\ Go(w, "ended") /\ UNCHANGED work
     \/ ~toStop /\ work /\ Go(w, "run") /\ UNCHANGED work
     \/ ~toStop /\ ~work /\ Go(w, "renewing") /\ work' = TRUE
  /\ UNCHANGED <<stopped, toStop, handler, job, clientVars>>

\* Mutant of Renew: service.reset() is forgotten.
RenewWithoutReset(w) ==
  /\ worker[w] = "renewing"
  /\ Go(w, "renewed")
  /\ UNCHANGED <<poolVars, handler, job, clientVars>>

\* service.reset() and the end of the critical section.
Renew(w) ==
  /\ worker[w] = "renewing"
  /\ stopped' = FALSE
  /\ Go(w, "renewed")
  /\ UNCHANGED <<work, toStop, handler, job, clientVars>>

\* Mutant of Notify: the waiting clients are not told.
NotifyNobody(w) ==
  /\ worker[w] = "renewed"
  /\ Go(w, "run")
  /\ UNCHANGED <<poolVars, handler, job, clientVars>>

\* cond.notify_all()
Notify(w) ==
  /\ worker[w] = "renewed"
  /\ client' = [c \in Clients |-> IF client[c] = "waiting" THEN "woken" ELSE client[c]]
  /\ Go(w, "run")
  /\ UNCHANGED <<poolVars, handler, job, awaited, waits>>

-----------------------------------------------------------------------------
(* Clients *)

\* wait() up to the first cond.wait, which releases the mutex.
Wait(c) ==
  /\ client[c] = "idle" /\ MutexFree
  /\ ~toStop
  /\ waits < MaxWaits
  /\ waits' = waits + 1
  /\ DropWork
  /\ client' = [client EXCEPT ![c] = "waiting"]
  /\ awaited' = [awaited EXCEPT ![c] = Unfinished]
  /\ UNCHANGED <<toStop, handler, workerVars>>

\* A condition variable may wake up spuriously.
WakeSpuriously(c) ==
  /\ client[c] = "waiting"
  /\ client' = [client EXCEPT ![c] = "woken"]
  /\ UNCHANGED <<poolVars, handler, workerVars, awaited, waits>>

\* Mutant of Recheck: an if in place of the loop.
RecheckNothing(c) ==
  /\ client[c] = "woken" /\ MutexFree
  /\ client' = [client EXCEPT ![c] = "idle"]
  /\ UNCHANGED <<poolVars, handler, workerVars, awaited, waits>>

\* The mutex is taken again; wait() returns when there is a work object.
Recheck(c) ==
  /\ client[c] = "woken" /\ MutexFree
  /\ client' = [client EXCEPT ![c] = IF work THEN "idle" ELSE "waiting"]
  /\ UNCHANGED <<poolVars, handler, workerVars, awaited, waits>>

\* ~ThreadPool up to the first join.  Nobody uses the pool any more.
Destroy(c) ==
  /\ \A d \in Clients : client[d] = "idle"
  /\ MutexFree
  /\ toStop' = TRUE
  /\ DropWork
  /\ client' = [client EXCEPT ![c] = "joining"]
  /\ UNCHANGED <<handler, workerVars, awaited, waits>>

Join(c) ==
  /\ client[c] = "joining"
  /\ \A w \in Workers : worker[w] \in {"ended", "died"}
  /\ client' = [client EXCEPT ![c] = "gone"]
  /\ UNCHANGED <<poolVars, handler, workerVars, awaited, waits>>

-----------------------------------------------------------------------------

Gone == \E c \in Clients : client[c] = "gone"

WorkerStep(w) ==
  \/ \E h \in Handlers : Take(w, h)
  \/ Complete(w) \/ RunReturns(w) \/ Decide(w) \/ Renew(w) \/ Notify(w)

Next ==
  \/ \E h \in Handlers : Schedule(h)
  \/ \E w \in Workers : WorkerStep(w)
  \/ \E c \in Clients :
       Wait(c) \/ WakeSpuriously(c) \/ Recheck(c) \/ Destroy(c) \/ Join(c)
  \/ Gone /\ UNCHANGED vars

Spec == Init /\ [][Next]_vars

\* Threads run, handlers end, and a mutex that is free again and again is got.
Fairness ==
  /\ \A w \in Workers :
       /\ WF_vars(WorkerStep(w))
       /\ SF_vars(Decide(w))
  /\ \A c \in Clients : SF_vars(Recheck(c)) /\ WF_vars(Join(c))

FairSpec == Spec /\ Fairness

-----------------------------------------------------------------------------
(* Properties *)

\* Types, and what a worker executes is out of the queue.
TypeOK ==
  /\ work \in BOOLEAN /\ stopped \in BOOLEAN /\ toStop \in BOOLEAN
  /\ handler \in [Handlers -> {"new", "queued", "executing", "done"}]
  /\ worker \in [Workers -> WorkerPlaces]
  /\ job \in [Workers -> Handlers \cup {None}]
  /\ client \in [Clients -> ClientPlaces]
  /\ awaited \in [Clients -> SUBSET Handlers]
  /\ waits \in 0 .. MaxWaits
  /\ \A w \in Workers : job[w] # None =>
       worker[w] = "run" /\ handler[job[w]] = "executing"

\* A pool that has its work object has a service that executes handlers: it
\* never spins around a stopped run() (mt.cpp:63-76).
NeverSpins == work /\ stopped => ~MutexFree

\* The pool is without its work object only on behalf of somebody: a client in
\* wait() or the destructor; when they have returned, it works again
\* (mt.cpp:69-75, 98-109).
StartedAgain ==
  ~work => toStop \/ \E c \in Clients : client[c] \in {"waiting", "woken"}

\* The pool does neither spin nor stand still when nobody has asked it to stop.
PoolInv == TypeOK /\ NeverSpins /\ StartedAgain

Returns(c) == client[c] = "woken" /\ client'[c] = "idle"

AwaitedDone(c) == \A h \in awaited[c] : handler[h] = "done"

\* README.md "blocks until all handlers complete": when wait() returns, the
\* handlers that were unfinished when it was called are done (mt.cpp:98-109).
\* The code violates it.
WaitMeansDone == [][\A c \in Clients : Returns(c) => AwaitedDone(c)]_vars

\* It keeps it for the first wait() of a pool: spurious wake-ups and workers that
\* are slow to leave run() do not end it early.
FirstWaitMeansDone ==
  [][\A c \in Clients : Returns(c) /\ waits = 1 => AwaitedDone(c)]_vars

\* The destructor leaves no handler behind, unless an exception of a handler has
\* killed a worker (mt.cpp:81-91).
Drained ==
  Gone /\ (\A w \in Workers : worker[w] # "died") => Unfinished = {}

\* Nobody waits in vain, whatever the order of notify and wait (mt.cpp:104).
WaitReturns == \A c \in Clients : client[c] = "waiting" ~> client[c] = "idle"

\* Every worker gets to see toStop, and the destructor ends (mt.cpp:88-89).
DestroyReturns == toStop ~> Gone

\* Both calls that block return.
CallsReturn == WaitReturns /\ DestroyReturns

\* What is scheduled is executed, also across the restarts wait() makes and while
\* the pool is stopped, unless an exception has killed a worker (mt.cpp:63-76).
Executed ==
  \A h \in Handlers :
    handler[h] = "queued" ~>
      handler[h] = "done" \/ \E w \in Workers : worker[w] = "died"

=============================================================================
