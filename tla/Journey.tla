------------------------------ MODULE Journey ------------------------------
(***************************************************************************)
(* The core of Synca: journeys (include/journey.h, src/journey.cpp), the   *)
(* coroutines they own (src/coro.cpp), the schedulers that run them        *)
(* (ThreadPool of src/mt.cpp, Alone of src/core.cpp) and the events a Goer *)
(* sends them (src/goer.cpp).                                              *)
(*                                                                         *)
(* A journey is one sequential activity that runs in segments.  A segment  *)
(* is a handler a scheduler executes on a worker thread: it jumps into the *)
(* coroutine, the coroutine runs user code until it defers something or    *)
(* ends, the thread jumps back, and only then runs the deferred handler,   *)
(* which arranges the next segment.  The user code is the most general     *)
(* client: in each step it may call any operation of the library.          *)
(*                                                                         *)
(* External parts, modelled by what src/ relies on: io_service::post and   *)
(* strand::post queue a handler, the threads of a pool execute the queued  *)
(* handlers of the pool and of its strands in FIFO order per queue, and    *)
(* two handlers of one strand never execute at the same time.              *)
(***************************************************************************)
EXTENDS Integers, Sequences, FiniteSets

CONSTANTS
  Journeys,       \* the Journey objects that may be created
  Threads,        \* the worker threads of all the thread pools
  Pools,          \* the ThreadPool objects
  Alones,         \* the Alone objects (strands)
  PoolOf,         \* the pool of a thread, of an Alone, and of a pool (itself)
  Interruptible,  \* the journeys whose Goer somebody uses (cancel, Timeout)
  None            \* the null pointer

Schedulers == Pools \cup Alones

ASSUME JourneyAssumption ==
  /\ Pools \cap Alones = {}
  /\ PoolOf \in [Threads \cup Pools \cup Alones -> Pools]
  /\ \A p \in Pools : PoolOf[p] = p
  /\ Interruptible \subseteq Journeys
  /\ None \notin Journeys \cup Pools \cup Alones

EventStatus == {"NORMAL", "CANCELLED", "TIMEDOUT"}

\* What a journey hands to a scheduler: the lambda of start0 or of proceed.
Handlers == [act : {"start", "resume"}, of : Journeys]

\* What Journey::deferHandler can hold: nothing, the proceed handler itself
\* (teleport), or a closure that hands the proceed handler to an asynchronous
\* operation (deferProceed).
DeferHandlers == {"null", "proceed", "handoff"}

VARIABLES
  life,           \* has the object been created, has it been deleted
  started,        \* Coro::started
  running,        \* Coro::running
  sched,          \* Journey::sched
  deferHandler,   \* Journey::deferHandler
  status,         \* Goer::State::status of the journey's goer
  eventsAllowed,  \* Journey::eventsAllowed
  armed,          \* journeys whose proceed handler an async operation holds
  queue,          \* the handlers posted to each scheduler
  at,             \* where each worker thread is
  via,            \* the scheduler whose handler the thread executes
  t_journey,      \* the thread-local current journey
  t_coro          \* the thread-local current coroutine

journeyVars == <<life, sched, deferHandler>>
coroVars    == <<started, running>>
eventVars   == <<status, eventsAllowed>>
threadVars  == <<at, via, t_journey, t_coro>>
vars == <<journeyVars, coroVars, eventVars, armed, queue, threadVars>>

(***************************************************************************)
(* A worker thread is in io_service::run ("run"); inside the coroutine,    *)
(* back in defer() after yield() returned ("back") or in user code         *)
(* ("coro"); jumping out of the coroutine ("yield"); back in the scheduler *)
(* handler, before onExit0 ("exit"); after the deferred handler, before    *)
(* t_journey is cleared ("leave").                                         *)
(***************************************************************************)
Places == {"run", "back", "coro", "yield", "exit", "leave"}

Init ==
  /\ life = [j \in Journeys |-> "unborn"]
  /\ started = [j \in Journeys |-> FALSE]
  /\ running = [j \in Journeys |-> FALSE]
  /\ sched = [j \in Journeys |-> None]
  /\ deferHandler = [j \in Journeys |-> "null"]
  /\ status = [j \in Journeys |-> "NORMAL"]
  /\ eventsAllowed = [j \in Journeys |-> TRUE]
  /\ armed = {}
  /\ queue = [s \in Schedulers |-> <<>>]
  /\ at = [t \in Threads |-> "run"]
  /\ via = [t \in Threads |-> None]
  /\ t_journey = [t \in Threads |-> None]
  /\ t_coro = [t \in Threads |-> None]

-----------------------------------------------------------------------------
(* Scheduling *)

\* Mutant of Schedule: the newest handler first.
ScheduleOnTop(s, act, j) ==
  queue' = [queue EXCEPT ![s] = <<[act |-> act, of |-> j]>> \o @]

\* IScheduler::schedule: ThreadPool posts to its io_service, Alone to its strand.
Schedule(s, act, j) ==
  queue' = [queue EXCEPT ![s] = Append(@, [act |-> act, of |-> j])]

\* Mutant of CanTake: an Alone that posts to the pool and not to its strand.
CanTakeWithoutStrand(t, s, act) ==
  /\ at[t] = "run"
  /\ PoolOf[t] = PoolOf[s]
  /\ queue[s] # <<>>
  /\ Head(queue[s]).act = act

\* A thread takes the next handler of its pool, or of a strand of its pool that
\* no thread is executing a handler of.
CanTake(t, s, act) ==
  /\ at[t] = "run"
  /\ PoolOf[t] = PoolOf[s]
  /\ s \in Alones => \A u \in Threads : via[u] # s
  /\ queue[s] # <<>>
  /\ Head(queue[s]).act = act

\* onEnter0 makes the journey current, jump0 makes its coroutine current and
\* jumps into it.
Enter(t, s, j, place) ==
  /\ queue' = [queue EXCEPT ![s] = Tail(@)]
  /\ via' = [via EXCEPT ![t] = s]
  /\ t_journey' = [t_journey EXCEPT ![t] = j]
  /\ t_coro' = [t_coro EXCEPT ![t] = j]
  /\ running' = [running EXCEPT ![j] = TRUE]
  /\ at' = [at EXCEPT ![t] = place]
  /\ UNCHANGED <<journeyVars, eventVars, armed>>

\* The lambda of start0: Coro::start runs the user's handler.
Start(t, s) ==
  /\ CanTake(t, s, "start")
  /\ LET j == Head(queue[s]).of
     IN  /\ Enter(t, s, j, "coro")
         /\ started' = [started EXCEPT ![j] = TRUE]

\* proceed0: Coro::resume continues in defer(), behind yield().
Resume(t, s) ==
  /\ CanTake(t, s, "resume")
  /\ Enter(t, s, Head(queue[s]).of, "back")
  /\ UNCHANGED started

\* Journey::create and start0, called by the main thread or by any journey:
\* a new object and its start handler on the scheduler's queue.
Go(j, s) ==
  /\ life[j] = "unborn"
  /\ life' = [life EXCEPT ![j] = "alive"]
  /\ sched' = [sched EXCEPT ![j] = s]
  /\ Schedule(s, "start", j)
  /\ UNCHANGED <<deferHandler, coroVars, eventVars, armed, threadVars>>

-----------------------------------------------------------------------------
(* Events *)

\* handleEvents of journey j throws.  uncaught is the C++ runtime's answer to
\* std::uncaught_exception(): whether the user code calls while an exception
\* propagates is the client's choice.
EventThrown(j, uncaught) ==
  eventsAllowed[j] /\ ~uncaught /\ status[j] # "NORMAL"

\* Goer::reset, before the EventException is thrown.
ResetStatus(j) == status' = [status EXCEPT ![j] = "NORMAL"]

\* Goer::setStatus0: the first event wins until the journey has handled it.
SetStatus(j, s) ==
  /\ j \in Interruptible
  /\ life[j] # "unborn"
  /\ status[j] = "NORMAL"
  /\ status' = [status EXCEPT ![j] = s]
  /\ UNCHANGED <<journeyVars, coroVars, eventsAllowed, armed, queue, threadVars>>

Cancel(j) == SetStatus(j, "CANCELLED")
Timedout(j) == SetStatus(j, "TIMEDOUT")

-----------------------------------------------------------------------------
(* What user code calls inside the coroutine of its journey.  An exception  *)
(* handleEvents throws is caught by user code, which then goes on, or by    *)
(* the lambda of start0, which then ends the journey: both start in "coro". *)

InCoro(t) == at[t] = "coro"

\* Mutant of StoreHandler: the handler is called at once, inside the coroutine.
CallHandlerInside(j, handler) ==
  /\ deferHandler' = [deferHandler EXCEPT ![j] = handler]
  /\ Schedule(sched'[j], "resume", j)
  /\ UNCHANGED armed

\* The handler is kept for onExit0: calling it here would let another thread
\* resume the coroutine while this one is still inside.
StoreHandler(j, handler) ==
  /\ deferHandler' = [deferHandler EXCEPT ![j] = handler]
  /\ UNCHANGED <<armed, queue>>

\* Journey::defer up to yield(): handleEvents either throws and nothing is
\* deferred, or the handler is stored and the coroutine starts to switch out.
Defer(t, handler) ==
  LET j == t_journey[t]
  IN  /\ \E uncaught \in BOOLEAN :
           \/ /\ EventThrown(j, uncaught)
              /\ ResetStatus(j)
              /\ UNCHANGED <<deferHandler, armed, queue, at>>
           \/ /\ ~EventThrown(j, uncaught)
              /\ StoreHandler(j, handler)
              /\ at' = [at EXCEPT ![t] = "yield"]
              /\ UNCHANGED status
      /\ UNCHANGED <<life, coroVars, eventsAllowed, via, t_journey, t_coro>>

\* Mutant of Teleport: the journey changes its scheduler and goes on.
TeleportWithoutDefer(t, s) ==
  /\ InCoro(t)
  /\ s # sched[t_journey[t]]
  /\ sched' = [sched EXCEPT ![t_journey[t]] = s]
  /\ UNCHANGED <<life, deferHandler, coroVars, eventVars, armed, queue, threadVars>>

\* Journey::teleport.  To the scheduler the journey already has it does
\* nothing.  sched is assigned before defer() handles the events.
Teleport(t, s) ==
  /\ InCoro(t)
  /\ s # sched[t_journey[t]]
  /\ sched' = [sched EXCEPT ![t_journey[t]] = s]
  /\ Defer(t, "proceed")

\* Journey::deferProceed: the network operations, the waiting functions and
\* the channels suspend the journey this way.
DeferProceed(t) ==
  /\ InCoro(t)
  /\ Defer(t, "handoff")
  /\ UNCHANGED sched

\* An explicit handleEvents() that throws.
HandleEvents(t) ==
  /\ InCoro(t)
  /\ EventThrown(t_journey[t], FALSE)
  /\ ResetStatus(t_journey[t])
  /\ UNCHANGED <<journeyVars, coroVars, eventsAllowed, armed, queue, threadVars>>

\* disableEvents handles the pending event first and may throw.
DisableEvents(t) ==
  LET j == t_journey[t]
  IN  /\ InCoro(t)
      /\ \E uncaught \in BOOLEAN :
           \/ /\ EventThrown(j, uncaught)
              /\ ResetStatus(j)
              /\ UNCHANGED eventsAllowed
           \/ /\ ~EventThrown(j, uncaught)
              /\ eventsAllowed' = [eventsAllowed EXCEPT ![j] = FALSE]
              /\ UNCHANGED status
      /\ UNCHANGED <<journeyVars, coroVars, armed, queue, threadVars>>

\* enableEvents handles the event that arrived in the meantime.
EnableEvents(t) ==
  LET j == t_journey[t]
  IN  /\ InCoro(t)
      /\ eventsAllowed' = [eventsAllowed EXCEPT ![j] = TRUE]
      /\ \E uncaught \in BOOLEAN :
           IF ~uncaught THEN ResetStatus(j) ELSE UNCHANGED status
      /\ UNCHANGED <<journeyVars, coroVars, armed, queue, threadVars>>

\* The user's handler ends, or the lambda of start0 swallows its exception:
\* starter0 leaves the coroutine for good.
Finish(t) ==
  /\ InCoro(t)
  /\ started' = [started EXCEPT ![t_journey[t]] = FALSE]
  /\ at' = [at EXCEPT ![t] = "yield"]
  /\ UNCHANGED <<journeyVars, running, eventVars, armed, queue,
                 via, t_journey, t_coro>>

\* defer() behind yield(): events that arrived while the journey was suspended.
AfterYield(t) ==
  LET j == t_journey[t]
  IN  /\ at[t] = "back"
      /\ \E uncaught \in BOOLEAN :
           IF EventThrown(j, uncaught) THEN ResetStatus(j) ELSE UNCHANGED status
      /\ at' = [at EXCEPT ![t] = "coro"]
      /\ UNCHANGED <<journeyVars, coroVars, eventsAllowed, armed, queue,
                     via, t_journey, t_coro>>

-----------------------------------------------------------------------------
(* Leaving the coroutine *)

\* Coro::yield0 jumps back behind the jump of jump0, in the same thread.
SwitchOut(t) ==
  /\ at[t] = "yield"
  /\ running' = [running EXCEPT ![t_coro[t]] = FALSE]
  /\ t_coro' = [t_coro EXCEPT ![t] = None]
  /\ at' = [at EXCEPT ![t] = "exit"]
  /\ UNCHANGED <<journeyVars, started, eventVars, armed, queue, via, t_journey>>

\* Mutant of CallDeferred: deferHandler is cleared before it is moved out.
CallNothing(j) == deferHandler[j] # "null" /\ UNCHANGED <<armed, queue>>

\* The handler onExit0 moved out of deferHandler and calls.
CallDeferred(j) ==
  \/ /\ deferHandler[j] = "proceed"
     /\ Schedule(sched[j], "resume", j)
     /\ UNCHANGED armed
  \/ /\ deferHandler[j] = "handoff"
     /\ armed' = armed \cup {j}
     /\ UNCHANGED queue

\* onExit0: a journey that deferred nothing has ended and is deleted.
OnExit(t) ==
  LET j == t_journey[t]
  IN  /\ at[t] = "exit"
      /\ at' = [at EXCEPT ![t] = "leave"]
      /\ \/ /\ deferHandler[j] = "null"
            /\ life' = [life EXCEPT ![j] = "deleted"]
            /\ UNCHANGED <<deferHandler, armed, queue>>
         \/ /\ CallDeferred(j)
            /\ deferHandler' = [deferHandler EXCEPT ![j] = "null"]
            /\ UNCHANGED life
      /\ UNCHANGED <<sched, coroVars, eventVars, via, t_journey, t_coro>>

\* Mutant of Leave: a member is cleared after the deferred handler was called.
LeaveAndForgetScheduler(t) ==
  /\ at[t] = "leave"
  /\ sched' = [sched EXCEPT ![t_journey[t]] = None]
  /\ t_journey' = [t_journey EXCEPT ![t] = None]
  /\ via' = [via EXCEPT ![t] = None]
  /\ at' = [at EXCEPT ![t] = "run"]
  /\ UNCHANGED <<life, deferHandler, coroVars, eventVars, armed, queue, t_coro>>

\* The end of onExit0: the thread goes back to io_service::run.
Leave(t) ==
  /\ at[t] = "leave"
  /\ t_journey' = [t_journey EXCEPT ![t] = None]
  /\ via' = [via EXCEPT ![t] = None]
  /\ at' = [at EXCEPT ![t] = "run"]
  /\ UNCHANGED <<journeyVars, coroVars, eventVars, armed, queue, t_coro>>

\* The asynchronous operation that was handed the proceed handler calls it:
\* Journey::proceed posts to the scheduler the journey has then.
Proceed(j) ==
  /\ j \in armed
  /\ armed' = armed \ {j}
  /\ Schedule(sched[j], "resume", j)
  /\ UNCHANGED <<journeyVars, coroVars, eventVars, threadVars>>

-----------------------------------------------------------------------------

\* Every journey has ended and every thread is idle: the program may stop.
AllDone ==
  /\ \A j \in Journeys : life[j] = "deleted"
  /\ \A t \in Threads : at[t] = "run"

UserStep(t) ==
  \/ \E s \in Schedulers : Teleport(t, s)
  \/ DeferProceed(t)
  \/ HandleEvents(t)
  \/ DisableEvents(t)
  \/ EnableEvents(t)
  \/ Finish(t)

Next ==
  \/ \E j \in Journeys, s \in Schedulers : Go(j, s)
  \/ \E j \in Journeys : Proceed(j) \/ Cancel(j) \/ Timedout(j)
  \/ \E t \in Threads, s \in Schedulers : Start(t, s) \/ Resume(t, s)
  \/ \E t \in Threads :
       UserStep(t) \/ AfterYield(t) \/ SwitchOut(t) \/ OnExit(t) \/ Leave(t)
  \/ AllDone /\ UNCHANGED vars

Spec == Init /\ [][Next]_vars

\* A segment of user code ends: the journey suspends itself or finishes.
Depart(t) == UserStep(t) /\ at'[t] = "yield"

\* Worker threads make progress, every segment of user code ends some time,
\* and no queue of a pool is passed over forever (io_service is FIFO).
Fairness ==
  /\ \A t \in Threads :
       /\ WF_vars(Depart(t))
       /\ WF_vars(AfterYield(t) \/ SwitchOut(t) \/ OnExit(t) \/ Leave(t))
  /\ \A s \in Schedulers :
       SF_vars(\E t \in Threads : Start(t, s) \/ Resume(t, s))

FairSpec == Spec /\ Fairness

-----------------------------------------------------------------------------
(* Properties *)

\* Every variable holds what its C++ type and the null pointers allow.
TypeOK ==
  /\ life \in [Journeys -> {"unborn", "alive", "deleted"}]
  /\ started \in [Journeys -> BOOLEAN]
  /\ running \in [Journeys -> BOOLEAN]
  /\ sched \in [Journeys -> Schedulers \cup {None}]
  /\ deferHandler \in [Journeys -> DeferHandlers]
  /\ status \in [Journeys -> EventStatus]
  /\ eventsAllowed \in [Journeys -> BOOLEAN]
  /\ armed \subseteq Journeys
  /\ queue \in [Schedulers -> Seq(Handlers)]
  /\ at \in [Threads -> Places]
  /\ via \in [Threads -> Schedulers \cup {None}]
  /\ t_journey \in [Threads -> Journeys \cup {None}]
  /\ t_coro \in [Threads -> Journeys \cup {None}]

\* Thread t is between onEnter0 and onExit0 of journey j.
Executes(t, j) ==
  t_journey[t] = j /\ at[t] \in {"back", "coro", "yield", "exit"}

\* Thread t is inside the coroutine of its journey.
InsideCoro(t) == at[t] \in {"back", "coro", "yield"}

\* Handler i of the queue of scheduler s belongs to journey j.
QueuedAt(s, i, j) == i \in DOMAIN queue[s] /\ queue[s][i].of = j

\* Everything that will run journey j again, or runs it now, exists once: it
\* has one queued handler, or one executing thread, or one asynchronous
\* operation.  A proceed handler called before the coroutine has switched out,
\* or called twice, would let two threads into one stack (journey.cpp:54-60,
\* 165-178).
OneContinuation ==
  \A j \in Journeys :
    /\ \A r, s \in Schedulers : \A i \in DOMAIN queue[r], k \in DOMAIN queue[s] :
         QueuedAt(r, i, j) /\ QueuedAt(s, k, j) => r = s /\ i = k
    /\ \A t, u \in Threads : Executes(t, j) /\ Executes(u, j) => t = u
    /\ \A t \in Threads, s \in Schedulers : \A i \in DOMAIN queue[s] :
         ~(Executes(t, j) /\ QueuedAt(s, i, j))
    /\ j \in armed =>
         /\ \A t \in Threads : ~Executes(t, j)
         /\ \A s \in Schedulers : \A i \in DOMAIN queue[s] : ~QueuedAt(s, i, j)

\* A journey that has begun and not ended is never forgotten: some queue, some
\* thread or some asynchronous operation still leads to it (journey.cpp:165-178).
NeverLost ==
  \A j \in Journeys : life[j] = "alive" =>
    \/ \E s \in Schedulers : \E i \in DOMAIN queue[s] : QueuedAt(s, i, j)
    \/ \E t \in Threads : Executes(t, j)
    \/ j \in armed

\* Nothing that will be executed refers to an object that does not exist: the
\* lambdas of start0 and proceed capture a bare this (journey.cpp:42, 126).
NoDangling ==
  /\ \A s \in Schedulers : \A i \in DOMAIN queue[s] :
       /\ life[queue[s][i].of] = "alive"
       /\ sched[queue[s][i].of] = s
  /\ \A j \in armed : life[j] = "alive"
  /\ \A t \in Threads, j \in Journeys : Executes(t, j) => life[j] = "alive"

\* The VERIFYs of Coro::start and Coro::resume hold whenever a scheduler gets
\* to the handler, so no exception leaves it into the worker thread
\* (coro.cpp:59, 67-68).
VerifyHolds ==
  \A s \in Schedulers : \A i \in DOMAIN queue[s] :
    LET h == queue[s][i]
    IN  /\ ~running[h.of]
        /\ started[h.of] <=> h.act = "resume"

\* What runs in a journey is on a thread of the scheduler the journey says it
\* has: code behind teleport(s) runs in s.  Stated for the journeys that no
\* event interrupts (journey.cpp:69-79).
Located ==
  \A t \in Threads : InCoro(t) /\ t_journey[t] \notin Interruptible =>
    via[t] = sched[t_journey[t]]

\* Thread t executes user code of a journey that takes itself to be in the Alone
\* a: its teleport(a) would return at once (journey.cpp:71-75).
InAlone(t, a) == InCoro(t) /\ sched[t_journey[t]] = a

\* An Alone is a mutex: two journeys that are in it never execute user code at
\* the same time.  Stated for the journeys that no event interrupts: another one
\* that catches the event of its teleport(a) is taken to be in a without the
\* strand of a (journey.cpp:71-77).
AloneMutex ==
  \A a \in Alones : \A t, u \in Threads :
    /\ InAlone(t, a) /\ t_journey[t] \notin Interruptible
    /\ InAlone(u, a) /\ t_journey[u] \notin Interruptible
    => t = u

\* A thread writes to no member of a journey after the journey was deleted, not
\* even the thread that deleted it (journey.cpp:165-178, coro.cpp:92-102).  That
\* nobody keeps a pointer to read one through is NoDangling's part.
NoWriteAfterDelete ==
  [][\A j \in Journeys : life[j] = "deleted" =>
       /\ UNCHANGED <<life[j], sched[j], deferHandler[j], eventsAllowed[j]>>
       /\ UNCHANGED <<started[j], running[j]>>]_vars

\* Journey implements Travel.  A journey is active in the scheduler whose
\* thread executes it, ready where its handler is queued, parked with the
\* scheduler it will be proceeded on.
Stage(j) ==
  IF life[j] = "unborn" THEN "unborn"
  ELSE IF life[j] = "deleted" THEN "done"
  ELSE IF \E t \in Threads : Executes(t, j) THEN "active"
  ELSE IF j \in armed THEN "parked"
  ELSE "ready"

Place(j) ==
  CASE Stage(j) \in {"unborn", "done"} -> None
    [] Stage(j) = "active" -> via[CHOOSE t \in Threads : Executes(t, j)]
    [] OTHER -> sched[j]

Abstract == INSTANCE Travel WITH
  stage <- [j \in Journeys |-> Stage(j)],
  place <- [j \in Journeys |-> Place(j)]

\* Every step of the code is a step of a sequential traveller or invisible to
\* the traveller: whole-run form of the properties above.
ImplementsTravel == Abstract!TravelSpec

\* Whatever is posted to a scheduler is executed some time: neither a busy pool
\* nor a contended Alone starves a journey (mt.cpp:93-96, core.cpp:175-178).
NoStarvation ==
  \A j \in Journeys :
    (\E s \in Schedulers : \E i \in DOMAIN queue[s] : QueuedAt(s, i, j))
      ~> (\E t \in Threads : Executes(t, j))

-----------------------------------------------------------------------------
(***************************************************************************)
(* The inductive invariant behind the safety properties: what each of the  *)
(* three carriers of a continuation (queued handler, asynchronous          *)
(* operation, executing thread) says about the journey it carries.         *)
(***************************************************************************)

\* A journey whose coroutine has been left behind, ready to be entered.
AtRest(j) ==
  /\ life[j] = "alive"
  /\ ~running[j]
  /\ deferHandler[j] = "null"
  /\ \A t \in Threads : ~Executes(t, j)

QueuedInv ==
  \A s \in Schedulers : \A i \in DOMAIN queue[s] :
    LET h == queue[s][i]
    IN  /\ AtRest(h.of)
        /\ sched[h.of] = s
        /\ started[h.of] <=> h.act = "resume"
        /\ h.of \notin armed
        /\ \A k \in DOMAIN queue[s] : queue[s][k].of = h.of => k = i

ArmedInv == \A j \in armed : AtRest(j) /\ started[j]

\* A thread's own variables agree with where it is.
ThreadInv ==
  \A t \in Threads :
    /\ at[t] # "run" => via[t] \in Schedulers
    /\ at[t] = "run" => via[t] = None
    /\ at[t] \in {"run", "exit", "leave"} => t_coro[t] = None
    /\ InsideCoro(t) => t_coro[t] = t_journey[t]
    /\ InsideCoro(t) \/ at[t] = "exit" => t_journey[t] \in Journeys

\* The journey a thread executes.
ExecutedInv ==
  \A t \in Threads : \A j \in Journeys : Executes(t, j) =>
    /\ life[j] = "alive"
    /\ running[j] <=> InsideCoro(t)
    /\ at[t] \in {"back", "coro"} => started[j] /\ deferHandler[j] = "null"
    /\ at[t] \in {"yield", "exit"} => (started[j] <=> deferHandler[j] # "null")
    /\ \A u \in Threads : Executes(u, j) => u = t

\* Threads share no Alone, and an uninterrupted journey is where it says.
PlaceInv ==
  /\ \A t, u \in Threads : via[t] \in Alones /\ via[t] = via[u] => t = u
  /\ \A t \in Threads : \A j \in Journeys \ Interruptible : Executes(t, j) =>
       (via[t] = sched[j] <=> deferHandler[j] # "proceed")

LifeInv ==
  \A j \in Journeys :
    /\ life[j] = "unborn" => ~started[j] /\ ~running[j] /\ deferHandler[j] = "null"
    /\ life[j] = "alive" => sched[j] \in Schedulers
    /\ j \notin Interruptible => status[j] = "NORMAL"

IInv ==
  /\ TypeOK
  /\ QueuedInv /\ ArmedInv
  /\ ThreadInv /\ ExecutedInv
  /\ PlaceInv /\ LifeInv
  /\ NeverLost

=============================================================================
