------------------------------- MODULE Portal -------------------------------
(***************************************************************************)
(* Portals (portal.cpp): a journey teleports in a constructor and back in  *)
(* the destructor, also while an exception unwinds its stack.  Whether     *)
(* handleEvents() throws depends on std::uncaught_exception(), a counter   *)
(* of the thread - and the teleport in ~Portal changes threads.            *)
(*                                                                         *)
(* What Journey establishes is taken over: a journey that teleports leaves *)
(* its thread and is resumed once by a thread of its scheduler.  Journeys  *)
(* are created, end and are waited for as in WaitForAll.                   *)
(***************************************************************************)
EXTENDS WaitForAll, SequencesExt

CONSTANTS
  Threads, Schedulers,
  PoolOf,         \* the scheduler of each thread
  Interruptible,  \* journeys whose Goer somebody uses
  MaxCalls,       \* bound: portals, teleports, throws, go() of each journey
  Counts,         \* how many values a count of exceptions has (2^32 in the build)
  None

ASSUME PortalAssumption ==
  /\ IsFiniteSet(Threads) /\ PoolOf \in [Threads -> Schedulers]
  /\ \A s \in Schedulers : \E t \in Threads : PoolOf[t] = s
  /\ Interruptible \subseteq Journeys
  /\ MaxCalls \in [Journeys -> Nat] /\ Counts \in Nat \ {0, 1}
  /\ None \notin Threads \cup Nat

VARIABLES
  sched,       \* Journey::sched
  thread,      \* the thread that executes the journey, or None
  doing,       \* what a journey that travels or has yet to start is in
  portals,     \* Portal::source of the Portals on the stack, the innermost last
  catchAt,     \* an exception unwinds the stack down to so many Portals, or None
  pending,     \* Goer::State::status is not ES_NORMAL
  uncaught,    \* the uncaught exceptions the C++ runtime counts for each thread
  terminated,  \* std::terminate was called
  calls        \* counts towards MaxCalls

portalVars == <<sched, thread, doing, portals, catchAt, pending, uncaught,
                terminated, calls>>
vars == <<waitVars, portalVars>>

Doings == {"start", "teleport", "Portal", "~Portal"}

Init ==
  /\ WaitInit
  /\ sched \in [Journeys -> Schedulers]
  /\ thread = [j \in Journeys |-> None]
  /\ doing = [j \in Journeys |-> "start"]
  /\ portals = [j \in Journeys |-> <<>>]
  /\ catchAt = [j \in Journeys |-> None]
  /\ pending = [j \in Journeys |-> FALSE]
  /\ uncaught = [t \in Threads |-> 0]
  /\ terminated = FALSE
  /\ calls = [j \in Journeys |-> 0]

Unwinding(j) == catchAt[j] # None
Executing(j) == thread[j] # None /\ ~terminated
InUserCode(j) == Executing(j) /\ ~Unwinding(j)

Innermost(j) == Last(portals[j])

Call(j) ==
  /\ InUserCode(j) /\ calls[j] < MaxCalls[j]
  /\ calls' = [calls EXCEPT ![j] = @ + 1]

-----------------------------------------------------------------------------
(* Exceptions and events *)

\* Journey::handleEvents throws when it is called on thread t.
EventThrown(j, t) == pending[j] /\ uncaught[t] = 0

\* An exception is thrown on thread t below some catch of the journey.
Raise(j, t) ==
  /\ uncaught' = [uncaught EXCEPT ![t] = (@ + 1) % Counts]
  /\ \E depth \in 0 .. Len(portals'[j]) : catchAt' = [catchAt EXCEPT ![j] = depth]

NoException == UNCHANGED <<catchAt, uncaught>>

\* An event is thrown by the teleport in what: nothing leaves a destructor, and
\* a Portal whose constructor throws is none.
RaiseEvent(j, t, what) ==
  /\ pending' = [pending EXCEPT ![j] = FALSE]
  /\ IF what = "~Portal"
     THEN terminated' = TRUE /\ UNCHANGED portals /\ NoException
     ELSE /\ portals' = IF what = "Portal" /\ doing[j] = "Portal"
                        THEN [portals EXCEPT ![j] = Front(@)] ELSE portals
          /\ Raise(j, t)
          /\ UNCHANGED terminated

Throw(j) ==
  /\ Call(j)
  /\ UNCHANGED portals
  /\ Raise(j, thread[j])
  /\ UNCHANGED <<waitVars, sched, thread, doing, pending, terminated>>

\* Mutant of Catch: the exception is never finished.
CatchAndKeep(j) ==
  /\ Executing(j) /\ catchAt[j] = Len(portals[j])
  /\ catchAt' = [catchAt EXCEPT ![j] = None]
  /\ UNCHANGED <<waitVars, sched, thread, doing, portals, pending, uncaught, terminated, calls>>

\* The stack has been unwound to the catch.
Catch(j) ==
  /\ Executing(j) /\ catchAt[j] = Len(portals[j])
  /\ catchAt' = [catchAt EXCEPT ![j] = None]
  /\ uncaught' = [uncaught EXCEPT ![thread[j]] = (@ - 1) % Counts]
  /\ UNCHANGED <<waitVars, sched, thread, doing, portals, pending, terminated, calls>>

Cancel(j) ==
  /\ j \in Interruptible \cap alive /\ ~terminated
  /\ pending' = [pending EXCEPT ![j] = TRUE]
  /\ UNCHANGED <<waitVars, sched, thread, doing, portals, catchAt, uncaught, terminated, calls>>

HandleEvents(j) ==
  /\ Call(j)
  /\ EventThrown(j, thread[j])
  /\ RaiseEvent(j, thread[j], "teleport")
  /\ UNCHANGED <<waitVars, sched, thread, doing>>

-----------------------------------------------------------------------------
(* Teleports *)

\* teleport(s) elsewhere: sched is set, then defer() throws or switches out.
Depart(j, s, what) ==
  /\ s # sched[j]
  /\ sched' = [sched EXCEPT ![j] = s]
  /\ \/ /\ EventThrown(j, thread[j])
        /\ RaiseEvent(j, thread[j], what)
        /\ UNCHANGED <<thread, doing>>
     \/ /\ ~EventThrown(j, thread[j])
        /\ thread' = [thread EXCEPT ![j] = None]
        /\ doing' = [doing EXCEPT ![j] = what]
        /\ portals' = IF what = "Portal"
                      THEN [portals EXCEPT ![j] = Append(@, sched[j])] ELSE portals
        /\ NoException /\ UNCHANGED <<pending, terminated>>

Teleport(j, s) == Call(j) /\ Depart(j, s, "teleport") /\ UNCHANGED waitVars

\* Portal::Portal; teleport() to where the journey is does nothing.
OpenPortal(j, s) ==
  /\ Call(j)
  /\ \/ Depart(j, s, "Portal")
     \/ /\ s = sched[j]
        /\ portals' = [portals EXCEPT ![j] = Append(@, s)]
        /\ NoException /\ UNCHANGED <<sched, thread, doing, pending, terminated>>
  /\ UNCHANGED waitVars

\* Mutant of LeavesScope: a Portal outside of the catch is left too.
LeavesOneTooMany(j) ==
  /\ Executing(j) /\ portals[j] # <<>>
  /\ Unwinding(j) => catchAt[j] <= Len(portals[j])

\* The scope of the innermost Portal is left, normally or by an exception.
LeavesScope(j) ==
  /\ Executing(j) /\ portals[j] # <<>>
  /\ Unwinding(j) => catchAt[j] < Len(portals[j])

\* Mutant of ClosePortal: nothing is done while an exception unwinds.
ClosePortalUnlessUnwinding(j) ==
  /\ LeavesScope(j)
  /\ \/ ~Unwinding(j) /\ Depart(j, Innermost(j), "~Portal")
     \/ /\ Innermost(j) = sched[j] \/ Unwinding(j)
        /\ portals' = [portals EXCEPT ![j] = Front(@)]
        /\ NoException /\ UNCHANGED <<sched, thread, doing, pending, terminated>>
  /\ UNCHANGED <<waitVars, calls>>

\* Portal::~Portal.
ClosePortal(j) ==
  /\ LeavesScope(j)
  /\ \/ Depart(j, Innermost(j), "~Portal")
     \/ /\ Innermost(j) = sched[j]
        /\ portals' = [portals EXCEPT ![j] = Front(@)]
        /\ NoException /\ UNCHANGED <<sched, thread, doing, pending, terminated>>
  /\ UNCHANGED <<waitVars, calls>>

\* A thread of the scheduler resumes the journey: the end of defer(), teleport()
\* and the constructor or destructor that called it.
Arrive(j, t) ==
  /\ j \in alive /\ thread[j] = None /\ ~terminated
  /\ PoolOf[t] = sched[j] /\ \A i \in Journeys : thread[i] # t
  /\ thread' = [thread EXCEPT ![j] = t]
  /\ \/ /\ EventThrown(j, t) /\ doing[j] # "start"
        /\ RaiseEvent(j, t, doing[j])
     \/ /\ ~EventThrown(j, t) \/ doing[j] = "start"
        /\ portals' = IF doing[j] = "~Portal"
                      THEN [portals EXCEPT ![j] = Front(@)] ELSE portals
        /\ NoException /\ UNCHANGED <<pending, terminated>>
  /\ doing' = [doing EXCEPT ![j] = "teleport"]
  /\ UNCHANGED <<waitVars, sched, calls>>

-----------------------------------------------------------------------------
(* Journeys and the main thread *)

\* go(), in the main thread or in a journey.
Go(j) ==
  /\ ~terminated
  /\ \/ main = "busy" /\ UNCHANGED calls
     \/ \E i \in alive : Call(i)
  /\ Create(j)
  /\ UNCHANGED <<sched, thread, doing, portals, catchAt, pending, uncaught, terminated>>

End(j) ==
  /\ InUserCode(j) /\ portals[j] = <<>>
  /\ Destroy(j)
  /\ thread' = [thread EXCEPT ![j] = None]
  /\ UNCHANGED <<sched, doing, portals, catchAt, pending, uncaught, terminated, calls>>

WaitStep ==
  /\ ~terminated
  /\ CallWait \/ ReadFirst \/ Compare
  /\ UNCHANGED portalVars

Step(j) == ClosePortal(j) \/ Catch(j) \/ End(j)

Next ==
  \/ \E j \in Journeys : Go(j) \/ Step(j) \/ Throw(j) \/ Cancel(j) \/ HandleEvents(j)
  \/ \E j \in Journeys, s \in Schedulers : Teleport(j, s) \/ OpenPortal(j, s)
  \/ \E j \in Journeys, t \in Threads : Arrive(j, t)
  \/ WaitStep

Spec == Init /\ [][Next]_vars

\* The user's code ends, threads take what is queued, the main thread runs on.
Fairness ==
  /\ \A j \in Journeys : WF_vars(Step(j)) /\ WF_vars(\E t \in Threads : Arrive(j, t))
  /\ WF_vars(WaitStep)

FairSpec == Spec /\ Fairness

-----------------------------------------------------------------------------
(* Properties *)

TypeOK ==
  /\ WaitTypeOK
  /\ sched \in [Journeys -> Schedulers]
  /\ thread \in [Journeys -> Threads \cup {None}]
  /\ doing \in [Journeys -> Doings]
  /\ portals \in [Journeys -> Seq(Schedulers)]
  /\ \A j \in Journeys : Unwinding(j) => catchAt[j] \in 0 .. Len(portals[j])
  /\ pending \in [Journeys -> BOOLEAN]
  /\ uncaught \in [Threads -> 0 .. Counts - 1]
  /\ terminated \in BOOLEAN
  /\ \A j \in Journeys : calls[j] \in 0 .. MaxCalls[j]

\* The threads together count the exceptions that are on the way, wherever they
\* were thrown and are caught (journey.cpp:83, portal.cpp:30-33).
CountsBalance ==
  SumFunction(uncaught) % Counts
    = Cardinality({j \in Journeys : Unwinding(j)}) % Counts

\* Exceptions, portals and counts agree.
PortalInv == TypeOK /\ CountsBalance

\* A journey that no exception unwinds is told of its events at context switches
\* (README.md "External Events Handling"; journey.cpp:81-89).
EventsNoticed == \A j \in Journeys : InUserCode(j) => uncaught[thread[j]] = 0

\* Each thread counts the exceptions that unwind the journey it executes.
OwnCounts ==
  \A t \in Threads :
    uncaught[t] = Cardinality({j \in Journeys : thread[j] = t /\ Unwinding(j)})

\* Nothing but a Portal that is left by an exception makes a thread miscount:
\* events, nested portals and teleports do not (journey.cpp:83).
MiscountsOnlyInUnwinding ==
  [][OwnCounts /\ ~OwnCounts'
       => \E j \in Journeys : Unwinding(j) /\ thread[j] # None /\ thread'[j] = None]_vars

\* However its scope is left, a Portal takes a journey no event interrupts back to
\* a thread of the scheduler it was opened in (portal.cpp:23-33).
PortalReturns ==
  [][\A j \in Journeys \ Interruptible :
       Len(portals'[j]) < Len(portals[j])
         => PoolOf[thread'[j]] = Innermost(j) /\ sched'[j] = Innermost(j)]_vars

\* An exception always gets to its catch, through all the portals, unless an event
\* that is thrown in a destructor terminates the program (portal.cpp:30-33).
Caught == \A j \in Journeys : Unwinding(j) ~> ~Unwinding(j) \/ terminated

\* waitForAll() returns (journey.cpp:186-191).
WaitReturns == main = "waiting" ~> main = "returned" \/ terminated

\* Neither an exception nor the main thread is stuck.
PortalProgress == Caught /\ WaitReturns

=============================================================================
