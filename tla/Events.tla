------------------------------- MODULE Events -------------------------------
(***************************************************************************)
(* The external events of one journey: the status cell its Goers share     *)
(* (src/goer.cpp), handleEvents and what calls it (src/journey.cpp), and   *)
(* the scopes of the user's code that use events, Timeout and EventsGuard  *)
(* (src/core.cpp).                                                         *)
(*                                                                         *)
(* The cell is neither atomic nor locked: a sender reads and then writes   *)
(* it, the journey reads and then resets it, and the four accesses         *)
(* interleave freely.  In the model the cell holds the sender whose event  *)
(* it is, of which the code keeps only the kind.                           *)
(*                                                                         *)
(* External part, a timer of the service: it expires once, which queues    *)
(* its handler; cancelling it does nothing when it has expired.            *)
(***************************************************************************)
EXTENDS Integers, Sequences, FiniteSets

CONSTANTS
  Timers,      \* Timeout objects; each is constructed once
  Cancellers,  \* calls of Goer::cancel
  MaxGuards,   \* bound: EventsGuards open at a time
  None         \* ES_NORMAL

ASSUME EventsAssumption ==
  /\ Timers \cap Cancellers = {}
  /\ None \notin Timers \cup Cancellers
  /\ MaxGuards \in Nat

VARIABLES
  status,   \* Goer::State::status
  sender,   \* where each sender is
  allowed,  \* Journey::eventsAllowed
  code,     \* where the journey is
  caller,   \* who called the handleEvents that is in progress
  event,    \* what Goer::reset has read
  scopes,   \* the open scopes of the user's code, the innermost last
  thrown    \* the events that have been thrown as EventException

userVars == <<allowed, code, caller, event, scopes, thrown>>
vars == <<status, sender, userVars>>

Senders == Timers \cup Cancellers

\* Not begun; its timer runs; its timer was cancelled; its timer has expired and
\* the handler is queued; setStatus0 has seen ES_NORMAL; it returned true, false.
SenderPlaces ==
  {"idle", "armed", "cancelled", "expired", "passed", "accepted", "refused"}

\* In user code; in Goer::reset; an exception unwinds the stack; the journey has
\* ended; std::terminate was called.
CodePlaces == {"user", "reset", "unwind", "ended", "terminated"}

Callers == {"call", "guard", "destructor"}

\* A scope is the Timeout of a timer, or an EventsGuard.
Guard == None

Guards == {i \in DOMAIN scopes : scopes[i] = Guard}

Init ==
  /\ status = None
  /\ sender = [s \in Senders |-> "idle"]
  /\ allowed = TRUE
  /\ code = "user"
  /\ caller = "call"
  /\ event = None
  /\ scopes = <<>>
  /\ thrown = {}

-----------------------------------------------------------------------------
(* Senders *)

Become(s, place) == sender' = [sender EXCEPT ![s] = place]

\* The timer's completion handler is queued without an error.
Expire(t) ==
  /\ sender[t] = "armed"
  /\ Become(t, "expired")
  /\ UNCHANGED <<status, userVars>>

\* Goer::setStatus0 reads the status; a Goer outlives its journey.
Check(s) ==
  /\ sender[s] = IF s \in Timers THEN "expired" ELSE "idle"
  /\ Become(s, IF status = None THEN "passed" ELSE "refused")
  /\ UNCHANGED <<status, userVars>>

\* It writes it and returns true.
Store(s) ==
  /\ sender[s] = "passed"
  /\ status' = s
  /\ Become(s, "accepted")
  /\ UNCHANGED userVars

-----------------------------------------------------------------------------
(* handleEvents *)

\* Called by c outside of an exception: Goer::reset begins, or the events are
\* not allowed and the caller goes on.
Handle(c) ==
  /\ caller' = c
  /\ event' = status
  /\ code' = "reset"

\* An explicit handleEvents(), and the ones in defer().
HandleEvents ==
  /\ code = "user"
  /\ allowed
  /\ Handle("call")
  /\ UNCHANGED <<status, sender, allowed, scopes, thrown>>

\* Mutant of FinishReset: the status is read and never reset.
FinishRead ==
  /\ code = "reset"
  /\ \/ /\ event = None
        /\ code' = "user"
        /\ IF caller = "guard"
           THEN allowed' = FALSE /\ scopes' = Append(scopes, Guard)
           ELSE UNCHANGED <<allowed, scopes>>
        /\ UNCHANGED thrown
     \/ /\ event # None
        /\ code' = IF caller = "destructor" THEN "terminated" ELSE "unwind"
        /\ thrown' = thrown \cup {event}
        /\ UNCHANGED <<allowed, scopes>>
  /\ event' = None
  /\ UNCHANGED <<status, sender, caller>>

\* Goer::reset writes ES_NORMAL.  Without an event the caller goes on: the
\* EventsGuard disables the events.  Otherwise the exception is thrown; a
\* destructor that throws terminates the program.
FinishReset ==
  /\ code = "reset"
  /\ status' = None
  /\ \/ /\ event = None
        /\ code' = "user"
        /\ IF caller = "guard"
           THEN allowed' = FALSE /\ scopes' = Append(scopes, Guard)
           ELSE UNCHANGED <<allowed, scopes>>
        /\ UNCHANGED thrown
     \/ /\ event # None
        /\ code' = IF caller = "destructor" THEN "terminated" ELSE "unwind"
        /\ thrown' = thrown \cup {event}
        /\ UNCHANGED <<allowed, scopes>>
  /\ event' = None
  /\ UNCHANGED <<sender, caller>>

-----------------------------------------------------------------------------
(* Scopes *)

\* Timeout::Timeout
OpenTimeout(t) ==
  /\ code = "user"
  /\ sender[t] = "idle"
  /\ Become(t, "armed")
  /\ scopes' = Append(scopes, t)
  /\ UNCHANGED <<status, allowed, code, caller, event, thrown>>

\* Mutant of OpenGuard: eventsAllowed is cleared before the events are handled.
OpenGuardEarly ==
  /\ code = "user"
  /\ Cardinality(Guards) < MaxGuards
  /\ allowed' = FALSE
  /\ \/ allowed /\ Handle("guard") /\ UNCHANGED scopes
     \/ ~allowed /\ scopes' = Append(scopes, Guard) /\ UNCHANGED <<code, caller, event>>
  /\ UNCHANGED <<status, sender, thrown>>

\* EventsGuard::EventsGuard: disableEvents handles the events first.
OpenGuard ==
  /\ code = "user"
  /\ Cardinality(Guards) < MaxGuards
  /\ \/ allowed /\ Handle("guard") /\ UNCHANGED scopes
     \/ ~allowed /\ scopes' = Append(scopes, Guard) /\ UNCHANGED <<code, caller, event>>
  /\ UNCHANGED <<status, sender, allowed, thrown>>

Top == scopes[Len(scopes)]

\* Mutant of LeaveScope: every scope enables the events at its end.
LeaveScopeEnabled ==
  /\ scopes # <<>>
  /\ scopes' = SubSeq(scopes, 1, Len(scopes) - 1)
  /\ allowed' = TRUE
  /\ IF Top # Guard /\ sender[Top] = "armed" THEN Become(Top, "cancelled")
                                            ELSE UNCHANGED sender

\* Mutant of LeaveScope: ~Timeout lets the timer run.
LeaveScopeOnly ==
  /\ scopes # <<>>
  /\ scopes' = SubSeq(scopes, 1, Len(scopes) - 1)
  /\ allowed' = (allowed \/ Top = Guard)
  /\ UNCHANGED sender

\* What ~Timeout and ~EventsGuard do before they handle events: cancel_one on a
\* timer that has not expired, eventsAllowed.
LeaveScope ==
  /\ scopes # <<>>
  /\ scopes' = SubSeq(scopes, 1, Len(scopes) - 1)
  /\ allowed' = (allowed \/ Top = Guard)
  /\ IF Top # Guard /\ sender[Top] = "armed" THEN Become(Top, "cancelled")
                                            ELSE UNCHANGED sender

\* The end of the innermost scope, without an exception.
CloseScope ==
  /\ code = "user"
  /\ LeaveScope
  /\ IF allowed' THEN Handle("destructor") ELSE UNCHANGED <<code, caller, event>>
  /\ UNCHANGED <<status, thrown>>

\* An exception leaves the innermost scope: handleEvents does nothing while
\* std::uncaught_exception().
Unwind ==
  /\ code = "unwind"
  /\ LeaveScope
  /\ UNCHANGED <<status, code, caller, event, thrown>>

\* The user's code catches the exception, or throws one itself.
Catch ==
  /\ code = "unwind"
  /\ code' = "user"
  /\ UNCHANGED <<status, sender, allowed, caller, event, scopes, thrown>>

Throw ==
  /\ code = "user"
  /\ code' = "unwind"
  /\ UNCHANGED <<status, sender, allowed, caller, event, scopes, thrown>>

\* The handler returns, or start0 catches its exception.
End ==
  /\ code \in {"user", "unwind"}
  /\ scopes = <<>>
  /\ code' = "ended"
  /\ UNCHANGED <<status, sender, allowed, caller, event, scopes, thrown>>

-----------------------------------------------------------------------------

Next ==
  \/ \E t \in Timers : OpenTimeout(t) \/ Expire(t)
  \/ \E s \in Senders : Check(s) \/ Store(s)
  \/ HandleEvents \/ FinishReset
  \/ OpenGuard \/ CloseScope
  \/ Throw \/ Unwind \/ Catch \/ End
  \/ code \in {"ended", "terminated"} /\ UNCHANGED vars

Spec == Init /\ [][Next]_vars

-----------------------------------------------------------------------------
(* Properties *)

TypeOK ==
  /\ status \in Senders \cup {None}
  /\ sender \in [Senders -> SenderPlaces]
  /\ allowed \in BOOLEAN
  /\ code \in CodePlaces
  /\ caller \in Callers
  /\ event \in Senders \cup {None}
  /\ scopes \in Seq(Timers \cup {Guard})
  /\ thrown \subseteq Senders
  /\ code = "ended" => scopes = <<>>

Open(scope) == \E i \in DOMAIN scopes : scopes[i] = scope

\* handleEvents throws an event at most once: what Goer::reset has read was not
\* thrown before, however the accesses of senders and journey interleave.
ThrownOnce == event # None => event \notin thrown

\* Inside the deepest EventsGuard no event is thrown, neither by handleEvents() nor
\* by the end of a Timeout.  Of the guards around it this is not true: the end of
\* an inner guard enables the events inside the outer one.
QuietInGuard ==
  [][thrown' # thrown => Cardinality(Guards) < MaxGuards]_vars

\* When no EventsGuard is open the user's code runs with the events allowed:
\* neither an event thrown by the guard's own constructor nor an exception that
\* leaves the guard leaves them disabled.
AllowedOutside == code = "user" /\ Guards = {} => allowed

\* The flag, the place in the code and the scopes agree.
EventsInv == TypeOK /\ AllowedOutside

\* A timer runs only inside the scope of its Timeout: a journey that has ended
\* or caught an exception leaves none behind.
TimerStopped == \A t \in Timers : sender[t] = "armed" => Open(t)

=============================================================================
