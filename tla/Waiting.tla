------------------------------ MODULE Waiting ------------------------------
(***************************************************************************)
(* The waiting functions goWait, goAnyWait and goAnyResult and the class   *)
(* Waiter (src/core.cpp, include/core.h): a parent journey starts a child  *)
(* journey per handler, suspends, and is proceeded by what the children    *)
(* share: in goWait and Waiter by the deleter of a pointer each child      *)
(* holds, in goAnyWait by a counter, in goAnyResult by a counter that also *)
(* counts in its destructor.  A Waiter starts its children one by one      *)
(* while the parent goes on; a round of it, from init0 to wait(), is a     *)
(* call of the model.                                                      *)
(*                                                                         *)
(* The handlers, and the variable for the answer, are in the parent's      *)
(* frame, which the loop that starts the children and the children refer   *)
(* to.  When the frame has gone that is undefined; this module goes on     *)
(* with the outcome that the memory still holds what it held.              *)
(*                                                                         *)
(* Of the journeys the module uses what Journey establishes: the deferred  *)
(* handler runs after the switch, and proceed resumes the parent once.     *)
(***************************************************************************)
EXTENDS Naturals, FiniteSets

CONSTANTS
  MaxCalls,     \* bound: calls the parent makes, one after the other
  HandlerCount, \* the number of handlers of each call
  None

Handlers == 1 .. HandlerCount
Calls == 1 .. MaxCalls
Functions == {"goWait", "goAnyWait", "goAnyResult"}
Kinds == Functions \cup {"Waiter"}
Empty == 0  \* boost::optional without a value

ASSUME WaitingAssumption ==
  /\ MaxCalls \in Nat
  /\ HandlerCount \in Nat \ {0}
  /\ None \notin Nat \cup Kinds

VARIABLES
  parent,   \* where the parent is
  call,     \* its current or last call
  kind,     \* which function each call is of
  next,     \* the handler each call will start next
  own,      \* the calls whose loop, or whose Waiter, still holds its pointer
  dead,     \* the calls whose Waiter was destroyed before it had waited
  child,    \* where the child of each call and handler is
  held,     \* the children whose closure, with its shared pointer, exists
  counter,  \* the counter of each call
  answer,   \* index or result: the handler it is from
  resumes   \* how often the parent has been proceeded and not yet resumed

childVars == <<child, held>>
sharedVars == <<counter, answer, resumes>>
vars == <<parent, call, kind, next, own, dead, childVars, sharedVars>>

\* In user code; on its way out of the coroutine; out of it.
ParentPlaces == {"user", "leaving", "suspended"}

\* Its handler came to its end, with a value where it is asked for one, or
\* threw, or ended without a value.
ChildPlaces == {"none", "ready", "running", "returned", "failed"}

Init ==
  /\ parent = "user"
  /\ call = 0
  /\ kind = [c \in Calls |-> None]
  /\ next = [c \in Calls |-> 1]
  /\ own = {}
  /\ dead = {}
  /\ child = [c \in Calls |-> [h \in Handlers |-> "none"]]
  /\ held = {}
  /\ counter = [c \in Calls |-> 0]
  /\ answer = [c \in Calls |-> None]
  /\ resumes = 0

-----------------------------------------------------------------------------
(* What the children share *)

\* Mutant of Count: every child that is done proceeds the parent.
CountEvery(c, value) ==
  /\ counter' = [counter EXCEPT ![c] = @ + 1]
  /\ answer' = [answer EXCEPT ![c] = value]
  /\ resumes' = resumes + 1

\* The first to count leaves the answer and proceeds the parent.
Count(c, value) ==
  /\ counter' = [counter EXCEPT ![c] = @ + 1]
  /\ IF counter[c] = 0
     THEN answer' = [answer EXCEPT ![c] = value] /\ resumes' = resumes + 1
     ELSE UNCHANGED <<answer, resumes>>

\* Who has a pointer to what the children of call c share, with the loop or the
\* Waiter as 0.
Holders(c) ==
  {h \in Handlers : <<c, h>> \in held} \cup IF c \in own THEN {0} ELSE {}

\* Mutant of Destroy: goAnyResult's counter has no destructor.
DestroyOnly(c) ==
  IF kind[c] = "goWait"
  THEN resumes' = resumes + 1 /\ UNCHANGED <<counter, answer>>
  ELSE UNCHANGED sharedVars

\* The deleter of goWait's pointer; of a Waiter's, which proceeds unless
\* ~Waiter has cleared proceed; ~Counter of goAnyResult.
Destroy(c) ==
  \/ /\ kind[c] \in {"goWait", "Waiter"} /\ c \notin dead
     /\ resumes' = resumes + 1
     /\ UNCHANGED <<counter, answer>>
  \/ kind[c] = "goAnyResult" /\ Count(c, Empty)
  \/ (kind[c] = "goAnyWait" \/ c \in dead) /\ UNCHANGED sharedVars

\* Mutant of Release: a copy of the pointer destroys what they share.
ReleaseAnyway(c, x) == Destroy(c)

\* Holder x of call c drops its pointer.
Release(c, x) == IF Holders(c) \subseteq {x} THEN Destroy(c) ELSE UNCHANGED sharedVars

-----------------------------------------------------------------------------
(* The parent *)

\* A round of a Waiter has begun and wait() was not called.
Open == parent = "user" /\ call \in own /\ kind[call] = "Waiter"

\* One of the functions is called; deferProceed leaves the coroutine.
Call(k) ==
  /\ parent = "user" /\ ~Open /\ call < MaxCalls
  /\ parent' = "leaving"
  /\ call' = call + 1
  /\ kind' = [kind EXCEPT ![call + 1] = k]
  /\ UNCHANGED <<next, own, dead, childVars, sharedVars>>

\* The parent has left its coroutine and its deferred handler begins.
BeginLoop ==
  /\ parent = "leaving" /\ kind[call] # "Waiter"
  /\ parent' = "suspended"
  /\ own' = own \cup {call}
  /\ UNCHANGED <<call, kind, next, dead, childVars, sharedVars>>

\* go(), with a closure that holds the shared pointer.
GoChild(c) ==
  /\ next[c] \in Handlers
  /\ next' = [next EXCEPT ![c] = @ + 1]
  /\ child' = [child EXCEPT ![c][next[c]] = "ready"]
  /\ held' = held \cup {<<c, next[c]>>}
  /\ UNCHANGED <<parent, call, kind, own, dead, sharedVars>>

\* The loop starts the next child of the list.
StartChild(c) == c \in own /\ kind[c] # "Waiter" /\ GoChild(c)

EndLoop(c) ==
  /\ c \in own /\ kind[c] # "Waiter" /\ next[c] \notin Handlers
  /\ own' = own \ {c}
  /\ Release(c, 0)
  /\ UNCHANGED <<parent, call, kind, next, dead, childVars>>

-----------------------------------------------------------------------------
(* The parent and its Waiter *)

\* Waiter::init0: the shared pointer of a new round.
Init0 ==
  /\ parent = "user" /\ ~Open /\ call < MaxCalls
  /\ call' = call + 1
  /\ kind' = [kind EXCEPT ![call + 1] = "Waiter"]
  /\ own' = own \cup {call + 1}
  /\ UNCHANGED <<parent, next, dead, childVars, sharedVars>>

\* Waiter::go.
WaiterGo == Open /\ GoChild(call)

\* Mutant of Wait: the children that are done are not looked for.
WaitAlwaysReturns ==
  /\ Open
  /\ own' = own \ {call}
  /\ UNCHANGED <<parent, call, kind, next, dead, childVars, sharedVars>>

\* Waiter::wait: with no child left it returns, and the pointer, unshared, serves
\* the next round; else defer() leaves the coroutine.
Wait ==
  /\ Open
  /\ \/ /\ Holders(call) = {0}
        /\ own' = own \ {call}
        /\ UNCHANGED parent
     \/ /\ Holders(call) # {0}
        /\ parent' = "leaving"
        /\ UNCHANGED own
  /\ UNCHANGED <<call, kind, next, dead, childVars, sharedVars>>

\* The handler wait() has deferred drops the pointer of the Waiter.
DropOwn ==
  /\ parent = "leaving" /\ kind[call] = "Waiter"
  /\ parent' = "suspended"
  /\ own' = own \ {call}
  /\ Release(call, 0)
  /\ UNCHANGED <<call, kind, next, dead, childVars>>

\* ~Waiter of a Waiter that has not waited: an exception of user code, or the
\* event that defer() throws in wait(), passes its scope.
DestroyWaiter ==
  /\ Open
  /\ dead' = dead \cup {call}
  /\ own' = own \ {call}
  /\ UNCHANGED <<parent, call, kind, next, childVars, sharedVars>>

-----------------------------------------------------------------------------
\* The parent is resumed and the function returns, or throws a pending event.
Resume ==
  /\ parent = "suspended" /\ resumes > 0
  /\ parent' = "user"
  /\ resumes' = resumes - 1
  /\ UNCHANGED <<call, kind, next, own, dead, childVars, counter, answer>>

-----------------------------------------------------------------------------
(* The children *)

Become(c, h, place) == child' = [child EXCEPT ![c][h] = place]

Begin(c, h) ==
  /\ child[c][h] = "ready"
  /\ Become(c, h, "running")
  /\ UNCHANGED <<parent, call, kind, next, own, dead, held, sharedVars>>

Return(c, h) ==
  /\ child[c][h] = "running"
  /\ Become(c, h, "returned")
  /\ IF kind[c] \in {"goWait", "Waiter"} THEN UNCHANGED sharedVars ELSE Count(c, h)
  /\ UNCHANGED <<parent, call, kind, next, own, dead, held>>

Fail(c, h) ==
  /\ child[c][h] = "running"
  /\ Become(c, h, "failed")
  /\ UNCHANGED <<parent, call, kind, next, own, dead, held, sharedVars>>

\* The last copy of the child's closure is destroyed.
Drop(c, h) ==
  /\ <<c, h>> \in held
  /\ child[c][h] \in {"returned", "failed"}
  /\ held' = held \ {<<c, h>>}
  /\ Release(c, h)
  /\ UNCHANGED <<parent, call, kind, next, own, dead, child>>

-----------------------------------------------------------------------------

\* Nobody will proceed the parent: every handler of its goAnyWait has thrown.
Abandoned ==
  /\ parent = "suspended" /\ kind[call] = "goAnyWait"
  /\ \A h \in Handlers : child[call][h] = "failed"

Quiet == own = {} /\ held = {} /\ resumes = 0

Next ==
  \/ \E k \in Functions : Call(k)
  \/ Init0 \/ WaiterGo \/ Wait \/ DropOwn \/ DestroyWaiter
  \/ BeginLoop \/ Resume
  \/ \E c \in Calls : StartChild(c) \/ EndLoop(c)
  \/ \E c \in Calls, h \in Handlers :
       Begin(c, h) \/ Return(c, h) \/ Fail(c, h) \/ Drop(c, h)
  \/ Quiet /\ (parent = "user" \/ Abandoned) /\ UNCHANGED vars

Spec == Init /\ [][Next]_vars

\* Journeys are executed and their handlers end.
Fairness ==
  /\ WF_vars(BeginLoop \/ DropOwn) /\ WF_vars(Resume)
  /\ \A c \in Calls : WF_vars(StartChild(c) \/ EndLoop(c))
  /\ \A c \in Calls, h \in Handlers :
       WF_vars(Begin(c, h) \/ Return(c, h) \/ Fail(c, h) \/ Drop(c, h))

FairSpec == Spec /\ Fairness

-----------------------------------------------------------------------------
(* Properties *)

Over(c, h) == child[c][h] \in {"returned", "failed"}

TypeOK ==
  /\ parent \in ParentPlaces
  /\ call \in 0 .. MaxCalls
  /\ kind \in [Calls -> Kinds \cup {None}]
  /\ next \in [Calls -> 1 .. HandlerCount + 1]
  /\ own \subseteq Calls /\ dead \subseteq Calls
  /\ child \in [Calls -> [Handlers -> ChildPlaces]]
  /\ held \subseteq Calls \X Handlers
  /\ counter \in [Calls -> 0 .. HandlerCount + 1]
  /\ answer \in [Calls -> Handlers \cup {Empty, None}]
  /\ resumes \in Nat

\* The parent is proceeded once for each call, while it is suspended in it: the
\* late children of an earlier call, or of a Waiter that was destroyed, do not
\* wake it up (core.cpp:83, 109-112, 134-143, 157-161, core.h:78-87).
ProceededOnce == resumes > 0 => resumes = 1 /\ parent = "suspended"

\* README.md "waits until all handlers complete": goWait and a Waiter's wait()
\* resume the parent behind the end of every handler, even of those that threw,
\* and with the loop or the deferred handler done (core.cpp:80-91, 114-132).
AllAreOver ==
  /\ resumes > 0 /\ kind[call] = "goWait" =>
       call \notin own /\ \A h \in Handlers : Over(call, h)
  /\ resumes > 0 /\ kind[call] = "Waiter" =>
       call \notin own /\ \A h \in 1 .. next[call] - 1 : Over(call, h)

\* The parent is proceeded when it has to be, once.
WaitingInv == TypeOK /\ ProceededOnce /\ AllAreOver

\* What goAnyWait and goAnyResult return is the answer of a handler that has
\* returned it, and goAnyResult is empty-handed only when every handler was
\* (core.cpp:155-166, core.h:95-110).
AnswerIsTrue ==
  resumes > 0 /\ kind[call] \in {"goAnyWait", "goAnyResult"} =>
    \/ answer[call] \in Handlers /\ child[call][answer[call]] = "returned"
    \/ /\ kind[call] = "goAnyResult" /\ answer[call] = Empty
       /\ \A h \in Handlers : child[call][h] = "failed"

\* Somebody may still follow a reference into the frame of call c: the loop to
\* the list of handlers, a child to its handler; a child's pointer to a Waiter.
Refers(c) ==
  IF kind[c] = "Waiter"
  THEN \E h \in Handlers : <<c, h>> \in held
  ELSE \/ c \in own /\ next[c] \in Handlers
       \/ \E h \in Handlers : child[c][h] \in {"ready", "running"}

\* The function, or the Waiter's wait(), has returned.
Returned(c) ==
  kind[c] # None /\ c \notin dead /\ (c = call => parent = "user" /\ ~Open)

\* The frame of goWait is not left while somebody refers to it, and wait() returns,
\* suspended or at once, with no child of the round left whose deleter would
\* use the Waiter (core.cpp:82-88, 121-143).
FrameAlive ==
  \A c \in Calls : kind[c] \in {"goWait", "Waiter"} /\ Refers(c) => ~Returned(c)

\* Every call returns, except a goAnyWait all of whose handlers throw.
Returns == parent = "suspended" ~> parent = "user" \/ Abandoned

=============================================================================
