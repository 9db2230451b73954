------------------------------ MODULE Channel ------------------------------
(***************************************************************************)
(* synca::Channel (include/channel.h): a queue of values guarded by a      *)
(* mutex, and a stack of Waiter records that live on the coroutine stacks  *)
(* of the journeys that wait in get().                                     *)
(*                                                                         *)
(* get() keeps the mutex locked while its journey switches out and unlocks *)
(* it in the deferred handler.  Of the journeys this module uses what      *)
(* Journey establishes: the deferred handler runs when the coroutine has   *)
(* been left, and the journey resumes once, after proceed was called.      *)
(***************************************************************************)
EXTENDS Integers, Sequences, FiniteSets

CONSTANTS
  Getters,        \* journeys that call get()
  Putters,        \* journeys or threads that call put()
  Closers,        \* those that call close() and open()
  PutLimit,       \* bound: how many values each putter puts
  Interruptible,  \* getters whose Goer somebody uses
  None

ASSUME ChannelAssumption ==
  /\ PutLimit \in [Putters -> Nat]
  /\ Interruptible \subseteq Getters
  /\ None \notin Getters
  /\ Putters \cap Closers = {}

\* The n-th value putter p puts.
Values == UNION {{p} \X (1 .. PutLimit[p]) : p \in Putters}

VARIABLES
  queue,     \* Channel::queue
  waiters,   \* Channel::waiters, the root first
  closed,    \* Channel::closed
  owner,     \* the getter that keeps the mutex over a switch, or None
  getter,    \* where each getter is
  hasVal,    \* Waiter::val is not null
  val,       \* the variable Waiter::val points to
  got,       \* the values get() has returned
  dropped,   \* history: the values an event has made each getter lose
  sent,      \* how many values each putter has put
  target,    \* the Waiter put() or close() has popped and will proceed
  written,   \* Waiter::val has been assigned to or cleared, proc is called next
  popped     \* the Waiters close() has taken over

channelVars == <<queue, waiters, closed, owner>>
getVars == <<getter, hasVal, val, got, dropped>>
wakeVars == <<target, written, popped>>
vars == <<channelVars, getVars, sent, wakeVars>>

Wakers == Putters \cup Closers

\* Outside of get(); holding the mutex, its Waiter pushed; switching out, the
\* mutex still held; suspended with Waiter::proc set; proc has been called.
GetterPlaces == {"out", "pushed", "leaving", "parked", "proceeded"}

Init ==
  /\ queue = <<>>
  /\ waiters = <<>>
  /\ closed = FALSE
  /\ owner = None
  /\ getter = [g \in Getters |-> "out"]
  /\ hasVal = [g \in Getters |-> FALSE]
  /\ val = [g \in Getters |-> None]
  /\ got = [g \in Getters |-> <<>>]
  /\ dropped = [g \in Getters |-> {}]
  /\ sent = [p \in Putters |-> 0]
  /\ target = [w \in Wakers |-> None]
  /\ written = [w \in Wakers |-> FALSE]
  /\ popped = [c \in Closers |-> <<>>]

Locked == owner # None

Move(g, place) == getter' = [getter EXCEPT ![g] = place]

-----------------------------------------------------------------------------
(* get() *)

\* There is a value.
GetNow(g) ==
  /\ getter[g] = "out" /\ ~Locked
  /\ queue # <<>>
  /\ got' = [got EXCEPT ![g] = Append(@, Head(queue))]
  /\ queue' = Tail(queue)
  /\ UNCHANGED <<waiters, closed, owner, getter, hasVal, val, dropped, sent, wakeVars>>

\* Mutant of Wait: the mutex is unlocked before the journey switches out.
WaitUnlocked(g) ==
  /\ getter[g] = "out" /\ ~Locked
  /\ queue = <<>> /\ ~closed
  /\ waiters' = <<g>> \o waiters
  /\ hasVal' = [hasVal EXCEPT ![g] = TRUE]
  /\ Move(g, "pushed")
  /\ UNCHANGED <<queue, closed, owner, val, got, dropped, sent, wakeVars>>

\* There is none: lock.release() leaves the mutex locked.
Wait(g) ==
  /\ getter[g] = "out" /\ ~Locked
  /\ queue = <<>> /\ ~closed
  /\ waiters' = <<g>> \o waiters
  /\ owner' = g
  /\ hasVal' = [hasVal EXCEPT ![g] = TRUE]
  /\ Move(g, "pushed")
  /\ UNCHANGED <<queue, closed, val, got, dropped, sent, wakeVars>>

\* deferProceed either throws a pending event or switches out.
SwitchOut(g) ==
  /\ getter[g] = "pushed"
  /\ \/ Move(g, "leaving")
     \/ g \in Interruptible /\ Move(g, "out")
  /\ UNCHANGED <<channelVars, hasVal, val, got, dropped, sent, wakeVars>>

\* The deferred handler: w.setProceed, mutex.unlock.
Deferred(g) ==
  /\ getter[g] = "leaving"
  /\ Move(g, "parked")
  /\ owner' = None
  /\ UNCHANGED <<queue, waiters, closed, hasVal, val, got, dropped, sent, wakeVars>>

\* The journey is resumed: get() returns, or a pending event is thrown and what the
\* getter has been handed is lost with its frame.
Return(g) ==
  /\ getter[g] = "proceeded"
  /\ Move(g, "out")
  /\ \/ /\ IF hasVal[g] THEN got' = [got EXCEPT ![g] = Append(@, val[g])]
                        ELSE UNCHANGED got
        /\ UNCHANGED dropped
     \/ /\ g \in Interruptible
        /\ dropped' = [dropped EXCEPT ![g] = @ \cup {v \in {val[g]} : hasVal[g]}]
        /\ UNCHANGED got
  /\ val' = [val EXCEPT ![g] = None]
  /\ hasVal' = [hasVal EXCEPT ![g] = FALSE]
  /\ UNCHANGED <<channelVars, sent, wakeVars>>

-----------------------------------------------------------------------------
(* put() and close() *)

NextValue(p) == <<p, sent[p] + 1>>

\* Mutant of Put: the Waiter stays on the stack.
PutToTop(p) ==
  /\ sent[p] < PutLimit[p]
  /\ target[p] = None /\ ~Locked
  /\ sent' = [sent EXCEPT ![p] = @ + 1]
  /\ \/ /\ waiters = <<>>
        /\ queue' = Append(queue, NextValue(p))
        /\ UNCHANGED target
     \/ /\ waiters # <<>>
        /\ target' = [target EXCEPT ![p] = Head(waiters)]
        /\ UNCHANGED queue
  /\ UNCHANGED <<waiters, closed, owner, getVars, written, popped>>

\* Mutant of Put: the newest value is got first.
PutInFront(p) ==
  /\ sent[p] < PutLimit[p]
  /\ target[p] = None /\ ~Locked
  /\ sent' = [sent EXCEPT ![p] = @ + 1]
  /\ \/ /\ waiters = <<>>
        /\ queue' = <<NextValue(p)>> \o queue
        /\ UNCHANGED <<waiters, target>>
     \/ /\ waiters # <<>>
        /\ waiters' = Tail(waiters)
        /\ target' = [target EXCEPT ![p] = Head(waiters)]
        /\ UNCHANGED queue
  /\ UNCHANGED <<closed, owner, getVars, written, popped>>

\* put() under the mutex: the value is queued, or a Waiter popped for it.
Put(p) ==
  /\ sent[p] < PutLimit[p]
  /\ target[p] = None /\ ~Locked
  /\ sent' = [sent EXCEPT ![p] = @ + 1]
  /\ \/ /\ waiters = <<>>
        /\ queue' = Append(queue, NextValue(p))
        /\ UNCHANGED <<waiters, target>>
     \/ /\ waiters # <<>>
        /\ waiters' = Tail(waiters)
        /\ target' = [target EXCEPT ![p] = Head(waiters)]
        /\ UNCHANGED queue
  /\ UNCHANGED <<closed, owner, getVars, written, popped>>

\* Mutant of Close: the waiting getters are forgotten.
CloseOnly(c) ==
  /\ target[c] = None /\ popped[c] = <<>> /\ ~Locked
  /\ ~closed
  /\ closed' = TRUE
  /\ UNCHANGED <<queue, waiters, owner, getVars, sent, wakeVars>>

\* close() under the mutex: popAll.
Close(c) ==
  /\ target[c] = None /\ popped[c] = <<>> /\ ~Locked
  /\ ~closed
  /\ closed' = TRUE
  /\ popped' = [popped EXCEPT ![c] = waiters]
  /\ waiters' = <<>>
  /\ UNCHANGED <<queue, owner, getVars, sent, target, written>>

\* The loop of close(): ws.pop() reads next before the Waiter is proceeded.
NextWaiter(c) ==
  /\ target[c] = None /\ popped[c] # <<>>
  /\ target' = [target EXCEPT ![c] = Head(popped[c])]
  /\ popped' = [popped EXCEPT ![c] = Tail(@)]
  /\ UNCHANGED <<channelVars, getVars, sent, written>>

\* Waiter::proceed up to proc(): *val = v, or val = nullptr.
Write(w) ==
  /\ target[w] # None /\ ~written[w]
  /\ written' = [written EXCEPT ![w] = TRUE]
  /\ IF w \in Putters
     THEN val' = [val EXCEPT ![target[w]] = <<w, sent[w]>>] /\ UNCHANGED hasVal
     ELSE hasVal' = [hasVal EXCEPT ![target[w]] = FALSE] /\ UNCHANGED val
  /\ UNCHANGED <<channelVars, getter, got, dropped, sent, target, popped>>

\* proc(): the proceed handler of the getter's journey.
Call(w) ==
  /\ written[w]
  /\ Move(target[w], "proceeded")
  /\ target' = [target EXCEPT ![w] = None]
  /\ written' = [written EXCEPT ![w] = FALSE]
  /\ UNCHANGED <<channelVars, hasVal, val, got, dropped, sent, popped>>

Open(c) ==
  /\ target[c] = None /\ popped[c] = <<>> /\ ~Locked
  /\ closed' = FALSE
  /\ UNCHANGED <<queue, waiters, owner, getVars, sent, wakeVars>>

-----------------------------------------------------------------------------

Next ==
  \/ \E g \in Getters : GetNow(g) \/ Wait(g) \/ SwitchOut(g) \/ Deferred(g) \/ Return(g)
  \/ \E p \in Putters : Put(p)
  \/ \E c \in Closers : Close(c) \/ NextWaiter(c) \/ Open(c)
  \/ \E w \in Wakers : Write(w) \/ Call(w)

Spec == Init /\ [][Next]_vars

\* What has been begun inside the channel is carried on: threads run, journeys
\* that switch out do so, and a proceeded journey is resumed.
Fairness ==
  /\ \A g \in Getters : WF_vars(SwitchOut(g) \/ Deferred(g) \/ Return(g))
  /\ \A c \in Closers : WF_vars(NextWaiter(c))
  /\ \A w \in Wakers : WF_vars(Write(w) \/ Call(w))

FairSpec == Spec /\ Fairness

-----------------------------------------------------------------------------
(* Properties *)

TypeOK ==
  /\ queue \in Seq(Values)
  /\ waiters \in Seq(Getters)
  /\ closed \in BOOLEAN
  /\ owner \in Getters \cup {None}
  /\ getter \in [Getters -> GetterPlaces]
  /\ hasVal \in [Getters -> BOOLEAN]
  /\ val \in [Getters -> Values \cup {None}]
  /\ got \in [Getters -> Seq(Values)]
  /\ dropped \in [Getters -> SUBSET Values]
  /\ sent \in [Putters -> Nat] /\ \A p \in Putters : sent[p] <= PutLimit[p]
  /\ target \in [Wakers -> Getters \cup {None}]
  /\ written \in [Wakers -> BOOLEAN]
  /\ popped \in [Closers -> Seq(Getters)]

\* Whoever may follow a pointer to a Waiter finds its getter suspended in get():
\* the record on the coroutine's stack exists and proc has been set
\* (channel.h:119-122, 141-147, 176-179).  Only an event leaves a dead record
\* behind, and then behind a mutex that is never unlocked.
WaitersAlive ==
  /\ \A i \in DOMAIN waiters :
       getter[waiters[i]] = "parked" \/ owner = waiters[i]
  /\ \A w \in Wakers : target[w] # None => getter[target[w]] = "parked"
  /\ \A c \in Closers : \A i \in DOMAIN popped[c] : getter[popped[c][i]] = "parked"

\* A getter waits only in an open channel without values: there is no value
\* nobody is woken for, and no getter close() has missed (channel.h:118-127,
\* 133-143, 173-176).
NoIdleWaiter == waiters # <<>> => queue = <<>> /\ ~closed

\* The waiting getters are those that have to wait, and all of them can be woken.
ChannelInv == TypeOK /\ WaitersAlive /\ NoIdleWaiter

\* The value that is on its way to getter g.
Handed(g) ==
  IF \E p \in Putters : target[p] = g
  THEN LET p == CHOOSE p \in Putters : target[p] = g IN <<<<p, sent[p]>>>>
  ELSE IF getter[g] = "proceeded" /\ hasVal[g] THEN <<val[g]>>
  ELSE <<>>

\* Where value v is between put() and the user of get(), or where it was lost.
Copies(v) ==
  {<<None, i>> : i \in {k \in DOMAIN queue : queue[k] = v}}
    \cup (UNION {{<<g, i>> : i \in {k \in DOMAIN got[g] : got[g][k] = v}} : g \in Getters})
    \cup {<<g, 0>> : g \in {h \in Getters : Handed(h) = <<v>>}}
    \cup {<<g, -1>> : g \in {h \in Interruptible : v \in dropped[h]}}

\* A value that was put is in exactly one place: in the queue, on its way to one
\* getter, returned to one, or lost by one that was handed it and that an event has
\* met before get() returned - by no other cause, and by none for getters nobody
\* interrupts (channel.h:115-149).
Conserved ==
  \A p \in Putters : \A n \in 1 .. sent[p] : Cardinality(Copies(<<p, n>>)) = 1

\* No getter gets two values of one putter in the wrong order, however the
\* wake-ups of the stack of Waiters interleave (channel.h:86-90, 115-128).
InOrder ==
  \A g \in Getters : \A i, k \in DOMAIN got[g] :
    i < k /\ got[g][i][1] = got[g][k][1] => got[g][i][2] < got[g][k][2]

\* Values are neither lost, but to events, nor duplicated, nor overtaken.
Delivered == Conserved /\ InOrder

\* The mutex is held only by a getter on its way out of the coroutine; README.md
\* "Non-blocking asynchronous channels" (channel.h:132-147).
MutexReleased == Locked => getter[owner] \in {"pushed", "leaving"}

Abstract == INSTANCE Conduit WITH
  items <- queue,
  open <- ~closed,
  waiting <- {waiters[i] : i \in DOMAIN waiters},
  received <- [g \in Getters |-> got[g] \o Handed(g)]

\* The channel implements Conduit: whatever happens between popping a Waiter and
\* the return of its get() is invisible, and a value is lost only when an event
\* meets the getter it was handed to.
ImplementsConduit == Abstract!ConduitSpec

\* close() wakes every getter that waits (channel.h:170-180).
CloseWakes ==
  \A g \in Getters :
    closed /\ getter[g] \notin {"out", "proceeded"} ~> getter[g] = "out"

\* The value that meets a waiting getter no event interrupts is what its get()
\* returns (channel.h:39-43, 118-123, 148).
HandedArrives ==
  \A p \in Putters, g \in Getters \ Interruptible : \A n \in 1 .. PutLimit[p] :
    target[p] = g /\ sent[p] = n ~> \E i \in DOMAIN got[g] : got[g][i] = <<p, n>>

\* A get() that waits returns as soon as there is something to return.
WaitersReturn == CloseWakes /\ HandedArrives

=============================================================================
