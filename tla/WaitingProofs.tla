--------------------------- MODULE WaitingProofs ---------------------------
(***************************************************************************)
(* What the waiting functions promise, for every number of calls and of    *)
(* handlers: the parent is proceeded once for each call, not before what   *)
(* it waits for, with a true answer, and no frame is left too early.       *)
(***************************************************************************)
EXTENDS Waiting, FiniteSetTheorems, TLAPS

AnyKinds == {"goAnyWait", "goAnyResult"}

\* Nothing has happened to call c but that it may have been called.
Fresh(c) == c \notin own /\ next[c] = 1 /\ counter[c] = 0

\* Calls are made one after the other.
CallsInOrder ==
  \A c \in Calls : /\ c > call => kind[c] = None /\ Fresh(c)
                   /\ c <= call => kind[c] \in Kinds

\* The children that have been started are those before next; one that is not over
\* holds its pointer.
Children ==
  \A c \in Calls : \A h \in Handlers :
    /\ child[c][h] = "none" <=> h >= next[c]
    /\ <<c, h>> \in held => child[c][h] # "none"
    /\ child[c][h] \in {"ready", "running"} => <<c, h>> \in held

\* A loop begins when the parent has left its coroutine, and starts all children.
Loops ==
  \A c \in Calls : kind[c] \in Functions =>
    IF c = call /\ parent = "leaving" THEN Fresh(c)
                                      ELSE c \in own \/ next[c] = HandlerCount + 1

\* A Waiter holds its pointer until the parent has left its coroutine in wait(), or
\* the Waiter is destroyed.
Waiters ==
  /\ \A c \in Calls : kind[c] = "Waiter" /\ c \in own => c = call /\ parent # "suspended"
  /\ parent = "leaving" /\ kind[call] = "Waiter" => call \in own
  /\ \A c \in dead : kind[c] = "Waiter" /\ c \notin own /\ (c = call => parent = "user")

\* Nobody has a pointer to what the children of call c share.
Unshared(c) == c \notin own /\ \A h \in Handlers : <<c, h>> \notin held

\* What call c waits for has happened: what the children share is destroyed, or has
\* counted, or nobody waits for it any more.
Done(c) ==
  IF kind[c] \in AnyKinds THEN counter[c] > 0 ELSE Unshared(c) \/ c \in dead

\* The parent goes on when its call is done, and is proceeded for no other.
Proceeds ==
  /\ parent # "user" => call # 0
  /\ \A c \in Calls : c < call \/ (c = call /\ parent = "user" /\ ~Open) => Done(c)
  /\ resumes = IF parent = "suspended" /\ Done(call) THEN 1 ELSE 0

ReturnedIn(c) == {h \in Handlers : child[c][h] = "returned"}

Destroyed(c) == next[c] = HandlerCount + 1 /\ Unshared(c)

\* Who has counted: the handlers that have returned, and ~Counter.
Counted ==
  \A c \in Calls :
    /\ counter[c] <= Cardinality(ReturnedIn(c)) + IF Destroyed(c) THEN 1 ELSE 0
    /\ kind[c] \in AnyKinds => \A h \in ReturnedIn(c) : counter[c] > 0

\* The first to count leaves an answer that is true.
Answers ==
  \A c \in Calls : kind[c] \in AnyKinds /\ counter[c] > 0 =>
    \/ answer[c] \in ReturnedIn(c)
    \/ /\ kind[c] = "goAnyResult" /\ answer[c] = Empty
       /\ \A h \in Handlers : child[c][h] = "failed"

IInv ==
  /\ TypeOK
  /\ CallsInOrder /\ Children /\ Loops /\ Waiters
  /\ Proceeds /\ Counted /\ Answers

-----------------------------------------------------------------------------
(* Sets of holders and of handlers. *)

LEMMA HoldersFacts ==
  ASSUME NEW c \in Calls
  PROVE  /\ Holders(c) \subseteq {0} <=> \A h \in Handlers : <<c, h>> \notin held
         /\ \A g \in Handlers : Holders(c) \subseteq {g} <=>
              c \notin own /\ \A h \in Handlers : <<c, h>> \in held => h = g
         /\ Holders(c) = {0} <=> c \in own /\ \A h \in Handlers : <<c, h>> \notin held
<1>1. \A x : x \in Holders(c) <=>
               \/ x \in Handlers /\ <<c, x>> \in held
               \/ x = 0 /\ c \in own
  BY DEF Holders
<1>2. 0 \notin Handlers
  BY DEF Handlers
<1> QED BY <1>1, <1>2

LEMMA HandlersAreFinite == IsFiniteSet(Handlers) /\ Cardinality(Handlers) = HandlerCount
  BY WaitingAssumption, FS_Interval DEF Handlers

LEMMA ReturnedBound ==
  ASSUME NEW c \in Calls
  PROVE  /\ IsFiniteSet(ReturnedIn(c)) /\ Cardinality(ReturnedIn(c)) \in Nat
         /\ Cardinality(ReturnedIn(c)) <= HandlerCount
<1>1. ReturnedIn(c) \in SUBSET Handlers
  BY DEF ReturnedIn
<1>2. IsFiniteSet(ReturnedIn(c)) /\ Cardinality(ReturnedIn(c)) <= HandlerCount
  BY <1>1, HandlersAreFinite, FS_Subset
<1> QED BY <1>2, FS_CardinalityType

SharedTypes ==
  /\ counter \in [Calls -> Nat]
  /\ answer \in [Calls -> Handlers \cup {Empty, None}]
  /\ resumes \in Nat

\* The counter stays in its range.
LEMMA CounterRange ==
  ASSUME Counted', counter' \in [Calls -> Nat]
  PROVE  counter' \in [Calls -> 0 .. HandlerCount + 1]
<1> SUFFICES ASSUME NEW c \in Calls PROVE counter'[c] \in 0 .. HandlerCount + 1
  OBVIOUS
<1>1. ReturnedIn(c)' \in SUBSET Handlers
  BY DEF ReturnedIn
<1>2. /\ Cardinality(ReturnedIn(c)') \in Nat /\ Cardinality(ReturnedIn(c)') <= HandlerCount
      /\ HandlerCount \in Nat /\ counter'[c] \in Nat
  BY <1>1, HandlersAreFinite, FS_Subset, FS_CardinalityType, WaitingAssumption
<1>3. counter'[c] <= Cardinality(ReturnedIn(c)') + IF Destroyed(c)' THEN 1 ELSE 0
  BY DEF Counted
<1> QED BY <1>2, <1>3

LEMMA NoChildren ==
  ASSUME Children, NEW c \in Calls, next[c] = 1
  PROVE  \A h \in Handlers : child[c][h] = "none"
<1> SUFFICES ASSUME NEW h \in Handlers PROVE child[c][h] = "none"
  OBVIOUS
<1>1. h >= 1
  BY WaitingAssumption DEF Handlers
<1> QED BY <1>1 DEF Children

\* Counted is kept when nobody counts.
LEMMA CountedStays ==
  ASSUME TypeOK, Counted, counter' = counter,
         \A c \in Calls :
           /\ ReturnedIn(c)' = ReturnedIn(c)
           /\ Destroyed(c) => Destroyed(c)'
           /\ kind'[c] \in AnyKinds => kind[c] \in AnyKinds \/ ReturnedIn(c) = {}
  PROVE  Counted'
<1> SUFFICES ASSUME NEW c \in Calls
             PROVE  /\ counter[c] <= Cardinality(ReturnedIn(c))
                                       + IF Destroyed(c)' THEN 1 ELSE 0
                    /\ kind'[c] \in AnyKinds => \A h \in ReturnedIn(c) : counter[c] > 0
  BY DEF Counted
<1>1. Cardinality(ReturnedIn(c)) \in Nat /\ counter[c] \in Nat
  BY ReturnedBound DEF TypeOK
<1>2. counter[c] <= Cardinality(ReturnedIn(c)) + IF Destroyed(c) THEN 1 ELSE 0
  BY DEF Counted
<1>3. Destroyed(c) => Destroyed(c)'
  OBVIOUS
<1> QED BY <1>1, <1>2, <1>3 DEF Counted

-----------------------------------------------------------------------------

LEMMA InitIInv == Init => IInv
<1> SUFFICES ASSUME Init PROVE IInv
  OBVIOUS
<1> USE WaitingAssumption DEF Init
<1>1. TypeOK
  BY DEF TypeOK, ParentPlaces, ChildPlaces, Kinds, Calls, Handlers, Empty
<1>2. CallsInOrder
  BY DEF CallsInOrder, Fresh, Calls
<1>5. Children /\ Loops /\ Waiters
  BY DEF Children, Loops, Waiters, Handlers, Kinds, Calls, Functions
<1>3. Proceeds
  BY DEF Proceeds, Calls
<1>4. Counted /\ Answers
  <2>1. \A c \in Calls : ReturnedIn(c) = {}
    BY DEF ReturnedIn
  <2>2. \A c \in Calls : Cardinality(ReturnedIn(c)) = 0
    BY <2>1, FS_EmptySet
  <2> QED BY <2>1, <2>2 DEF Counted, Answers
<1> QED BY <1>1, <1>2, <1>3, <1>4, <1>5 DEF IInv

-----------------------------------------------------------------------------
(* The parent. *)

\* A call begins: nothing is known of it, and the one before is done.
LEMMA CallKeeps ==
  ASSUME IInv, NEW k \in Functions, Call(k)
  PROVE  IInv'
<1> USE WaitingAssumption DEF IInv, Call, childVars, sharedVars
<1>1. /\ call + 1 \in Calls /\ call \in Nat /\ parent = "user" /\ ~Open
      /\ \A c \in Calls : c \in Nat /\ (c # call + 1 => kind'[c] = kind[c])
      /\ kind'[call + 1] = k
  BY DEF TypeOK, Calls
<1>2. TypeOK'
  BY <1>1 DEF TypeOK, ParentPlaces, Kinds, Calls
<1>3. CallsInOrder' /\ Children' /\ Loops'
  BY <1>1 DEF CallsInOrder, Children, Loops, Fresh, Kinds
<1>4. Waiters'
  <2>1. \A c \in Calls : kind'[c] = "Waiter" => c \notin own
    BY <1>1 DEF Waiters, CallsInOrder, Fresh, Open, Functions
  <2>2. \A c \in dead : c \in Calls /\ c # call + 1 /\ kind[c] = "Waiter" /\ c \notin own
    BY <1>1 DEF Waiters, CallsInOrder, TypeOK, Kinds
  <2> QED BY <1>1, <2>1, <2>2 DEF Waiters, Functions, TypeOK
<1>5. \A c \in Calls : c # call + 1 => (Done(c)' <=> Done(c))
  BY <1>1 DEF Done, Unshared
<1>6. Proceeds'
  BY <1>1, <1>5 DEF Proceeds
<1>7. \A c \in Calls : ReturnedIn(c)' = ReturnedIn(c) /\ (Destroyed(c) => Destroyed(c)')
  BY DEF ReturnedIn, Destroyed, Unshared
<1>8. ReturnedIn(call + 1) = {} /\ counter[call + 1] = 0
  <2>1. next[call + 1] = 1 /\ counter[call + 1] = 0
    BY <1>1 DEF CallsInOrder, Fresh
  <2>2. \A h \in Handlers : child[call + 1][h] = "none"
    BY <1>1, <2>1, NoChildren
  <2> QED BY <2>1, <2>2 DEF ReturnedIn
<1>9. Counted'
  BY <1>1, <1>7, <1>8, CountedStays
<1>10. Answers'
  BY <1>1, <1>7, <1>8 DEF Answers
<1> QED BY <1>2, <1>3, <1>4, <1>6, <1>9, <1>10

LEMMA Init0Keeps == ASSUME IInv, Init0 PROVE IInv'
<1> USE WaitingAssumption DEF IInv, Init0, childVars, sharedVars
<1>1. /\ call + 1 \in Calls /\ call \in Nat /\ parent = "user" /\ ~Open
      /\ \A c \in Calls : c \in Nat /\ (c # call + 1 => kind'[c] = kind[c])
      /\ kind'[call + 1] = "Waiter"
  BY DEF TypeOK, Calls
<1>2. TypeOK'
  BY <1>1 DEF TypeOK, Kinds, Calls
<1>3. CallsInOrder' /\ Children' /\ Loops'
  BY <1>1 DEF CallsInOrder, Children, Loops, Fresh, Kinds, Functions
<1>4. Waiters'
  <2>1. \A c \in Calls : kind'[c] = "Waiter" /\ c # call + 1 => c \notin own
    BY <1>1 DEF Waiters, CallsInOrder, Fresh, Open
  <2>2. \A c \in dead : c \in Calls /\ c # call + 1 /\ kind[c] = "Waiter" /\ c \notin own
    BY <1>1 DEF Waiters, CallsInOrder, TypeOK, Kinds
  <2> QED BY <1>1, <2>1, <2>2 DEF Waiters, TypeOK
<1>5. \A c \in Calls : c # call + 1 => (Done(c)' <=> Done(c))
  BY <1>1 DEF Done, Unshared
<1>6. Proceeds'
  BY <1>1, <1>5 DEF Proceeds, Open
<1>7. Counted' /\ Answers'
  BY <1>1 DEF Counted, Answers, CallsInOrder, Fresh, ReturnedIn, Destroyed, Unshared,
     Children, AnyKinds
<1> QED BY <1>2, <1>3, <1>4, <1>6, <1>7

LEMMA BeginLoopKeeps == ASSUME IInv, BeginLoop PROVE IInv'
<1> USE WaitingAssumption DEF IInv, BeginLoop, childVars, sharedVars
<1>1. call \in Calls /\ kind[call] \in Functions /\ Fresh(call)
  BY DEF TypeOK, Calls, Proceeds, CallsInOrder, Loops, Kinds
<1>2. TypeOK'
  BY <1>1 DEF TypeOK, ParentPlaces
<1>3. CallsInOrder' /\ Children' /\ Loops' /\ Waiters'
  BY <1>1 DEF CallsInOrder, Children, Loops, Waiters, Fresh, Functions, TypeOK
<1>4. \A c \in Calls : c # call => (Done(c)' <=> Done(c))
  BY DEF Done, Unshared
<1>5. ~Done(call)'
  BY <1>1 DEF Done, Unshared, Fresh, Waiters, Functions
<1>6. Proceeds'
  <2>1. resumes' = 0 /\ call \in Nat /\ \A c \in Calls : c \in Nat
    BY DEF Proceeds, TypeOK, Calls
  <2> QED BY <1>1, <1>4, <1>5, <2>1 DEF Proceeds
<1>7. \A c \in Calls : ReturnedIn(c)' = ReturnedIn(c) /\ (Destroyed(c) => Destroyed(c)')
  BY <1>1 DEF ReturnedIn, Destroyed, Unshared, Fresh
<1>8. Counted'
  BY <1>7, CountedStays
<1>9. Answers'
  BY <1>7 DEF Answers
<1> QED BY <1>2, <1>3, <1>6, <1>8, <1>9

\* A child is started by a loop or a Waiter that holds its pointer.
LEMMA GoChildKeeps ==
  ASSUME IInv, NEW c \in Calls, c \in own, GoChild(c)
  PROVE  IInv'
<1> USE WaitingAssumption DEF IInv, GoChild, sharedVars
<1>1. /\ next[c] \in Nat /\ next'[c] = next[c] + 1 /\ next[c] \in Handlers
      /\ \A d \in Calls : d # c => next'[d] = next[d] /\ child'[d] = child[d]
      /\ child'[c] = [child[c] EXCEPT ![next[c]] = "ready"]
      /\ child[c] \in [Handlers -> ChildPlaces]
      /\ \A d \in Calls : d # c => \A h \in Handlers : <<d, h>> \in held' <=> <<d, h>> \in held
      /\ \A h \in Handlers : <<c, h>> \in held' <=> <<c, h>> \in held \/ h = next[c]
  BY DEF TypeOK, Handlers
<1>10. child[c][next[c]] = "none"
  <2>1. \A h \in Handlers : h >= next[c] => child[c][h] = "none"
    BY DEF Children
  <2> QED BY <1>1, <2>1
<1>2. TypeOK'
  BY <1>1 DEF TypeOK, ChildPlaces, Handlers
<1>3. CallsInOrder' /\ Loops' /\ Waiters'
  BY <1>1 DEF CallsInOrder, Loops, Waiters, Fresh
<1>4. Children'
  <2>1. ASSUME NEW h \in Handlers
        PROVE  /\ child'[c][h] = "none" <=> h >= next'[c]
               /\ <<c, h>> \in held' => child'[c][h] # "none"
               /\ child'[c][h] \in {"ready", "running"} => <<c, h>> \in held'
    BY <1>1, <2>1 DEF Children, Handlers
  <2>2. ASSUME NEW d \in Calls, d # c, NEW h \in Handlers
        PROVE  /\ child'[d][h] = "none" <=> h >= next'[d]
               /\ <<d, h>> \in held' => child'[d][h] # "none"
               /\ child'[d][h] \in {"ready", "running"} => <<d, h>> \in held'
    BY <1>1, <2>2 DEF Children
  <2> QED BY <2>1, <2>2 DEF Children
<1>5. \A d \in Calls : Done(d)' <=> Done(d)
  BY <1>1 DEF Done, Unshared
<1>6. Proceeds'
  BY <1>5 DEF Proceeds, Open, TypeOK, Calls
<1>7. \A d \in Calls : ReturnedIn(d)' = ReturnedIn(d)
  <2>2. \A h \in Handlers : child'[c][h] = "returned" <=> child[c][h] = "returned"
    BY <1>1, <1>10
  <2> QED BY <1>1, <2>2 DEF ReturnedIn
<1>8. Counted'
  BY <1>1, <1>7 DEF Counted, Destroyed, Unshared
<1>9. Answers'
  BY <1>1, <1>7, <1>10 DEF Answers
<1> QED BY <1>2, <1>3, <1>4, <1>6, <1>8, <1>9

LEMMA WaitKeeps == ASSUME IInv, Wait PROVE IInv'
<1> USE WaitingAssumption DEF IInv, Wait, Open, childVars, sharedVars
<1>1. call \in Calls /\ call # 0
  BY DEF TypeOK, Calls
<1>2. TypeOK'
  BY DEF TypeOK, ParentPlaces
<1>3. CallsInOrder' /\ Children' /\ Loops' /\ Waiters'
  BY <1>1 DEF CallsInOrder, Children, Loops, Waiters, Fresh, Functions
<1>4. \A d \in Calls : Done(d) => Done(d)'
  BY DEF Done, Unshared
<1>5. own' # own => Done(call)' /\ parent' = "user"
  BY <1>1, HoldersFacts DEF Done, Unshared, AnyKinds
<1>6. resumes = 0 /\ ~Done(call)
  BY <1>1 DEF Proceeds, Done, Unshared, Waiters, AnyKinds
<1>7. Proceeds'
  BY <1>1, <1>4, <1>5, <1>6 DEF Proceeds
<1>8. Answers'
  BY DEF Answers, ReturnedIn
<1>9. Counted'
  <2>1. \A c \in Calls : ReturnedIn(c)' = ReturnedIn(c) /\ (Destroyed(c) => Destroyed(c)')
    BY DEF ReturnedIn, Destroyed, Unshared
  <2> QED BY <2>1, CountedStays
<1> QED BY <1>2, <1>3, <1>7, <1>8, <1>9

LEMMA DestroyWaiterKeeps == ASSUME IInv, DestroyWaiter PROVE IInv'
<1> USE WaitingAssumption DEF IInv, DestroyWaiter, Open, childVars, sharedVars
<1>1. call \in Calls
  BY DEF TypeOK
<1>2. TypeOK'
  BY <1>1 DEF TypeOK
<1>3. CallsInOrder' /\ Children' /\ Loops' /\ Waiters'
  BY <1>1 DEF CallsInOrder, Children, Loops, Waiters, Fresh, Functions
<1>4. \A d \in Calls : Done(d) => Done(d)'
  BY DEF Done, Unshared
<1>5. Done(call)'
  BY DEF Done, AnyKinds
<1>6. Proceeds'
  BY <1>1, <1>4, <1>5 DEF Proceeds
<1>7. Answers'
  BY DEF Answers, ReturnedIn
<1>8. Counted'
  <2>1. \A c \in Calls : ReturnedIn(c)' = ReturnedIn(c) /\ (Destroyed(c) => Destroyed(c)')
    BY DEF ReturnedIn, Destroyed, Unshared
  <2> QED BY <2>1, CountedStays
<1> QED BY <1>2, <1>3, <1>6, <1>7, <1>8

LEMMA ResumeKeeps == ASSUME IInv, Resume PROVE IInv'
<1> USE WaitingAssumption DEF IInv, Resume, childVars
<1>1. resumes = 1 /\ Done(call) /\ call # 0
  BY DEF Proceeds
<1>2. TypeOK' /\ CallsInOrder' /\ Children' /\ Loops' /\ Waiters'
  BY <1>1 DEF TypeOK, ParentPlaces, CallsInOrder, Children, Loops, Waiters, Fresh
<1>3. \A d \in 0 .. MaxCalls : Done(d)' <=> Done(d)
  BY DEF Done, Unshared
<1>4. Proceeds'
  BY <1>1, <1>3 DEF Proceeds, Calls, TypeOK
<1>5. Counted' /\ Answers'
  BY DEF Counted, Answers, ReturnedIn, Destroyed, Unshared
<1> QED BY <1>2, <1>4, <1>5

-----------------------------------------------------------------------------
(* What the children share. *)

\* Only the call the parent is suspended in is waited for.
LEMMA WaitedFor ==
  ASSUME IInv, NEW c \in Calls, ~Done(c), ~Fresh(c), c = call => ~Open,
         kind[c] = "Waiter" => parent # "leaving"
  PROVE  c = call /\ parent = "suspended" /\ resumes = 0
<1>1. c \in Nat /\ call \in Nat /\ parent \in {"user", "leaving", "suspended"}
  BY DEF IInv, TypeOK, Calls, ParentPlaces
<1>2. c = call /\ parent # "user"
  <2>1. ~(c > call)
    BY DEF IInv, CallsInOrder
  <2> QED BY <1>1, <2>1 DEF IInv, Proceeds
<1>3. parent # "leaving"
  <2> SUFFICES ASSUME parent = "leaving" PROVE FALSE
    OBVIOUS
  <2>1. kind[c] \in Functions
    BY <1>1, <1>2 DEF IInv, CallsInOrder, Kinds
  <2> QED BY <1>2, <2>1 DEF IInv, Loops
<1> QED BY <1>1, <1>2, <1>3 DEF IInv, Proceeds

\* A child of call c, or its pointer, is there: the call is not fresh.
LEMMA StartedIsNotFresh ==
  ASSUME IInv, NEW c \in Calls, NEW h \in Handlers,
         child[c][h] # "none" \/ <<c, h>> \in held
  PROVE  ~Fresh(c)
<1>1. child[c][h] # "none"
  BY DEF IInv, Children
<1> QED BY <1>1, NoChildren DEF IInv, Fresh

\* Somebody drops the pointer x to what the children of call c share: a loop that has
\* started all children, the parent of a Waiter when it has left its coroutine, or
\* a child that is over.  When it is the last one, the parent is proceeded, if it
\* has to be.
LEMMA ReleaseKeeps ==
  ASSUME IInv, NEW c \in Calls, NEW x \in Handlers \cup {0}, Release(c, x),
         \/ /\ x = 0 /\ c \in own
            /\ \/ kind[c] \in Functions /\ next[c] = HandlerCount + 1 /\ parent' = parent
                    /\ ~(c = call /\ parent = "leaving")
               \/ kind[c] = "Waiter" /\ c = call /\ parent = "leaving" /\ parent' = "suspended"
            /\ own' = own \ {c} /\ held' = held
         \/ /\ x \in Handlers /\ <<c, x>> \in held
            /\ child[c][x] \in {"returned", "failed"}
            /\ held' = held \ {<<c, x>>} /\ UNCHANGED <<own, parent>>,
         UNCHANGED <<call, kind, next, dead, child>>
  PROVE  Proceeds' /\ Counted' /\ Answers' /\ SharedTypes'
<1> USE DEF IInv
<1> DEFINE last == Holders(c) \subseteq {x}
<1>1. /\ 0 \notin Handlers /\ call \in 0 .. MaxCalls
      /\ \A d \in Calls : d \in Nat /\ d # 0
      /\ counter \in [Calls -> Nat] /\ resumes \in Nat
  BY DEF Handlers, Calls, TypeOK
<1>2. ~Unshared(c) /\ (last <=> Unshared(c)')
  BY <1>1, HoldersFacts DEF Unshared
<1>3. \A d \in Calls : d # c => (Unshared(d)' <=> Unshared(d))
  BY DEF Unshared
<1>4. \A d \in Calls : ReturnedIn(d)' = ReturnedIn(d) /\ Cardinality(ReturnedIn(d)) \in Nat
  BY ReturnedBound DEF ReturnedIn
<1>5. \A d \in Calls : Destroyed(d) => Destroyed(d)'
  BY <1>2, <1>3 DEF Destroyed
<1>6. ~Fresh(c)
  BY StartedIsNotFresh DEF Fresh
<1>12. SharedTypes'
  <2>1. CASE sharedVars' = sharedVars
    BY <2>1 DEF sharedVars, SharedTypes, TypeOK
  <2>2. CASE sharedVars' = <<counter, answer, resumes + 1>>
    BY <2>2 DEF sharedVars, SharedTypes, TypeOK
  <2>3. CASE Count(c, Empty)
    <3>1. counter' \in [Calls -> Nat]
      BY <1>1, <2>3 DEF Count
    <3>2. answer' \in [Calls -> Handlers \cup {Empty, None}]
      <4>1. answer' = answer \/ answer' = [answer EXCEPT ![c] = Empty]
        BY <2>3 DEF Count
      <4> QED BY <4>1 DEF TypeOK
    <3>3. resumes' \in Nat
      BY <1>1, <2>3 DEF Count
    <3> QED BY <3>1, <3>2, <3>3 DEF SharedTypes
  <2> QED BY <2>1, <2>2, <2>3 DEF Release, Destroy, sharedVars
<1>7. ASSUME sharedVars' = sharedVars, \A d \in Calls : Done(d)' <=> Done(d)
      PROVE  Proceeds' /\ Counted' /\ Answers' /\ SharedTypes'
  <2>1. Counted' /\ Answers'
    BY <1>1, <1>4, <1>5, <1>7, CountedStays DEF sharedVars, Answers
  <2>2. Proceeds'
    <3>1. CASE parent' = parent
      <4>1. Open' <=> Open
        BY <3>1 DEF Open, Functions
      <4>2. call # 0 => call \in Calls
        BY <1>1 DEF Calls
      <4> QED BY <1>1, <1>7, <3>1, <4>1, <4>2 DEF Proceeds, sharedVars
    <3>2. CASE parent' # parent
      <4>1. kind[c] = "Waiter" /\ c = call /\ parent = "leaving" /\ parent' = "suspended"
        BY <3>2
      <4>2. ~Done(call)
        BY <1>2, <4>1 DEF Done, AnyKinds, Waiters
      <4> QED BY <1>1, <1>7, <4>1, <4>2 DEF Proceeds, sharedVars, Open
    <3> QED BY <3>1, <3>2
  <2> QED BY <2>1, <2>2, <1>12
<1>8. CASE ~last
  <2>1. sharedVars' = sharedVars
    BY <1>8 DEF Release, sharedVars
  <2>2. \A d \in Calls : Done(d)' <=> Done(d)
    BY <1>2, <1>3, <1>8, <2>1 DEF Done, sharedVars
  <2> QED BY <1>7, <2>1, <2>2
<1>9. CASE last /\ (kind[c] = "goAnyWait" \/ c \in dead)
  <2>1. sharedVars' = sharedVars
    BY <1>9 DEF Release, Destroy, Waiters, sharedVars
  <2>2. \A d \in Calls : Done(d)' <=> Done(d)
    BY <1>3, <1>9, <2>1 DEF Done, sharedVars, AnyKinds, Waiters
  <2> QED BY <1>7, <2>1, <2>2
<1>10. CASE last /\ kind[c] \in {"goWait", "Waiter"} /\ c \notin dead
  <2>1. ~Done(c) /\ Done(c)' /\ c = call
    BY <1>1, <1>2, <1>6, <1>10, HoldersFacts DEF Done, AnyKinds, Proceeds, Open, CallsInOrder, Fresh
  <2>2. sharedVars' = <<counter, answer, resumes + 1>>
    BY <1>10 DEF Release, Destroy, Waiters, sharedVars
  <2>3. parent # "user"
    <3>1. Open => x = 0
      BY <1>10, <2>1, HoldersFacts DEF Open
    <3> QED BY <1>1, <2>1, <3>1 DEF Proceeds, Functions, Open
  <2>4. parent' = "suspended" /\ resumes = 0
    <3>1. parent = "leaving" => kind[c] = "Waiter" /\ c \in own
      BY <1>6, <1>10, <2>1 DEF Loops, Waiters, Functions
    <3>2. parent = "leaving" => x = 0
      BY <1>1, <1>10, <3>1, HoldersFacts
    <3>3. parent \in {"leaving", "suspended"}
      BY <2>3 DEF TypeOK, ParentPlaces
    <3>4. parent' = "suspended"
      BY <1>1, <2>1, <3>1, <3>2, <3>3 DEF Functions
    <3>5. resumes = 0
      BY <2>1 DEF Proceeds
    <3> QED BY <3>4, <3>5
  <2>5. \A d \in Calls : d # c => (Done(d)' <=> Done(d))
    BY <1>3, <2>2 DEF Done, sharedVars
  <2>6. Proceeds'
    BY <1>1, <2>1, <2>2, <2>4, <2>5 DEF Proceeds, sharedVars
  <2>7. Counted' /\ Answers'
    BY <1>1, <1>4, <1>5, <2>2, CountedStays DEF sharedVars, Answers
  <2> QED BY <2>6, <2>7, <1>12
<1>11. CASE last /\ kind[c] = "goAnyResult" /\ c \notin dead
  <2>1. Count(c, Empty)
    BY <1>11 DEF Release, Destroy
  <2>2. /\ counter' = [counter EXCEPT ![c] = counter[c] + 1]
        /\ counter' \in [Calls -> Nat] /\ counter'[c] = counter[c] + 1
        /\ \A d \in Calls : d # c => counter'[d] = counter[d]
    BY <1>1, <2>1 DEF Count
  <2>3. next[c] = HandlerCount + 1
    BY <1>2, <1>6, <1>11 DEF Loops, Functions, Unshared
  <2>4. Counted'
    <3>1. ~Destroyed(c) /\ Destroyed(c)'
      BY <1>2, <1>11, <2>3 DEF Destroyed
    <3>2. counter[c] <= Cardinality(ReturnedIn(c))
      BY <1>1, <1>4, <3>1 DEF Counted
    <3>3. ASSUME NEW d \in Calls, d # c
          PROVE  counter'[d] <= Cardinality(ReturnedIn(d)) + IF Destroyed(d)' THEN 1 ELSE 0
      <4>1. counter[d] <= Cardinality(ReturnedIn(d)) + IF Destroyed(d) THEN 1 ELSE 0
        BY DEF Counted
      <4> QED BY <1>1, <1>4, <1>5, <2>2, <3>3, <4>1
    <3>4. \A d \in Calls : kind[d] \in AnyKinds => \A h \in ReturnedIn(d) : counter'[d] > 0
      BY <1>1, <2>2 DEF Counted
    <3> QED BY <1>1, <1>4, <2>2, <3>1, <3>2, <3>3, <3>4 DEF Counted
  <2>5. CASE counter[c] = 0
    <3>1. /\ ~Done(c) /\ Done(c)'
          /\ answer' = [answer EXCEPT ![c] = Empty] /\ resumes' = resumes + 1
      BY <1>11, <2>1, <2>2, <2>5 DEF Done, AnyKinds, Count
    <3>2. c = call /\ parent = "suspended" /\ resumes = 0 /\ parent' = parent
      BY <1>6, <1>11, <3>1, WaitedFor DEF Open, Functions
    <3>3. \A d \in Calls : d # c => (Done(d)' <=> Done(d))
      BY <1>3, <2>2 DEF Done
    <3>4. Proceeds'
      BY <1>1, <3>1, <3>2, <3>3 DEF Proceeds
    <3>5. \A h \in Handlers : child[c][h] = "failed"
      <4>1. ASSUME NEW h \in Handlers PROVE child[c][h] \in {"returned", "failed"}
        <5>1. child[c][h] \in ChildPlaces /\ ~(h >= HandlerCount + 1)
          BY WaitingAssumption DEF TypeOK, Handlers
        <5>2. child[c][h] # "none"
          BY <2>3, <5>1 DEF Children
        <5>3. <<c, h>> \in held => h = x
          BY <1>11, HoldersFacts
        <5>4. child[c][h] \in {"ready", "running"} => <<c, h>> \in held
          BY DEF Children
        <5>5. x \in Handlers => child[c][x] \in {"returned", "failed"}
          BY <1>1
        <5> QED BY <5>1, <5>2, <5>3, <5>4, <5>5 DEF ChildPlaces
      <4>2. \A h \in Handlers : child[c][h] # "returned"
        <5>1. \A h \in ReturnedIn(c) : counter[c] > 0
          BY <1>11 DEF Counted, AnyKinds
        <5> QED BY <2>5, <5>1 DEF ReturnedIn
      <4> QED BY <4>1, <4>2
    <3>6. Answers'
      BY <1>4, <1>11, <2>2, <3>1, <3>5 DEF Answers, TypeOK
    <3> QED BY <1>12, <2>4, <3>4, <3>6
  <2>6. CASE counter[c] # 0
    <3>1. answer' = answer /\ resumes' = resumes
      BY <2>1, <2>6 DEF Count
    <3>2. \A d \in Calls : Done(d)' <=> Done(d)
      BY <1>1, <1>3, <1>11, <2>2, <2>6 DEF Done, AnyKinds
    <3>3. parent' = parent /\ (Open' <=> Open) /\ (call # 0 => call \in Calls)
      BY <1>1, <1>11 DEF Open, Calls
    <3>4. Proceeds'
      BY <1>1, <3>1, <3>2, <3>3 DEF Proceeds
    <3>5. Answers'
      BY <1>1, <1>4, <2>2, <2>6, <3>1 DEF Answers
    <3> QED BY <1>12, <2>4, <3>4, <3>5
  <2> QED BY <2>5, <2>6
<1> QED
  <2>1. kind[c] \in Kinds
    BY <1>1, <1>6 DEF CallsInOrder
  <2> QED BY <2>1, <1>8, <1>9, <1>10, <1>11 DEF Kinds, Functions

\* The parent leaves its coroutine in wait(), or a loop ends.
LEMMA DropOwnKeeps == ASSUME IInv, DropOwn PROVE IInv'
<1> USE WaitingAssumption DEF IInv, DropOwn, childVars
<1>1. call \in Calls /\ call \in own
  BY DEF Proceeds, Waiters, TypeOK, Calls
<1>2. CallsInOrder' /\ Children' /\ Loops' /\ Waiters'
  BY <1>1 DEF CallsInOrder, Children, Loops, Waiters, Fresh, Release, Destroy, Count, sharedVars
<1>3. Proceeds' /\ Counted' /\ Answers' /\ SharedTypes'
  BY <1>1, ReleaseKeeps
<1>4. TypeOK'
  <2>1. counter' \in [Calls -> 0 .. HandlerCount + 1]
    BY <1>3, CounterRange DEF SharedTypes
  <2> QED BY <1>3, <2>1 DEF TypeOK, SharedTypes, ParentPlaces
<1> QED BY <1>2, <1>3, <1>4

LEMMA EndLoopKeeps == ASSUME IInv, NEW c \in Calls, EndLoop(c) PROVE IInv'
<1> USE WaitingAssumption DEF IInv, EndLoop, childVars
<1>1. kind[c] \in Functions /\ next[c] = HandlerCount + 1 /\ ~(c = call /\ parent = "leaving")
  <2>1. kind[c] \in Kinds
    BY DEF CallsInOrder, Fresh, TypeOK, Calls
  <2>2. next[c] \in 1 .. HandlerCount + 1
    BY DEF TypeOK
  <2> QED BY <2>1, <2>2 DEF Kinds, Handlers, Loops, Fresh
<1>2. CallsInOrder' /\ Children' /\ Loops' /\ Waiters'
  <2>1. \A d \in Calls : counter'[d] = counter[d] \/ d = c
    BY DEF Release, Destroy, Count, sharedVars, TypeOK
  <2>2. c <= call /\ call \in Nat /\ \A d \in Calls : d \in Nat
    BY DEF CallsInOrder, Fresh, TypeOK, Calls
  <2> QED BY <1>1, <2>1, <2>2 DEF CallsInOrder, Children, Loops, Waiters, Fresh, Functions
<1>3. Proceeds' /\ Counted' /\ Answers' /\ SharedTypes'
  BY <1>1, ReleaseKeeps
<1>4. TypeOK'
  <2>1. counter' \in [Calls -> 0 .. HandlerCount + 1]
    BY <1>3, CounterRange DEF SharedTypes
  <2> QED BY <1>3, <2>1 DEF TypeOK, SharedTypes
<1> QED BY <1>2, <1>3, <1>4

-----------------------------------------------------------------------------
(* The children. *)

LEMMA DropKeeps ==
  ASSUME IInv, NEW c \in Calls, NEW h \in Handlers, Drop(c, h)
  PROVE  IInv'
<1> USE WaitingAssumption DEF IInv, Drop
<1>1. ~Fresh(c)
  BY StartedIsNotFresh
<1>2. CallsInOrder' /\ Children' /\ Loops' /\ Waiters'
  <2>1. \A d \in Calls : counter'[d] = counter[d] \/ d = c
    BY DEF Release, Destroy, Count, sharedVars, TypeOK
  <2>2. ~(c > call) /\ (kind[c] \in Functions => ~(c = call /\ parent = "leaving"))
    BY <1>1 DEF CallsInOrder, Loops
  <2>3. Children'
    BY DEF Children
  <2> QED BY <1>1, <2>1, <2>2, <2>3 DEF CallsInOrder, Loops, Waiters, Fresh
<1>3. Proceeds' /\ Counted' /\ Answers' /\ SharedTypes'
  BY ReleaseKeeps
<1>4. TypeOK'
  <2>1. counter' \in [Calls -> 0 .. HandlerCount + 1]
    BY <1>3, CounterRange DEF SharedTypes
  <2> QED BY <1>3, <2>1 DEF TypeOK, SharedTypes
<1> QED BY <1>2, <1>3, <1>4

\* A child begins, or ends without a value: nobody is told.
LEMMA SilentKeeps ==
  ASSUME IInv, NEW c \in Calls, NEW h \in Handlers, Begin(c, h) \/ Fail(c, h)
  PROVE  IInv'
<1> USE WaitingAssumption DEF IInv, Begin, Fail, Become, sharedVars
<1> DEFINE place == IF child[c][h] = "ready" THEN "running" ELSE "failed"
<1>1. /\ child[c][h] \in {"ready", "running"}
      /\ child' = [child EXCEPT ![c][h] = place]
      /\ UNCHANGED <<parent, call, kind, next, own, dead, held, counter, answer, resumes>>
  OBVIOUS
<1>2. /\ child'[c][h] = place
      /\ \A d \in Calls, g \in Handlers : d # c \/ g # h => child'[d][g] = child[d][g]
      /\ child' \in [Calls -> [Handlers -> ChildPlaces]]
  BY <1>1 DEF TypeOK, ChildPlaces
<1>3. TypeOK' /\ CallsInOrder' /\ Loops' /\ Waiters'
  BY <1>1, <1>2 DEF TypeOK, CallsInOrder, Loops, Waiters, Fresh
<1>4. Children'
  <2> SUFFICES ASSUME NEW d \in Calls, NEW g \in Handlers
               PROVE  /\ child'[d][g] = "none" <=> g >= next[d]
                      /\ <<d, g>> \in held => child'[d][g] # "none"
                      /\ child'[d][g] \in {"ready", "running"} => <<d, g>> \in held
    BY <1>1 DEF Children
  <2>1. /\ child[d][g] = "none" <=> g >= next[d]
        /\ <<d, g>> \in held => child[d][g] # "none"
        /\ child[d][g] \in {"ready", "running"} => <<d, g>> \in held
    BY DEF Children
  <2> QED BY <1>1, <1>2, <2>1
<1>5. \A d \in Calls : (Done(d)' <=> Done(d)) /\ (Destroyed(d)' <=> Destroyed(d))
  BY <1>1 DEF Done, Unshared, Destroyed
<1>6. Proceeds'
  BY <1>1, <1>5 DEF Proceeds, Open, TypeOK, Calls
<1>7. \A d \in Calls : ReturnedIn(d)' = ReturnedIn(d)
  BY <1>1, <1>2 DEF ReturnedIn
<1>8. Counted'
  BY <1>1, <1>5, <1>7, CountedStays
<1>9. Answers'
  BY <1>1, <1>2, <1>7 DEF Answers
<1> QED BY <1>3, <1>4, <1>6, <1>8, <1>9

\* A handler returns, and is the first to count, or not, where they are counted.
LEMMA ReturnKeeps ==
  ASSUME IInv, NEW c \in Calls, NEW h \in Handlers, Return(c, h)
  PROVE  IInv'
<1> USE WaitingAssumption DEF IInv, Return, Become
<1>1. /\ child'[c][h] = "returned" /\ child[c][h] = "running"
      /\ \A d \in Calls, g \in Handlers : d # c \/ g # h => child'[d][g] = child[d][g]
      /\ child' \in [Calls -> [Handlers -> ChildPlaces]]
  BY DEF TypeOK, ChildPlaces
<1>2. ~Fresh(c) /\ kind[c] \in Kinds
  <2>1. ~Fresh(c)
    BY StartedIsNotFresh
  <2>2. c <= call
    BY <2>1 DEF CallsInOrder, TypeOK, Calls
  <2> QED BY <2>1, <2>2 DEF CallsInOrder
<1>3. /\ counter \in [Calls -> Nat] /\ resumes \in Nat /\ call \in 0 .. MaxCalls
      /\ \A d \in Calls : d \in Nat /\ d # 0 /\ (d # c => counter'[d] = counter[d])
  BY DEF TypeOK, Calls, sharedVars, Count
<1>4. CallsInOrder' /\ Loops' /\ Waiters'
  <2>1. ~(c > call) /\ (kind[c] \in Functions => ~(c = call /\ parent = "leaving"))
    BY <1>2 DEF CallsInOrder, Loops
  <2>2. CallsInOrder'
    BY <1>3, <2>1 DEF CallsInOrder, Fresh
  <2>3. Loops' /\ Waiters'
    BY <1>3, <2>1 DEF Loops, Waiters, Fresh
  <2> QED BY <2>2, <2>3
<1>5. Children'
  <2> SUFFICES ASSUME NEW d \in Calls, NEW g \in Handlers
               PROVE  /\ child'[d][g] = "none" <=> g >= next[d]
                      /\ <<d, g>> \in held => child'[d][g] # "none"
                      /\ child'[d][g] \in {"ready", "running"} => <<d, g>> \in held
    BY DEF Children
  <2>1. /\ child[d][g] = "none" <=> g >= next[d]
        /\ <<d, g>> \in held => child[d][g] # "none"
        /\ child[d][g] \in {"ready", "running"} => <<d, g>> \in held
    BY DEF Children
  <2> QED BY <1>1, <2>1
<1>6. /\ \A d \in Calls : d # c => ReturnedIn(d)' = ReturnedIn(d)
      /\ ReturnedIn(c)' = ReturnedIn(c) \cup {h} /\ h \notin ReturnedIn(c)
  BY <1>1 DEF ReturnedIn
<1>7. /\ \A d \in Calls : Cardinality(ReturnedIn(d)) \in Nat
      /\ Cardinality(ReturnedIn(c)') = Cardinality(ReturnedIn(c)) + 1
  BY <1>6, ReturnedBound, FS_AddElement
<1>8. \A d \in Calls : (Unshared(d)' <=> Unshared(d)) /\ (Destroyed(d)' <=> Destroyed(d))
  BY DEF Unshared, Destroyed
<1>9. (Open' <=> Open) /\ (call # 0 => call \in Calls)
  BY <1>3 DEF Open, Calls
<1>10. SharedTypes' /\ Proceeds' /\ Counted' /\ Answers'
  <2>1. CASE kind[c] \in {"goWait", "Waiter"}
    <3>1. UNCHANGED <<counter, answer, resumes>>
      BY <2>1 DEF sharedVars
    <3>2. \A d \in Calls : Done(d)' <=> Done(d)
      BY <1>8, <3>1 DEF Done
    <3>3. Proceeds'
      BY <1>3, <1>9, <3>1, <3>2 DEF Proceeds
    <3>4. Answers'
      BY <1>6, <2>1, <3>1, <1>1 DEF Answers, AnyKinds
    <3>5. Counted'
      <4> SUFFICES ASSUME NEW d \in Calls
                   PROVE  /\ counter[d] <= Cardinality(ReturnedIn(d)')
                                             + IF Destroyed(d)' THEN 1 ELSE 0
                          /\ kind[d] \in AnyKinds => \A g \in ReturnedIn(d)' : counter[d] > 0
        BY <3>1 DEF Counted
      <4>1. counter[d] <= Cardinality(ReturnedIn(d)) + IF Destroyed(d) THEN 1 ELSE 0
        BY DEF Counted
      <4>2. counter[d] <= Cardinality(ReturnedIn(d)') + IF Destroyed(d)' THEN 1 ELSE 0
        BY <1>3, <1>6, <1>7, <1>8, <4>1
      <4>3. kind[d] \in AnyKinds => \A g \in ReturnedIn(d)' : counter[d] > 0
        BY <1>6, <2>1 DEF Counted, AnyKinds
      <4> QED BY <4>2, <4>3
    <3> QED BY <3>1, <3>3, <3>4, <3>5 DEF SharedTypes, TypeOK
  <2>2. CASE kind[c] \in AnyKinds
    <3>1. Count(c, h) /\ kind[c] \notin {"goWait", "Waiter"}
      BY <2>2 DEF AnyKinds
    <3>2. counter'[c] = counter[c] + 1 /\ counter' \in [Calls -> Nat]
      BY <1>3, <3>1 DEF Count
    <3>3. SharedTypes'
      <4>1. answer' = answer \/ answer' = [answer EXCEPT ![c] = h]
        BY <3>1 DEF Count
      <4>2. answer' \in [Calls -> Handlers \cup {Empty, None}]
        BY <4>1 DEF TypeOK
      <4>3. resumes' \in Nat
        BY <1>3, <3>1 DEF Count
      <4> QED BY <3>2, <4>2, <4>3 DEF SharedTypes
    <3>4. Counted'
      <4>1. ASSUME NEW d \in Calls
            PROVE  counter'[d] <= Cardinality(ReturnedIn(d)') + IF Destroyed(d)' THEN 1 ELSE 0
        <5>1. counter[d] <= Cardinality(ReturnedIn(d)) + IF Destroyed(d) THEN 1 ELSE 0
          BY DEF Counted
        <5> QED BY <1>3, <1>6, <1>7, <1>8, <3>2, <5>1
      <4>2. ASSUME NEW d \in Calls, kind[d] \in AnyKinds, NEW g \in ReturnedIn(d)'
            PROVE  counter'[d] > 0
        BY <1>3, <1>6, <3>2, <4>2 DEF Counted
      <4> QED BY <4>1, <4>2 DEF Counted
    <3>5. Answers'
      <4>1. \A d \in Calls : d # c => answer'[d] = answer[d]
        BY <3>1 DEF Count, TypeOK
      <4>2. ASSUME NEW d \in Calls, d # c, kind[d] \in AnyKinds, counter'[d] > 0
            PROVE  \/ answer'[d] \in ReturnedIn(d)'
                   \/ /\ kind[d] = "goAnyResult" /\ answer'[d] = Empty
                      /\ \A g \in Handlers : child'[d][g] = "failed"
        BY <1>1, <1>3, <1>6, <4>1, <4>2 DEF Answers
      <4>3. answer'[c] \in ReturnedIn(c)'
        <5>1. CASE counter[c] = 0
          BY <1>6, <3>1, <5>1 DEF Count, TypeOK
        <5>2. CASE counter[c] # 0
          <6>1. answer'[c] = answer[c] /\ counter[c] > 0
            BY <1>3, <3>1, <5>2 DEF Count
          <6> QED BY <1>1, <1>6, <2>2, <6>1 DEF Answers
        <5> QED BY <5>1, <5>2
      <4> QED BY <4>2, <4>3 DEF Answers
    <3>6. Proceeds'
      <4>1. CASE counter[c] = 0
        <5>1. ~Done(c) /\ Done(c)' /\ resumes' = resumes + 1
          BY <2>2, <3>1, <3>2, <4>1 DEF Done, Count
        <5>2. c = call /\ parent = "suspended" /\ resumes = 0
          BY <1>2, <2>2, <5>1, WaitedFor DEF Open, AnyKinds
        <5>3. \A d \in Calls : d # c => (Done(d)' <=> Done(d))
          BY <1>3, <1>8 DEF Done
        <5> QED BY <1>3, <5>1, <5>2, <5>3 DEF Proceeds
      <4>2. CASE counter[c] # 0
        <5>1. resumes' = resumes
          BY <3>1, <4>2 DEF Count
        <5>2. \A d \in Calls : Done(d)' <=> Done(d)
          BY <1>3, <1>8, <2>2, <3>2, <4>2 DEF Done
        <5> QED BY <1>3, <1>9, <5>1, <5>2 DEF Proceeds
      <4> QED BY <4>1, <4>2
    <3> QED BY <3>3, <3>4, <3>5, <3>6
  <2> QED BY <1>2, <2>1, <2>2 DEF Kinds, Functions, AnyKinds
<1>11. TypeOK'
  <2>1. counter' \in [Calls -> 0 .. HandlerCount + 1]
    BY <1>10, CounterRange DEF SharedTypes
  <2> QED BY <1>1, <1>10, <2>1 DEF TypeOK, SharedTypes
<1> QED BY <1>4, <1>5, <1>10, <1>11

-----------------------------------------------------------------------------

LEMMA StutterKeeps == ASSUME IInv, UNCHANGED vars PROVE IInv'
<1> USE DEF IInv, vars, childVars, sharedVars
<1>1. TypeOK' /\ CallsInOrder' /\ Children' /\ Loops' /\ Waiters'
  BY DEF TypeOK, CallsInOrder, Fresh, Children, Loops, Waiters
<1>2. Proceeds'
  BY DEF Proceeds, Done, Unshared, Open
<1>3. Counted' /\ Answers'
  BY DEF Counted, ReturnedIn, Destroyed, Unshared, Answers
<1> QED BY <1>1, <1>2, <1>3

LEMMA NextIInv == IInv /\ [Next]_vars => IInv'
<1> SUFFICES ASSUME IInv, [Next]_vars PROVE IInv'
  OBVIOUS
<1>1. CASE WaiterGo
  <2>1. call \in own /\ call \in Calls /\ GoChild(call)
    BY <1>1 DEF WaiterGo, Open, IInv, TypeOK
  <2> QED BY <2>1, GoChildKeeps
<1>2. CASE Init0 \/ Wait \/ DropOwn \/ DestroyWaiter \/ BeginLoop \/ Resume
  BY <1>2, Init0Keeps, WaitKeeps, DropOwnKeeps, DestroyWaiterKeeps, BeginLoopKeeps,
     ResumeKeeps
<1>3. ASSUME NEW c \in Calls, StartChild(c) \/ EndLoop(c) PROVE IInv'
  BY <1>3, GoChildKeeps, EndLoopKeeps DEF StartChild
<1>4. ASSUME NEW c \in Calls, NEW h \in Handlers,
             Begin(c, h) \/ Return(c, h) \/ Fail(c, h) \/ Drop(c, h)
      PROVE  IInv'
  BY <1>4, SilentKeeps, ReturnKeeps, DropKeeps
<1>5. CASE UNCHANGED vars
  BY <1>5, StutterKeeps
<1>6. ASSUME NEW k \in Functions, Call(k) PROVE IInv'
  BY <1>6, CallKeeps
<1> QED BY <1>1, <1>2, <1>3, <1>4, <1>5, <1>6 DEF Next

\* The inductive invariant, for every number of calls and of handlers.
THEOREM InductiveInvariant == Spec => []IInv
<1>1. Init => IInv
  BY InitIInv
<1>2. IInv /\ [Next]_vars => IInv'
  BY NextIInv
<1> QED BY <1>1, <1>2, PTL DEF Spec

\* The parent is proceeded once for each call, while it is suspended in it, and by
\* goWait and Waiter::wait not before every child of the call is over.
THEOREM ProceededInTime == Spec => []WaitingInv
<1>1. IInv => WaitingInv
  <2> SUFFICES ASSUME IInv PROVE ProceededOnce /\ AllAreOver
    BY DEF WaitingInv, IInv
  <2>1. ProceededOnce
    BY DEF IInv, Proceeds, ProceededOnce
  <2> SUFFICES ASSUME resumes > 0, kind[call] \in {"goWait", "Waiter"}
               PROVE  AllAreOver
    BY <2>1 DEF AllAreOver
  <2>3. parent = "suspended" /\ Done(call) /\ call \in Calls
    BY WaitingAssumption DEF IInv, Proceeds, TypeOK, Calls
  <2>2. /\ next[call] \in 1 .. HandlerCount + 1 /\ HandlerCount \in Nat
        /\ Handlers = 1 .. HandlerCount
    BY <2>3, WaitingAssumption DEF IInv, TypeOK, Handlers
  <2>4. Unshared(call)
    BY <2>3 DEF IInv, Done, Waiters, AnyKinds
  <2>5. kind[call] = "goWait" => next[call] = HandlerCount + 1
    BY <2>3, <2>4 DEF IInv, Loops, Functions, Unshared
  <2>6. ASSUME NEW h \in Handlers, h < next[call] PROVE Over(call, h)
    <3>1. child[call][h] \in ChildPlaces /\ <<call, h>> \notin held /\ ~(h >= next[call])
      BY <2>2, <2>3, <2>4, <2>6 DEF IInv, TypeOK, Unshared
    <3> QED BY <2>3, <3>1 DEF IInv, Children, ChildPlaces, Over
  <2> QED BY <2>2, <2>4, <2>5, <2>6 DEF Unshared, AllAreOver
<1> QED BY <1>1, InductiveInvariant, PTL

\* goAnyWait and goAnyResult return the answer of a handler that has returned it, and
\* goAnyResult is empty-handed only when every handler was.
THEOREM TrueAnswer == Spec => []AnswerIsTrue
<1>1. IInv => AnswerIsTrue
  <2> SUFFICES ASSUME IInv, resumes > 0, kind[call] \in AnyKinds PROVE AnswerIsTrue
    BY DEF AnswerIsTrue, AnyKinds
  <2>1. Done(call) /\ call \in Calls
    BY DEF IInv, Proceeds, TypeOK, Calls
  <2>2. counter[call] > 0
    BY <2>1 DEF Done
  <2> QED BY <2>1, <2>2 DEF IInv, Answers, ReturnedIn, AnswerIsTrue
<1> QED BY <1>1, InductiveInvariant, PTL

\* goWait does not return, and wait() does not, while somebody may still follow a
\* reference into the frame of the parent.
THEOREM FrameStaysAlive == Spec => []FrameAlive
<1>1. IInv => FrameAlive
  <2> SUFFICES ASSUME IInv, NEW c \in Calls, kind[c] \in {"goWait", "Waiter"}, Returned(c)
               PROVE  ~Refers(c)
    BY DEF FrameAlive
  <2>1. Unshared(c)
    <3>1. ~(c > call) /\ c \in Nat /\ call \in Nat
      BY DEF IInv, CallsInOrder, Returned, TypeOK, Calls
    <3>2. Done(c)
      BY <3>1 DEF IInv, Proceeds, Returned
    <3> QED BY <3>2 DEF Done, Returned, AnyKinds
  <2> QED BY <2>1 DEF IInv, Refers, Unshared, Children
<1> QED BY <1>1, InductiveInvariant, PTL

=============================================================================
