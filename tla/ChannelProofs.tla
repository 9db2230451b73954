--------------------------- MODULE ChannelProofs ---------------------------
(***************************************************************************)
(* What a channel promises, for every number of getters, putters, closers  *)
(* and values: whoever follows a pointer to a Waiter finds it alive, no    *)
(* value is lost - but to an event - or duplicated or overtaken, and the   *)
(* channel implements Conduit.                                             *)
(***************************************************************************)
EXTENDS Channel, FiniteSetTheorems, TLAPS

Listed(s, x) == \E i \in DOMAIN s : s[i] = x

NoDuplicate(s) == \A i, k \in DOMAIN s : s[i] = s[k] => i = k

\* There is one pointer at most to the Waiter of a getter: on the stack, at a closer
\* that has taken over the stack, or at the waker that is about to proceed it.
OnePointer ==
  /\ NoDuplicate(waiters) /\ \A c \in Closers : NoDuplicate(popped[c])
  /\ \A v, w \in Wakers : target[v] = target[w] /\ target[v] # None => v = w
  /\ \A g \in Getters : \A c \in Closers : Listed(popped[c], g) =>
       ~Listed(waiters, g) /\ \A d \in Closers : Listed(popped[d], g) => c = d
  /\ \A w \in Wakers : target[w] # None =>
       ~Listed(waiters, target[w]) /\ \A c \in Closers : ~Listed(popped[c], target[w])

\* The mutex is kept by the getter that is on its way out of its coroutine; or that
\* was on it when an event was thrown, and then for good.
Owned ==
  /\ \A g \in Getters : getter[g] \in {"pushed", "leaving"} => owner = g
  /\ owner # None => getter[owner] \in {"pushed", "leaving", "out"}

\* What is at the end of a pointer to a Waiter: until a closer clears it, val points
\* to the variable of the getter, which a putter has written or will write.
Contents ==
  /\ \A g \in Getters :
       Listed(waiters, g) \/ (\E c \in Closers : Listed(popped[c], g)) => hasVal[g]
  /\ \A w \in Wakers : written[w] => target[w] # None
  /\ \A p \in Putters : target[p] # None =>
       /\ hasVal[target[p]] /\ sent[p] > 0
       /\ written[p] => val[target[p]] = <<p, sent[p]>>
  /\ \A c \in Closers : written[c] => ~hasVal[target[c]]
  /\ \A g \in Getters : getter[g] = "proceeded" /\ hasVal[g] => val[g] \in Values

\* WaitersAlive, without the indices.
Alive ==
  /\ \A g \in Getters : Listed(waiters, g) => getter[g] = "parked" \/ owner = g
  /\ \A w \in Wakers : target[w] # None => getter[target[w]] = "parked"
  /\ \A c \in Closers, g \in Getters : Listed(popped[c], g) => getter[g] = "parked"

IInv ==
  /\ TypeOK /\ Alive /\ NoIdleWaiter
  /\ OnePointer /\ Owned /\ Contents

-----------------------------------------------------------------------------
(* The values on their way. *)

\* What getter g has been handed.
Received(g) == got[g] \o Handed(g)

\* The values of a putter come in the order in which it has put them.
Ordered(s) == \A i, k \in DOMAIN s : i < k /\ s[i][1] = s[k][1] => s[i][2] < s[k][2]

\* The values of a putter are handed to the getters in order, each to one, and those
\* in the queue are newer than all of them.
Flow ==
  /\ Ordered(queue) /\ \A g \in Getters : Ordered(Received(g))
  /\ \A g \in Getters : \A v, w \in Values :
       Listed(Received(g), v) /\ Listed(queue, w) /\ v[1] = w[1] => v[2] < w[2]
  /\ \A g, h \in Getters : \A v \in Values :
       Listed(Received(g), v) /\ Listed(Received(h), v) => g = h
  /\ \A v \in Values : Listed(queue, v) => v[2] <= sent[v[1]]
  /\ \A g \in Getters : \A v \in Values : Listed(Received(g), v) => v[2] <= sent[v[1]]

HandedOut(v) == \E g \in Getters : Listed(Received(g), v)
Gone(v) == \E g \in Interruptible : v \in dropped[g]

\* No value that was put is missing, and one that an event has made a getter lose is
\* nowhere else.
Tracked ==
  /\ \A v \in Values : v[2] <= sent[v[1]] => Listed(queue, v) \/ HandedOut(v) \/ Gone(v)
  /\ \A v \in Values : Gone(v) =>
       v[2] <= sent[v[1]] /\ ~Listed(queue, v) /\ ~HandedOut(v)
  /\ \A g, h \in Interruptible : \A v \in Values : v \in dropped[g] /\ v \in dropped[h] => g = h

-----------------------------------------------------------------------------
(* Sequences. *)

LEMMA HeadAndTail ==
  ASSUME NEW S, NEW s \in Seq(S), s # <<>>
  PROVE  /\ Head(s) \in S /\ Tail(s) \in Seq(S)
         /\ \A x : Listed(s, x) <=> x = Head(s) \/ Listed(Tail(s), x)
         /\ NoDuplicate(s) => NoDuplicate(Tail(s)) /\ ~Listed(Tail(s), Head(s))
<1>1. /\ Len(s) \in Nat \ {0} /\ DOMAIN s = 1 .. Len(s) /\ Head(s) = s[1] /\ Head(s) \in S
      /\ Tail(s) \in Seq(S) /\ DOMAIN Tail(s) = 1 .. Len(s) - 1
      /\ \A i \in 1 .. Len(s) - 1 : Tail(s)[i] = s[i + 1]
  OBVIOUS
<1>2. ASSUME NEW x PROVE Listed(s, x) <=> x = Head(s) \/ Listed(Tail(s), x)
  <2>1. ASSUME NEW i \in DOMAIN s, s[i] = x PROVE x = Head(s) \/ Listed(Tail(s), x)
    <3>1. CASE i = 1
      BY <1>1, <2>1, <3>1
    <3>2. CASE i # 1
      <4>1. i - 1 \in DOMAIN Tail(s) /\ Tail(s)[i - 1] = s[i]
        BY <1>1, <3>2
      <4> QED BY <2>1, <4>1 DEF Listed
    <3> QED BY <3>1, <3>2
  <2>2. ASSUME NEW i \in DOMAIN Tail(s), Tail(s)[i] = x PROVE Listed(s, x)
    BY <1>1, <2>2 DEF Listed
  <2> QED BY <1>1, <2>1, <2>2 DEF Listed
<1>3. NoDuplicate(s) => NoDuplicate(Tail(s)) /\ ~Listed(Tail(s), Head(s))
  BY <1>1 DEF NoDuplicate, Listed
<1> QED BY <1>1, <1>2, <1>3

LEMMA Pushed ==
  ASSUME NEW S, NEW s \in Seq(S), NEW x \in S
  PROVE  /\ <<x>> \o s \in Seq(S) /\ <<x>> \o s # <<>>
         /\ \A y : Listed(<<x>> \o s, y) <=> y = x \/ Listed(s, y)
         /\ NoDuplicate(s) /\ ~Listed(s, x) => NoDuplicate(<<x>> \o s)
<1> DEFINE u == <<x>> \o s
<1>1. /\ u \in Seq(S) /\ u # <<>> /\ Head(u) = x /\ Tail(u) = s
      /\ Len(s) \in Nat /\ DOMAIN s = 1 .. Len(s) /\ DOMAIN u = 1 .. Len(s) + 1
      /\ u[1] = x /\ \A i \in 1 .. Len(s) + 1 : i # 1 => i - 1 \in 1 .. Len(s) /\ u[i] = s[i - 1]
  OBVIOUS
<1>2. NoDuplicate(s) /\ ~Listed(s, x) => NoDuplicate(u)
  BY <1>1 DEF NoDuplicate, Listed
<1> HIDE DEF u
<1>3. \A y : Listed(u, y) <=> y = x \/ Listed(s, y)
  BY <1>1, HeadAndTail
<1> QED BY <1>1, <1>2, <1>3 DEF u

LEMMA Appended ==
  ASSUME NEW S, NEW s \in Seq(S), NEW x \in S
  PROVE  \A y : Listed(Append(s, x), y) <=> Listed(s, y) \/ y = x
<1> DEFINE u == Append(s, x)
<1>1. /\ Len(s) \in Nat /\ DOMAIN s = 1 .. Len(s) /\ DOMAIN u = 1 .. Len(s) + 1
      /\ u[Len(s) + 1] = x /\ \A i \in 1 .. Len(s) : u[i] = s[i]
  OBVIOUS
<1> HIDE DEF u
<1>2. \A y : Listed(u, y) <=> Listed(s, y) \/ y = x
  BY <1>1 DEF Listed
<1> QED BY <1>2 DEF u

-----------------------------------------------------------------------------
(* get(). *)

LEMMA GetNowKeeps == ASSUME IInv, NEW g \in Getters, GetNow(g) PROVE IInv'
<1> USE ChannelAssumption DEF IInv, GetNow, wakeVars
<1>1. /\ Head(queue) \in Values /\ Tail(queue) \in Seq(Values)
      /\ got' \in [Getters -> Seq(Values)]
  BY HeadAndTail DEF TypeOK
<1>2. TypeOK'
  BY <1>1 DEF TypeOK
<1>3. Alive' /\ Owned' /\ Contents'
  BY DEF Alive, Owned, Contents
<1>4. OnePointer' /\ NoIdleWaiter'
  BY DEF OnePointer, NoIdleWaiter
<1> QED BY <1>2, <1>3, <1>4

\* The getters nobody can proceed.
LEMMA OutIsUnreferred ==
  ASSUME IInv, NEW g \in Getters, getter[g] # "parked", owner # g
  PROVE  /\ ~Listed(waiters, g)
         /\ \A w \in Wakers : target[w] # g
         /\ \A c \in Closers : ~Listed(popped[c], g)
  BY ChannelAssumption DEF IInv, Alive

LEMMA WaitKeeps == ASSUME IInv, NEW g \in Getters, Wait(g) PROVE IInv'
<1> USE ChannelAssumption DEF IInv, Wait, Locked, Move, wakeVars
<1>1. /\ ~Listed(waiters, g) /\ \A w \in Wakers : target[w] # g
      /\ \A c \in Closers : ~Listed(popped[c], g)
  BY OutIsUnreferred
<1>2. /\ waiters' \in Seq(Getters) /\ waiters' # <<>>
      /\ \A h : Listed(waiters', h) <=> h = g \/ Listed(waiters, h)
      /\ NoDuplicate(waiters')
  BY <1>1, Pushed DEF TypeOK, OnePointer
<1>3. /\ getter' \in [Getters -> GetterPlaces] /\ hasVal' \in [Getters -> BOOLEAN]
      /\ getter'[g] = "pushed" /\ hasVal'[g] = TRUE
      /\ \A h \in Getters : h # g => getter'[h] = getter[h] /\ hasVal'[h] = hasVal[h]
  BY DEF TypeOK, GetterPlaces
<1>4. TypeOK' /\ NoIdleWaiter'
  BY <1>2, <1>3 DEF TypeOK, NoIdleWaiter
<1>5. \A w \in Wakers : target[w] # None => target[w] \in Getters /\ target[w] # g
  BY <1>1 DEF TypeOK
<1>6. Alive' /\ Owned'
  <2>1. \A h \in Getters : Listed(waiters', h) => getter'[h] = "parked" \/ h = g
    BY <1>2, <1>3 DEF Alive
  <2>2. \A w \in Wakers : target[w] # None => getter'[target[w]] = "parked"
    BY <1>3, <1>5 DEF Alive
  <2>3. \A c \in Closers, h \in Getters : Listed(popped[c], h) => getter'[h] = "parked"
    BY <1>1, <1>3 DEF Alive
  <2>4. Owned'
    BY <1>3 DEF Owned
  <2> QED BY <2>1, <2>2, <2>3, <2>4 DEF Alive
<1>7. OnePointer'
  BY <1>1, <1>2, <1>5 DEF OnePointer
<1>8. Contents'
  <2>1. \A h \in Getters :
          Listed(waiters', h) \/ (\E c \in Closers : Listed(popped[c], h)) => hasVal'[h]
    BY <1>1, <1>2, <1>3 DEF Contents
  <2>2. \A w \in Wakers : target[w] # None => hasVal'[target[w]] = hasVal[target[w]]
    BY <1>3, <1>5
  <2>3. \A h \in Getters : getter'[h] = "proceeded" /\ hasVal'[h] => val[h] \in Values
    BY <1>3 DEF Contents
  <2> QED BY <2>1, <2>2, <2>3 DEF Contents, Wakers
<1> QED BY <1>4, <1>6, <1>7, <1>8

LEMMA SwitchOutKeeps == ASSUME IInv, NEW g \in Getters, SwitchOut(g) PROVE IInv'
<1> USE ChannelAssumption DEF IInv, SwitchOut, Move, channelVars, wakeVars
<1>1. /\ getter' \in [Getters -> GetterPlaces] /\ getter'[g] \in {"leaving", "out"}
      /\ \A h \in Getters : h # g => getter'[h] = getter[h]
  BY DEF TypeOK, GetterPlaces
<1>2. TypeOK' /\ NoIdleWaiter' /\ OnePointer' /\ Owned' /\ Contents'
  BY <1>1 DEF TypeOK, NoIdleWaiter, OnePointer, Owned, Contents
<1>3. Alive'
  BY <1>1 DEF Alive, TypeOK
<1> QED BY <1>2, <1>3

LEMMA DeferredKeeps == ASSUME IInv, NEW g \in Getters, Deferred(g) PROVE IInv'
<1> USE ChannelAssumption DEF IInv, Deferred, Move, wakeVars
<1>1. /\ getter' \in [Getters -> GetterPlaces] /\ getter'[g] = "parked"
      /\ \A h \in Getters : h # g => getter'[h] = getter[h]
  BY DEF TypeOK, GetterPlaces
<1>2. owner = g
  BY DEF Owned
<1>3. TypeOK' /\ NoIdleWaiter'
  BY <1>1 DEF TypeOK, NoIdleWaiter
<1>4. OnePointer' /\ Contents'
  BY <1>1 DEF OnePointer, Contents
<1>5. Alive' /\ Owned'
  BY <1>1, <1>2 DEF Alive, Owned, TypeOK
<1> QED BY <1>3, <1>4, <1>5

LEMMA ReturnKeeps == ASSUME IInv, NEW g \in Getters, Return(g) PROVE IInv'
<1> USE ChannelAssumption DEF IInv, Return, Move, channelVars, wakeVars
<1>1. /\ getter' \in [Getters -> GetterPlaces] /\ hasVal' \in [Getters -> BOOLEAN]
      /\ val' \in [Getters -> Values \cup {None}]
      /\ getter'[g] = "out" /\ hasVal'[g] = FALSE
      /\ \A h \in Getters : h # g => /\ getter'[h] = getter[h] /\ hasVal'[h] = hasVal[h]
                                    /\ val'[h] = val[h]
  BY DEF TypeOK, GetterPlaces
<1>2. owner # g
  BY DEF Owned
<1>3. /\ ~Listed(waiters, g) /\ \A w \in Wakers : target[w] # g
      /\ \A c \in Closers : ~Listed(popped[c], g)
  BY <1>2, OutIsUnreferred
<1>4. got' \in [Getters -> Seq(Values)]
  <2>1. got' = got \/ (val[g] \in Values /\ got' = [got EXCEPT ![g] = Append(got[g], val[g])])
    BY DEF Contents
  <2>2. got[g] \in Seq(Values) /\ got \in [Getters -> Seq(Values)]
    BY DEF TypeOK
  <2>3. val[g] \in Values => Append(got[g], val[g]) \in Seq(Values)
    BY <2>2
  <2> QED BY <2>1, <2>2, <2>3
<1>8. dropped' \in [Getters -> SUBSET Values]
  <2> DEFINE D == {v \in {val[g]} : hasVal[g]}
  <2>1. D \subseteq Values
    BY DEF Contents
  <2>2. dropped' = dropped \/ dropped' = [dropped EXCEPT ![g] = dropped[g] \cup D]
    OBVIOUS
  <2>3. dropped \in [Getters -> SUBSET Values]
    BY DEF TypeOK
  <2> HIDE DEF D
  <2> QED BY ONLY <2>1, <2>2, <2>3, g \in Getters
<1>5. TypeOK' /\ NoIdleWaiter' /\ OnePointer' /\ Owned'
  BY <1>1, <1>4, <1>8 DEF TypeOK, NoIdleWaiter, OnePointer, Owned
<1>6. Alive'
  BY <1>1, <1>3 DEF Alive, TypeOK
<1>7. Contents'
  BY <1>1, <1>3 DEF Contents, TypeOK, Wakers
<1> QED BY <1>5, <1>6, <1>7

-----------------------------------------------------------------------------
(* put() and close(). *)

LEMMA NextValueIsNew ==
  ASSUME TypeOK, NEW p \in Putters, sent[p] < PutLimit[p]
  PROVE  /\ NextValue(p) \in Values /\ sent[p] \in Nat
         /\ NextValue(p)[1] = p /\ NextValue(p)[2] = sent[p] + 1
<1>1. PutLimit[p] \in Nat /\ sent[p] \in Nat
  BY ChannelAssumption DEF TypeOK
<1>2. NextValue(p) \in {p} \X (1 .. PutLimit[p])
  BY <1>1 DEF NextValue
<1> QED BY <1>1, <1>2 DEF Values, NextValue

\* A waker takes over the pointer to a Waiter; the stack it is taken from is empty now,
\* or has one Waiter less.
LEMMA PutKeeps == ASSUME IInv, NEW p \in Putters, Put(p) PROVE IInv'
<1> USE ChannelAssumption DEF IInv, Put, Locked, getVars
<1>1. /\ NextValue(p) \in Values /\ sent[p] \in Nat /\ sent[p] < PutLimit[p]
      /\ PutLimit[p] \in Nat /\ p \in Wakers
  BY NextValueIsNew DEF Wakers
<1>2. /\ sent' \in [Putters -> Nat] /\ sent'[p] = sent[p] + 1
      /\ \A q \in Putters : q # p => sent'[q] = sent[q]
      /\ \A q \in Putters : sent'[q] <= PutLimit[q]
  <2>1. sent \in [Putters -> Nat] /\ \A q \in Putters : sent[q] <= PutLimit[q]
    BY DEF TypeOK
  <2> QED BY <1>1, <2>1
<1>3. written[p] = FALSE
  BY <1>1 DEF Contents, TypeOK
<1>4. CASE waiters = <<>>
  <2>1. UNCHANGED <<waiters, target>> /\ queue' = Append(queue, NextValue(p))
    BY <1>4
  <2>2. TypeOK'
    <3>1. queue' \in Seq(Values)
      BY <1>1, <2>1 DEF TypeOK
    <3> QED BY <1>2, <2>1, <3>1 DEF TypeOK
  <2>3. Alive' /\ NoIdleWaiter' /\ OnePointer' /\ Owned'
    BY <1>4, <2>1 DEF Alive, NoIdleWaiter, OnePointer, Owned
  <2>4. Contents'
    BY <1>2, <2>1 DEF Contents
  <2> QED BY <2>2, <2>3, <2>4
<1>5. CASE waiters # <<>>
  <2> DEFINE g == Head(waiters)
  <2>1. /\ waiters' = Tail(waiters) /\ target' = [target EXCEPT ![p] = g]
        /\ UNCHANGED queue
    BY <1>5
  <2>2. /\ g \in Getters /\ Tail(waiters) \in Seq(Getters)
        /\ \A x : Listed(waiters, x) <=> x = g \/ Listed(Tail(waiters), x)
        /\ NoDuplicate(Tail(waiters)) /\ ~Listed(Tail(waiters), g)
    BY <1>5, HeadAndTail DEF TypeOK, OnePointer
  <2> HIDE DEF g
  <2>3. /\ g # None /\ getter[g] = "parked" /\ hasVal[g]
        /\ \A c \in Closers : ~Listed(popped[c], g)
        /\ \A w \in Wakers : target[w] # g
    BY <2>2 DEF Alive, OnePointer, Contents
  <2>4. /\ target' \in [Wakers -> Getters \cup {None}] /\ target'[p] = g
        /\ \A w \in Wakers : w # p => target'[w] = target[w]
    BY <1>1, <2>1, <2>2 DEF TypeOK
  <2>5. TypeOK'
    BY <1>2, <2>1, <2>2, <2>4 DEF TypeOK
  <2>6. NoIdleWaiter' /\ Owned'
    BY <1>5, <2>1 DEF NoIdleWaiter, Owned
  <2>7. Alive'
    BY <2>1, <2>2, <2>3, <2>4 DEF Alive
  <2>8. OnePointer'
    <3>1. \A v, w \in Wakers : target'[v] = target'[w] /\ target'[v] # None => v = w
      BY <2>3, <2>4 DEF OnePointer
    <3>2. \A w \in Wakers : target'[w] # None =>
            ~Listed(waiters', target'[w]) /\ \A c \in Closers : ~Listed(popped[c], target'[w])
      BY <2>1, <2>2, <2>3, <2>4 DEF OnePointer
    <3>3. \A h \in Getters : \A c \in Closers : Listed(popped[c], h) => ~Listed(waiters', h)
      BY <2>1, <2>2 DEF OnePointer
    <3> QED BY <2>1, <2>2, <3>1, <3>2, <3>3 DEF OnePointer
  <2>9. Contents'
    <3>1. \A h \in Getters : Listed(waiters', h) => Listed(waiters, h)
      BY <2>1, <2>2
    <3>2. \A c \in Closers : c \in Wakers /\ c # p
      BY DEF Wakers
    <3>3. \A q \in Putters : target'[q] # None =>
            /\ hasVal[target'[q]] /\ sent'[q] > 0
            /\ written[q] => val[target'[q]] = <<q, sent'[q]>>
      <4>1. ASSUME NEW q \in Putters, q # p, target[q] # None
            PROVE  /\ hasVal[target[q]] /\ sent[q] > 0
                   /\ written[q] => val[target[q]] = <<q, sent[q]>>
        BY <4>1 DEF Contents
      <4>2. \A q \in Putters : q # p => target'[q] = target[q]
        BY <2>4 DEF Wakers
      <4>3. target'[p] = g /\ hasVal[g] /\ sent'[p] > 0 /\ ~written[p]
        BY <1>1, <1>2, <1>3, <2>3, <2>4
      <4> QED BY <1>2, <4>1, <4>2, <4>3
    <3>4. \A w \in Wakers : written[w] => target'[w] # None
      BY <1>3, <2>4 DEF Contents
    <3>5. \A c \in Closers : written[c] => ~hasVal[target'[c]]
      BY <2>4, <3>2 DEF Contents
    <3> QED BY <3>1, <3>3, <3>4, <3>5 DEF Contents
  <2> QED BY <2>5, <2>6, <2>7, <2>8, <2>9
<1> QED BY <1>4, <1>5

LEMMA CloseKeeps == ASSUME IInv, NEW c \in Closers, Close(c) PROVE IInv'
<1> USE ChannelAssumption DEF IInv, Close, Locked, getVars
<1>1. /\ popped' \in [Closers -> Seq(Getters)] /\ popped'[c] = waiters
      /\ \A d \in Closers : d # c => popped'[d] = popped[d]
      /\ \A x : ~Listed(<<>>, x) /\ NoDuplicate(<<>>)
  BY DEF TypeOK, Listed, NoDuplicate
<1>2. \A x : ~Listed(popped[c], x)
  BY DEF Listed
<1>3. TypeOK' /\ NoIdleWaiter' /\ Owned'
  BY <1>1 DEF TypeOK, NoIdleWaiter, Owned
<1>4. Alive'
  BY <1>1 DEF Alive
<1>5. OnePointer'
  BY <1>1, <1>2 DEF OnePointer
<1>6. Contents'
  BY <1>1, <1>2 DEF Contents
<1> QED BY <1>3, <1>4, <1>5, <1>6

LEMMA NextWaiterKeeps == ASSUME IInv, NEW c \in Closers, NextWaiter(c) PROVE IInv'
<1> USE ChannelAssumption DEF IInv, NextWaiter, getVars, channelVars
<1> DEFINE g == Head(popped[c])
<1>1. /\ popped' = [popped EXCEPT ![c] = Tail(popped[c])]
      /\ target' = [target EXCEPT ![c] = g]
      /\ popped[c] # <<>> /\ popped[c] \in Seq(Getters) /\ c \in Wakers
  BY DEF TypeOK, Wakers
<1>2. /\ g \in Getters /\ Tail(popped[c]) \in Seq(Getters)
      /\ \A x : Listed(popped[c], x) <=> x = g \/ Listed(Tail(popped[c]), x)
      /\ NoDuplicate(Tail(popped[c])) /\ ~Listed(Tail(popped[c]), g)
  BY <1>1, HeadAndTail DEF OnePointer
<1> HIDE DEF g
<1>3. /\ g # None /\ getter[g] = "parked" /\ ~Listed(waiters, g)
      /\ \A d \in Closers : d # c => ~Listed(popped[d], g)
      /\ \A w \in Wakers : target[w] # g
  BY <1>2 DEF Alive, OnePointer
<1>4. /\ target' \in [Wakers -> Getters \cup {None}] /\ target'[c] = g
      /\ \A w \in Wakers : w # c => target'[w] = target[w]
      /\ popped' \in [Closers -> Seq(Getters)] /\ popped'[c] = Tail(popped[c])
      /\ \A d \in Closers : d # c => popped'[d] = popped[d]
  BY <1>1, <1>2 DEF TypeOK
<1>5. \A d \in Closers : \A x :
        Listed(popped'[d], x) => Listed(popped[d], x) /\ (d = c => x # g)
  BY <1>2, <1>4
<1>6. TypeOK' /\ NoIdleWaiter' /\ Owned'
  BY <1>4 DEF TypeOK, NoIdleWaiter, Owned
<1>7. Alive'
  BY <1>3, <1>4, <1>5 DEF Alive
<1>8. OnePointer'
  <2>1. \A v, w \in Wakers : target'[v] = target'[w] /\ target'[v] # None => v = w
    BY <1>3, <1>4 DEF OnePointer
  <2>2. \A w \in Wakers : target'[w] # None =>
          ~Listed(waiters, target'[w]) /\ \A d \in Closers : ~Listed(popped'[d], target'[w])
    BY <1>3, <1>4, <1>5 DEF OnePointer
  <2>3. \A h \in Getters : \A d \in Closers : Listed(popped'[d], h) =>
          ~Listed(waiters, h) /\ \A e \in Closers : Listed(popped'[e], h) => d = e
    BY <1>5 DEF OnePointer
  <2>4. \A d \in Closers : NoDuplicate(popped'[d])
    BY <1>2, <1>4 DEF OnePointer
  <2> QED BY <2>1, <2>2, <2>3, <2>4 DEF OnePointer
<1>9. Contents'
  <2>1. \A p \in Putters : p \in Wakers /\ target'[p] = target[p]
    BY <1>4 DEF Wakers
  <2>2. written[c] = FALSE
    BY <1>1 DEF Contents, TypeOK
  <2>3. \A d \in Closers : d \in Wakers
    BY DEF Wakers
  <2>4. \A w \in Wakers : written[w] => target'[w] # None /\ target'[w] = target[w]
    BY <1>4, <2>2 DEF Contents
  <2> QED BY <1>5, <2>1, <2>3, <2>4 DEF Contents
<1> QED BY <1>6, <1>7, <1>8, <1>9

LEMMA WriteKeeps == ASSUME IInv, NEW w \in Wakers, Write(w) PROVE IInv'
<1> USE ChannelAssumption DEF IInv, Write, channelVars
<1> DEFINE g == target[w]
<1>1. /\ g \in Getters /\ g # None /\ getter[g] = "parked"
      /\ ~Listed(waiters, g) /\ \A c \in Closers : ~Listed(popped[c], g)
      /\ \A v \in Wakers : v # w => target[v] # g
  BY DEF Alive, OnePointer, TypeOK
<1>2. /\ written' \in [Wakers -> BOOLEAN] /\ written'[w] = TRUE
      /\ \A v \in Wakers : v # w => written'[v] = written[v]
  BY DEF TypeOK
<1>3. w \in Putters => sent[w] \in 1 .. PutLimit[w] /\ <<w, sent[w]>> \in Values
  <2> SUFFICES ASSUME w \in Putters PROVE sent[w] \in 1 .. PutLimit[w] /\ <<w, sent[w]>> \in Values
    OBVIOUS
  <2>1. sent[w] \in Nat /\ sent[w] <= PutLimit[w] /\ PutLimit[w] \in Nat /\ sent[w] > 0
    BY DEF TypeOK, Contents
  <2>2. <<w, sent[w]>> \in {w} \X (1 .. PutLimit[w])
    BY <2>1
  <2> QED BY <2>1, <2>2 DEF Values
<1>4. /\ hasVal' \in [Getters -> BOOLEAN] /\ val' \in [Getters -> Values \cup {None}]
      /\ \A h \in Getters : h # g => hasVal'[h] = hasVal[h] /\ val'[h] = val[h]
      /\ w \in Putters => hasVal' = hasVal /\ val'[g] = <<w, sent[w]>>
      /\ w \notin Putters => ~hasVal'[g]
  <2>1. CASE w \in Putters
    BY <1>1, <1>3, <2>1 DEF TypeOK
  <2>2. CASE w \notin Putters
    BY <1>1, <2>2 DEF TypeOK
  <2> QED BY <2>1, <2>2
<1>5. TypeOK' /\ NoIdleWaiter' /\ Owned' /\ Alive'
  BY <1>2, <1>4 DEF TypeOK, NoIdleWaiter, Owned, Alive
<1>6. OnePointer'
  BY DEF OnePointer
<1> HIDE DEF g
<1>7. Contents'
  <2>1. \A h \in Getters :
          Listed(waiters, h) \/ (\E c \in Closers : Listed(popped[c], h)) => hasVal'[h]
    BY <1>1, <1>4 DEF Contents
  <2>2. \A v \in Wakers : written'[v] => target[v] # None
    BY <1>1, <1>2 DEF Contents, g
  <2>3. ASSUME NEW p \in Putters, target[p] # None
        PROVE  /\ hasVal'[target[p]] /\ sent[p] > 0
               /\ written'[p] => val'[target[p]] = <<p, sent[p]>>
    <3>1. CASE p = w
      BY <1>4, <2>3, <3>1 DEF Contents, g
    <3>2. CASE p # w
      <4>1. p \in Wakers /\ target[p] \in Getters /\ target[p] # g
        BY <1>1, <2>3, <3>2 DEF Wakers, TypeOK
      <4> QED BY <1>2, <1>4, <2>3, <3>2, <4>1 DEF Contents
    <3> QED BY <3>1, <3>2
  <2>4. ASSUME NEW c \in Closers, written'[c] PROVE ~hasVal'[target[c]]
    <3>1. CASE c = w
      BY <1>4, <3>1 DEF g
    <3>2. CASE c # w
      <4>1. c \in Wakers /\ written[c]
        BY <1>2, <2>4, <3>2 DEF Wakers
      <4>2. target[c] \in Getters /\ target[c] # g
        BY <1>1, <3>2, <4>1 DEF Contents, TypeOK
      <4> QED BY <1>4, <4>1, <4>2 DEF Contents
    <3> QED BY <3>1, <3>2
  <2>5. \A h \in Getters : getter[h] = "proceeded" /\ hasVal'[h] => val'[h] \in Values
    BY <1>1, <1>4 DEF Contents
  <2> QED BY <2>1, <2>2, <2>3, <2>4, <2>5 DEF Contents
<1> QED BY <1>5, <1>6, <1>7

LEMMA CallKeeps == ASSUME IInv, NEW w \in Wakers, Call(w) PROVE IInv'
<1> USE ChannelAssumption DEF IInv, Call, Move, channelVars
<1> DEFINE g == target[w]
<1>1. /\ g \in Getters /\ g # None /\ getter[g] = "parked"
      /\ ~Listed(waiters, g) /\ \A c \in Closers : ~Listed(popped[c], g)
      /\ \A v \in Wakers : v # w => target[v] # g
  BY DEF Alive, OnePointer, Contents, TypeOK
<1>2. /\ written' \in [Wakers -> BOOLEAN] /\ written'[w] = FALSE
      /\ \A v \in Wakers : v # w => written'[v] = written[v]
      /\ target' \in [Wakers -> Getters \cup {None}] /\ target'[w] = None
      /\ \A v \in Wakers : v # w => target'[v] = target[v]
  BY DEF TypeOK
<1>3. /\ getter' \in [Getters -> GetterPlaces] /\ getter'[g] = "proceeded"
      /\ \A h \in Getters : h # g => getter'[h] = getter[h]
  BY <1>1 DEF TypeOK, GetterPlaces
<1>4. TypeOK' /\ NoIdleWaiter'
  BY <1>2, <1>3 DEF TypeOK, NoIdleWaiter
<1>5. hasVal[g] => val[g] \in Values
  <2>1. CASE w \in Putters
    <3>1. val[g] = <<w, sent[w]>> /\ sent[w] > 0
      BY <1>1, <2>1 DEF Contents
    <3>2. sent[w] \in Nat /\ sent[w] <= PutLimit[w] /\ PutLimit[w] \in Nat
      BY <2>1 DEF TypeOK
    <3>3. <<w, sent[w]>> \in {w} \X (1 .. PutLimit[w])
      BY <3>1, <3>2
    <3> QED BY <2>1, <3>1, <3>3 DEF Values
  <2>2. CASE w \in Closers
    BY <2>2 DEF Contents
  <2> QED BY <2>1, <2>2 DEF Wakers
<1> HIDE DEF g
<1>6. owner # g
  BY <1>1 DEF Owned
<1>7. Owned'
  BY <1>1, <1>3, <1>6 DEF Owned, TypeOK
<1>8. Alive'
  <2>1. \A v \in Wakers : target'[v] # None => target'[v] = target[v] /\ target[v] # g
    BY <1>1, <1>2
  <2>2. \A v \in Wakers : target'[v] # None => getter'[target'[v]] = "parked"
    BY <1>2, <1>3, <2>1 DEF Alive, TypeOK
  <2>3. \A h \in Getters : Listed(waiters, h) => h # g
    BY <1>1
  <2> QED BY <1>1, <1>3, <2>2, <2>3 DEF Alive
<1>9. OnePointer'
  BY <1>2 DEF OnePointer
<1>10. Contents'
  <2>1. \A v \in Wakers : written'[v] => v # w
    BY <1>2
  <2>2. \A v \in Wakers : target'[v] # None => v # w
    BY <1>2
  <2>3. \A v \in Wakers : written'[v] => target'[v] # None
    BY <1>2, <2>1 DEF Contents
  <2>4. \A h \in Getters : getter'[h] = "proceeded" /\ hasVal[h] => val[h] \in Values
    BY <1>3, <1>5 DEF Contents
  <2>5. \A p \in Putters : p \in Wakers
    BY DEF Wakers
  <2>6. \A c \in Closers : c \in Wakers
    BY DEF Wakers
  <2>7. ASSUME NEW p \in Putters, target'[p] # None
        PROVE  /\ hasVal[target'[p]] /\ sent[p] > 0
               /\ written'[p] => val[target'[p]] = <<p, sent[p]>>
    BY <1>2, <2>2, <2>5, <2>7 DEF Contents
  <2>8. \A c \in Closers : written'[c] => ~hasVal[target'[c]]
    BY <1>2, <2>1, <2>6 DEF Contents
  <2> QED BY <2>3, <2>4, <2>7, <2>8 DEF Contents
<1> QED BY <1>4, <1>7, <1>8, <1>9, <1>10

-----------------------------------------------------------------------------

LEMMA NextIInv == IInv /\ [Next]_vars => IInv'
<1> SUFFICES ASSUME IInv, [Next]_vars PROVE IInv'
  OBVIOUS
<1>1. ASSUME NEW g \in Getters, GetNow(g) \/ Wait(g) \/ SwitchOut(g) \/ Deferred(g) \/ Return(g)
      PROVE  IInv'
  BY <1>1, GetNowKeeps, WaitKeeps, SwitchOutKeeps, DeferredKeeps, ReturnKeeps
<1>2. ASSUME NEW p \in Putters, Put(p) PROVE IInv'
  BY <1>2, PutKeeps
<1>3. ASSUME NEW c \in Closers, Close(c) \/ NextWaiter(c) PROVE IInv'
  BY <1>3, CloseKeeps, NextWaiterKeeps
<1>4. ASSUME NEW w \in Wakers, Write(w) \/ Call(w) PROVE IInv'
  BY <1>4, WriteKeeps, CallKeeps
<1>5. ASSUME NEW c \in Closers, Open(c) PROVE IInv'
  <2>1. TypeOK' /\ Alive' /\ NoIdleWaiter'
    BY <1>5 DEF Open, IInv, getVars, wakeVars, TypeOK, Alive, NoIdleWaiter
  <2>2. OnePointer' /\ Owned' /\ Contents'
    BY <1>5 DEF Open, IInv, getVars, wakeVars, OnePointer, Owned, Contents
  <2> QED BY <2>1, <2>2 DEF IInv
<1>6. CASE UNCHANGED vars
  <2>1. TypeOK' /\ Alive' /\ NoIdleWaiter'
    BY <1>6 DEF vars, channelVars, getVars, wakeVars, IInv, TypeOK, Alive, NoIdleWaiter
  <2>2. OnePointer' /\ Owned' /\ Contents'
    BY <1>6 DEF vars, channelVars, getVars, wakeVars, IInv, OnePointer, Owned, Contents
  <2> QED BY <2>1, <2>2 DEF IInv
<1> QED BY <1>1, <1>2, <1>3, <1>4, <1>5, <1>6 DEF Next

LEMMA InitIInv == Init => IInv
<1> SUFFICES ASSUME Init PROVE IInv
  OBVIOUS
<1> USE ChannelAssumption DEF Init
<1>1. TypeOK
  <2>1. \A p \in Putters : sent[p] = 0 /\ sent[p] <= PutLimit[p]
    OBVIOUS
  <2>2. /\ queue \in Seq(Values) /\ waiters \in Seq(Getters)
        /\ got \in [Getters -> Seq(Values)] /\ popped \in [Closers -> Seq(Getters)]
    OBVIOUS
  <2> QED BY <2>1, <2>2 DEF TypeOK, GetterPlaces
<1>2. Alive /\ NoIdleWaiter /\ OnePointer /\ Owned /\ Contents
  BY DEF Alive, NoIdleWaiter, OnePointer, Owned, Contents, Listed, NoDuplicate, Wakers
<1> QED BY <1>1, <1>2 DEF IInv

\* The inductive invariant, for every number of getters, putters, closers and values.
THEOREM InductiveInvariant == Spec => []IInv
  BY InitIInv, NextIInv, PTL DEF Spec

\* Whoever may follow a pointer to a Waiter finds its getter suspended in get(), and a
\* getter waits only in an open channel without values.
THEOREM WaitersAreAlive == Spec => []ChannelInv
<1>1. IInv => ChannelInv
  <2> SUFFICES ASSUME IInv PROVE WaitersAlive
    BY DEF IInv, ChannelInv
  <2>1. \A i \in DOMAIN waiters : waiters[i] \in Getters /\ Listed(waiters, waiters[i])
    BY DEF IInv, TypeOK, Listed
  <2>2. \A c \in Closers : \A i \in DOMAIN popped[c] :
          popped[c][i] \in Getters /\ Listed(popped[c], popped[c][i])
    BY DEF IInv, TypeOK, Listed
  <2> QED BY <2>1, <2>2 DEF IInv, Alive, WaitersAlive
<1> QED BY <1>1, InductiveInvariant, PTL

\* The mutex is released when no event meets a get() that waits: the event is the only
\* way to leave it locked.
THEOREM MutexReleasedWithoutEvents ==
  ASSUME Interruptible = {}
  PROVE  Spec => []MutexReleased
<1>1. Init => MutexReleased
  BY DEF Init, MutexReleased, Locked
<1>2. IInv /\ MutexReleased /\ [Next]_vars => MutexReleased'
  <2> SUFFICES ASSUME IInv, MutexReleased, [Next]_vars, owner' # None
               PROVE  getter'[owner'] \in {"pushed", "leaving"}
    BY DEF MutexReleased, Locked
  <2> USE DEF IInv
  <2>1. ASSUME NEW g \in Getters, Wait(g)
        PROVE  getter'[owner'] \in {"pushed", "leaving"}
    BY <2>1 DEF Wait, Move, TypeOK
  <2>2. ASSUME NEW g \in Getters, SwitchOut(g)
        PROVE  getter'[owner'] \in {"pushed", "leaving"}
    BY <2>2 DEF SwitchOut, Move, channelVars, TypeOK, MutexReleased, Locked
  <2>3. ASSUME NEW g \in Getters, Return(g)
        PROVE  getter'[owner'] \in {"pushed", "leaving"}
    BY <2>3 DEF Return, Move, channelVars, TypeOK, MutexReleased, Locked
  <2>4. ASSUME NEW w \in Wakers, Call(w)
        PROVE  getter'[owner'] \in {"pushed", "leaving"}
    BY <2>4 DEF Call, Move, channelVars, TypeOK, MutexReleased, Locked, Alive, Contents
  <2>5. CASE UNCHANGED <<owner, getter>>
    BY <2>5 DEF MutexReleased, Locked
  <2> QED BY <2>1, <2>2, <2>3, <2>4, <2>5 DEF Next, vars, GetNow, Deferred, Put, Close,
       NextWaiter, Open, Write, channelVars, getVars
<1> QED BY <1>1, <1>2, InductiveInvariant, PTL DEF Spec

-----------------------------------------------------------------------------
(* The values on their way. *)

\* What Handed finds: the value of the one putter that is about to proceed the getter, or
\* what the Waiter of a getter that was proceeded holds.
HandedIsRight ==
  \A g \in Getters :
    /\ Handed(g) \in Seq(Values) /\ Received(g) \in Seq(Values)
    /\ \A p \in Putters : target[p] = g => Handed(g) = <<<<p, sent[p]>>>>
    /\ (\A p \in Putters : target[p] # g) =>
         Handed(g) = IF getter[g] = "proceeded" /\ hasVal[g] THEN <<val[g]>> ELSE <<>>

LEMMA HandedFacts == IInv => HandedIsRight
<1> SUFFICES ASSUME IInv, NEW g \in Getters
             PROVE  /\ Handed(g) \in Seq(Values) /\ Received(g) \in Seq(Values)
                    /\ \A p \in Putters : target[p] = g => Handed(g) = <<<<p, sent[p]>>>>
                    /\ (\A p \in Putters : target[p] # g) =>
                         Handed(g) = IF getter[g] = "proceeded" /\ hasVal[g] THEN <<val[g]>>
                                                                           ELSE <<>>
  BY DEF HandedIsRight
<1> USE ChannelAssumption
<1>1. CASE \E p \in Putters : target[p] = g
  <2> DEFINE q == CHOOSE p \in Putters : target[p] = g
  <2>1. q \in Putters /\ target[q] = g
    BY <1>1
  <2>2. Handed(g) = <<<<q, sent[q]>>>>
    BY <1>1 DEF Handed
  <2> HIDE DEF q
  <2>3. \A p \in Putters : target[p] = g => p = q
    BY <2>1 DEF IInv, OnePointer, Wakers
  <2>4. <<q, sent[q]>> \in Values
    <3>1. sent[q] \in Nat /\ sent[q] <= PutLimit[q] /\ PutLimit[q] \in Nat /\ sent[q] > 0
      BY <2>1 DEF IInv, TypeOK, Contents
    <3>2. <<q, sent[q]>> \in {q} \X (1 .. PutLimit[q])
      BY <3>1
    <3> QED BY <2>1, <3>2 DEF Values
  <2>5. Handed(g) \in Seq(Values)
    BY <2>2, <2>4
  <2>6. Received(g) \in Seq(Values)
    BY <2>5 DEF Received, IInv, TypeOK
  <2> QED BY <2>1, <2>2, <2>3, <2>5, <2>6
<1>2. CASE ~\E p \in Putters : target[p] = g
  <2>1. Handed(g) = IF getter[g] = "proceeded" /\ hasVal[g] THEN <<val[g]>> ELSE <<>>
    BY <1>2 DEF Handed
  <2>2. Handed(g) \in Seq(Values)
    BY <2>1 DEF IInv, Contents
  <2>3. Received(g) \in Seq(Values)
    BY <2>2 DEF Received, IInv, TypeOK
  <2> QED BY <1>2, <2>1, <2>2, <2>3
<1> QED BY <1>1, <1>2

LEMMA HandedFactsNext == IInv' => HandedIsRight'
  BY HandedFacts, PTL

\* The three things that can happen to what the getters have been handed.
Kept == \A g \in Getters : Received(g)' = Received(g)

HandedTo(g, v) ==
  /\ Received(g)' = Append(Received(g), v)
  /\ \A h \in Getters : h # g => Received(h)' = Received(h)

Lost(g) ==
  /\ \E v \in Values : /\ Received(g) = Append(Received(g)', v)
                       /\ dropped' = [dropped EXCEPT ![g] = @ \cup {v}]
  /\ Received(g)' \in Seq(Values)
  /\ Received(g) # <<>>
  /\ Received(g)' = SubSeq(Received(g), 1, Len(Received(g)) - 1)
  /\ \A h \in Getters : h # g => Received(h)' = Received(h)

\* Nobody is about to be handed anything but by those the steps below name.
LEMMA KeptWhen ==
  ASSUME IInv, IInv', got' = got, sent' = sent,
         \A p \in Putters : target'[p] = target[p],
         \A g \in Getters : (\A p \in Putters : target[p] # g) =>
           (getter'[g] = "proceeded" /\ hasVal'[g] <=> getter[g] = "proceeded" /\ hasVal[g])
           /\ (getter[g] = "proceeded" /\ hasVal[g] => val'[g] = val[g])
  PROVE  Kept
<1>1. HandedIsRight /\ HandedIsRight'
  BY HandedFacts, HandedFactsNext
<1> SUFFICES ASSUME NEW g \in Getters PROVE Handed(g)' = Handed(g)
  BY DEF Kept, Received
<1>2. CASE \E p \in Putters : target[p] = g
  BY <1>1, <1>2 DEF HandedIsRight
<1>3. CASE \A p \in Putters : target[p] # g
  <2>1. Handed(g) = IF getter[g] = "proceeded" /\ hasVal[g] THEN <<val[g]>> ELSE <<>>
    BY <1>1, <1>3 DEF HandedIsRight
  <2>2. Handed(g)' = IF getter'[g] = "proceeded" /\ hasVal'[g] THEN <<val'[g]>> ELSE <<>>
    BY <1>1, <1>3 DEF HandedIsRight
  <2> QED BY <1>3, <2>1, <2>2
<1> QED BY <1>2, <1>3

\* Between the pop of a Waiter and the return of its get() nothing is handed out, and
\* when get() waits, or the channel is closed or opened, neither.
LEMMA SilentSteps ==
  ASSUME IInv, IInv',
         \/ \E g \in Getters : Wait(g) \/ SwitchOut(g) \/ Deferred(g)
         \/ \E c \in Closers : Close(c) \/ Open(c) \/ NextWaiter(c)
         \/ \E w \in Wakers : Write(w) \/ Call(w)
         \/ UNCHANGED vars
  PROVE  Kept
<1> USE ChannelAssumption
<1>1. ASSUME NEW g \in Getters, Wait(g) \/ SwitchOut(g) \/ Deferred(g) PROVE Kept
  <2>1. /\ UNCHANGED <<got, sent, target, val>>
        /\ getter[g] # "proceeded" /\ getter'[g] # "proceeded"
        /\ \A h \in Getters : h # g => getter'[h] = getter[h] /\ hasVal'[h] = hasVal[h]
    BY <1>1 DEF IInv, TypeOK, Wait, SwitchOut, Deferred, Move, channelVars, wakeVars
  <2> QED BY <2>1, KeptWhen
<1>2. ASSUME NEW c \in Closers, Close(c) \/ Open(c) \/ NextWaiter(c) PROVE Kept
  <2>1. UNCHANGED <<got, sent, val, getter, hasVal>>
    BY <1>2 DEF Close, Open, NextWaiter, getVars
  <2>2. \A p \in Putters : p # c /\ target'[p] = target[p]
    BY <1>2 DEF IInv, TypeOK, Wakers, Close, Open, NextWaiter, wakeVars
  <2> QED BY <2>1, <2>2, KeptWhen
<1>3. ASSUME NEW w \in Wakers, Write(w) PROVE Kept
  <2>1. /\ UNCHANGED <<got, sent, target, getter>>
        /\ target[w] \in Getters /\ getter[target[w]] = "parked"
    BY <1>3 DEF IInv, Alive, TypeOK, Write, channelVars
  <2>2. \A g \in Getters : g # target[w] => hasVal'[g] = hasVal[g] /\ val'[g] = val[g]
    BY <1>3 DEF IInv, TypeOK, Write
  <2> QED BY <2>1, <2>2, KeptWhen
<1>4. ASSUME NEW c \in Closers, Call(c) PROVE Kept
  <2>1. /\ UNCHANGED <<got, sent, val, hasVal>> /\ c \in Wakers
        /\ target[c] \in Getters /\ ~hasVal[target[c]]
    BY <1>4 DEF IInv, Contents, TypeOK, Call, channelVars, Wakers
  <2>2. \A g \in Getters : g # target[c] => getter'[g] = getter[g]
    BY <1>4 DEF IInv, TypeOK, Call, Move
  <2>3. \A p \in Putters : p # c /\ target'[p] = target[p]
    BY <1>4 DEF IInv, TypeOK, Wakers, Call
  <2> QED BY <2>1, <2>2, <2>3, KeptWhen
<1>5. ASSUME NEW p \in Putters, Call(p) PROVE Kept
  <2>0. PICK g \in Getters : target[p] = g
    BY <1>5 DEF IInv, Contents, TypeOK, Call, Wakers
  <2>1. /\ UNCHANGED <<got, sent, val, hasVal>> /\ p \in Wakers
        /\ g # None /\ hasVal[g] /\ val[g] = <<p, sent[p]>>
        /\ \A q \in Putters : q # p => target[q] # g
    BY <1>5, <2>0 DEF IInv, Contents, OnePointer, TypeOK, Call, channelVars, Wakers
  <2>2. /\ getter'[g] = "proceeded"
        /\ \A h \in Getters : h # g => getter'[h] = getter[h]
        /\ target'[p] = None
        /\ \A q \in Putters : q # p => target'[q] = target[q]
    BY <1>5, <2>0, <2>1 DEF IInv, TypeOK, Call, Move, Wakers
  <2>3. Handed(g) = <<<<p, sent[p]>>>>
    BY <2>0, HandedFacts DEF HandedIsRight
  <2>4. HandedIsRight'
    BY HandedFactsNext
  <2>5. Handed(g)' = <<val[g]>>
    <3>1. \A q \in Putters : target'[q] # g
      BY <2>1, <2>2
    <3>2. Handed(g)' = IF getter'[g] = "proceeded" /\ hasVal'[g] THEN <<val'[g]>> ELSE <<>>
      BY <2>1, <2>4, <3>1 DEF HandedIsRight
    <3> QED BY <2>1, <2>2, <3>2
  <2>6. ASSUME NEW h \in Getters, h # g PROVE Handed(h)' = Handed(h)
    <3>1. HandedIsRight
      BY HandedFacts
    <3>3. CASE \E q \in Putters : target[q] = h
      <4>1. PICK q \in Putters : target[q] = h
        BY <3>3
      <4>2. q # p /\ target'[q] = h
        BY <2>0, <2>2, <2>6, <4>1
      <4>3. Handed(h) = <<<<q, sent[q]>>>>
        BY <3>1, <4>1 DEF HandedIsRight
      <4>4. Handed(h)' = <<<<q, sent'[q]>>>>
        BY <2>4, <4>2 DEF HandedIsRight
      <4> QED BY <2>1, <4>3, <4>4
    <3>4. CASE \A q \in Putters : target[q] # h
      <4>1. \A q \in Putters : target'[q] # h
        BY <2>2, <3>4, ChannelAssumption
      <4>2. Handed(h) = IF getter[h] = "proceeded" /\ hasVal[h] THEN <<val[h]>> ELSE <<>>
        BY <3>1, <3>4 DEF HandedIsRight
      <4>3. Handed(h)' = IF getter'[h] = "proceeded" /\ hasVal'[h] THEN <<val'[h]>> ELSE <<>>
        BY <2>4, <4>1 DEF HandedIsRight
      <4> QED BY <2>1, <2>2, <2>6, <4>2, <4>3
    <3> QED BY <3>3, <3>4
  <2>7. \A h \in Getters : Handed(h)' = Handed(h)
    BY <2>1, <2>3, <2>5, <2>6
  <2> QED BY <2>1, <2>7 DEF Kept, Received
<1>6. CASE UNCHANGED vars
  BY <1>6, KeptWhen DEF vars, channelVars, getVars, wakeVars
<1> QED BY <1>1, <1>2, <1>3, <1>4, <1>5, <1>6 DEF Wakers

\* get() finds a value.
LEMMA GetNowSteps ==
  ASSUME IInv, IInv', NEW g \in Getters, GetNow(g)
  PROVE  HandedTo(g, Head(queue))
<1>1. HandedIsRight /\ HandedIsRight'
  BY HandedFacts, HandedFactsNext
<1>2. /\ UNCHANGED <<getter, hasVal, val, sent, target>>
      /\ got'[g] = Append(got[g], Head(queue)) /\ got[g] \in Seq(Values)
      /\ \A h \in Getters : h # g => got'[h] = got[h]
  BY DEF GetNow, wakeVars, IInv, TypeOK
<1>3. \A h \in Getters : Handed(h)' = Handed(h)
  BY <1>2 DEF Handed
<1>4. \A p \in Putters : target[p] # g
  BY OutIsUnreferred, ChannelAssumption DEF GetNow, Locked, Wakers
<1>5. Handed(g) = <<>>
  BY <1>1, <1>4 DEF HandedIsRight, GetNow
<1>6. Received(g)' = Append(Received(g), Head(queue))
  BY <1>2, <1>3, <1>5 DEF Received
<1> QED BY <1>2, <1>3, <1>6 DEF HandedTo, Received

\* get() returns with what it was handed, or an event makes it lose that.
LEMMA ReturnSteps ==
  ASSUME IInv, IInv', NEW g \in Getters, Return(g)
  PROVE  (Kept /\ dropped' = dropped) \/ (g \in Interruptible /\ Lost(g))
<1>1. HandedIsRight /\ HandedIsRight'
  BY HandedFacts, HandedFactsNext
<1>2. /\ UNCHANGED <<sent, target>> /\ getter'[g] = "out" /\ got[g] \in Seq(Values)
      /\ \A h \in Getters : h # g => /\ got'[h] = got[h] /\ getter'[h] = getter[h]
                                    /\ hasVal'[h] = hasVal[h] /\ val'[h] = val[h]
  BY DEF Return, Move, wakeVars, IInv, TypeOK
<1>3. \A p \in Putters : target[p] # g
  <2>1. owner # g
    BY ChannelAssumption DEF Return, IInv, Owned
  <2> QED BY <2>1, OutIsUnreferred DEF Return, Wakers
<1>4. Handed(g) = IF hasVal[g] THEN <<val[g]>> ELSE <<>>
  BY <1>1, <1>3 DEF HandedIsRight, Return
<1>5. Handed(g)' = <<>>
  BY <1>1, <1>2, <1>3 DEF HandedIsRight
<1>6. \A h \in Getters : h # g => Received(h)' = Received(h)
  BY <1>2 DEF Handed, Received
<1>7. (got'[g] = IF hasVal[g] THEN Append(got[g], val[g]) ELSE got[g])
      => Received(g)' = Received(g)
  <2>1. CASE hasVal[g]
    <3>1. val[g] \in Values
      BY <2>1 DEF Return, IInv, Contents
    <3>2. /\ (got[g] \o <<val[g]>>) = Append(got[g], val[g])
          /\ (Append(got[g], val[g]) \o <<>>) = Append(got[g], val[g])
      BY <1>2, <3>1
    <3> QED BY <1>4, <1>5, <2>1, <3>2 DEF Received
  <2>2. CASE ~hasVal[g]
    BY <1>2, <1>4, <1>5, <2>2 DEF Received
  <2> QED BY <2>1, <2>2
<1>8. ASSUME got'[g] = got[g], hasVal[g], g \in Interruptible,
             dropped' = [dropped EXCEPT ![g] = @ \cup {val[g]}]
      PROVE  Lost(g)
  <2>1. val[g] \in Values
    BY <1>8 DEF Return, IInv, Contents
  <2>2. Received(g) = Append(got[g], val[g]) /\ Received(g)' = got[g]
    BY <1>2, <1>4, <1>5, <1>8, <2>1 DEF Received
  <2>3. /\ Received(g) # <<>>
        /\ SubSeq(Received(g), 1, Len(Received(g)) - 1) = got[g]
    BY <1>2, <2>1, <2>2
  <2>4. Received(g)' \in Seq(Values) /\ Received(g) = Append(Received(g)', val[g])
    BY <1>2, <2>2
  <2> QED BY <1>6, <1>8, <2>1, <2>2, <2>3, <2>4 DEF Lost
<1>9. \/ /\ got'[g] = IF hasVal[g] THEN Append(got[g], val[g]) ELSE got[g]
         /\ dropped' = dropped
      \/ /\ g \in Interruptible /\ got'[g] = got[g] /\ hasVal[g]
         /\ dropped' = [dropped EXCEPT ![g] = @ \cup {val[g]}]
  <2>1. CASE hasVal[g]
    <3>1. {v \in {val[g]} : hasVal[g]} = {val[g]}
      BY <2>1
    <3> QED BY <2>1, <3>1 DEF Return, IInv, TypeOK
  <2>2. CASE ~hasVal[g]
    <3>1. {v \in {val[g]} : hasVal[g]} = {} /\ dropped \in [Getters -> SUBSET Values]
      BY <2>2 DEF IInv, TypeOK
    <3>2. [dropped EXCEPT ![g] = @ \cup {}] = dropped
      BY <3>1
    <3> QED BY <2>2, <3>1, <3>2 DEF Return, IInv, TypeOK
  <2> QED BY <2>1, <2>2
<1> QED BY <1>6, <1>7, <1>8, <1>9 DEF Kept

\* put() pops a Waiter for the value: from now on its getter has been handed it.
LEMMA PutSteps ==
  ASSUME IInv, IInv', NEW p \in Putters, Put(p)
  PROVE  IF waiters = <<>>
         THEN Kept
         ELSE \E g \in Getters : g = Head(waiters) /\ HandedTo(g, NextValue(p))
<1> USE ChannelAssumption
<1>1. HandedIsRight /\ HandedIsRight'
  BY HandedFacts, HandedFactsNext
<1>2. /\ UNCHANGED <<got, getter, hasVal, val>> /\ p \in Wakers /\ target[p] = None
      /\ sent'[p] = sent[p] + 1 /\ \A q \in Putters : q # p => sent'[q] = sent[q]
      /\ target \in [Wakers -> Getters \cup {None}] /\ \A q \in Putters : q \in Wakers
  BY DEF Put, getVars, IInv, TypeOK, Wakers
<1>3. ASSUME NEW h \in Getters, target'[p] # h,
             \A q \in Putters : q # p => target'[q] = target[q]
      PROVE  Received(h)' = Received(h)
  <2> SUFFICES Handed(h)' = Handed(h)
    BY <1>2 DEF Received
  <2>1. CASE \E q \in Putters : target[q] = h
    <3>1. PICK q \in Putters : target[q] = h
      BY <2>1
    <3>2. q # p /\ target'[q] = h
      BY <1>2, <1>3, <3>1
    <3>3. Handed(h) = <<<<q, sent[q]>>>>
      BY <1>1, <3>1 DEF HandedIsRight
    <3>4. Handed(h)' = <<<<q, sent'[q]>>>>
      BY <1>1, <3>2 DEF HandedIsRight
    <3> QED BY <1>2, <3>2, <3>3, <3>4
  <2>2. CASE \A q \in Putters : target[q] # h
    <3>1. \A q \in Putters : target'[q] # h
      BY <1>3, <2>2
    <3>2. Handed(h) = IF getter[h] = "proceeded" /\ hasVal[h] THEN <<val[h]>> ELSE <<>>
      BY <1>1, <2>2 DEF HandedIsRight
    <3>3. Handed(h)' = IF getter'[h] = "proceeded" /\ hasVal'[h] THEN <<val'[h]>> ELSE <<>>
      BY <1>1, <3>1 DEF HandedIsRight
    <3> QED BY <1>2, <3>2, <3>3
  <2> QED BY <2>1, <2>2
<1>4. CASE waiters = <<>>
  <2>1. target' = target
    BY <1>4 DEF Put
  <2> QED BY <1>2, <1>3, <1>4, <2>1 DEF Kept
<1>5. CASE waiters # <<>>
  <2>0. PICK g \in Getters : g = Head(waiters)
    BY <1>5, HeadAndTail DEF IInv, TypeOK
  <2>1. Listed(waiters, g)
    BY <1>5, <2>0, HeadAndTail DEF IInv, TypeOK
  <2>2. target' = [target EXCEPT ![p] = g]
    BY <1>5, <2>0 DEF Put
  <2>3. target'[p] = g /\ \A q \in Putters : q # p => target'[q] = target[q]
    BY <1>2, <2>2
  <2>4. getter[g] = "parked" /\ \A q \in Putters : target[q] # g
    BY <1>2, <2>1 DEF Put, Locked, IInv, Alive, OnePointer
  <2>5. Handed(g) = <<>>
    BY <1>1, <2>1, <2>4 DEF HandedIsRight
  <2>6. Handed(g)' = <<NextValue(p)>>
    <3>1. Handed(g)' = <<<<p, sent'[p]>>>>
      BY <1>1, <2>1, <2>3 DEF HandedIsRight
    <3> QED BY <1>2, <3>1 DEF NextValue
  <2>7. Received(g)' = Append(Received(g), NextValue(p))
    <3>1. got[g] \in Seq(Values) /\ NextValue(p) \in Values
      BY <2>1, NextValueIsNew DEF IInv, TypeOK, Put
    <3>2. /\ (got[g] \o <<>>) = got[g]
          /\ (got[g] \o <<NextValue(p)>>) = Append(got[g], NextValue(p))
      BY <3>1
    <3>3. Received(g)' = got[g] \o <<NextValue(p)>>
      BY <1>2, <2>6 DEF Received
    <3> QED BY <2>5, <3>2, <3>3 DEF Received
  <2> QED BY <1>3, <1>5, <2>0, <2>3, <2>7 DEF HandedTo
<1> QED BY <1>4, <1>5

-----------------------------------------------------------------------------
(* The order of the values. *)

LEMMA ValueFacts ==
  ASSUME NEW v \in Values
  PROVE  v[1] \in Putters /\ v[2] \in Nat /\ v = <<v[1], v[2]>>
<1>1. PICK p \in Putters : v \in {p} \X (1 .. PutLimit[p])
  BY DEF Values
<1>2. PutLimit[p] \in Nat
  BY ChannelAssumption
<1> QED BY <1>1, <1>2

LEMMA AppendOrdered ==
  ASSUME NEW s \in Seq(Values), NEW x \in Values, Ordered(s),
         \A v \in Values : Listed(s, v) /\ v[1] = x[1] => v[2] < x[2]
  PROVE  /\ Ordered(Append(s, x))
         /\ \A v : Listed(Append(s, x), v) <=> Listed(s, v) \/ v = x
<1> DEFINE u == Append(s, x)
<1>1. /\ Len(s) \in Nat /\ DOMAIN s = 1 .. Len(s) /\ DOMAIN u = 1 .. Len(s) + 1
      /\ \A i \in 1 .. Len(s) : u[i] = s[i] /\ s[i] \in Values
      /\ u[Len(s) + 1] = x
  OBVIOUS
<1> HIDE DEF u
<1>2. ASSUME NEW i \in DOMAIN u, NEW k \in DOMAIN u, i < k, u[i][1] = u[k][1]
      PROVE  u[i][2] < u[k][2]
  <2>1. i \in 1 .. Len(s) /\ Listed(s, s[i])
    BY <1>1, <1>2 DEF Listed
  <2>2. CASE k = Len(s) + 1
    BY <1>1, <1>2, <2>1, <2>2
  <2>3. CASE k # Len(s) + 1
    BY <1>1, <1>2, <2>1, <2>3 DEF Ordered
  <2> QED BY <2>2, <2>3
<1>3. \A v : Listed(u, v) <=> Listed(s, v) \/ v = x
  BY <1>1 DEF Listed
<1> QED BY <1>2, <1>3 DEF Ordered, u

LEMMA TailOrdered ==
  ASSUME NEW s \in Seq(Values), s # <<>>, Ordered(s)
  PROVE  /\ Ordered(Tail(s))
         /\ \A w \in Values : Listed(Tail(s), w) /\ Head(s)[1] = w[1] => Head(s)[2] < w[2]
<1>1. /\ Len(s) \in Nat \ {0} /\ DOMAIN s = 1 .. Len(s) /\ Head(s) = s[1]
      /\ DOMAIN Tail(s) = 1 .. Len(s) - 1
      /\ \A i \in 1 .. Len(s) - 1 : Tail(s)[i] = s[i + 1]
  OBVIOUS
<1>2. Ordered(Tail(s))
  BY <1>1 DEF Ordered
<1>3. \A i \in DOMAIN Tail(s) : i + 1 \in DOMAIN s /\ 1 < i + 1 /\ 1 \in DOMAIN s
  BY <1>1
<1>4. \A w \in Values : Listed(Tail(s), w) /\ Head(s)[1] = w[1] => Head(s)[2] < w[2]
  BY <1>1, <1>3 DEF Ordered, Listed
<1> QED BY <1>2, <1>4

LEMMA FrontOrdered ==
  ASSUME NEW s \in Seq(Values), s # <<>>, Ordered(s)
  PROVE  /\ Ordered(SubSeq(s, 1, Len(s) - 1))
         /\ \A v : Listed(SubSeq(s, 1, Len(s) - 1), v) => Listed(s, v)
<1> DEFINE u == SubSeq(s, 1, Len(s) - 1)
<1>1. /\ Len(s) \in Nat \ {0} /\ DOMAIN s = 1 .. Len(s) /\ DOMAIN u = 1 .. Len(s) - 1
      /\ \A i \in 1 .. Len(s) - 1 : u[i] = s[i]
  OBVIOUS
<1> HIDE DEF u
<1>2. Ordered(u) /\ \A v : Listed(u, v) => Listed(s, v)
  BY <1>1 DEF Ordered, Listed
<1> QED BY <1>2 DEF u

\* Whatever a step does to the queue and to what was handed out, the order is kept.
LEMMA FlowKept ==
  ASSUME IInv, Flow, Kept, sent' \in [Putters -> Nat],
         \A p \in Putters : sent[p] <= sent'[p], queue' = queue
  PROVE  Flow'
<1>1. \A v \in Values : v[2] <= sent[v[1]] => v[2] <= sent'[v[1]]
  BY ValueFacts DEF IInv, TypeOK
<1> QED BY <1>1 DEF Flow, Kept

LEMMA FlowQueued ==
  ASSUME IInv, Flow, Kept, NEW p \in Putters, sent[p] < PutLimit[p],
         sent' = [sent EXCEPT ![p] = @ + 1], queue' = Append(queue, NextValue(p))
  PROVE  Flow'
<1> DEFINE x == NextValue(p)
<1>1. x \in Values /\ x[1] = p /\ x[2] = sent[p] + 1 /\ sent[p] \in Nat
  BY NextValueIsNew DEF IInv
<1>2. \A v \in Values : v[2] \in Nat /\ v[1] \in Putters
  BY ValueFacts
<1>3. /\ sent' \in [Putters -> Nat] /\ sent'[p] = sent[p] + 1
      /\ \A q \in Putters : sent[q] \in Nat /\ sent[q] <= sent'[q]
  BY DEF IInv, TypeOK
<1>4. \A v \in Values : v[1] = x[1] /\ v[2] <= sent[v[1]] => v[2] < x[2]
  BY <1>1, <1>2
<1>5. queue \in Seq(Values) /\ Ordered(queue) /\ queue' = Append(queue, x)
  BY DEF IInv, TypeOK, Flow
<1> HIDE DEF x
<1>6. \A v \in Values : Listed(queue, v) /\ v[1] = x[1] => v[2] < x[2]
  BY <1>4 DEF Flow
<1>7. Ordered(queue') /\ \A v : Listed(queue', v) <=> Listed(queue, v) \/ v = x
  BY <1>1, <1>5, <1>6, AppendOrdered
<1>8. \A v \in Values : v[2] <= sent[v[1]] => v[2] <= sent'[v[1]]
  BY <1>2, <1>3
<1>9. x[2] <= sent'[x[1]]
  BY <1>1, <1>3
<1>10. \A g \in Getters : \A v, w \in Values :
         Listed(Received(g), v) /\ Listed(queue', w) /\ v[1] = w[1] => v[2] < w[2]
  BY <1>4, <1>7 DEF Flow
<1> QED BY <1>7, <1>8, <1>9, <1>10 DEF Flow, Kept

\* A value that is newer than what any getter has been handed, and older than what is
\* left in the queue, is handed to g.
LEMMA FlowHanded ==
  ASSUME IInv, Flow, NEW g \in Getters, NEW x \in Values, HandedTo(g, x),
         \A h \in Getters : \A v \in Values :
           Listed(Received(h), v) /\ v[1] = x[1] => v[2] < x[2],
         Ordered(queue'), \A w \in Values : Listed(queue', w) => Listed(queue, w),
         \A w \in Values : Listed(queue', w) /\ x[1] = w[1] => x[2] < w[2],
         sent' \in [Putters -> Nat], \A p \in Putters : sent[p] <= sent'[p],
         x[2] <= sent'[x[1]]
  PROVE  Flow'
<1>1. \A v \in Values : v[2] \in Nat /\ v[1] \in Putters
  BY ValueFacts
<1>2. Received(g) \in Seq(Values) /\ Ordered(Received(g))
  BY HandedFacts DEF HandedIsRight, Flow
<1>3. /\ Ordered(Received(g)')
      /\ \A v : Listed(Received(g)', v) <=> Listed(Received(g), v) \/ v = x
  BY <1>2, AppendOrdered DEF HandedTo
<1>4. \A h \in Getters : h # g => Received(h)' = Received(h)
  BY DEF HandedTo
<1>5. \A h \in Getters : ~Listed(Received(h), x)
  BY <1>1
<1>6. \A h \in Getters : Ordered(Received(h)')
  BY <1>3, <1>4 DEF Flow
<1>7. \A h \in Getters : \A v \in Values :
        Listed(Received(h)', v) <=> Listed(Received(h), v) \/ (h = g /\ v = x)
  BY <1>3, <1>4
<1>8. \A h \in Getters : \A v, w \in Values :
        Listed(Received(h)', v) /\ Listed(queue', w) /\ v[1] = w[1] => v[2] < w[2]
  BY <1>7 DEF Flow
<1>9. \A h, k \in Getters : \A v \in Values :
        Listed(Received(h)', v) /\ Listed(Received(k)', v) => h = k
  BY <1>5, <1>7 DEF Flow
<1>10. \A v \in Values : v[2] <= sent[v[1]] => v[2] <= sent'[v[1]]
  BY <1>1 DEF IInv, TypeOK
<1>11. \A v \in Values : Listed(queue', v) => v[2] <= sent'[v[1]]
  BY <1>10 DEF Flow
<1>12. \A h \in Getters : \A v \in Values : Listed(Received(h)', v) => v[2] <= sent'[v[1]]
  BY <1>7, <1>10 DEF Flow
<1> QED BY <1>6, <1>8, <1>9, <1>11, <1>12 DEF Flow

LEMMA FlowLost ==
  ASSUME IInv, Flow, NEW g \in Getters, Lost(g), UNCHANGED <<queue, sent>>
  PROVE  Flow'
<1>1. Received(g) \in Seq(Values) /\ Ordered(Received(g))
  BY HandedFacts DEF HandedIsRight, Flow
<1>2. Ordered(Received(g)') /\ \A v : Listed(Received(g)', v) => Listed(Received(g), v)
  <2>1. /\ Received(g) # <<>>
        /\ Received(g)' = SubSeq(Received(g), 1, Len(Received(g)) - 1)
    BY DEF Lost
  <2> QED BY <1>1, <2>1, FrontOrdered
<1>3. \A h \in Getters : /\ Ordered(Received(h)')
                         /\ \A v : Listed(Received(h)', v) => Listed(Received(h), v)
  BY <1>2 DEF Lost, Flow
<1> QED BY <1>3 DEF Flow

LEMMA NextFlow == IInv /\ IInv' /\ Flow /\ [Next]_vars => Flow'
<1> SUFFICES ASSUME IInv, IInv', Flow, [Next]_vars PROVE Flow'
  OBVIOUS
<1>1. sent \in [Putters -> Nat] /\ sent' \in [Putters -> Nat]
  BY DEF IInv, TypeOK
<1>2. ASSUME Kept, UNCHANGED <<queue, sent>> PROVE Flow'
  BY <1>1, <1>2, FlowKept
<1>3. ASSUME NEW g \in Getters, GetNow(g) PROVE Flow'
  <2>1. /\ queue \in Seq(Values) /\ queue # <<>> /\ queue' = Tail(queue) /\ sent' = sent
        /\ Ordered(queue)
    BY <1>3 DEF GetNow, IInv, TypeOK, Flow
  <2>2. PICK x \in Values : x = Head(queue)
    BY <2>1, HeadAndTail
  <2>3. HandedTo(g, x)
    BY <1>3, <2>2, GetNowSteps
  <2>4. /\ Ordered(queue') /\ Listed(queue, x)
        /\ \A w \in Values : Listed(queue', w) => Listed(queue, w)
        /\ \A w \in Values : Listed(queue', w) /\ x[1] = w[1] => x[2] < w[2]
    BY <2>1, <2>2, HeadAndTail, TailOrdered
  <2>5. /\ \A h \in Getters : \A v \in Values :
             Listed(Received(h), v) /\ v[1] = x[1] => v[2] < x[2]
        /\ x[2] <= sent[x[1]]
    BY <2>4 DEF Flow
  <2> QED BY <1>1, <2>1, <2>3, <2>4, <2>5, FlowHanded
<1>4. ASSUME NEW g \in Getters, Return(g) PROVE Flow'
  <2>1. UNCHANGED <<queue, sent>>
    BY <1>4 DEF Return, channelVars
  <2> QED BY <1>2, <1>4, <2>1, ReturnSteps, FlowLost
<1>5. ASSUME NEW p \in Putters, Put(p) PROVE Flow'
  <2>1. sent[p] < PutLimit[p] /\ sent' = [sent EXCEPT ![p] = @ + 1]
    BY <1>5 DEF Put
  <2>2. CASE waiters = <<>>
    <3>1. Kept
      BY <1>5, <2>2, PutSteps
    <3>2. queue' = Append(queue, NextValue(p))
      BY <1>5, <2>2 DEF Put
    <3> QED BY <2>1, <3>1, <3>2, FlowQueued
  <2>3. CASE waiters # <<>>
    <3>1. PICK g \in Getters : HandedTo(g, NextValue(p))
      BY <1>5, <2>3, PutSteps
    <3>2. PICK x \in Values : x = NextValue(p)
      BY <2>1, NextValueIsNew DEF IInv
    <3>3. queue = <<>> /\ queue' = queue
      BY <1>5, <2>3 DEF Put, IInv, NoIdleWaiter
    <3>4. Ordered(queue') /\ \A w \in Values : ~Listed(queue', w)
      BY <3>3 DEF Flow, Listed
    <3>5. x[1] = p /\ x[2] = sent[p] + 1 /\ sent'[p] = sent[p] + 1 /\ sent[p] \in Nat
      BY <1>1, <2>1, <3>2, NextValueIsNew DEF IInv
    <3>6. \A h \in Getters : \A v \in Values :
            Listed(Received(h), v) /\ v[1] = x[1] => v[2] < x[2]
      BY <3>5, ValueFacts DEF Flow
    <3>7. \A q \in Putters : sent[q] <= sent'[q]
      BY <1>1, <2>1
    <3> QED BY <1>1, <3>1, <3>2, <3>4, <3>5, <3>6, <3>7, FlowHanded
  <2> QED BY <2>2, <2>3
<1>6. ASSUME NEW g \in Getters, Wait(g) \/ SwitchOut(g) \/ Deferred(g) PROVE Flow'
  <2>1. UNCHANGED <<queue, sent>>
    BY <1>6 DEF Wait, SwitchOut, Deferred, channelVars
  <2> QED BY <1>2, <1>6, <2>1, SilentSteps
<1>7. ASSUME NEW c \in Closers, Close(c) \/ Open(c) \/ NextWaiter(c) PROVE Flow'
  <2>1. UNCHANGED <<queue, sent>>
    BY <1>7 DEF Close, Open, NextWaiter, channelVars
  <2> QED BY <1>2, <1>7, <2>1, SilentSteps
<1>8. ASSUME NEW w \in Wakers, Write(w) \/ Call(w) PROVE Flow'
  <2>1. UNCHANGED <<queue, sent>>
    BY <1>8 DEF Write, Call, channelVars
  <2> QED BY <1>2, <1>8, <2>1, SilentSteps
<1>9. CASE UNCHANGED vars
  <2>1. UNCHANGED <<queue, sent>>
    BY <1>9 DEF vars, channelVars
  <2> QED BY <1>2, <1>9, <2>1, SilentSteps
<1> QED BY <1>3, <1>4, <1>5, <1>6, <1>7, <1>8, <1>9 DEF Next

\* Nothing is handed out, put or lost.
LEMMA TrackedKept ==
  ASSUME Tracked, Kept, UNCHANGED <<queue, sent, dropped>>
  PROVE  Tracked'
  BY DEF Tracked, Kept, HandedOut, Gone

\* One more value has been put, and no other.
LEMMA PutCounts ==
  ASSUME TypeOK, NEW p \in Putters, sent[p] < PutLimit[p],
         sent' = [sent EXCEPT ![p] = @ + 1]
  PROVE  \A v \in Values :
           /\ v[2] <= sent'[v[1]] => v[2] <= sent[v[1]] \/ v = NextValue(p)
           /\ v[2] <= sent[v[1]] => v[2] <= sent'[v[1]] /\ v # NextValue(p)
<1> SUFFICES ASSUME NEW v \in Values
             PROVE  /\ v[2] <= sent'[v[1]] => v[2] <= sent[v[1]] \/ v = NextValue(p)
                    /\ v[2] <= sent[v[1]] => v[2] <= sent'[v[1]] /\ v # NextValue(p)
  OBVIOUS
<1>1. v[1] \in Putters /\ v[2] \in Nat /\ v = <<v[1], v[2]>>
  BY ValueFacts
<1>2. sent[p] \in Nat /\ sent'[p] = sent[p] + 1 /\ NextValue(p) = <<p, sent[p] + 1>>
  BY DEF TypeOK, NextValue
<1>3. CASE v[1] = p
  BY <1>1, <1>2, <1>3
<1>4. CASE v[1] # p
  <2>1. sent'[v[1]] = sent[v[1]] /\ v # NextValue(p)
    BY <1>1, <1>2, <1>4 DEF TypeOK
  <2> QED BY <2>1
<1> QED BY <1>3, <1>4

\* A value is put: it is in the queue, and was nowhere before.
LEMMA TrackedQueued ==
  ASSUME IInv, Tracked, Kept, NEW p \in Putters, sent[p] < PutLimit[p],
         sent' = [sent EXCEPT ![p] = @ + 1], queue' = Append(queue, NextValue(p)),
         dropped' = dropped
  PROVE  Tracked'
<1>1. PICK x \in Values : x = NextValue(p)
  BY NextValueIsNew DEF IInv
<1>3. \A v \in Values : /\ v[2] <= sent'[v[1]] => v[2] <= sent[v[1]] \/ v = x
                        /\ v[2] <= sent[v[1]] => v[2] <= sent'[v[1]] /\ v # x
  BY <1>1, PutCounts DEF IInv
<1>4. \A v : Listed(queue', v) <=> Listed(queue, v) \/ v = x
  BY <1>1, Appended DEF IInv, TypeOK
<1>5. \A v : (HandedOut(v)' <=> HandedOut(v)) /\ (Gone(v)' <=> Gone(v))
  BY DEF Kept, HandedOut, Gone
<1>6. \A v \in Values :
        v[2] <= sent'[v[1]] => Listed(queue', v) \/ HandedOut(v)' \/ Gone(v)'
  <2> SUFFICES ASSUME NEW v \in Values, v[2] <= sent'[v[1]]
               PROVE  Listed(queue', v) \/ HandedOut(v)' \/ Gone(v)'
    OBVIOUS
  <2>1. CASE v = x
    BY <1>4, <2>1
  <2>2. CASE v # x
    <3>1. v[2] <= sent[v[1]]
      BY <1>3, <2>2, Zenon
    <3>2. Listed(queue, v) \/ HandedOut(v) \/ Gone(v)
      BY <3>1 DEF Tracked
    <3> QED BY <1>4, <1>5, <3>2
  <2> QED BY <2>1, <2>2
<1>7. \A v \in Values :
        Gone(v)' => v[2] <= sent'[v[1]] /\ ~Listed(queue', v) /\ ~HandedOut(v)'
  BY <1>3, <1>4, <1>5 DEF Tracked
<1> QED BY <1>6, <1>7 DEF Tracked

\* A value is handed to a getter, from the queue or by the put() that makes it.
LEMMA TrackedHanded ==
  ASSUME Tracked, NEW g \in Getters, NEW x \in Values, HandedTo(g, x),
         Received(g) \in Seq(Values), ~Gone(x), dropped' = dropped,
         \A v \in Values : Listed(queue, v) <=> Listed(queue', v) \/ (v = x /\ Listed(queue, x)),
         \A v \in Values : v[2] <= sent[v[1]] => v[2] <= sent'[v[1]],
         \A v \in Values : v[2] <= sent'[v[1]] => v[2] <= sent[v[1]] \/ v = x
  PROVE  Tracked'
<1>1. \A v : Listed(Received(g)', v) <=> Listed(Received(g), v) \/ v = x
  BY Appended DEF HandedTo
<1>2. \A h \in Getters : h # g => Received(h)' = Received(h)
  BY DEF HandedTo
<1>3. \A v : HandedOut(v)' <=> HandedOut(v) \/ v = x
  BY <1>1, <1>2 DEF HandedOut
<1>4. \A v : Gone(v)' <=> Gone(v)
  BY DEF Gone
<1> QED BY <1>3, <1>4 DEF Tracked

\* An event makes a getter lose what it was handed last.
LEMMA TrackedLost ==
  ASSUME IInv, Flow, Tracked, NEW g \in Interruptible, Lost(g), UNCHANGED <<queue, sent>>
  PROVE  Tracked'
<1>1. PICK x \in Values : /\ Received(g) = Append(Received(g)', x)
                          /\ dropped' = [dropped EXCEPT ![g] = @ \cup {x}]
  BY DEF Lost
<1> DEFINE s == Received(g)'
<1>2. s \in Seq(Values) /\ Received(g) = Append(s, x) /\ g \in Getters
  BY <1>1, ChannelAssumption DEF Lost
<1>3. Ordered(Received(g))
  BY <1>2 DEF Flow
<1> HIDE DEF s
<1>4. \A v : Listed(Received(g), v) <=> Listed(s, v) \/ v = x
  BY <1>2, Appended
<1>5. ~Listed(s, x)
  <2> SUFFICES ASSUME NEW i \in DOMAIN s, s[i] = x PROVE FALSE
    BY DEF Listed
  <2>1. /\ Len(s) \in Nat /\ i \in 1 .. Len(s) /\ DOMAIN Append(s, x) = 1 .. Len(s) + 1
        /\ Append(s, x)[i] = s[i] /\ Append(s, x)[Len(s) + 1] = x
    BY <1>2
  <2>2. x[2] \in Nat
    BY ValueFacts
  <2>3. x[2] < x[2]
    BY <1>2, <1>3, <2>1 DEF Ordered
  <2> QED BY <2>2, <2>3
<1>6. /\ \A h \in Getters : h # g => Received(h)' = Received(h) /\ ~Listed(Received(h), x)
      /\ x[2] <= sent[x[1]] /\ HandedOut(x)
  BY <1>2, <1>4 DEF Lost, Flow, HandedOut
<1>7. ~Listed(queue, x)
  <2>1. Listed(queue, x) => x[2] < x[2]
    BY <1>2, <1>4 DEF Flow
  <2>2. x[2] \in Nat
    BY ValueFacts
  <2> QED BY <2>1, <2>2
<1>8. \A v : HandedOut(v) <=> HandedOut(v)' \/ v = x
  <2>1. \A v : Listed(Received(g)', v) <=> Listed(s, v)
    BY DEF s
  <2> QED BY <1>2, <1>4, <1>6, <2>1 DEF HandedOut
<1>9. ~HandedOut(x)'
  BY <1>5, <1>6 DEF HandedOut, s
<1>10. /\ \A v : Gone(v)' <=> Gone(v) \/ v = x
       /\ \A h \in Interruptible : \A v : v \in dropped'[h] <=> v \in dropped[h] \/ (h = g /\ v = x)
  BY <1>1, ChannelAssumption DEF Gone, IInv, TypeOK
<1>11. ~Gone(x)
  BY <1>6 DEF Tracked
<1>12. \A v \in Values : v[2] <= sent[v[1]] => Listed(queue, v) \/ HandedOut(v)' \/ Gone(v)'
  BY <1>8, <1>10 DEF Tracked
<1>13. \A v \in Values : Gone(v)' => v[2] <= sent[v[1]] /\ ~Listed(queue, v) /\ ~HandedOut(v)'
  BY <1>6, <1>7, <1>8, <1>9, <1>10 DEF Tracked
<1>14. \A h, k \in Interruptible : \A v \in Values :
         v \in dropped'[h] /\ v \in dropped'[k] => h = k
  BY <1>10, <1>11 DEF Tracked, Gone
<1> QED BY <1>12, <1>13, <1>14 DEF Tracked

LEMMA NextTracked == IInv /\ IInv' /\ Flow /\ Tracked /\ [Next]_vars => Tracked'
<1> SUFFICES ASSUME IInv, IInv', Flow, Tracked, [Next]_vars PROVE Tracked'
  OBVIOUS
<1>1. ASSUME NEW g \in Getters, GetNow(g) PROVE Tracked'
  <2>1. /\ queue \in Seq(Values) /\ queue # <<>> /\ queue' = Tail(queue)
        /\ UNCHANGED <<sent, dropped>> /\ Received(g) \in Seq(Values)
    BY <1>1, HandedFacts DEF GetNow, IInv, TypeOK, HandedIsRight
  <2>2. PICK x \in Values : x = Head(queue)
    BY <2>1, HeadAndTail
  <2>3. HandedTo(g, x)
    BY <1>1, <2>2, GetNowSteps
  <2>4. /\ Listed(queue, x)
        /\ \A v : Listed(queue, v) <=> v = x \/ Listed(queue', v)
    BY <2>1, <2>2, HeadAndTail
  <2>5. ~Gone(x)
    BY <2>4 DEF Tracked
  <2> QED BY <2>1, <2>3, <2>4, <2>5, TrackedHanded
<1>2. ASSUME NEW g \in Getters, Return(g) PROVE Tracked'
  <2>1. UNCHANGED <<queue, sent>>
    BY <1>2 DEF Return, channelVars
  <2> QED BY <1>2, <2>1, ReturnSteps, TrackedKept, TrackedLost
<1>3. ASSUME NEW p \in Putters, Put(p) PROVE Tracked'
  <2>1. /\ sent[p] < PutLimit[p] /\ sent' = [sent EXCEPT ![p] = @ + 1]
        /\ dropped' = dropped
    BY <1>3 DEF Put, getVars
  <2>2. CASE waiters = <<>>
    <3>1. Kept
      BY <1>3, <2>2, PutSteps
    <3>2. queue' = Append(queue, NextValue(p))
      BY <1>3, <2>2 DEF Put
    <3> QED BY <2>1, <3>1, <3>2, TrackedQueued
  <2>3. CASE waiters # <<>>
    <3>1. PICK g \in Getters : HandedTo(g, NextValue(p))
      BY <1>3, <2>3, PutSteps
    <3>2. PICK x \in Values : x = NextValue(p)
      BY <2>1, NextValueIsNew DEF IInv
    <3>3. queue' = queue
      BY <1>3, <2>3 DEF Put
    <3>4. x[1] = p /\ x[2] = sent[p] + 1 /\ sent'[p] = sent[p] + 1 /\ sent[p] \in Nat
      BY <2>1, <3>2, NextValueIsNew DEF IInv, TypeOK
    <3>5. ~Gone(x)
      BY <3>4 DEF Tracked
    <3>6. \A v \in Values : /\ v[2] <= sent'[v[1]] => v[2] <= sent[v[1]] \/ v = x
                            /\ v[2] <= sent[v[1]] => v[2] <= sent'[v[1]]
      BY <2>1, <3>2, PutCounts DEF IInv
    <3>7. Received(g) \in Seq(Values)
      BY HandedFacts DEF HandedIsRight
    <3>8. HandedTo(g, x) /\ \A v \in Values : Listed(queue', v) <=> Listed(queue, v)
      BY <3>1, <3>2, <3>3
    <3>9. \A v \in Values :
            Listed(queue, v) <=> Listed(queue', v) \/ (v = x /\ Listed(queue, x))
      BY <3>8
    <3>10. /\ \A v \in Values : v[2] <= sent[v[1]] => v[2] <= sent'[v[1]]
           /\ \A v \in Values : v[2] <= sent'[v[1]] => v[2] <= sent[v[1]] \/ v = x
      BY <3>6, Zenon
    <3> QED BY <2>1, <3>5, <3>7, <3>8, <3>9, <3>10, TrackedHanded
  <2> QED BY <2>2, <2>3
<1>4. ASSUME NEW g \in Getters, Wait(g) \/ SwitchOut(g) \/ Deferred(g) PROVE Tracked'
  <2>1. UNCHANGED <<queue, sent, dropped>>
    BY <1>4 DEF Wait, SwitchOut, Deferred, channelVars
  <2> QED BY <1>4, <2>1, SilentSteps, TrackedKept
<1>5. ASSUME NEW c \in Closers, Close(c) \/ Open(c) \/ NextWaiter(c) PROVE Tracked'
  <2>1. UNCHANGED <<queue, sent, dropped>>
    BY <1>5 DEF Close, Open, NextWaiter, channelVars, getVars
  <2> QED BY <1>5, <2>1, SilentSteps, TrackedKept
<1>6. ASSUME NEW w \in Wakers, Write(w) \/ Call(w) PROVE Tracked'
  <2>1. UNCHANGED <<queue, sent, dropped>>
    BY <1>6 DEF Write, Call, channelVars
  <2> QED BY <1>6, <2>1, SilentSteps, TrackedKept
<1>7. CASE UNCHANGED vars
  <2>1. UNCHANGED <<queue, sent, dropped>>
    BY <1>7 DEF vars, channelVars, getVars
  <2> QED BY <1>7, <2>1, SilentSteps, TrackedKept
<1> QED BY <1>1, <1>2, <1>3, <1>4, <1>5, <1>6, <1>7 DEF Next

LEMMA OrderedOnce ==
  ASSUME NEW s \in Seq(Values), Ordered(s), NEW i \in DOMAIN s, NEW k \in DOMAIN s,
         s[i] = s[k]
  PROVE  i = k
<1>1. i \in Nat /\ k \in Nat /\ s[i][2] \in Nat
  BY ValueFacts
<1>2. ~(i < k) /\ ~(k < i)
  BY <1>1 DEF Ordered
<1> QED BY <1>1, <1>2

\* What a getter has been handed, it has got or is being handed.
LEMMA SplitReceived ==
  ASSUME IInv, NEW g \in Getters, NEW v \in Values, Listed(Received(g), v)
  PROVE  (\E i \in DOMAIN got[g] : got[g][i] = v) \/ Handed(g) = <<v>>
<1>1. HandedIsRight /\ got[g] \in Seq(Values)
  BY HandedFacts DEF IInv, TypeOK
<1>2. Handed(g) = <<>> \/ \E x \in Values : Handed(g) = <<x>>
  <2>1. CASE \E p \in Putters : target[p] = g
    <3>1. PICK p \in Putters : target[p] = g
      BY <2>1
    <3>2. Handed(g) = <<<<p, sent[p]>>>> /\ Handed(g) \in Seq(Values)
      BY <1>1, <3>1 DEF HandedIsRight
    <3>3. Handed(g)[1] \in Values /\ Handed(g)[1] = <<p, sent[p]>>
      BY <3>2
    <3> QED BY <3>2, <3>3
  <2>2. CASE \A p \in Putters : target[p] # g
    BY <1>1, <2>2 DEF HandedIsRight, IInv, Contents
  <2> QED BY <2>1, <2>2
<1>3. CASE Handed(g) = <<>>
  BY <1>1, <1>3 DEF Received, Listed
<1>4. ASSUME NEW x \in Values, Handed(g) = <<x>> PROVE (\E i \in DOMAIN got[g] : got[g][i] = v) \/ v = x
  <2>1. Received(g) = Append(got[g], x)
    BY <1>1, <1>4 DEF Received
  <2>2. Listed(got[g], v) \/ v = x
    BY <1>1, <2>1, Appended
  <2> QED BY <2>2 DEF Listed
<1> QED BY <1>2, <1>3, <1>4

\* Values are not lost, but by getters an event interrupts, nor duplicated, nor
\* overtaken, whatever the number of getters, putters and closers.
THEOREM ValuesAreDelivered == Spec => []Delivered
<1>1. Init => Flow
  <2> SUFFICES ASSUME Init PROVE Flow
    OBVIOUS
  <2>1. \A g \in Getters : Received(g) = <<>>
    <3> SUFFICES ASSUME NEW g \in Getters PROVE Received(g) = <<>>
      OBVIOUS
    <3>1. \A p \in Putters : target[p] # g
      BY ChannelAssumption DEF Init, Wakers
    <3>2. Handed(g) = <<>> /\ got[g] = <<>>
      BY <3>1 DEF Init, Handed
    <3> QED BY <3>2 DEF Received
  <2> QED BY <2>1 DEF Init, Flow, Ordered, Listed
<1>4. Init => Tracked
  <2> SUFFICES ASSUME Init PROVE Tracked
    OBVIOUS
  <2>1. \A v : ~Gone(v)
    BY ChannelAssumption DEF Init, Gone
  <2>2. \A v \in Values : ~(v[2] <= sent[v[1]])
    <3> SUFFICES ASSUME NEW v \in Values PROVE ~(v[2] <= 0) /\ sent[v[1]] = 0
      OBVIOUS
    <3>1. PICK p \in Putters : v \in {p} \X (1 .. PutLimit[p])
      BY DEF Values
    <3>2. PutLimit[p] \in Nat /\ sent[p] = 0
      BY ChannelAssumption DEF Init
    <3> QED BY <3>1, <3>2
  <2>3. \A g \in Interruptible : dropped[g] = {}
    BY ChannelAssumption DEF Init
  <2> QED BY <2>1, <2>2, <2>3 DEF Tracked
<1>5. IInv /\ IInv' /\ Flow /\ Tracked /\ [Next]_vars => Tracked'
  BY NextTracked
<1>2. IInv /\ IInv' /\ Flow /\ [Next]_vars => Flow'
  BY NextFlow
<1>3. IInv /\ Flow /\ Tracked => Delivered
  <2> SUFFICES ASSUME IInv, Flow, Tracked PROVE Delivered
    OBVIOUS
  <2>1. /\ queue \in Seq(Values) /\ Ordered(queue)
        /\ \A g \in Getters : /\ got[g] \in Seq(Values) /\ Handed(g) \in Seq(Values)
                              /\ Received(g) \in Seq(Values) /\ Ordered(Received(g))
    BY HandedFacts DEF HandedIsRight, IInv, TypeOK, Flow
  <2>2. ASSUME NEW g \in Getters
        PROVE  /\ \A i \in DOMAIN got[g] :
                    /\ i \in DOMAIN Received(g) /\ Received(g)[i] = got[g][i]
                    /\ i \in 1 .. Len(got[g])
               /\ \A v : Handed(g) = <<v>> =>
                    /\ Len(got[g]) + 1 \in DOMAIN Received(g)
                    /\ Received(g)[Len(got[g]) + 1] = v
    <3>1. /\ got[g] \in Seq(Values) /\ Handed(g) \in Seq(Values)
          /\ Len(got[g]) \in Nat /\ DOMAIN got[g] = 1 .. Len(got[g])
          /\ Len(Handed(g)) \in Nat
      BY <2>1
    <3>2. /\ DOMAIN Received(g) = 1 .. Len(got[g]) + Len(Handed(g))
          /\ \A i \in 1 .. Len(got[g]) : Received(g)[i] = got[g][i]
      BY <3>1 DEF Received
    <3>3. ASSUME NEW v, Handed(g) = <<v>>
          PROVE  /\ Len(got[g]) + 1 \in DOMAIN Received(g)
                 /\ Received(g)[Len(got[g]) + 1] = v
      <4>1. v \in Values
        <5>1. <<v>> \in Seq(Values) /\ <<v>>[1] = v /\ 1 \in DOMAIN <<v>>
          BY <3>1, <3>3
        <5> QED BY <5>1
      <4>2. Received(g) = Append(got[g], v)
        BY <3>1, <3>3, <4>1 DEF Received
      <4> QED BY <3>1, <4>1, <4>2
    <3>4. \A i \in DOMAIN got[g] : i \in 1 .. Len(got[g]) /\ i \in DOMAIN Received(g)
      BY <3>1, <3>2
    <3> QED BY <3>2, <3>3, <3>4
  <2>3. InOrder
    <3> SUFFICES ASSUME NEW g \in Getters, NEW i \in DOMAIN got[g], NEW k \in DOMAIN got[g],
                        i < k, got[g][i][1] = got[g][k][1]
                 PROVE  got[g][i][2] < got[g][k][2]
      BY DEF InOrder
    <3>1. /\ i \in DOMAIN Received(g) /\ Received(g)[i] = got[g][i]
          /\ k \in DOMAIN Received(g) /\ Received(g)[k] = got[g][k]
      BY <2>2
    <3>2. Ordered(Received(g))
      BY <2>1
    <3> QED BY <3>1, <3>2 DEF Ordered
  <2>4. Conserved
    <3> SUFFICES ASSUME NEW p \in Putters, NEW n \in 1 .. sent[p]
                 PROVE  Cardinality(Copies(<<p, n>>)) = 1
      BY DEF Conserved
    <3>1. PICK v \in Values : v = <<p, n>>
      <4>1. sent[p] \in Nat /\ PutLimit[p] \in Nat /\ sent[p] <= PutLimit[p]
        BY ChannelAssumption DEF IInv, TypeOK
      <4>2. <<p, n>> \in {p} \X (1 .. PutLimit[p])
        BY <4>1
      <4> QED BY <4>2 DEF Values
    <3>2. v[2] \in Nat /\ v[2] <= sent[v[1]]
      BY <3>1, ValueFacts
    <3> DEFINE InQueue(x) == \E i \in DOMAIN queue : queue[i] = v /\ x = <<None, i>>
               Got(x) == \E g \in Getters : \E i \in DOMAIN Received(g) :
                           Received(g)[i] = v
                           /\ x = <<g, IF i \in DOMAIN got[g] THEN i ELSE 0>>
               Dropped(x) == \E g \in Interruptible : v \in dropped[g] /\ x = <<g, -1>>
    <3>3. ASSUME NEW x \in Copies(v) PROVE InQueue(x) \/ Got(x) \/ Dropped(x)
      <4>1. CASE \E i \in DOMAIN queue : queue[i] = v /\ x = <<None, i>>
        BY <4>1
      <4>2. CASE \E g \in Getters : \E i \in DOMAIN got[g] : got[g][i] = v /\ x = <<g, i>>
        BY <2>2, <4>2
      <4>3. CASE \E g \in Getters : Handed(g) = <<v>> /\ x = <<g, 0>>
        <5>1. PICK g \in Getters : Handed(g) = <<v>> /\ x = <<g, 0>>
          BY <4>3
        <5>2. Len(got[g]) + 1 \notin DOMAIN got[g]
          BY <2>1
        <5> QED BY <2>2, <5>1, <5>2
      <4>4. \/ x \in {<<None, i>> : i \in {k \in DOMAIN queue : queue[k] = v}}
            \/ \E g \in Getters : x \in {<<g, i>> : i \in {k \in DOMAIN got[g] : got[g][k] = v}}
            \/ x \in {<<g, 0>> : g \in {h \in Getters : Handed(h) = <<v>>}}
            \/ x \in {<<g, -1>> : g \in {h \in Interruptible : v \in dropped[h]}}
        <5> DEFINE Returned(g) == {<<g, i>> : i \in {k \in DOMAIN got[g] : got[g][k] = v}}
                   Queued == {<<None, i>> : i \in {k \in DOMAIN queue : queue[k] = v}}
                   OnItsWay == {<<g, 0>> : g \in {h \in Getters : Handed(h) = <<v>>}}
                   LostOnes == {<<g, -1>> : g \in {h \in Interruptible : v \in dropped[h]}}
        <5>1. Copies(v) = Queued \cup (UNION {Returned(g) : g \in Getters}) \cup OnItsWay
                            \cup LostOnes
          BY DEF Copies
        <5> HIDE DEF Returned, Queued, OnItsWay, LostOnes
        <5>2. x \in UNION {Returned(g) : g \in Getters} => \E g \in Getters : x \in Returned(g)
          OBVIOUS
        <5>3. \/ x \in Queued \/ (\E g \in Getters : x \in Returned(g)) \/ x \in OnItsWay
              \/ x \in LostOnes
          BY <3>3, <5>1, <5>2
        <5> QED BY <5>3 DEF Returned, Queued, OnItsWay, LostOnes
      <4>5. CASE x \in {<<g, 0>> : g \in {h \in Getters : Handed(h) = <<v>>}}
        BY <4>3, <4>5
      <4>6. CASE \E g \in Getters : x \in {<<g, i>> : i \in {k \in DOMAIN got[g] : got[g][k] = v}}
        <5>1. PICK g \in Getters : x \in {<<g, i>> : i \in {k \in DOMAIN got[g] : got[g][k] = v}}
          BY <4>6
        <5>2. \E i \in DOMAIN got[g] : got[g][i] = v /\ x = <<g, i>>
          BY <5>1
        <5> HIDE DEF InQueue, Got
        <5> QED BY <4>2, <5>2
      <4>7. CASE x \in {<<g, -1>> : g \in {h \in Interruptible : v \in dropped[h]}}
        <5>1. Dropped(x)
          BY <4>7
        <5> HIDE DEF InQueue, Got, Dropped
        <5> QED BY <5>1
      <4> QED BY <4>1, <4>4, <4>5, <4>6, <4>7
    <3>4. ASSUME NEW x, NEW y, InQueue(x), Got(y) PROVE FALSE
      <4>1. Listed(queue, v) /\ \E g \in Getters : Listed(Received(g), v)
        BY <3>4 DEF Listed
      <4>2. v[2] < v[2]
        BY <4>1 DEF Flow
      <4> QED BY <3>2, <4>2
    <3>5. ASSUME NEW x, NEW y, InQueue(x), InQueue(y) PROVE x = y
      BY <2>1, <3>5, OrderedOnce
    <3>6. ASSUME NEW x, NEW y, Got(x), Got(y) PROVE x = y
      <4>1. PICK g \in Getters : \E i \in DOMAIN Received(g) :
              Received(g)[i] = v /\ x = <<g, IF i \in DOMAIN got[g] THEN i ELSE 0>>
        BY <3>6
      <4>2. PICK h \in Getters : \E i \in DOMAIN Received(h) :
              Received(h)[i] = v /\ y = <<h, IF i \in DOMAIN got[h] THEN i ELSE 0>>
        BY <3>6
      <4>3. g = h
        BY <4>1, <4>2 DEF Listed, Flow
      <4> QED BY <2>1, <4>1, <4>2, <4>3, OrderedOnce
    <3>7. ASSUME NEW x, NEW y, Dropped(x), Dropped(y) PROVE x = y
      BY <3>7 DEF Tracked
    <3>8. ASSUME NEW x, NEW y, Dropped(x), InQueue(y) \/ Got(y) PROVE FALSE
      <4>1. Gone(v)
        BY <3>8 DEF Gone
      <4>2. Listed(queue, v) \/ HandedOut(v)
        BY <3>8 DEF Listed, HandedOut
      <4> QED BY <4>1, <4>2 DEF Tracked
    <3> HIDE DEF InQueue, Got, Dropped
    <3>9. \A x, y \in Copies(v) : x = y
      BY <3>3, <3>4, <3>5, <3>6, <3>7, <3>8
    <3>10. Copies(v) # {}
      <4>1. CASE Listed(queue, v)
        <5>1. PICK i \in DOMAIN queue : queue[i] = v
          BY <4>1 DEF Listed
        <5> QED BY <5>1 DEF Copies
      <4>2. CASE HandedOut(v)
        <5>1. PICK g \in Getters : Listed(Received(g), v)
          BY <4>2 DEF HandedOut
        <5>2. (\E i \in DOMAIN got[g] : got[g][i] = v) \/ Handed(g) = <<v>>
          BY <5>1, SplitReceived
        <5>3. CASE \E i \in DOMAIN got[g] : got[g][i] = v
          <6>1. PICK i \in DOMAIN got[g] : got[g][i] = v
            BY <5>3
          <6>2. <<g, i>> \in {<<g, k>> : k \in {m \in DOMAIN got[g] : got[g][m] = v}}
            BY <6>1
          <6>3. <<g, i>> \in UNION {{<<h, k>> : k \in {m \in DOMAIN got[h] : got[h][m] = v}}
                                       : h \in Getters}
            BY <6>2
          <6> QED BY <6>3 DEF Copies
        <5>4. CASE Handed(g) = <<v>>
          <6>1. <<g, 0>> \in {<<h, 0>> : h \in {k \in Getters : Handed(k) = <<v>>}}
            BY <5>4
          <6> QED BY <6>1 DEF Copies
        <5> QED BY <5>2, <5>3, <5>4
      <4>3. CASE Gone(v)
        <5>1. PICK g \in Interruptible : v \in dropped[g]
          BY <4>3 DEF Gone
        <5>2. <<g, -1>> \in {<<h, -1>> : h \in {k \in Interruptible : v \in dropped[k]}}
          BY <5>1
        <5> QED BY <5>2 DEF Copies
      <4> QED BY <3>2, <4>1, <4>2, <4>3 DEF Tracked
    <3>11. PICK x : Copies(v) = {x}
      BY <3>9, <3>10
    <3>12. Cardinality(Copies(v)) = 1
      BY <3>11, FS_Singleton
    <3> QED BY <3>1, <3>12
  <2> QED BY <2>3, <2>4 DEF Delivered
<1> QED BY <1>1, <1>2, <1>3, <1>4, <1>5, InductiveInvariant, PTL DEF Spec

-----------------------------------------------------------------------------
(* The channel implements Conduit. *)

Waiting == {waiters[i] : i \in DOMAIN waiters}
Handout == [g \in Getters |-> Received(g)]

LEMMA MappedInit == Init => Abstract!ConduitInit
<1> SUFFICES ASSUME Init PROVE Abstract!ConduitInit
  OBVIOUS
<1>1. \A g \in Getters : got[g] \o Handed(g) = <<>>
  <2> SUFFICES ASSUME NEW g \in Getters PROVE got[g] \o Handed(g) = <<>>
    OBVIOUS
  <2>1. \A p \in Putters : target[p] # g
    BY ChannelAssumption DEF Init, Wakers
  <2>2. Handed(g) = <<>> /\ got[g] = <<>>
    BY <2>1 DEF Init, Handed
  <2> QED BY <2>2
<1>2. {waiters[i] : i \in DOMAIN waiters} = {}
  BY DEF Init
<1> QED BY <1>1, <1>2 DEF Init, Abstract!ConduitInit

\* A step of the channel is a step of Conduit, or invisible: put() hands the value out
\* when it pops the Waiter, get() when it finds a value, and an event that meets a
\* proceeded getter loses what it was handed.
LEMMA MappedStep ==
  IInv /\ IInv' /\ [Next]_vars => [Abstract!ConduitNext]_(Abstract!conduitVars)
<1> SUFFICES ASSUME IInv, IInv', [Next]_vars
             PROVE  Abstract!ConduitNext \/ UNCHANGED <<queue, ~closed, Waiting, Handout>>
  BY DEF Abstract!conduitVars, Waiting, Handout, Received
<1> USE ChannelAssumption
<1>1. \A g : g \in Waiting <=> Listed(waiters, g)
  BY DEF Waiting, Listed
<1>2. \A g : g \in Waiting' <=> Listed(waiters', g)
  BY DEF Waiting, Listed
<1>3. Kept => Handout' = Handout
  BY DEF Kept, Handout
<1>4. \A g \in Getters : \A v :
        HandedTo(g, v) => Handout' = [Handout EXCEPT ![g] = Append(Handout[g], v)]
  BY DEF HandedTo, Handout
<1>5. closed \in BOOLEAN /\ closed' \in BOOLEAN
  BY DEF IInv, TypeOK
<1>6. ASSUME NEW g \in Getters, GetNow(g) PROVE Abstract!ConduitNext
  <2>1. g \notin Waiting
    BY <1>1, <1>6, OutIsUnreferred DEF GetNow, Locked
  <2>2. /\ queue # <<>> /\ queue' = Tail(queue) /\ closed' = closed /\ Waiting' = Waiting
        /\ Handout' = [Handout EXCEPT ![g] = Append(Handout[g], Head(queue))]
    BY <1>4, <1>6, GetNowSteps DEF GetNow, Waiting
  <2>3. Abstract!Get(g)
    BY <2>2 DEF Abstract!Get, Abstract!Hand, Waiting, Handout, Received
  <2> QED BY <2>1, <2>3 DEF Abstract!ConduitNext, Waiting
<1>7. ASSUME NEW g \in Getters, Wait(g) PROVE Abstract!ConduitNext
  <2>1. g \notin Waiting
    BY <1>1, <1>7, OutIsUnreferred DEF Wait, Locked
  <2>2. Handout' = Handout
    BY <1>3, <1>7, SilentSteps
  <2>3. Waiting' = Waiting \cup {g}
    BY <1>1, <1>2, <1>7, Pushed DEF Wait, IInv, TypeOK
  <2>4. queue = <<>> /\ ~closed /\ UNCHANGED <<queue, closed>>
    BY <1>7 DEF Wait
  <2>5. Abstract!Get(g)
    BY <2>2, <2>3, <2>4 DEF Abstract!Get, Waiting, Handout, Received
  <2> QED BY <2>1, <2>5 DEF Abstract!ConduitNext, Waiting
<1>8. ASSUME NEW g \in Getters, Return(g)
      PROVE  Abstract!ConduitNext \/ UNCHANGED <<queue, ~closed, Waiting, Handout>>
  <2>1. UNCHANGED <<queue, closed, Waiting>>
    BY <1>8 DEF Return, channelVars, Waiting
  <2>2. CASE Kept
    BY <1>3, <2>1, <2>2
  <2>3. CASE g \in Interruptible /\ Lost(g)
    <3>1. /\ Handout[g] # <<>>
          /\ Handout' = [Handout EXCEPT ![g] = SubSeq(Handout[g], 1, Len(Handout[g]) - 1)]
      BY <2>3 DEF Lost, Handout
    <3>2. Abstract!Lose(g)
      BY <2>1, <3>1 DEF Abstract!Lose, Waiting, Handout, Received
    <3> QED BY <2>3, <3>2 DEF Abstract!ConduitNext
  <2> QED BY <1>8, <2>2, <2>3, ReturnSteps
<1>9. ASSUME NEW p \in Putters, Put(p) PROVE Abstract!ConduitNext
  <2>0. PICK v \in Values : v = NextValue(p)
    BY <1>9, NextValueIsNew DEF IInv, Put
  <2>1. closed' = closed
    BY <1>9 DEF Put
  <2>2. CASE waiters = <<>>
    <3>1. queue' = Append(queue, v) /\ waiters' = waiters
      BY <1>9, <2>0, <2>2 DEF Put
    <3>2. Waiting = {} /\ Waiting' = Waiting
      BY <2>2, <3>1 DEF Waiting
    <3>3. Handout' = Handout
      BY <1>3, <1>9, <2>2, PutSteps
    <3>4. Abstract!Put(v)
      BY <2>1, <3>1, <3>2, <3>3 DEF Abstract!Put, Waiting, Handout, Received
    <3> QED BY <3>4 DEF Abstract!ConduitNext
  <2>3. CASE waiters # <<>>
    <3>1. PICK g \in Getters : g = Head(waiters) /\ HandedTo(g, v)
      BY <1>9, <2>0, <2>3, PutSteps
    <3>2. queue' = queue /\ waiters' = Tail(waiters)
      BY <1>9, <2>3 DEF Put
    <3>3. g \in Waiting /\ Waiting' = Waiting \ {g}
      BY <1>1, <1>2, <2>3, <3>1, <3>2, HeadAndTail DEF IInv, TypeOK, OnePointer
    <3>4. Handout' = [Handout EXCEPT ![g] = Append(Handout[g], v)]
      BY <1>4, <3>1
    <3>5. Abstract!Put(v)
      BY <2>1, <3>2, <3>3, <3>4 DEF Abstract!Put, Abstract!Hand, Waiting, Handout, Received
    <3> QED BY <3>5 DEF Abstract!ConduitNext
  <2> QED BY <2>2, <2>3
<1>10. ASSUME NEW c \in Closers, Close(c) PROVE Abstract!ConduitNext
  <2>1. Handout' = Handout
    BY <1>3, <1>10, SilentSteps
  <2>2. closed' /\ queue' = queue /\ Waiting' = {}
    BY <1>10 DEF Close, Waiting
  <2> QED BY <2>1, <2>2 DEF Abstract!ConduitNext, Abstract!Close, Waiting, Handout, Received
<1>11. ASSUME NEW c \in Closers, Open(c) PROVE Abstract!ConduitNext
  <2>1. Handout' = Handout
    BY <1>3, <1>11, SilentSteps
  <2>2. ~closed' /\ queue' = queue /\ Waiting' = Waiting
    BY <1>11 DEF Open, Waiting
  <2> QED BY <2>1, <2>2 DEF Abstract!ConduitNext, Abstract!Open, Waiting, Handout, Received
<1>12. ASSUME NEW g \in Getters, SwitchOut(g) \/ Deferred(g)
       PROVE  UNCHANGED <<queue, ~closed, Waiting, Handout>>
  <2>1. Handout' = Handout
    BY <1>3, <1>12, SilentSteps
  <2> QED BY <1>12, <2>1 DEF SwitchOut, Deferred, channelVars, Waiting
<1>13. ASSUME NEW c \in Closers, NextWaiter(c)
       PROVE  UNCHANGED <<queue, ~closed, Waiting, Handout>>
  <2>1. Handout' = Handout
    BY <1>3, <1>13, SilentSteps
  <2> QED BY <1>13, <2>1 DEF NextWaiter, channelVars, Waiting
<1>14. ASSUME NEW w \in Wakers, Write(w) \/ Call(w)
       PROVE  UNCHANGED <<queue, ~closed, Waiting, Handout>>
  <2>1. Handout' = Handout
    BY <1>3, <1>14, SilentSteps
  <2> QED BY <1>14, <2>1 DEF Write, Call, channelVars, Waiting
<1>15. ASSUME UNCHANGED vars PROVE UNCHANGED <<queue, ~closed, Waiting, Handout>>
  <2>1. Handout' = Handout
    BY <1>3, <1>15, SilentSteps
  <2> QED BY <1>15, <2>1 DEF vars, channelVars, Waiting
<1> QED
  BY <1>6, <1>7, <1>8, <1>9, <1>10, <1>11, <1>12, <1>13, <1>14, <1>15 DEF Next

\* The channel implements Conduit, step by step.
THEOREM ChannelImplementsConduit == Spec => ImplementsConduit
  BY MappedInit, MappedStep, InductiveInvariant, PTL
     DEF Spec, ImplementsConduit, Abstract!ConduitSpec

=============================================================================
