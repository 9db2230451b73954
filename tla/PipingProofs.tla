---------------------------- MODULE PipingProofs ----------------------------
(***************************************************************************)
(* Proofs about Piping, for every graph of pages and any number of         *)
(* workers: pages are loaded and counted once, nobody puts into a channel  *)
(* that is closed, the graph comes to rest only when all is over, and the  *)
(* whole implements Crawl.                                                 *)
(*                                                                         *)
(* The invariant has three parts: the shape of the state; how the end      *)
(* spreads from Input through the graph; and where the values of a page    *)
(* are.  A value on the way is held at one place - in a channel, in the    *)
(* hands of a worker, or among what it has yet to put - and what is done   *)
(* with it next says what has been done with its page.                     *)
(***************************************************************************)
EXTENDS Piping, FiniteSetTheorems, SequenceTheorems, TLAPS

Shape ==
  /\ queue \in [Channels -> Seq(Pages)]
  /\ closed \in [Channels -> BOOLEAN]
  /\ at \in [Workers -> Places]
  /\ val \in [Workers -> Pages \cup {None}]
  /\ out \in [Workers -> Seq(Channels \X Pages)]
  /\ processed \in SUBSET Pages
  /\ loads \in [Pages -> Nat] /\ failures \in [Pages -> Nat]
  /\ countedWords \in [Pages -> Nat]
  /\ main \in MainPlaces
  /\ \A w \in Workers :
       /\ at[w] \in {"working", "loading"} => val[w] \in Pages
       /\ at[w] = "loading" => Job[w] = "load"
       /\ at[w] = "putting" <=> out[w] # <<>>

\* The main thread has seen the pool quiescent: no value is left anywhere.
Drained ==
  /\ \A c \in Channels : queue[c] = <<>>
  /\ \A w \in Workers : at[w] \in {"waiting", "closing", "ended"}

\* How the end spreads from Input through the graph.
Ends ==
  /\ \A w \in Workers :
       /\ at[w] = "waiting" => queue[Src[w]] = <<>> /\ ~closed[Src[w]]
       /\ at[w] \in {"closing", "ended"} => closed[Src[w]]
       /\ at[w] = "ended" => \A i \in DOMAIN Dst[w] : closed[Dst[w][i]]
  /\ main \in {"feeding", "waiting", "closing"} => \A c \in Channels : ~closed[c]
  /\ main \in {"ending", "reading"} => closed[Input]
  /\ main \in {"closing", "ending", "reading"} => Drained

-----------------------------------------------------------------------------
(* A value on the way: in a channel, in a worker's hands, or among the values it *)
(* has yet to put.  What will be done with it is a job.                          *)

Holds(place, of, i, p, job) ==
  \/ /\ place = "queue" /\ of \in Channels /\ For(of) = job
     /\ i \in DOMAIN queue[of] /\ queue[of][i] = p
  \/ /\ place = "work" /\ of \in Workers /\ Job[of] = job
     /\ i = 0 /\ at[of] \in {"working", "loading"} /\ val[of] = p
  \/ /\ place = "out" /\ of \in Workers
     /\ i \in DOMAIN out[of] /\ For(out[of][i][1]) = job /\ out[of][i][2] = p

Holders == {"queue", "work", "out"}

Carried(p, job) ==
  \E place \in Holders, of \in Channels \cup Workers, i \in Nat :
    Holds(place, of, i, p, job)

\* From the filter to the counter there is one value of a page.
Single == {"parse", "load", "split", "count"}

Unique ==
  \A p \in Pages : \A j, k \in Single :
    \A x, y \in Holders, a, b \in Channels \cup Workers, m, n \in Nat :
      Holds(x, a, m, p, j) /\ Holds(y, b, n, p, k) => x = y /\ a = b /\ m = n

Known == Abstract!Known

\* What a value on the way says of its page.
Meaning ==
  \A p \in Pages :
    /\ Carried(p, "filter") => p \in Known
    /\ Carried(p, "parse") => p \in processed /\ loads[p] + failures[p] = 0
    /\ Carried(p, "load") =>
         p \in processed \cap Parsable /\ loads[p] + failures[p] = 0
    /\ Carried(p, "split") => loads[p] > 0 /\ countedWords[p] = 0
    /\ Carried(p, "count") => loads[p] > 0 /\ countedWords[p] = 0
    /\ Carried(p, "href") => loads[p] > 0

Counters ==
  \A p \in Pages :
    /\ loads[p] + failures[p] <= 1 /\ countedWords[p] <= 1
    /\ loads[p] + failures[p] > 0 => p \in processed \cap Parsable
    /\ countedWords[p] > 0 => loads[p] > 0
    /\ p \in processed => p \in Known \cap Matching

\* Page q has been seen by the filter, or is on the way to it.
Settled(q) ==
  \/ q \in processed \/ q \notin Matching
  \/ Cardinality(processed) = MaxUrls
  \/ Carried(q, "filter")

\* No page is forgotten.
Complete ==
  /\ main # "feeding" => Settled(Seed)
  /\ \A p \in processed \cap Parsable :
       loads[p] + failures[p] > 0 \/ Carried(p, "parse") \/ Carried(p, "load")
  /\ \A p \in Pages : loads[p] > 0 =>
       /\ countedWords[p] > 0 \/ Carried(p, "split") \/ Carried(p, "count")
       /\ \A i \in DOMAIN Links[p] :
            Settled(Links[p][i]) \/ Carried(p, "split") \/ Carried(p, "href")

Bounded == IsFiniteSet(processed) /\ Cardinality(processed) <= MaxUrls

Data == Unique /\ Meaning /\ Counters /\ Complete /\ Bounded

IInv == Shape /\ Ends /\ Data

-----------------------------------------------------------------------------
(* Sequences *)

\* What Append does, element by element.
LEMMA AppendFacts ==
  ASSUME NEW S, NEW q \in Seq(S), NEW e \in S
  PROVE  /\ Append(q, e) \in Seq(S)
         /\ Append(q, e) # <<>>
         /\ Len(q) + 1 \in Nat
         /\ DOMAIN Append(q, e) = DOMAIN q \cup {Len(q) + 1}
         /\ Len(q) + 1 \notin DOMAIN q
         /\ Append(q, e)[Len(q) + 1] = e
         /\ \A i \in DOMAIN q : Append(q, e)[i] = q[i]
OBVIOUS

\* What Tail does, element by element.
LEMMA TailFacts ==
  ASSUME NEW S, NEW q \in Seq(S), q # <<>>
  PROVE  /\ Tail(q) \in Seq(S)
         /\ 1 \in DOMAIN q /\ Head(q) = q[1] /\ Head(q) \in S
         /\ \A i \in DOMAIN q : i \in Nat /\ i >= 1
         /\ \A i : i \in DOMAIN Tail(q) <=> i \in Nat /\ i # 0 /\ i + 1 \in DOMAIN q
         /\ \A i \in DOMAIN Tail(q) : Tail(q)[i] = q[i + 1]
         /\ Len(q) = 1 <=> Tail(q) = <<>>
<1>1. Len(q) \in Nat /\ Len(q) # 0
  OBVIOUS
<1>2. Len(Tail(q)) = Len(q) - 1 /\ Tail(q) \in Seq(S)
  OBVIOUS
<1>3. Tail(q) = <<>> <=> Len(Tail(q)) = 0
  BY <1>2, EmptySeq
<1>4. Len(q) = 1 <=> Tail(q) = <<>>
  BY <1>1, <1>2, <1>3
<1> HIDE <1>3, <1>4
<1>5. /\ 1 \in DOMAIN q /\ Head(q) = q[1] /\ Head(q) \in S
      /\ \A i \in DOMAIN q : i \in Nat /\ i >= 1
      /\ \A i : i \in DOMAIN Tail(q) <=> i \in Nat /\ i # 0 /\ i + 1 \in DOMAIN q
      /\ \A i \in DOMAIN Tail(q) : Tail(q)[i] = q[i + 1]
  OBVIOUS
<1> QED BY <1>2, <1>4, <1>5

\* Who has an element is not empty.
LEMMA ElementFacts ==
  ASSUME NEW S, NEW q \in Seq(S), NEW i \in DOMAIN q
  PROVE  q[i] \in S /\ i \in Nat /\ i >= 1 /\ q # <<>>
OBVIOUS

-----------------------------------------------------------------------------
(* The graph *)

\* What is done with the values of a channel is what its readers do.
LEMMA ForReader ==
  ASSUME NEW w \in Workers
  PROVE  Src[w] \in Channels /\ For(Src[w]) = Job[w]
<1>1. Src[w] \in Channels
  BY PipingAssumption
<1> DEFINE v == CHOOSE u \in Workers : Src[u] = Src[w]
<1>2. v \in Workers /\ Src[v] = Src[w]
  OBVIOUS
<1>3. Job[v] = Job[w]
  BY <1>2, GraphAssumption
<1> QED BY <1>1, <1>3 DEF For

\* A worker's destinations are channels for what its job feeds.
LEMMA DestinationFacts ==
  ASSUME NEW w \in Workers
  PROVE  /\ Dst[w] \in Seq(Channels)
         /\ DOMAIN Dst[w] = DOMAIN Feeds(Job[w])
         /\ \A i \in DOMAIN Dst[w] :
              Dst[w][i] \in Channels /\ For(Dst[w][i]) = Feeds(Job[w])[i]
<1>1. Dst[w] \in Seq(Channels)
  BY PipingAssumption
<1> DEFINE f == [i \in DOMAIN Dst[w] |-> For(Dst[w][i])]
<1>2. f = Feeds(Job[w])
  BY GraphAssumption
<1>3. DOMAIN f = DOMAIN Dst[w] /\ \A i \in DOMAIN Dst[w] : f[i] = For(Dst[w][i])
  OBVIOUS
<1>4. \A i \in DOMAIN Dst[w] : Dst[w][i] \in Channels
  BY <1>1, ElementFacts
<1> QED BY <1>1, <1>2, <1>3, <1>4

\* Where the pipes with one destination put.
LEMMA OneDestination ==
  ASSUME NEW w \in Workers, Job[w] \in {"filter", "parse", "load", "href"}
  PROVE  /\ 1 \in DOMAIN Dst[w] /\ Dst[w][1] \in Channels
         /\ Job[w] = "filter" => For(Dst[w][1]) = "parse"
         /\ Job[w] = "parse" => For(Dst[w][1]) = "load"
         /\ Job[w] = "load" => For(Dst[w][1]) = "split"
         /\ Job[w] = "href" => For(Dst[w][1]) = "filter"
<1>1. /\ Job[w] = "filter" => Feeds(Job[w]) = <<"parse">>
      /\ Job[w] = "parse" => Feeds(Job[w]) = <<"load">>
      /\ Job[w] = "load" => Feeds(Job[w]) = <<"split">>
      /\ Job[w] = "href" => Feeds(Job[w]) = <<"filter">>
  BY DEF Feeds
<1>2. 1 \in DOMAIN Dst[w]
  BY <1>1, DestinationFacts
<1> QED BY <1>1, <1>2, DestinationFacts

\* Where the journey that splits the content puts.
LEMMA TwoDestinations ==
  ASSUME NEW w \in Workers, Job[w] = "split"
  PROVE  /\ DOMAIN Dst[w] = {1, 2} /\ Len(Dst[w]) = 2
         /\ Dst[w][1] \in Channels /\ For(Dst[w][1]) = "count"
         /\ Dst[w][2] \in Channels /\ For(Dst[w][2]) = "href"
<1>1. Feeds(Job[w]) = <<"count", "href">>
  BY DEF Feeds
<1>2. DOMAIN Dst[w] = 1 .. 2
  BY <1>1, DestinationFacts
<1>3. Len(Dst[w]) = 2
  <2>1. Len(Dst[w]) \in Nat /\ DOMAIN Dst[w] = 1 .. Len(Dst[w])
    BY DestinationFacts
  <2>2. \A n \in Nat : 1 .. n = 1 .. 2 => n = 2
    <3> SUFFICES ASSUME NEW n \in Nat, 1 .. n = 1 .. 2 PROVE n = 2
      OBVIOUS
    <3>1. 2 \in 1 .. n /\ 3 \notin 1 .. n
      OBVIOUS
    <3> QED BY <3>1
  <2>3. 1 .. Len(Dst[w]) = 1 .. 2
    BY <1>2, <2>1
  <2> QED BY <2>1, <2>2, <2>3
<1> QED BY <1>1, <1>2, <1>3, DestinationFacts

-----------------------------------------------------------------------------
(* How the program ends *)

LEMMA ShapeInit == Init => Shape
BY PipingAssumption DEF Init, Shape, Places, MainPlaces

LEMMA EndsInit == Init => Ends
BY PipingAssumption DEF Init, Ends

\* Who works knows that nothing is closed.
LEMMA BusyFacts ==
  ASSUME Shape, Ends, NEW w \in Workers,
         at[w] \in {"getting", "working", "loading", "putting"}
  PROVE  /\ main \in {"feeding", "waiting"}
         /\ \A c \in Channels : ~closed[c]
         /\ \A u \in Workers : at[u] \notin {"closing", "ended"}
<1>1. main \in {"feeding", "waiting"}
  BY DEF Shape, Ends, Drained, MainPlaces
<1>2. \A c \in Channels : ~closed[c]
  BY <1>1 DEF Ends
<1> QED BY <1>1, <1>2, ForReader DEF Ends

\* A step of work, in which no channel is closed.
LEMMA WorkKeepsEnds ==
  ASSUME Shape, Ends, main \in {"feeding", "waiting"},
         UNCHANGED closed, main' \in {"feeding", "waiting"},
         \A u \in Workers : at'[u] \notin {"closing", "ended"},
         \A u \in Workers : at'[u] = "waiting" => queue'[Src[u]] = <<>>
  PROVE  Ends'
<1>1. \A c \in Channels : ~closed'[c]
  BY DEF Ends
<1> QED BY <1>1, ForReader DEF Ends

\* What put() does to the channel and to who waits at it.
LEMMA PutFacts ==
  ASSUME Shape, Ends, NEW c \in Channels, NEW v \in Pages,
         NEW place, place \in [Workers -> Places],
         \A u \in Workers : at[u] = "waiting" <=> place[u] = "waiting",
         Put(c, v, place)
  PROVE  /\ queue' \in [Channels -> Seq(Pages)]
         /\ val' \in [Workers -> Pages \cup {None}]
         /\ at' \in [Workers -> Places]
         /\ \A u \in Workers : at[u] # "waiting" => at'[u] = place[u] /\ val'[u] = val[u]
         /\ \A u \in Workers : at[u] = "waiting" =>
              \/ at'[u] = "waiting"
              \/ at'[u] = "working" /\ val'[u] \in Pages
         /\ \A u \in Workers : at'[u] = "waiting" =>
              at[u] = "waiting" /\ queue'[Src[u]] = <<>>
<1>1. CASE /\ WaitingOn(c) = {}
           /\ queue' = [queue EXCEPT ![c] = Append(queue[c], v)]
           /\ at' = place /\ val' = val
  <2>1. Append(queue[c], v) \in Seq(Pages)
    BY AppendFacts DEF Shape
  <2>2. queue' \in [Channels -> Seq(Pages)]
    BY <1>1, <2>1 DEF Shape
  <2>3. \A u \in Workers : at[u] = "waiting" => Src[u] # c
    BY <1>1 DEF WaitingOn
  <2>4. \A u \in Workers : at[u] = "waiting" => queue'[Src[u]] = <<>>
    BY <1>1, <2>3, ForReader DEF Shape, Ends
  <2> QED BY <1>1, <2>2, <2>4 DEF Shape
<1>2. CASE \E u \in WaitingOn(c) :
             /\ val' = [val EXCEPT ![u] = v]
             /\ at' = [place EXCEPT ![u] = "working"]
             /\ queue' = queue
  <2>1. PICK u \in WaitingOn(c) :
          /\ val' = [val EXCEPT ![u] = v]
          /\ at' = [place EXCEPT ![u] = "working"]
          /\ queue' = queue
    BY <1>2
  <2>2. u \in Workers /\ at[u] = "waiting"
    BY DEF WaitingOn
  <2>3. at' \in [Workers -> Places]
    BY <2>1 DEF Places
  <2>4. val' \in [Workers -> Pages \cup {None}]
    BY <2>1 DEF Shape
  <2>5. at'[u] = "working" /\ val'[u] = v
    BY <2>1, <2>2 DEF Shape
  <2>6. \A x \in Workers : x # u => at'[x] = place[x] /\ val'[x] = val[x]
    BY <2>1 DEF Shape
  <2>7. \A x \in Workers : at[x] = "waiting" => queue'[Src[x]] = <<>>
    BY <2>1 DEF Ends
  <2>8. queue' \in [Channels -> Seq(Pages)]
    BY <2>1 DEF Shape
  <2> QED BY <2>2, <2>3, <2>4, <2>5, <2>6, <2>7, <2>8
<1> QED BY <1>1, <1>2 DEF Put

\* What a worker that has a value in its hands does with it: it comes to put the
\* values s, if there are any.
LEMMA EmitKeeps ==
  ASSUME Shape, Ends, NEW w \in Workers, at[w] \in {"working", "loading"},
         NEW s \in Seq(Channels \X Pages),
         out' = [out EXCEPT ![w] = s],
         at' = At(w, IF s = <<>> THEN "getting" ELSE "putting"),
         UNCHANGED <<queue, closed, val, main>>,
         processed' \in SUBSET Pages,
         loads' \in [Pages -> Nat], failures' \in [Pages -> Nat],
         countedWords' \in [Pages -> Nat]
  PROVE  Shape' /\ Ends'
<1>1. at' \in [Workers -> Places] /\ out' \in [Workers -> Seq(Channels \X Pages)]
  BY DEF Shape, At, Places
<1>2. /\ at'[w] = IF s = <<>> THEN "getting" ELSE "putting"
      /\ out'[w] = s
      /\ \A u \in Workers : u # w => at'[u] = at[u] /\ out'[u] = out[u]
  BY DEF Shape, At
<1>3. Shape'
  BY <1>1, <1>2 DEF Shape
<1>4. at'[w] \in {"getting", "putting"}
  BY <1>2
<1>5. \A u \in Workers : at'[u] = "waiting" => queue'[Src[u]] = <<>>
  <2> SUFFICES ASSUME NEW u \in Workers, at'[u] = "waiting"
               PROVE  queue'[Src[u]] = <<>>
    OBVIOUS
  <2>1. at[u] = "waiting"
    BY <1>2, <1>4
  <2> QED BY <2>1 DEF Ends
<1>6. /\ main \in {"feeding", "waiting"}
      /\ \A u \in Workers : at'[u] \notin {"closing", "ended"}
  BY <1>2, <1>4, BusyFacts
<1>7. Ends'
  BY <1>5, <1>6, WorkKeepsEnds
<1> QED BY <1>3, <1>7

\* The values s as they are put into the first destination of w.
ToFirst(w, s) == [i \in DOMAIN s |-> <<Dst[w][1], s[i]>>]

\* They are as many as s, and in the same order.
LEMMA ToFirstFacts ==
  ASSUME NEW w \in Workers, Job[w] \in {"filter", "parse", "load", "href"},
         NEW s \in Seq(Pages)
  PROVE  /\ ToFirst(w, s) \in Seq(Channels \X Pages)
         /\ ToFirst(w, s) = <<>> <=> s = <<>>
         /\ DOMAIN ToFirst(w, s) = DOMAIN s
         /\ \A i \in DOMAIN s :
              ToFirst(w, s)[i][1] = Dst[w][1] /\ ToFirst(w, s)[i][2] = s[i]
<1>1. Dst[w][1] \in Channels
  BY OneDestination
<1>2. ToFirst(w, s) \in Seq(Channels \X Pages) /\ Len(ToFirst(w, s)) = Len(s)
  BY <1>1 DEF ToFirst
<1>3. ToFirst(w, s) = <<>> <=> s = <<>>
  BY <1>2, EmptySeq
<1> QED BY <1>2, <1>3 DEF ToFirst

\* The steps of a worker with a value in its hands, each an EmitKeeps.
LEMMA FilterKeeps ==
  ASSUME Shape, Ends, NEW w \in Workers, Filter(w)
  PROVE  Shape' /\ Ends'
<1> DEFINE s == IF Accepted(val[w]) THEN <<val[w]>> ELSE <<>>
<1>1. /\ at[w] = "working" /\ Job[w] = "filter" /\ val[w] \in Pages
      /\ processed' = processed \cup {p \in {val[w]} : Accepted(p)}
      /\ UNCHANGED <<queue, closed, val, loads, failures, countedWords, main>>
  BY DEF Filter, Shape, chanVars
<1>2. s \in Seq(Pages)
  BY <1>1
<1>3. Emit(w, s)
  BY DEF Filter
<1> HIDE DEF s
<1>4. processed' \in SUBSET Pages
  BY <1>1 DEF Shape
<1> QED
  BY <1>1, <1>2, <1>3, <1>4, ToFirstFacts, EmitKeeps DEF Emit, ToFirst, Shape

LEMMA ParseKeeps ==
  ASSUME Shape, Ends, NEW w \in Workers, Parse(w)
  PROVE  Shape' /\ Ends'
<1> DEFINE s == IF val[w] \in Parsable THEN <<val[w]>> ELSE <<>>
<1>1. /\ at[w] = "working" /\ Job[w] = "parse" /\ val[w] \in Pages
      /\ UNCHANGED <<queue, closed, val, processed, loads, failures, countedWords, main>>
      /\ Emit(w, s)
  BY DEF Parse, Shape, chanVars, pageVars
<1>2. s \in Seq(Pages)
  BY <1>1
<1> HIDE DEF s
<1> QED
  BY <1>1, <1>2, ToFirstFacts, EmitKeeps DEF Emit, ToFirst, Shape

LEMMA EndLoadKeeps ==
  ASSUME Shape, Ends, NEW w \in Workers, EndLoad(w)
  PROVE  Shape' /\ Ends'
<1>1. /\ at[w] = "loading" /\ Job[w] = "load" /\ val[w] \in Pages
      /\ UNCHANGED <<queue, closed, val, processed, countedWords, main>>
  BY DEF EndLoad, Shape, chanVars
<1>2. \/ /\ loads' = [loads EXCEPT ![val[w]] = loads[val[w]] + 1]
         /\ failures' = failures /\ Emit(w, <<val[w]>>)
      \/ /\ failures' = [failures EXCEPT ![val[w]] = failures[val[w]] + 1]
         /\ loads' = loads /\ Emit(w, <<>>)
  BY DEF EndLoad
<1>3. loads' \in [Pages -> Nat] /\ failures' \in [Pages -> Nat]
  <2>1. loads[val[w]] + 1 \in Nat /\ failures[val[w]] + 1 \in Nat
    BY <1>1 DEF Shape
  <2>2. loads' \in [Pages -> Nat]
    BY <1>2, <2>1 DEF Shape
  <2>3. failures' \in [Pages -> Nat]
    BY <1>2, <2>1 DEF Shape
  <2> QED BY <2>2, <2>3
<1>4. <<val[w]>> \in Seq(Pages) /\ <<>> \in Seq(Pages)
  BY <1>1
<1>5. PICK s \in Seq(Pages) : Emit(w, s)
  BY <1>2, <1>4
<1> QED
  BY <1>1, <1>3, <1>5, ToFirstFacts, EmitKeeps DEF Emit, ToFirst, Shape

LEMMA HrefKeeps ==
  ASSUME Shape, Ends, NEW w \in Workers, Href(w)
  PROVE  Shape' /\ Ends'
<1>1. /\ at[w] = "working" /\ Job[w] = "href" /\ val[w] \in Pages
      /\ UNCHANGED <<queue, closed, val, processed, loads, failures, countedWords, main>>
      /\ Emit(w, Links[val[w]])
  BY DEF Href, Shape, chanVars, pageVars
<1>2. Links[val[w]] \in Seq(Pages)
  BY <1>1, PipingAssumption
<1> QED
  BY <1>1, <1>2, ToFirstFacts, EmitKeeps DEF Emit, ToFirst, Shape

\* A single value that is put.
LEMMA OneValue ==
  ASSUME NEW w \in Workers, Job[w] \in {"filter", "parse", "load", "href"},
         NEW v \in Pages
  PROVE  /\ ToFirst(w, <<v>>) # <<>> /\ DOMAIN ToFirst(w, <<v>>) = {1}
         /\ ToFirst(w, <<v>>)[1][1] = Dst[w][1] /\ ToFirst(w, <<v>>)[1][2] = v
<1>1. PICK u : u = <<v>>
  OBVIOUS
<1>2. u \in Seq(Pages) /\ DOMAIN u = {1} /\ u # <<>> /\ u[1] = v
  BY <1>1
<1>3. ToFirst(w, u) # <<>> /\ DOMAIN ToFirst(w, u) = {1}
      /\ ToFirst(w, u)[1][1] = Dst[w][1] /\ ToFirst(w, u)[1][2] = v
  BY <1>2, ToFirstFacts
<1> QED BY <1>1, <1>3

\* What the split journey puts.
ToBoth(w, p) == [i \in DOMAIN Dst[w] |-> <<Reverse(Dst[w])[i], p>>]

\* Two values: the first for the last destination.
LEMMA ToBothFacts ==
  ASSUME NEW w \in Workers, Job[w] = "split", NEW p \in Pages
  PROVE  /\ ToBoth(w, p) \in Seq(Channels \X Pages)
         /\ ToBoth(w, p) # <<>> /\ DOMAIN ToBoth(w, p) = {1, 2}
         /\ ToBoth(w, p)[1] = <<Dst[w][2], p>>
         /\ ToBoth(w, p)[2] = <<Dst[w][1], p>>
<1>1. ToBoth(w, p) = [i \in 1 .. 2 |-> <<IF i = 1 THEN Dst[w][2] ELSE Dst[w][1], p>>]
  <2>1. /\ DOMAIN Dst[w] = 1 .. 2 /\ Len(Dst[w]) = 2
    BY TwoDestinations
  <2>2. Reverse(Dst[w])[1] = Dst[w][2] /\ Reverse(Dst[w])[2] = Dst[w][1]
    BY <2>1 DEF Reverse
  <2> QED BY <2>1, <2>2 DEF ToBoth
<1>2. \A i \in 1 .. 2 : <<IF i = 1 THEN Dst[w][2] ELSE Dst[w][1], p>> \in Channels \X Pages
  BY TwoDestinations
<1>3. ToBoth(w, p) \in Seq(Channels \X Pages) /\ Len(ToBoth(w, p)) = 2
  BY <1>1, <1>2, IsASeq
<1> QED BY <1>1, <1>3

LEMMA SplitKeeps ==
  ASSUME Shape, Ends, NEW w \in Workers, Split(w)
  PROVE  Shape' /\ Ends'
<1>1. /\ at[w] = "working" /\ Job[w] = "split" /\ val[w] \in Pages
      /\ UNCHANGED <<queue, closed, val, processed, loads, failures, countedWords, main>>
      /\ out' = [out EXCEPT ![w] = ToBoth(w, val[w])] /\ at' = At(w, "putting")
  BY DEF Split, Shape, chanVars, pageVars, ToBoth
<1> QED BY <1>1, ToBothFacts, EmitKeeps DEF Shape

LEMMA CountKeeps ==
  ASSUME Shape, Ends, NEW w \in Workers, CountWords(w)
  PROVE  Shape' /\ Ends'
<1>1. /\ at[w] = "working" /\ val[w] \in Pages /\ out[w] = <<>>
      /\ at' = At(w, "getting") /\ out' = [out EXCEPT ![w] = <<>>]
      /\ UNCHANGED <<queue, closed, val, processed, loads, failures, main>>
  BY DEF CountWords, Shape, chanVars
<1>2. countedWords' \in [Pages -> Nat]
  BY DEF CountWords, Shape
<1> QED BY <1>1, <1>2, EmitKeeps DEF Shape

\* Iterator::operator++, with a value or without.
LEMMA GetKeeps ==
  ASSUME Shape, Ends, NEW w \in Workers, Get(w)
  PROVE  Shape' /\ Ends'
<1>1. /\ at[w] = "getting" /\ out[w] = <<>>
      /\ UNCHANGED <<closed, out, processed, loads, failures, countedWords, main>>
      /\ Src[w] \in Channels /\ queue[Src[w]] \in Seq(Pages)
  BY ForReader DEF Get, pageVars, Shape
<1>2. /\ main \in {"feeding", "waiting"} /\ ~closed[Src[w]]
      /\ \A u \in Workers : at[u] \notin {"closing", "ended"}
  BY <1>1, BusyFacts
<1>3. CASE /\ queue[Src[w]] # <<>>
           /\ val' = [val EXCEPT ![w] = Head(queue[Src[w]])]
           /\ queue' = [queue EXCEPT ![Src[w]] = Tail(queue[Src[w]])]
           /\ at' = At(w, "working")
  <2>1. Tail(queue[Src[w]]) \in Seq(Pages) /\ Head(queue[Src[w]]) \in Pages
    BY <1>1, <1>3, TailFacts
  <2>2. /\ queue' \in [Channels -> Seq(Pages)] /\ at' \in [Workers -> Places]
        /\ val' \in [Workers -> Pages \cup {None}]
    BY <1>3, <2>1 DEF Shape, At, Places
  <2>3. /\ at'[w] = "working" /\ val'[w] \in Pages
        /\ \A u \in Workers : u # w => at'[u] = at[u] /\ val'[u] = val[u]
        /\ \A c \in Channels : c # Src[w] => queue'[c] = queue[c]
    BY <1>3, <2>1 DEF Shape, At
  <2>4. Shape'
    BY <1>1, <2>2, <2>3 DEF Shape
  <2>5. \A u \in Workers : at'[u] = "waiting" => queue'[Src[u]] = <<>>
    BY <1>3, <2>3, ForReader DEF Ends
  <2> QED BY <1>1, <1>2, <2>3, <2>4, <2>5, WorkKeepsEnds
<1>4. CASE /\ queue[Src[w]] = <<>> /\ at' = At(w, "waiting")
           /\ UNCHANGED <<queue, val>>
  <2>1. at' \in [Workers -> Places]
    BY <1>4 DEF Shape, At, Places
  <2>2. at'[w] = "waiting" /\ \A u \in Workers : u # w => at'[u] = at[u]
    BY <1>4 DEF Shape, At
  <2>3. Shape'
    BY <1>1, <1>4, <2>1, <2>2 DEF Shape
  <2>4. \A u \in Workers : at'[u] = "waiting" => queue'[Src[u]] = <<>>
    BY <1>4, <2>2 DEF Ends
  <2> QED BY <1>1, <1>2, <2>2, <2>3, <2>4, WorkKeepsEnds
<1> QED BY <1>2, <1>3, <1>4 DEF Get

LEMMA StartLoadKeeps ==
  ASSUME Shape, Ends, NEW w \in Workers, StartLoad(w)
  PROVE  Shape' /\ Ends'
<1>1. /\ at[w] = "working" /\ Job[w] = "load" /\ val[w] \in Pages
      /\ at' = At(w, "loading")
      /\ UNCHANGED <<queue, closed, val, out, processed, loads, failures,
                     countedWords, main>>
  BY DEF StartLoad, chanVars, pageVars, Shape
<1>2. /\ at' \in [Workers -> Places] /\ at'[w] = "loading"
      /\ \A u \in Workers : u # w => at'[u] = at[u]
  BY <1>1 DEF Shape, At, Places
<1>3. Shape'
  BY <1>1, <1>2 DEF Shape
<1>4. \A u \in Workers : at'[u] = "waiting" => queue'[Src[u]] = <<>>
  BY <1>1, <1>2 DEF Ends
<1> QED BY <1>1, <1>2, <1>3, <1>4, BusyFacts, WorkKeepsEnds

\* Who puts the last of its values goes back to its channel.
Afterwards(w) == IF Len(out[w]) = 1 THEN At(w, "getting") ELSE at

\* A put of a worker, in terms of its first value left.
LEMMA PutNextFacts ==
  ASSUME Shape, Ends, NEW w \in Workers, PutNext(w)
  PROVE  /\ at[w] = "putting" /\ out[w] # <<>>
         /\ Head(out[w]) = out[w][1]
         /\ out[w][1][1] \in Channels /\ out[w][1][2] \in Pages
         /\ Put(out[w][1][1], out[w][1][2], Afterwards(w))
         /\ Afterwards(w) \in [Workers -> Places]
         /\ \A u \in Workers : at[u] = "waiting" <=> Afterwards(w)[u] = "waiting"
         /\ \A u \in Workers : u # w => Afterwards(w)[u] = at[u]
         /\ Afterwards(w)[w] = IF Tail(out[w]) = <<>> THEN "getting" ELSE "putting"
         /\ out' = [out EXCEPT ![w] = Tail(out[w])]
         /\ UNCHANGED <<closed, processed, loads, failures, countedWords, main>>
<1>1. /\ at[w] = "putting" /\ out[w] # <<>> /\ out[w] \in Seq(Channels \X Pages)
      /\ out' = [out EXCEPT ![w] = Tail(out[w])]
      /\ UNCHANGED <<closed, processed, loads, failures, countedWords, main>>
      /\ Put(Head(out[w])[1], Head(out[w])[2], Afterwards(w))
  BY DEF PutNext, pageVars, Shape, Afterwards
<1>2. /\ Head(out[w]) = out[w][1] /\ Head(out[w]) \in Channels \X Pages
      /\ Len(out[w]) = 1 <=> Tail(out[w]) = <<>>
  BY <1>1, TailFacts
<1>3. out[w][1][1] \in Channels /\ out[w][1][2] \in Pages
  BY <1>2
<1>4. Afterwards(w) \in [Workers -> Places]
  BY DEF Afterwards, At, Shape, Places
<1>5. /\ \A u \in Workers : u # w => Afterwards(w)[u] = at[u]
      /\ Afterwards(w)[w] = IF Tail(out[w]) = <<>> THEN "getting" ELSE "putting"
  BY <1>1, <1>2 DEF Afterwards, At, Shape
<1>6. \A u \in Workers : at[u] = "waiting" <=> Afterwards(w)[u] = "waiting"
  BY <1>1, <1>5
<1> QED BY <1>1, <1>2, <1>3, <1>4, <1>5, <1>6

LEMMA PutNextKeeps ==
  ASSUME Shape, Ends, NEW w \in Workers, PutNext(w)
  PROVE  Shape' /\ Ends'
<1> DEFINE c == out[w][1][1]
           v == out[w][1][2]
<1>1. /\ at[w] = "putting" /\ out[w] # <<>> /\ c \in Channels /\ v \in Pages
      /\ Put(c, v, Afterwards(w))
      /\ Afterwards(w) \in [Workers -> Places]
      /\ \A u \in Workers : at[u] = "waiting" <=> Afterwards(w)[u] = "waiting"
      /\ \A u \in Workers : u # w => Afterwards(w)[u] = at[u]
      /\ Afterwards(w)[w] = IF Tail(out[w]) = <<>> THEN "getting" ELSE "putting"
      /\ out' = [out EXCEPT ![w] = Tail(out[w])]
      /\ UNCHANGED <<closed, processed, loads, failures, countedWords, main>>
  BY PutNextFacts
<1> HIDE DEF c, v
<1>2. /\ queue' \in [Channels -> Seq(Pages)]
      /\ val' \in [Workers -> Pages \cup {None}]
      /\ at' \in [Workers -> Places]
      /\ \A u \in Workers : at[u] # "waiting" =>
           at'[u] = Afterwards(w)[u] /\ val'[u] = val[u]
      /\ \A u \in Workers : at[u] = "waiting" =>
           \/ at'[u] = "waiting"
           \/ at'[u] = "working" /\ val'[u] \in Pages
      /\ \A u \in Workers : at'[u] = "waiting" =>
           at[u] = "waiting" /\ queue'[Src[u]] = <<>>
  BY <1>1, PutFacts
<1>3. out[w] \in Seq(Channels \X Pages)
  BY DEF Shape
<1>4. Tail(out[w]) \in Seq(Channels \X Pages)
  BY <1>1, <1>3, TailFacts
<1>5. /\ out' \in [Workers -> Seq(Channels \X Pages)]
      /\ out'[w] = Tail(out[w])
      /\ \A u \in Workers : u # w => out'[u] = out[u]
  BY <1>1, <1>4 DEF Shape
<1>6. \A u \in Workers :
        \/ u = w /\ at'[u] = IF Tail(out[w]) = <<>> THEN "getting" ELSE "putting"
        \/ u # w /\ at[u] # "waiting" /\ at'[u] = at[u] /\ val'[u] = val[u]
        \/ u # w /\ at[u] = "waiting" /\ at'[u] = "waiting"
        \/ u # w /\ at[u] = "waiting" /\ at'[u] = "working" /\ val'[u] \in Pages
  BY <1>1, <1>2
<1>7. \A u \in Workers :
        /\ at'[u] \in {"working", "loading"} => val'[u] \in Pages
        /\ at'[u] = "loading" => Job[u] = "load"
        /\ at'[u] = "putting" <=> out'[u] # <<>>
  BY <1>5, <1>6 DEF Shape
<1>8. Shape'
  BY <1>1, <1>2, <1>5, <1>7 DEF Shape
<1>9. \A u \in Workers : at'[u] \notin {"closing", "ended"}
  BY <1>1, <1>6, BusyFacts
<1> QED BY <1>1, <1>2, <1>8, <1>9, BusyFacts, WorkKeepsEnds

\* The first put, by the main thread.
LEMMA FeedKeeps ==
  ASSUME Shape, Ends, Feed
  PROVE  Shape' /\ Ends'
<1>1. /\ main = "feeding" /\ main' = "waiting" /\ Put(Input, Seed, at)
      /\ Input \in Channels /\ Seed \in Pages
      /\ UNCHANGED <<closed, out, processed, loads, failures, countedWords>>
  BY PipingAssumption DEF Feed, pageVars
<1>2. /\ queue' \in [Channels -> Seq(Pages)]
      /\ val' \in [Workers -> Pages \cup {None}]
      /\ at' \in [Workers -> Places]
      /\ \A u \in Workers : at[u] # "waiting" => at'[u] = at[u] /\ val'[u] = val[u]
      /\ \A u \in Workers : at[u] = "waiting" =>
           \/ at'[u] = "waiting"
           \/ at'[u] = "working" /\ val'[u] \in Pages
      /\ \A u \in Workers : at'[u] = "waiting" =>
           at[u] = "waiting" /\ queue'[Src[u]] = <<>>
  BY <1>1, PutFacts DEF Shape
<1>3. \A u \in Workers :
        /\ at'[u] \in {"working", "loading"} => val'[u] \in Pages
        /\ at'[u] = "loading" => Job[u] = "load"
        /\ at'[u] = "putting" <=> out'[u] # <<>>
  BY <1>1, <1>2 DEF Shape
<1>4. Shape'
  BY <1>1, <1>2, <1>3 DEF Shape, MainPlaces
<1>5. \A u \in Workers : at[u] \notin {"closing", "ended"}
  BY <1>1, ForReader DEF Ends
<1>6. \A u \in Workers : at'[u] \notin {"closing", "ended"}
  BY <1>2, <1>5
<1> QED BY <1>1, <1>2, <1>4, <1>6, WorkKeepsEnds

\* Closing a channel sends those who wait at it to close theirs.
LEMMA CloseKeeps ==
  ASSUME Shape, Ends, NEW c \in Channels, Close(c, at), Drained,
         UNCHANGED <<queue, val, out, pageVars>>,
         main' \in {"ending", "reading"},
         main = main' \/ (main = "closing" /\ c = Input)
  PROVE  Shape' /\ Ends'
<1>1. /\ closed' \in [Channels -> BOOLEAN] /\ closed'[c]
      /\ \A d \in Channels : d # c => closed'[d] = closed[d]
      /\ at' \in [Workers -> Places]
      /\ \A u \in Workers :
           \/ at[u] = "waiting" /\ Src[u] = c /\ at'[u] = "closing"
           \/ ~(at[u] = "waiting" /\ Src[u] = c) /\ at'[u] = at[u]
  BY DEF Close, Shape, Places, WaitingOn
<1>2. Shape'
  BY <1>1 DEF Shape, MainPlaces, pageVars
<1>3. Drained'
  BY <1>1 DEF Drained
<1>4. \A u \in Workers :
        /\ at'[u] = "waiting" => queue'[Src[u]] = <<>> /\ ~closed'[Src[u]]
        /\ at'[u] \in {"closing", "ended"} => closed'[Src[u]]
  BY <1>1, ForReader DEF Ends
<1>5. \A u \in Workers : at'[u] = "ended" => \A i \in DOMAIN Dst[u] : closed'[Dst[u][i]]
  <2> SUFFICES ASSUME NEW u \in Workers, at'[u] = "ended", NEW i \in DOMAIN Dst[u]
               PROVE  closed'[Dst[u][i]]
    OBVIOUS
  <2>1. closed[Dst[u][i]] /\ Dst[u][i] \in Channels
    BY <1>1, DestinationFacts DEF Ends
  <2> QED BY <1>1, <2>1
<1>6. closed'[Input]
  BY <1>1, PipingAssumption DEF Ends
<1> QED BY <1>2, <1>3, <1>4, <1>5, <1>6 DEF Ends

\* A worker ends when all it closes is closed.
LEMMA CloseNextKeeps ==
  ASSUME Shape, Ends, NEW w \in Workers, CloseNext(w)
  PROVE  Shape' /\ Ends'
<1>1. at[w] = "closing" /\ UNCHANGED <<queue, val, out, pageVars, main>>
  BY DEF CloseNext
<1>2. main \in {"ending", "reading"} /\ Drained
  BY <1>1, ForReader DEF Ends, Shape, MainPlaces
<1>3. CASE \E i \in DOMAIN Dst[w] : Close(Dst[w][i], at)
  BY <1>1, <1>2, <1>3, DestinationFacts, CloseKeeps
<1>4. CASE /\ {i \in DOMAIN Dst[w] : ~closed[Dst[w][i]]} = {}
           /\ at' = At(w, "ended") /\ UNCHANGED closed
  <2>1. /\ at' \in [Workers -> Places] /\ at'[w] = "ended"
        /\ \A u \in Workers : u # w => at'[u] = at[u]
    BY <1>4 DEF Shape, At, Places
  <2>2. Shape'
    BY <1>1, <1>4, <2>1 DEF Shape, pageVars
  <2>3. \A u \in Workers :
          /\ at'[u] = "waiting" => queue'[Src[u]] = <<>> /\ ~closed'[Src[u]]
          /\ at'[u] \in {"closing", "ended"} => closed'[Src[u]]
    BY <1>1, <1>4, <2>1 DEF Ends
  <2>4. \A u \in Workers :
          at'[u] = "ended" => \A i \in DOMAIN Dst[u] : closed'[Dst[u][i]]
    BY <1>4, <2>1 DEF Ends
  <2>5. Drained'
    BY <1>1, <1>2, <2>1 DEF Drained
  <2>6. closed'[Input]
    BY <1>2, <1>4 DEF Ends
  <2> QED BY <1>1, <1>2, <2>2, <2>3, <2>4, <2>5, <2>6 DEF Ends
<1> QED BY <1>3, <1>4 DEF CloseNext

\* The pool is quiescent for the first time: nothing is left to do.  What ends the
\* second wait() does not matter.
LEMMA WaitKeeps ==
  ASSUME Shape, Ends, PoolWaited \/ WaitEndsEarly
  PROVE  Shape' /\ Ends'
<1>1. UNCHANGED <<queue, closed, at, val, out, processed, loads, failures, countedWords>>
  BY DEF PoolWaited, WaitEndsEarly, chanVars, workVars, pageVars
<1>2. CASE main = "waiting" /\ main' = "closing" /\ Quiescent
  <2>1. \A c \in Channels : ~closed[c]
    BY <1>2 DEF Ends
  <2>2. \A u \in Workers : at[u] = "waiting"
    BY <1>2, <2>1, ForReader DEF Ends, Quiescent
  <2>3. Drained
    BY <2>2, GraphAssumption DEF Ends, Drained
  <2>4. Shape' /\ Drained'
    BY <1>1, <1>2, <2>3 DEF Shape, Drained, MainPlaces
  <2> QED BY <1>1, <1>2, <2>1, <2>4 DEF Ends
<1>3. CASE main = "ending" /\ main' = "reading"
  <2>1. Drained /\ closed[Input]
    BY <1>3 DEF Ends
  <2>2. Shape' /\ Drained'
    BY <1>1, <1>3, <2>1 DEF Shape, Drained, MainPlaces
  <2>3. closed'[Input]
    BY <1>1, <2>1
  <2>4. \A u \in Workers :
          /\ at'[u] = "waiting" => queue'[Src[u]] = <<>> /\ ~closed'[Src[u]]
          /\ at'[u] \in {"closing", "ended"} => closed'[Src[u]]
          /\ at'[u] = "ended" => \A i \in DOMAIN Dst[u] : closed'[Dst[u][i]]
    BY <1>1 DEF Ends
  <2> QED BY <1>3, <2>2, <2>3, <2>4 DEF Ends
<1> QED BY <1>2, <1>3 DEF PoolWaited, WaitEndsEarly

\* Where the graph is at rest with Input closed, the channels that are closed are a
\* set that no destination leads out of.
LEMMA RestIsOver ==
  ASSUME Shape, Ends
  PROVE  AllIsOver
<1> SUFFICES ASSUME main \in {"ending", "reading"},
                    \A w \in Workers : at[w] \in {"waiting", "ended"}
             PROVE  /\ \A w \in Workers : at[w] = "ended"
                    /\ \A c \in Channels : queue[c] = <<>> /\ closed[c]
  BY DEF AllIsOver
<1>1. Drained /\ closed[Input]
  BY DEF Ends
<1> DEFINE C == {c \in Channels : closed[c]}
<1>2. Input \in C
  BY <1>1, PipingAssumption
<1>3. ASSUME NEW w \in Workers, Src[w] \in C, NEW i \in DOMAIN Dst[w]
      PROVE  Dst[w][i] \in C
  <2>1. at[w] = "ended"
    BY <1>3 DEF Ends
  <2> QED BY <2>1, DestinationFacts DEF Ends
<1>4. C = Channels
  <2>1. C \in SUBSET Channels
    OBVIOUS
  <2> HIDE DEF C
  <2> QED BY <1>2, <1>3, <2>1, GraphAssumption
<1>5. \A c \in Channels : closed[c]
  BY <1>4
<1>6. \A u \in Workers : at[u] = "ended"
  BY <1>5, ForReader DEF Ends
<1> QED BY <1>1, <1>5, <1>6 DEF Drained

\* closeAndWait() closes its channel when nothing is left anywhere.
LEMMA CloseInputKeeps ==
  ASSUME Shape, Ends, CloseInput
  PROVE  Shape' /\ Ends'
<1>1. /\ main = "closing" /\ main' = "ending" /\ Close(Input, at)
      /\ UNCHANGED <<queue, val, out, pageVars>>
  BY DEF CloseInput
<1>2. Drained
  BY <1>1 DEF Ends
<1> QED BY <1>1, <1>2, CloseKeeps, PipingAssumption

LEMMA EndsNext == Shape /\ Ends /\ [Next]_vars => Shape' /\ Ends'
<1> SUFFICES ASSUME Shape, Ends, [Next]_vars PROVE Shape' /\ Ends'
  OBVIOUS
<1>1. CASE UNCHANGED vars
  <2>1. UNCHANGED <<queue, closed, at, val, out, processed, loads, failures,
                    countedWords, main>>
    BY <1>1 DEF vars, chanVars, workVars, pageVars
  <2>2. Shape'
    BY <2>1 DEF Shape
  <2> QED BY <2>1, <2>2 DEF Ends, Drained
<1>2. ASSUME NEW w \in Workers, Step(w) PROVE Shape' /\ Ends'
  BY <1>2, GetKeeps, PutNextKeeps, CloseNextKeeps, FilterKeeps, ParseKeeps,
     StartLoadKeeps, EndLoadKeeps, SplitKeeps, HrefKeeps, CountKeeps DEF Step
<1>3. CASE MainStep \/ WaitEndsEarly
  BY <1>3, FeedKeeps, WaitKeeps, CloseInputKeeps DEF MainStep
<1> QED BY <1>1, <1>2, <1>3 DEF Next

-----------------------------------------------------------------------------
(* How the values get about *)

\* A worker disposes of the value in its hands and has the values s to put.
LEMMA DisposedHolds ==
  ASSUME Shape, NEW w \in Workers, at[w] \in {"working", "loading"},
         NEW s, out' = [out EXCEPT ![w] = s],
         NEW to, to \notin {"working", "loading"}, at' = At(w, to),
         UNCHANGED <<queue, val>>
  PROVE  \A x, a, i, p, j :
           Holds(x, a, i, p, j)' <=>
             \/ Holds(x, a, i, p, j) /\ ~(x = "work" /\ a = w)
             \/ /\ x = "out" /\ a = w
                /\ i \in DOMAIN s /\ For(s[i][1]) = j /\ s[i][2] = p
<1>1. /\ at'[w] = to /\ out'[w] = s /\ out[w] = <<>>
      /\ \A u \in Workers : u # w => at'[u] = at[u] /\ out'[u] = out[u]
  BY DEF Shape, At
<1>2. ASSUME NEW x, NEW a, NEW i, NEW p, NEW j
      PROVE  Holds(x, a, i, p, j)' <=>
               \/ Holds(x, a, i, p, j) /\ ~(x = "work" /\ a = w)
               \/ /\ x = "out" /\ a = w
                  /\ i \in DOMAIN s /\ For(s[i][1]) = j /\ s[i][2] = p
  BY <1>1 DEF Holds
<1> QED BY <1>2

\* What holds a value is a holder.
LEMMA HoldsWhere ==
  ASSUME Shape, NEW x, NEW a, NEW i, NEW p, NEW j, Holds(x, a, i, p, j)
  PROVE  x \in Holders /\ a \in Channels \cup Workers /\ i \in Nat /\ p \in Pages
<1>1. CASE x = "queue"
  <2>1. a \in Channels /\ queue[a] \in Seq(Pages) /\ i \in DOMAIN queue[a] /\ queue[a][i] = p
    BY <1>1 DEF Holds, Shape
  <2> QED BY <1>1, <2>1, ElementFacts DEF Holders
<1>2. CASE x = "work"
  BY <1>2 DEF Holds, Holders, Shape
<1>3. CASE x = "out"
  <2>1. /\ a \in Workers /\ out[a] \in Seq(Channels \X Pages)
        /\ i \in DOMAIN out[a] /\ out[a][i][2] = p
    BY <1>3 DEF Holds, Shape
  <2>2. out[a][i] \in Channels \X Pages /\ i \in Nat
    BY <2>1, ElementFacts
  <2> QED BY <1>3, <2>1, <2>2 DEF Holders
<1> QED BY <1>1, <1>2, <1>3 DEF Holds

\* What is held is carried.
LEMMA HoldsCarried ==
  ASSUME Shape, NEW x, NEW a, NEW i, NEW p, NEW j, Holds(x, a, i, p, j)
  PROVE  Carried(p, j)
BY HoldsWhere DEF Carried

\* A worker that has a value in its hands, carries it.
LEMMA WorkHolds ==
  ASSUME Shape, NEW w \in Workers, at[w] \in {"working", "loading"}
  PROVE  Holds("work", w, 0, val[w], Job[w]) /\ Carried(val[w], Job[w])
<1>1. Holds("work", w, 0, val[w], Job[w])
  BY DEF Holds
<1> QED BY <1>1, HoldsCarried

\* Nobody else has a value that must be one.
LEMMA SingleHolds ==
  ASSUME Shape, Unique, NEW w \in Workers, at[w] \in {"working", "loading"},
         Job[w] \in Single, NEW x, NEW a, NEW i, NEW j \in Single,
         Holds(x, a, i, val[w], j)
  PROVE  x = "work" /\ a = w /\ i = 0 /\ j = Job[w]
<1>1. Holds("work", w, 0, val[w], Job[w])
  BY WorkHolds
<1>2. /\ x \in Holders /\ a \in Channels \cup Workers /\ i \in Nat
      /\ "work" \in Holders /\ 0 \in Nat /\ val[w] \in Pages
  BY HoldsWhere DEF Holders, Shape
<1>3. x = "work" /\ a = w /\ i = 0
  BY <1>1, <1>2 DEF Unique
<1> QED BY <1>3 DEF Holds

\* Worker w exchanges the value in its hands for the values s.
Disposed(w, s) ==
  /\ \A p, j : Carried(p, j)' =>
       \/ Carried(p, j)
       \/ \E i \in DOMAIN s : For(s[i][1]) = j /\ s[i][2] = p
  /\ \A p, j : Carried(p, j) => Carried(p, j)' \/ (p = val[w] /\ j = Job[w])
  /\ \A p, j : (\E i \in DOMAIN s : For(s[i][1]) = j /\ s[i][2] = p) =>
       Carried(p, j)'
  /\ Unique /\ Job[w] \in Single => \A p, j :
       p = val[w] /\ j \in Single /\ Carried(p, j)' =>
         \E i \in DOMAIN s : For(s[i][1]) = j /\ s[i][2] = p

\* What is carried after a worker has disposed of its value, in terms of what was.
LEMMA DisposedCarried ==
  ASSUME Shape, Shape', NEW w \in Workers, at[w] \in {"working", "loading"},
         NEW s, out' = [out EXCEPT ![w] = s],
         NEW to, to \notin {"working", "loading"}, at' = At(w, to),
         UNCHANGED <<queue, val>>
  PROVE  Disposed(w, s)
<1>1. \A x, a, i, p, j :
        Holds(x, a, i, p, j)' <=>
          \/ Holds(x, a, i, p, j) /\ ~(x = "work" /\ a = w)
          \/ /\ x = "out" /\ a = w
             /\ i \in DOMAIN s /\ For(s[i][1]) = j /\ s[i][2] = p
  BY DisposedHolds
<1>2. ASSUME NEW x, NEW a, NEW i, NEW p, NEW j, Holds(x, a, i, p, j)'
      PROVE  Carried(p, j)'
  <2>1. (Shape => (Holds(x, a, i, p, j) => Carried(p, j)))'
    BY HoldsCarried, PTL
  <2> QED BY <1>2, <2>1
<1>3. ASSUME NEW p, NEW j, Carried(p, j)'
      PROVE  \/ Carried(p, j)
             \/ \E i \in DOMAIN s : For(s[i][1]) = j /\ s[i][2] = p
  <2>1. PICK x, a, i : Holds(x, a, i, p, j)'
    BY <1>3 DEF Carried
  <2> QED BY <1>1, <2>1, HoldsCarried
<1>4. ASSUME NEW p, NEW j, Carried(p, j)
      PROVE  Carried(p, j)' \/ (p = val[w] /\ j = Job[w])
  <2>1. PICK x, a, i : Holds(x, a, i, p, j)
    BY <1>4 DEF Carried
  <2>2. CASE x = "work" /\ a = w
    BY <2>1, <2>2 DEF Holds
  <2>3. CASE ~(x = "work" /\ a = w)
    BY <1>1, <1>2, <2>1, <2>3
  <2> QED BY <2>2, <2>3
<1>5. ASSUME NEW p, NEW j, NEW i \in DOMAIN s, For(s[i][1]) = j, s[i][2] = p
      PROVE  Carried(p, j)'
  <2>1. Holds("out", w, i, p, j)'
    BY <1>1, <1>5
  <2> QED BY <1>2, <2>1
<1>6. ASSUME Unique, Job[w] \in Single, NEW p, NEW j \in Single, p = val[w],
             Carried(p, j)'
      PROVE  \E i \in DOMAIN s : For(s[i][1]) = j /\ s[i][2] = p
  <2>1. PICK x, a, i : Holds(x, a, i, p, j)'
    BY <1>6 DEF Carried
  <2>2. ~(Holds(x, a, i, val[w], j) /\ ~(x = "work" /\ a = w))
    BY <1>6, SingleHolds
  <2> QED BY <1>1, <1>6, <2>1, <2>2
<1> QED BY <1>3, <1>4, <1>5, <1>6 DEF Disposed

\* At most one of the values s is of the kind of which there is one, and only if it
\* takes the place of such a value, or there was none.
LEMMA DisposedUnique ==
  ASSUME Shape, Shape', Unique, NEW w \in Workers, at[w] \in {"working", "loading"},
         NEW s, out' = [out EXCEPT ![w] = s],
         NEW to, to \notin {"working", "loading"}, at' = At(w, to),
         UNCHANGED <<queue, val>>,
         \A i, k \in DOMAIN s :
           For(s[i][1]) \in Single /\ For(s[k][1]) \in Single => i = k,
         \A i \in DOMAIN s : For(s[i][1]) \in Single =>
           \/ Job[w] \in Single /\ s[i][2] = val[w]
           \/ \A j \in Single : ~Carried(s[i][2], j)
  PROVE  Unique'
<1>1. \A x, a, i, p, j :
        Holds(x, a, i, p, j)' <=>
          \/ Holds(x, a, i, p, j) /\ ~(x = "work" /\ a = w)
          \/ /\ x = "out" /\ a = w
             /\ i \in DOMAIN s /\ For(s[i][1]) = j /\ s[i][2] = p
  BY DisposedHolds
<1>2. ASSUME NEW p \in Pages, NEW j \in Single, NEW k \in Single,
             NEW i \in DOMAIN s, For(s[i][1]) = j, s[i][2] = p,
             NEW x, NEW a, NEW n, Holds(x, a, n, p, k), ~(x = "work" /\ a = w)
      PROVE  FALSE
  <2>1. CASE Job[w] \in Single /\ p = val[w]
    <3>1. Holds(x, a, n, val[w], k)
      BY <1>2, <2>1
    <3>2. x = "work" /\ a = w
      BY <1>2, <2>1, <3>1, SingleHolds
    <3> QED BY <1>2, <3>2
  <2>2. CASE \A m \in Single : ~Carried(p, m)
    BY <1>2, <2>2, HoldsCarried
  <2> QED BY <1>2, <2>1, <2>2
<1>3. ASSUME NEW p \in Pages, NEW j \in Single, NEW k \in Single,
             NEW x \in Holders, NEW y \in Holders,
             NEW a \in Channels \cup Workers, NEW b \in Channels \cup Workers,
             NEW m \in Nat, NEW n \in Nat,
             Holds(x, a, m, p, j)', Holds(y, b, n, p, k)'
      PROVE  x = y /\ a = b /\ m = n
  <2>1. CASE Holds(x, a, m, p, j) /\ ~(x = "work" /\ a = w)
    <3>1. Holds(y, b, n, p, k) /\ ~(y = "work" /\ b = w)
      BY <1>1, <1>2, <1>3, <2>1
    <3> QED BY <1>3, <2>1, <3>1 DEF Unique
  <2>2. CASE /\ x = "out" /\ a = w
             /\ m \in DOMAIN s /\ For(s[m][1]) = j /\ s[m][2] = p
    <3>1. /\ y = "out" /\ b = w
          /\ n \in DOMAIN s /\ For(s[n][1]) = k /\ s[n][2] = p
      BY <1>1, <1>2, <1>3, <2>2
    <3> QED BY <2>2, <3>1
  <2> QED BY <1>1, <1>3, <2>1, <2>2
<1> QED BY <1>3 DEF Unique

-----------------------------------------------------------------------------
(* What the work on a value does to Data *)

\* Only what a value says of its page matters, and what is counted.
LEMMA KnownFacts ==
  /\ Seed \in Known
  /\ \A p \in Pages : loads[p] > 0 => \A i \in DOMAIN Links[p] : Links[p][i] \in Known
  /\ \A q \in Known : q = Seed \/ \E p \in Pages :
       loads[p] > 0 /\ \E i \in DOMAIN Links[p] : q = Links[p][i]
BY DEF Known, Abstract!Known, Abstract!LinksOf

\* Pages that were known remain so.
LEMMA KnownGrows ==
  ASSUME \A p \in Pages : loads[p] > 0 => loads'[p] > 0
  PROVE  \A q \in Known : q \in Known'
BY DEF Known, Abstract!Known, Abstract!LinksOf

\* UrlFilter: the page is passed on when it is accepted for the first time.
LEMMA FilterData ==
  ASSUME Shape, Shape', Data, NEW w \in Workers, Filter(w), NEW v, v = val[w]
  PROVE  Data'
<1>0. PICK s : s = IF Accepted(v) THEN ToFirst(w, <<v>>) ELSE <<>>
  OBVIOUS
<1> DEFINE to == IF s = <<>> THEN "getting" ELSE "putting"
<1>1. /\ at[w] = "working" /\ Job[w] = "filter" /\ v \in Pages
      /\ processed' = IF Accepted(v) THEN processed \cup {v} ELSE processed
      /\ UNCHANGED <<queue, val, loads, failures, countedWords, main>>
  BY DEF Filter, Shape, chanVars
<1>2. /\ ToFirst(w, <<v>>) # <<>> /\ DOMAIN ToFirst(w, <<v>>) = {1}
      /\ For(ToFirst(w, <<v>>)[1][1]) = "parse" /\ ToFirst(w, <<v>>)[1][2] = v
  BY <1>1, OneValue, OneDestination
<1>3. out' = [out EXCEPT ![w] = s] /\ at' = At(w, to)
  <2>1. CASE Accepted(v)
    <3>1. Emit(w, <<v>>) /\ <<v>> # <<>>
      BY <2>1 DEF Filter
    <3> QED BY <1>0, <1>2, <2>1, <3>1 DEF Emit, ToFirst
  <2>2. CASE ~Accepted(v)
    <3>1. Emit(w, <<>>)
      BY <2>2 DEF Filter
    <3>2. [i \in DOMAIN <<>> |-> <<Dst[w][1], <<>>[i]>>] = <<>>
      OBVIOUS
    <3> QED BY <1>0, <2>2, <3>1, <3>2 DEF Emit
  <2> QED BY <2>1, <2>2
<1>4. to \notin {"working", "loading"}
  OBVIOUS
<1>5. /\ Accepted(v) => DOMAIN s = {1} /\ For(s[1][1]) = "parse" /\ s[1][2] = v
      /\ ~Accepted(v) => DOMAIN s = {}
  BY <1>0, <1>2
<1> HIDE DEF to
<1>6. /\ \A p, j : Carried(p, j)' =>
           Carried(p, j) \/ (Accepted(v) /\ p = v /\ j = "parse")
      /\ \A p, j : Carried(p, j) => Carried(p, j)' \/ (p = v /\ j = "filter")
      /\ Accepted(v) => Carried(v, "parse")'
  <2>1. Disposed(w, s)
    BY <1>1, <1>3, <1>4, DisposedCarried
  <2>2. \A p, j : Carried(p, j)' =>
          Carried(p, j) \/ (Accepted(v) /\ p = v /\ j = "parse")
    BY <1>5, <2>1 DEF Disposed
  <2>3. \A p, j : Carried(p, j) => Carried(p, j)' \/ (p = v /\ j = "filter")
    BY <1>1, <2>1 DEF Disposed
  <2>4. Accepted(v) => Carried(v, "parse")'
    BY <1>5, <2>1 DEF Disposed
  <2> QED BY <2>2, <2>3, <2>4
<1>7. Accepted(v) =>
        /\ v \in Matching /\ Cardinality(processed) < MaxUrls /\ v \notin processed
        /\ loads[v] + failures[v] = 0 /\ loads[v] = 0
        /\ \A j \in Single : ~Carried(v, j)
  BY <1>1 DEF Accepted, Data, Counters, Meaning, Single, Shape
<1>8. Unique'
  BY <1>1, <1>3, <1>4, <1>5, <1>7, DisposedUnique DEF Data
<1>9. v \in Known
  BY <1>1, WorkHolds DEF Data, Meaning
<1>10. Known' = Known
  BY <1>1 DEF Known, Abstract!Known, Abstract!LinksOf
<1>11. Meaning'
  BY <1>1, <1>6, <1>7, <1>10 DEF Data, Meaning
<1>12. Counters'
  BY <1>1, <1>7, <1>9, <1>10 DEF Data, Counters
<1>13. Bounded' /\ (Cardinality(processed) = MaxUrls => Cardinality(processed') = MaxUrls)
  <2>1. CASE Accepted(v)
    <3>1. Cardinality(processed \cup {v}) = Cardinality(processed) + 1
      BY <1>7, <2>1, FS_AddElement DEF Data, Bounded
    <3>2. IsFiniteSet(processed \cup {v})
      BY FS_AddElement DEF Data, Bounded
    <3>3. Cardinality(processed) \in Nat /\ MaxUrls \in Nat
      BY FS_CardinalityType, PipingAssumption DEF Data, Bounded
    <3> QED BY <1>1, <1>7, <2>1, <3>1, <3>2, <3>3 DEF Bounded
  <2>2. CASE ~Accepted(v)
    BY <1>1, <2>2 DEF Data, Bounded
  <2> QED BY <2>1, <2>2
<1>14. ASSUME NEW q, Settled(q) PROVE Settled(q)'
  <2>1. CASE q = v /\ Carried(q, "filter")
    <3>1. q \in processed' \/ ~Accepted(v)
      BY <1>1, <2>1
    <3>2. CASE ~Accepted(v)
      <4>1. v \notin Matching \/ v \in processed \/ ~(Cardinality(processed) < MaxUrls)
        BY <3>2 DEF Accepted
      <4>2. Cardinality(processed) \in Nat /\ MaxUrls \in Nat
            /\ Cardinality(processed) <= MaxUrls
        BY FS_CardinalityType, PipingAssumption DEF Data, Bounded
      <4>3. ~(Cardinality(processed) < MaxUrls) => Cardinality(processed) = MaxUrls
        BY <4>2
      <4> QED BY <1>1, <2>1, <3>2, <4>1, <4>3 DEF Settled
    <3> QED BY <3>1, <3>2 DEF Settled
  <2>2. CASE ~(q = v /\ Carried(q, "filter"))
    BY <1>1, <1>6, <1>13, <1>14, <2>2 DEF Settled
  <2> QED BY <2>1, <2>2
<1>15. Complete'
  <2>1. \A p \in processed' \cap Parsable :
          loads'[p] + failures'[p] > 0 \/ Carried(p, "parse")' \/ Carried(p, "load")'
    BY <1>1, <1>6, <1>7 DEF Data, Complete
  <2>2. \A p \in Pages : loads'[p] > 0 =>
          /\ countedWords'[p] > 0 \/ Carried(p, "split")' \/ Carried(p, "count")'
          /\ \A i \in DOMAIN Links[p] :
               Settled(Links[p][i])' \/ Carried(p, "split")' \/ Carried(p, "href")'
    BY <1>1, <1>6, <1>14 DEF Data, Complete
  <2>3. main' # "feeding" => Settled(Seed)'
    BY <1>1, <1>14 DEF Data, Complete
  <2> QED BY <2>1, <2>2, <2>3 DEF Complete
<1> QED BY <1>8, <1>11, <1>12, <1>13, <1>15 DEF Data

\* A step that leaves the counts of the pages alone and takes no value away leaves
\* Settled and Known alone.
LEMMA SettledStays ==
  ASSUME UNCHANGED processed, NEW q, Settled(q),
         Carried(q, "filter") => Carried(q, "filter")'
  PROVE  Settled(q)'
BY DEF Settled

\* The page is loaded, and goes on, or fails, and is gone.
LEMMA EndLoadData ==
  ASSUME Shape, Shape', Data, NEW w \in Workers, EndLoad(w), NEW v, v = val[w]
  PROVE  Data'
<1>1. /\ at[w] = "loading" /\ Job[w] = "load" /\ v \in Pages
      /\ UNCHANGED <<queue, val, processed, countedWords, main>>
  BY DEF EndLoad, Shape, chanVars
<1>2. /\ Carried(v, "load") /\ v \in processed \cap Parsable
      /\ loads[v] = 0 /\ failures[v] = 0
      /\ countedWords[v] = 0
  <2>1. Carried(v, "load")
    BY <1>1, WorkHolds
  <2>2. v \in processed \cap Parsable /\ loads[v] + failures[v] = 0
    BY <1>1, <2>1 DEF Data, Meaning
  <2>3. loads[v] \in Nat /\ failures[v] \in Nat /\ countedWords[v] \in Nat
    BY <1>1 DEF Shape
  <2>4. loads[v] = 0 /\ failures[v] = 0
    BY <2>2, <2>3
  <2>5. countedWords[v] = 0
    BY <1>1, <2>3, <2>4 DEF Data, Counters
  <2> QED BY <2>1, <2>2, <2>4, <2>5
<1>3. CASE /\ loads' = [loads EXCEPT ![v] = loads[v] + 1]
           /\ failures' = failures /\ Emit(w, <<v>>)
  <2>0. PICK s : s = ToFirst(w, <<v>>)
    OBVIOUS
  <2>1. /\ s # <<>> /\ DOMAIN s = {1}
        /\ For(s[1][1]) = "split" /\ s[1][2] = v
    BY <1>1, <2>0, OneValue, OneDestination
  <2>2. out' = [out EXCEPT ![w] = s] /\ at' = At(w, "putting")
    <3>1. <<v>> # <<>>
      OBVIOUS
    <3> QED BY <1>3, <2>0, <3>1 DEF Emit, ToFirst
  <2>3. Disposed(w, s)
    BY <1>1, <2>2, DisposedCarried
  <2>4. /\ \A p, j : Carried(p, j)' => Carried(p, j) \/ (p = v /\ j = "split")
        /\ \A p, j : Carried(p, j) => Carried(p, j)' \/ (p = v /\ j = "load")
        /\ Carried(v, "split")'
        /\ ~Carried(v, "parse")' /\ ~Carried(v, "load")' /\ ~Carried(v, "count")'
    <3>1. Unique /\ Job[w] \in Single /\ {"parse", "load", "count"} \subseteq Single
      BY <1>1 DEF Data, Single
    <3> QED BY <1>1, <2>1, <2>3, <3>1 DEF Disposed
  <2>5. Unique'
    <3>1. /\ Unique /\ Job[w] \in Single
          /\ \A i, k \in DOMAIN s : i = k
          /\ \A i \in DOMAIN s : s[i][2] = val[w]
      BY <1>1, <2>1 DEF Data, Single
    <3> QED BY <1>1, <2>2, <3>1, DisposedUnique
  <2>6. /\ loads'[v] = 1 /\ \A p \in Pages : p # v => loads'[p] = loads[p]
        /\ failures'[v] = 0
    BY <1>1, <1>2, <1>3 DEF Shape
  <2>7. \A q \in Known : q \in Known'
    <3>1. \A p \in Pages : loads[p] > 0 => loads'[p] > 0
      BY <2>6
    <3> QED BY <3>1, KnownGrows
  <2>8. Meaning'
    <3>1. \A p \in Pages :
            /\ Carried(p, "filter")' => p \in Known'
            /\ Carried(p, "parse")' => p \in processed' /\ loads'[p] + failures'[p] = 0
            /\ Carried(p, "load")' =>
                 p \in processed' \cap Parsable /\ loads'[p] + failures'[p] = 0
            /\ Carried(p, "split")' => loads'[p] > 0 /\ countedWords'[p] = 0
            /\ Carried(p, "count")' => loads'[p] > 0 /\ countedWords'[p] = 0
            /\ Carried(p, "href")' => loads'[p] > 0
      BY <1>1, <1>2, <1>3, <2>4, <2>6, <2>7 DEF Data, Meaning
    <3> QED BY <3>1 DEF Meaning
  <2>9. Counters'
    BY <1>1, <1>2, <1>3, <2>6, <2>7 DEF Data, Counters
  <2>10. \A q : Settled(q) => Settled(q)'
    BY <1>1, <2>4, SettledStays
  <2>11. Complete'
    <3>1. \A p \in processed' \cap Parsable :
            loads'[p] + failures'[p] > 0 \/ Carried(p, "parse")' \/ Carried(p, "load")'
      BY <1>1, <1>3, <2>4, <2>6 DEF Data, Complete, Shape
    <3>2. \A p \in Pages : loads'[p] > 0 =>
            /\ countedWords'[p] > 0 \/ Carried(p, "split")' \/ Carried(p, "count")'
            /\ \A i \in DOMAIN Links[p] :
                 Settled(Links[p][i])' \/ Carried(p, "split")' \/ Carried(p, "href")'
      BY <1>1, <2>4, <2>6, <2>10 DEF Data, Complete
    <3>3. main' # "feeding" => Settled(Seed)'
      BY <1>1, <2>10 DEF Data, Complete
    <3> QED BY <3>1, <3>2, <3>3 DEF Complete
  <2> QED BY <1>1, <2>5, <2>8, <2>9, <2>11 DEF Data, Bounded
<1>4. CASE /\ failures' = [failures EXCEPT ![v] = failures[v] + 1]
           /\ loads' = loads /\ Emit(w, <<>>)
  <2>1. PICK s : s = <<>>
    OBVIOUS
  <2>2. out' = [out EXCEPT ![w] = s] /\ at' = At(w, "getting")
    <3>1. [i \in DOMAIN <<>> |-> <<Dst[w][1], <<>>[i]>>] = <<>>
      OBVIOUS
    <3> QED BY <1>4, <2>1, <3>1 DEF Emit
  <2>3. Disposed(w, s)
    BY <1>1, <2>2, DisposedCarried
  <2>4. /\ \A p, j : Carried(p, j)' => Carried(p, j)
        /\ \A p, j : Carried(p, j) => Carried(p, j)' \/ (p = v /\ j = "load")
        /\ ~Carried(v, "parse")' /\ ~Carried(v, "load")'
    <3>1. Unique /\ Job[w] \in Single /\ {"parse", "load"} \subseteq Single
      BY <1>1 DEF Data, Single
    <3> QED BY <1>1, <2>1, <2>3, <3>1 DEF Disposed
  <2>5. Unique'
    <3>1. Unique /\ DOMAIN s = {}
      BY <2>1 DEF Data
    <3> QED BY <1>1, <2>2, <3>1, DisposedUnique
  <2>6. failures'[v] = 1 /\ \A p \in Pages : p # v => failures'[p] = failures[p]
    BY <1>1, <1>2, <1>4 DEF Shape
  <2>7. Known' = Known
    BY <1>4 DEF Known, Abstract!Known, Abstract!LinksOf
  <2>8. Meaning'
    BY <1>1, <1>4, <2>4, <2>6, <2>7 DEF Data, Meaning
  <2>9. Counters'
    BY <1>1, <1>2, <1>4, <2>6, <2>7 DEF Data, Counters
  <2>10. \A q : Settled(q) => Settled(q)'
    BY <1>1, <2>4, SettledStays
  <2>11. Complete'
    <3>1. \A p \in processed' \cap Parsable :
            loads'[p] + failures'[p] > 0 \/ Carried(p, "parse")' \/ Carried(p, "load")'
      BY <1>1, <1>2, <1>4, <2>4, <2>6 DEF Data, Complete, Shape
    <3>2. \A p \in Pages : loads'[p] > 0 =>
            /\ countedWords'[p] > 0 \/ Carried(p, "split")' \/ Carried(p, "count")'
            /\ \A i \in DOMAIN Links[p] :
                 Settled(Links[p][i])' \/ Carried(p, "split")' \/ Carried(p, "href")'
      BY <1>1, <1>2, <1>4, <2>4, <2>10 DEF Data, Complete
    <3>3. main' # "feeding" => Settled(Seed)'
      BY <1>1, <2>10 DEF Data, Complete
    <3> QED BY <3>1, <3>2, <3>3 DEF Complete
  <2> QED BY <1>1, <2>5, <2>8, <2>9, <2>11 DEF Data, Bounded
<1> QED BY <1>3, <1>4 DEF EndLoad

\* The steps that change no count of a page.
LEMMA SameCounts ==
  ASSUME Shape, Data, UNCHANGED <<processed, loads, failures, countedWords>>,
         main' # "feeding" => main # "feeding" \/ Settled(Seed)',
         Unique',
         \A p \in Pages :
           /\ Carried(p, "filter")' => p \in Known
           /\ Carried(p, "parse")' => Carried(p, "parse")
           /\ Carried(p, "load")' =>
                Carried(p, "load") \/ (Carried(p, "parse") /\ p \in Parsable)
           /\ Carried(p, "split")' => Carried(p, "split")
           /\ Carried(p, "count")' => Carried(p, "count") \/ Carried(p, "split")
           /\ Carried(p, "href")' => Carried(p, "href") \/ Carried(p, "split"),
         \A p \in Pages :
           /\ Carried(p, "parse") =>
                Carried(p, "parse")' \/ Carried(p, "load")' \/ p \notin Parsable
           /\ Carried(p, "load") => Carried(p, "load")'
           /\ Carried(p, "split") =>
                Carried(p, "split")' \/ (Carried(p, "href")' /\ Carried(p, "count")')
           /\ Carried(p, "count") => Carried(p, "count")'
           /\ Carried(p, "href") =>
                \/ Carried(p, "href")'
                \/ \A i \in DOMAIN Links[p] : Carried(Links[p][i], "filter")',
         \A q : Settled(q) => Settled(q)'
  PROVE  Data'
<1>1. Known' = Known
  BY DEF Known, Abstract!Known, Abstract!LinksOf
<1>2. Meaning'
  BY <1>1 DEF Data, Meaning
<1>3. Counters' /\ Bounded'
  BY <1>1 DEF Data, Counters, Bounded
<1>4. Complete'
  <2>1. \A p \in processed' \cap Parsable :
          loads'[p] + failures'[p] > 0 \/ Carried(p, "parse")' \/ Carried(p, "load")'
    <3>1. \A p \in processed : p \in Pages
      BY DEF Shape
    <3> QED BY <3>1 DEF Data, Complete
  <2>2. \A p \in Pages : loads'[p] > 0 =>
          countedWords'[p] > 0 \/ Carried(p, "split")' \/ Carried(p, "count")'
    BY DEF Data, Complete
  <2>3. \A p \in Pages : loads'[p] > 0 => \A i \in DOMAIN Links[p] :
          Settled(Links[p][i])' \/ Carried(p, "split")' \/ Carried(p, "href")'
    BY DEF Data, Complete, Settled
  <2>4. main' # "feeding" => Settled(Seed)'
    BY DEF Data, Complete
  <2> QED BY <2>1, <2>2, <2>3, <2>4 DEF Complete
<1> QED BY <1>2, <1>3, <1>4 DEF Data

\* parseUrl: the page goes on to the loader, unless its url cannot be parsed.
LEMMA ParseData ==
  ASSUME Shape, Shape', Data, NEW w \in Workers, Parse(w), NEW v, v = val[w]
  PROVE  Data'
<1>0. PICK s : s = IF v \in Parsable THEN ToFirst(w, <<v>>) ELSE <<>>
  OBVIOUS
<1>1. /\ at[w] = "working" /\ Job[w] = "parse" /\ v \in Pages
      /\ UNCHANGED <<queue, val, processed, loads, failures, countedWords, main>>
      /\ Emit(w, IF v \in Parsable THEN <<v>> ELSE <<>>)
  BY DEF Parse, Shape, chanVars, pageVars
<1>2. /\ ToFirst(w, <<v>>) # <<>> /\ DOMAIN ToFirst(w, <<v>>) = {1}
      /\ For(ToFirst(w, <<v>>)[1][1]) = "load" /\ ToFirst(w, <<v>>)[1][2] = v
  BY <1>1, OneValue, OneDestination
<1>3. PICK to : to = IF v \in Parsable THEN "putting" ELSE "getting"
  OBVIOUS
<1>4. out' = [out EXCEPT ![w] = s] /\ at' = At(w, to)
  <2>1. CASE v \in Parsable
    <3>1. Emit(w, <<v>>) /\ <<v>> # <<>>
      BY <1>1, <2>1
    <3> QED BY <1>0, <1>3, <2>1, <3>1 DEF Emit, ToFirst
  <2>2. CASE v \notin Parsable
    <3>1. Emit(w, <<>>)
      BY <1>1, <2>2
    <3>2. [i \in DOMAIN <<>> |-> <<Dst[w][1], <<>>[i]>>] = <<>>
      OBVIOUS
    <3> QED BY <1>0, <1>3, <2>2, <3>1, <3>2 DEF Emit
  <2> QED BY <2>1, <2>2
<1>5. /\ to \notin {"working", "loading"} /\ at[w] \in {"working", "loading"}
      /\ UNCHANGED <<queue, val>>
  BY <1>1, <1>3
<1>6. /\ v \in Parsable => DOMAIN s = {1} /\ For(s[1][1]) = "load" /\ s[1][2] = v
      /\ v \notin Parsable => DOMAIN s = {}
  BY <1>0, <1>2
<1>7. Disposed(w, s)
  BY <1>4, <1>5, DisposedCarried
<1>8. Carried(v, "parse")
  BY <1>1, WorkHolds
<1>9. /\ \A p, j : Carried(p, j)' =>
           Carried(p, j) \/ (v \in Parsable /\ p = v /\ j = "load")
      /\ \A p, j : Carried(p, j) => Carried(p, j)' \/ (p = v /\ j = "parse")
      /\ v \in Parsable => Carried(v, "load")'
  <2>1. \A p, j : Carried(p, j)' =>
          Carried(p, j) \/ (v \in Parsable /\ p = v /\ j = "load")
    BY <1>6, <1>7 DEF Disposed
  <2>2. \A p, j : Carried(p, j) => Carried(p, j)' \/ (p = v /\ j = "parse")
    BY <1>1, <1>7 DEF Disposed
  <2>3. v \in Parsable => Carried(v, "load")'
    BY <1>6, <1>7 DEF Disposed
  <2> QED BY <2>1, <2>2, <2>3
<1>10. Unique'
  <2>1. /\ Unique /\ Job[w] \in Single
        /\ \A i, k \in DOMAIN s : i = k
        /\ \A i \in DOMAIN s : s[i][2] = val[w]
    BY <1>1, <1>6 DEF Data, Single
  <2> QED BY <1>4, <1>5, <2>1, DisposedUnique
<1>11. \A q : Settled(q) => Settled(q)'
  BY <1>1, <1>9, SettledStays
<1>12. \A p \in Pages : Carried(p, "filter")' => p \in Known
  BY <1>9 DEF Data, Meaning
<1> QED BY <1>1, <1>8, <1>9, <1>10, <1>11, <1>12, SameCounts

\* The content goes on to the counter, and to be searched for links.
LEMMA SplitData ==
  ASSUME Shape, Shape', Data, NEW w \in Workers, Split(w), NEW v, v = val[w]
  PROVE  Data'
<1>1. /\ at[w] = "working" /\ Job[w] = "split" /\ v \in Pages
      /\ UNCHANGED <<queue, val, processed, loads, failures, countedWords, main>>
      /\ out' = [out EXCEPT ![w] = ToBoth(w, v)] /\ at' = At(w, "putting")
  BY DEF Split, Shape, chanVars, pageVars, ToBoth
<1>2. PICK s : s = ToBoth(w, v)
  OBVIOUS
<1>3. /\ DOMAIN s = {1, 2}
      /\ For(s[1][1]) = "href" /\ s[1][2] = v
      /\ For(s[2][1]) = "count" /\ s[2][2] = v
  BY <1>1, <1>2, ToBothFacts, TwoDestinations

<1>a. /\ at[w] \in {"working", "loading"}
      /\ out' = [out EXCEPT ![w] = s] /\ at' = At(w, "putting")
      /\ UNCHANGED <<queue, val>>
  BY <1>1, <1>2
<1>4. Disposed(w, s)
  BY <1>a, DisposedCarried
<1>5. Carried(v, "split")
  BY <1>1, WorkHolds
<1>6. /\ \A p, j : Carried(p, j)' =>
           Carried(p, j) \/ (p = v /\ (j = "href" \/ j = "count"))
      /\ \A p, j : Carried(p, j) => Carried(p, j)' \/ (p = v /\ j = "split")
      /\ Carried(v, "href")' /\ Carried(v, "count")'
  BY <1>1, <1>3, <1>4 DEF Disposed
<1>7. Unique'
  <2>1. /\ Unique /\ Job[w] \in Single
        /\ \A i \in DOMAIN s : s[i][2] = val[w]
        /\ "href" \notin Single
    BY <1>1, <1>3 DEF Data, Single
  <2>2. \A i, k \in DOMAIN s :
          For(s[i][1]) \in Single /\ For(s[k][1]) \in Single => i = k
    BY <1>3, <2>1
  <2> QED BY <1>a, <2>1, <2>2, DisposedUnique
<1>8. \A q : Settled(q) => Settled(q)'
  BY <1>1, <1>6, SettledStays
<1> QED BY <1>1, <1>5, <1>6, <1>7, <1>8, SameCounts DEF Data, Meaning

\* Every link that is found goes to the filter.
LEMMA HrefData ==
  ASSUME Shape, Shape', Data, NEW w \in Workers, Href(w), NEW v, v = val[w]
  PROVE  Data'
<1>1. /\ at[w] = "working" /\ Job[w] = "href" /\ v \in Pages
      /\ UNCHANGED <<queue, val, processed, loads, failures, countedWords, main>>
      /\ Emit(w, Links[v]) /\ Links[v] \in Seq(Pages)
  BY PipingAssumption DEF Href, Shape, chanVars, pageVars
<1>2. PICK s : s = ToFirst(w, Links[v])
  OBVIOUS
<1>3. PICK to : to = IF Links[v] = <<>> THEN "getting" ELSE "putting"
  OBVIOUS
<1>4. /\ out' = [out EXCEPT ![w] = s] /\ at' = At(w, to)
      /\ to \notin {"working", "loading"}
      /\ at[w] \in {"working", "loading"} /\ UNCHANGED <<queue, val>>
  BY <1>1, <1>2, <1>3 DEF Emit, ToFirst
<1>5. /\ DOMAIN s = DOMAIN Links[v]
      /\ \A i \in DOMAIN s : For(s[i][1]) = "filter" /\ s[i][2] = Links[v][i]
  BY <1>1, <1>2, ToFirstFacts, OneDestination
<1>6. Disposed(w, s)
  BY <1>4, DisposedCarried
<1>7. Carried(v, "href") /\ loads[v] > 0
  BY <1>1, WorkHolds DEF Data, Meaning
<1>8. /\ \A p, j : Carried(p, j)' =>
           Carried(p, j) \/ (j = "filter" /\ \E i \in DOMAIN Links[v] : p = Links[v][i])
      /\ \A p, j : Carried(p, j) => Carried(p, j)' \/ (p = v /\ j = "href")
      /\ \A i \in DOMAIN Links[v] : Carried(Links[v][i], "filter")'
  <2>1. \A p, j : Carried(p, j)' =>
          Carried(p, j) \/ (j = "filter" /\ \E i \in DOMAIN Links[v] : p = Links[v][i])
    BY <1>5, <1>6 DEF Disposed
  <2>2. \A p, j : Carried(p, j) => Carried(p, j)' \/ (p = v /\ j = "href")
    BY <1>1, <1>6 DEF Disposed
  <2>3. \A i \in DOMAIN Links[v] : Carried(Links[v][i], "filter")'
    BY <1>5, <1>6 DEF Disposed
  <2> QED BY <2>1, <2>2, <2>3
<1>9. Unique'
  <2>1. Unique /\ \A i \in DOMAIN s : For(s[i][1]) \notin Single
    BY <1>5 DEF Data, Single
  <2> QED BY <1>4, <2>1, DisposedUnique
<1>10. \A q : Settled(q) => Settled(q)'
  BY <1>1, <1>8, SettledStays
<1>11. \A p \in Pages : Carried(p, "filter")' => p \in Known
  BY <1>1, <1>7, <1>8, KnownFacts DEF Data, Meaning
<1> QED BY <1>1, <1>8, <1>9, <1>10, <1>11, SameCounts

\* The value comes to its end.
LEMMA CountData ==
  ASSUME Shape, Shape', Data, NEW w \in Workers, CountWords(w), NEW v, v = val[w]
  PROVE  Data'
<1>1. /\ at[w] = "working" /\ Job[w] = "count" /\ v \in Pages /\ out[w] = <<>>
      /\ UNCHANGED <<queue, val, processed, loads, failures, main>>
      /\ countedWords' = [countedWords EXCEPT ![v] = countedWords[v] + 1]
      /\ at' = At(w, "getting")
  BY DEF CountWords, Shape, chanVars
<1>2. PICK s : s = <<>>
  OBVIOUS
<1>3. /\ at[w] \in {"working", "loading"}
      /\ out' = [out EXCEPT ![w] = s] /\ at' = At(w, "getting")
      /\ UNCHANGED <<queue, val>>
  BY <1>1, <1>2 DEF CountWords, Shape
<1>4. Unique /\ Job[w] \in Single /\ {"count", "split"} \subseteq Single
  BY <1>1 DEF Data, Single
<1>5. Disposed(w, s)
  BY <1>3, DisposedCarried
<1>6. /\ \A p, j : Carried(p, j)' => Carried(p, j)
      /\ \A p, j : Carried(p, j) => Carried(p, j)' \/ (p = v /\ j = "count")
      /\ ~Carried(v, "count")' /\ ~Carried(v, "split")'
  BY <1>1, <1>2, <1>4, <1>5 DEF Disposed
<1>7. loads[v] > 0 /\ countedWords[v] = 0
  BY <1>1, WorkHolds DEF Data, Meaning
<1>8. Unique'
  <2>1. DOMAIN s = {}
    BY <1>2
  <2> QED BY <1>3, <1>4, <2>1, DisposedUnique
<1>9. countedWords'[v] = 1 /\ \A p \in Pages : p # v => countedWords'[p] = countedWords[p]
  BY <1>1, <1>7 DEF Shape
<1>10. Known' = Known
  BY <1>1 DEF Known, Abstract!Known, Abstract!LinksOf
<1>11. Meaning'
  BY <1>1, <1>6, <1>9, <1>10 DEF Data, Meaning
<1>12. Counters' /\ Bounded'
  BY <1>1, <1>7, <1>9, <1>10 DEF Data, Counters, Bounded
<1>13. \A q : Settled(q) => Settled(q)'
  BY <1>1, <1>6, SettledStays
<1>14. Complete'
  <2>1. \A p \in processed' \cap Parsable :
          loads'[p] + failures'[p] > 0 \/ Carried(p, "parse")' \/ Carried(p, "load")'
    BY <1>1, <1>6 DEF Data, Complete
  <2>2. \A p \in Pages : loads'[p] > 0 =>
          countedWords'[p] > 0 \/ Carried(p, "split")' \/ Carried(p, "count")'
    BY <1>1, <1>6, <1>9 DEF Data, Complete
  <2>3. \A p \in Pages : loads'[p] > 0 => \A i \in DOMAIN Links[p] :
          Settled(Links[p][i])' \/ Carried(p, "split")' \/ Carried(p, "href")'
    BY <1>1, <1>6, <1>13 DEF Data, Complete
  <2>4. main' # "feeding" => Settled(Seed)'
    BY <1>1, <1>13 DEF Data, Complete
  <2> QED BY <2>1, <2>2, <2>3, <2>4 DEF Complete
<1> QED BY <1>8, <1>11, <1>12, <1>14 DEF Data

-----------------------------------------------------------------------------
(* Values that only change their place *)

\* Steps that move values, but neither make nor use them up.
LEMMA SameCarriers ==
  ASSUME Shape, Data, UNCHANGED <<processed, loads, failures, countedWords>>,
         main' # "feeding" => main # "feeding",
         Unique', \A p, j : Carried(p, j)' <=> Carried(p, j)
  PROVE  Data'
<1>1. \A q : Settled(q) => Settled(q)'
  BY SettledStays
<1>2. \A p \in Pages : Carried(p, "filter")' => p \in Known
  BY DEF Data, Meaning
<1> QED BY <1>1, <1>2, SameCounts

\* Steps that change nothing about the values.
LEMMA QuietData ==
  ASSUME Shape, Data, UNCHANGED <<processed, loads, failures, countedWords>>,
         main' # "feeding" => main # "feeding",
         UNCHANGED <<queue, val, out>>,
         \A w \in Workers :
           at'[w] \in {"working", "loading"} <=> at[w] \in {"working", "loading"}
  PROVE  Data'
<1>1. \A x, a, i, p, j : Holds(x, a, i, p, j)' <=> Holds(x, a, i, p, j)
  BY DEF Holds
<1>2. Unique'
  BY <1>1 DEF Data, Unique
<1>3. \A p, j : Carried(p, j)' <=> Carried(p, j)
  BY <1>1 DEF Carried
<1> QED BY <1>2, <1>3, SameCarriers

\* An instance of Unique without the sets.
LEMMA OnePlace ==
  ASSUME Shape, Unique, NEW p, NEW j \in Single, NEW k \in Single,
         NEW x, NEW a, NEW m, NEW y, NEW b, NEW n,
         Holds(x, a, m, p, j), Holds(y, b, n, p, k)
  PROVE  x = y /\ a = b /\ m = n
BY HoldsWhere DEF Unique

\* HoldsCarried of the next state.
LEMMA CarriedNext ==
  ASSUME Shape', NEW x, NEW a, NEW i, NEW p, NEW j, Holds(x, a, i, p, j)'
  PROVE  Carried(p, j)'
<1>1. (Shape => (Holds(x, a, i, p, j) => Carried(p, j)))'
  BY HoldsCarried, PTL
<1> QED BY <1>1

\* The value goes from the channel into the hands of its reader; the others move up.
LEMMA GetData ==
  ASSUME Shape, Shape', Data, NEW w \in Workers, Get(w), NEW c, c = Src[w]
  PROVE  Data'
<1>1. /\ at[w] = "getting" /\ c \in Channels /\ For(c) = Job[w]
      /\ queue[c] \in Seq(Pages)
      /\ UNCHANGED <<out, processed, loads, failures, countedWords, main>>
  BY ForReader DEF Get, pageVars, Shape
<1>2. CASE /\ queue[c] = <<>> /\ UNCHANGED <<queue, val>>
           /\ \E to \in {"closing", "waiting"} : at' = At(w, to)
  <2>1. \A u \in Workers :
          at'[u] \in {"working", "loading"} <=> at[u] \in {"working", "loading"}
    BY <1>1, <1>2 DEF At, Shape
  <2> QED BY <1>1, <1>2, <2>1, QuietData
<1>3. CASE /\ queue[c] # <<>>
           /\ val' = [val EXCEPT ![w] = Head(queue[c])]
           /\ queue' = [queue EXCEPT ![c] = Tail(queue[c])]
           /\ at' = At(w, "working")
  <2>1. /\ 1 \in DOMAIN queue[c] /\ Head(queue[c]) = queue[c][1]
        /\ \A i \in DOMAIN queue[c] : i \in Nat /\ i >= 1
        /\ \A i : i \in DOMAIN Tail(queue[c]) <=> i \in Nat /\ i # 0 /\ i + 1 \in DOMAIN queue[c]
        /\ \A i \in DOMAIN Tail(queue[c]) : Tail(queue[c])[i] = queue[c][i + 1]
    BY <1>1, <1>3, TailFacts
  <2>2. /\ at'[w] = "working" /\ val'[w] = queue[c][1] /\ queue'[c] = Tail(queue[c])
        /\ \A u \in Workers : u # w => at'[u] = at[u] /\ val'[u] = val[u]
        /\ \A d \in Channels : d # c => queue'[d] = queue[d]
    BY <1>1, <1>3, <2>1 DEF At, Shape
  <2>3. ASSUME NEW x, NEW a, NEW i, NEW p, NEW j, Holds(x, a, i, p, j)'
        PROVE  \/ Holds(x, a, i, p, j) /\ ~(x = "queue" /\ a = c) /\ ~(x = "work" /\ a = w)
               \/ /\ x = "queue" /\ a = c /\ i \in Nat /\ i # 0
                  /\ Holds("queue", c, i + 1, p, j)
               \/ x = "work" /\ a = w /\ i = 0 /\ Holds("queue", c, 1, p, j)
    <3>1. CASE x = "queue"
      <4>1. /\ a \in Channels /\ For(a) = j
            /\ i \in DOMAIN queue'[a] /\ queue'[a][i] = p
        BY <2>3, <3>1 DEF Holds
      <4>2. CASE a = c
        <5>1. /\ i \in Nat /\ i # 0 /\ i + 1 \in DOMAIN queue[c]
              /\ queue[c][i + 1] = p
          BY <2>1, <2>2, <4>1, <4>2
        <5> QED BY <3>1, <4>1, <4>2, <5>1 DEF Holds
      <4>3. CASE a # c
        BY <2>2, <3>1, <4>1, <4>3 DEF Holds
      <4> QED BY <4>2, <4>3
    <3>2. CASE x = "work"
      BY <1>1, <2>1, <2>2, <2>3, <3>2 DEF Holds
    <3>3. CASE x = "out"
      BY <1>1, <2>3, <3>3 DEF Holds
    <3> QED BY <2>3, <3>1, <3>2, <3>3 DEF Holds
  <2>4. ASSUME NEW x, NEW a, NEW i, NEW p, NEW j, Holds(x, a, i, p, j)
        PROVE  \/ Holds(x, a, i, p, j)'
               \/ Holds("queue", c, i - 1, p, j)'
               \/ Holds("work", w, 0, p, j)'
    <3>1. CASE x = "queue" /\ a = c
      <4>1. i \in DOMAIN queue[c] /\ queue[c][i] = p /\ For(c) = j
        BY <2>4, <3>1 DEF Holds
      <4>2. CASE i = 1
        <5>1. Holds("work", w, 0, p, j)'
          BY <1>1, <2>2, <4>1, <4>2 DEF Holds
        <5> QED BY <5>1
      <4>3. CASE i # 1
        <5>1. i - 1 \in DOMAIN Tail(queue[c]) /\ Tail(queue[c])[i - 1] = p
          BY <2>1, <4>1, <4>3
        <5>2. Holds("queue", c, i - 1, p, j)'
          BY <1>1, <2>2, <4>1, <5>1 DEF Holds
        <5> QED BY <5>2
      <4> QED BY <4>2, <4>3
    <3>2. CASE ~(x = "queue" /\ a = c)
      <4>1. Holds(x, a, i, p, j)'
        BY <1>1, <2>2, <2>4, <3>2 DEF Holds
      <4> QED BY <4>1
    <3> QED BY <3>1, <3>2
  <2>5. \A p, j : Carried(p, j)' <=> Carried(p, j)
    <3>1. ASSUME NEW p, NEW j, Carried(p, j)' PROVE Carried(p, j)
      <4>1. PICK x, a, i : Holds(x, a, i, p, j)'
        BY <3>1 DEF Carried
      <4> QED BY <2>3, <4>1, HoldsCarried
    <3>2. ASSUME NEW p, NEW j, Carried(p, j) PROVE Carried(p, j)'
      <4>1. PICK x, a, i : Holds(x, a, i, p, j)
        BY <3>2 DEF Carried
      <4>2. \E y, b, n : Holds(y, b, n, p, j)'
        BY <2>4, <4>1
      <4> QED BY <4>2, CarriedNext
    <3> QED BY <3>1, <3>2
  <2>6. ASSUME NEW p \in Pages, NEW j \in Single, NEW k \in Single,
               NEW x \in Holders, NEW y \in Holders,
               NEW a \in Channels \cup Workers, NEW b \in Channels \cup Workers,
               NEW m \in Nat, NEW n \in Nat,
               Holds(x, a, m, p, j)', Holds(y, b, n, p, k)'
        PROVE  x = y /\ a = b /\ m = n
    <3>1. CASE Holds(x, a, m, p, j) /\ ~(x = "queue" /\ a = c) /\ ~(x = "work" /\ a = w)
      BY <2>3, <2>6, <3>1, OnePlace DEF Data
    <3>2. CASE /\ x = "queue" /\ a = c /\ m # 0
               /\ Holds("queue", c, m + 1, p, j)
      <4>1. CASE Holds(y, b, n, p, k) /\ ~(y = "queue" /\ b = c) /\ ~(y = "work" /\ b = w)
        BY <3>2, <4>1, OnePlace DEF Data
      <4>2. CASE y = "queue" /\ b = c /\ n # 0 /\ Holds("queue", c, n + 1, p, k)
        <5>1. m + 1 = n + 1
          BY <3>2, <4>2, OnePlace DEF Data
        <5> QED BY <3>2, <4>2, <5>1
      <4>3. CASE y = "work" /\ b = w /\ n = 0 /\ Holds("queue", c, 1, p, k)
        <5>1. m + 1 = 1
          BY <3>2, <4>3, OnePlace DEF Data
        <5> QED BY <3>2, <5>1
      <4> QED BY <2>3, <2>6, <4>1, <4>2, <4>3
    <3>3. CASE x = "work" /\ a = w /\ m = 0 /\ Holds("queue", c, 1, p, j)
      <4>1. CASE Holds(y, b, n, p, k) /\ ~(y = "queue" /\ b = c) /\ ~(y = "work" /\ b = w)
        BY <3>3, <4>1, OnePlace DEF Data
      <4>2. CASE y = "queue" /\ b = c /\ n # 0 /\ Holds("queue", c, n + 1, p, k)
        <5>1. n + 1 = 1
          BY <3>3, <4>2, OnePlace DEF Data
        <5> QED BY <4>2, <5>1
      <4>3. CASE y = "work" /\ b = w /\ n = 0
        BY <3>3, <4>3
      <4> QED BY <2>3, <2>6, <4>1, <4>2, <4>3
    <3> QED BY <2>3, <2>6, <3>1, <3>2, <3>3
  <2>7. Unique'
    BY <2>6 DEF Unique
  <2> QED BY <1>1, <2>5, <2>7, SameCarriers
<1> QED BY <1>2, <1>3 DEF Get

\* Value v for channel c arrives at place x of a: in the channel, or in the hands of
\* somebody who has waited there.
Arrives(c, v, x, a, i) ==
  /\ x \in {"queue", "work"}
  /\ \A y, b, n, p, j : y # "out" =>
       (Holds(y, b, n, p, j)' <=>
          \/ Holds(y, b, n, p, j)
          \/ y = x /\ b = a /\ n = i /\ p = v /\ j = For(c))
  /\ \A p, j : ~Holds(x, a, i, p, j)

\* put() brings its value to one place, where there was none.
LEMMA PutArrives ==
  ASSUME Shape, NEW c \in Channels, NEW v \in Pages,
         NEW place, place \in [Workers -> Places], Put(c, v, place),
         \A u \in Workers :
           place[u] \in {"working", "loading"} <=> at[u] \in {"working", "loading"}
  PROVE  \E x, a, i : Arrives(c, v, x, a, i)
<1>1. CASE /\ queue' = [queue EXCEPT ![c] = Append(queue[c], v)]
           /\ at' = place /\ UNCHANGED val
  <2> DEFINE i == Len(queue[c]) + 1
  <2>1. queue[c] \in Seq(Pages)
    BY DEF Shape
  <2>2. /\ DOMAIN Append(queue[c], v) = DOMAIN queue[c] \cup {i}
        /\ i \notin DOMAIN queue[c] /\ Append(queue[c], v)[i] = v
        /\ \A n \in DOMAIN queue[c] : Append(queue[c], v)[n] = queue[c][n]
    BY <2>1, AppendFacts
  <2>3. /\ queue'[c] = Append(queue[c], v)
        /\ \A d \in Channels : d # c => queue'[d] = queue[d]
    BY <1>1 DEF Shape
  <2> HIDE DEF i
  <2>4. ASSUME NEW y, NEW b, NEW n, NEW p, NEW j, y # "out"
        PROVE  Holds(y, b, n, p, j)' <=>
                 \/ Holds(y, b, n, p, j)
                 \/ y = "queue" /\ b = c /\ n = i /\ p = v /\ j = For(c)
    <3>1. CASE y = "queue"
      <4>1. CASE b = c
        <5>1. Holds(y, b, n, p, j)' <=>
                For(c) = j /\ n \in DOMAIN queue'[c] /\ queue'[c][n] = p
          BY <3>1, <4>1 DEF Holds
        <5>2. Holds(y, b, n, p, j) <=>
                For(c) = j /\ n \in DOMAIN queue[c] /\ queue[c][n] = p
          BY <3>1, <4>1 DEF Holds
        <5> QED BY <2>2, <2>3, <3>1, <4>1, <5>1, <5>2
      <4>2. CASE b # c
        BY <2>3, <3>1, <4>2 DEF Holds
      <4> QED BY <4>1, <4>2
    <3>2. CASE y = "work"
      BY <1>1, <3>2 DEF Holds
    <3>3. CASE y # "queue" /\ y # "work"
      BY <2>4, <3>3 DEF Holds
    <3> QED BY <3>1, <3>2, <3>3
  <2>5. \A p, j : ~Holds("queue", c, i, p, j)
    BY <2>2 DEF Holds
  <2>6. Arrives(c, v, "queue", c, i)
    BY <2>4, <2>5 DEF Arrives
  <2> QED BY <2>6
<1>2. CASE \E u \in WaitingOn(c) :
             /\ val' = [val EXCEPT ![u] = v]
             /\ at' = [place EXCEPT ![u] = "working"]
             /\ UNCHANGED queue
  <2>1. PICK u \in WaitingOn(c) :
          /\ val' = [val EXCEPT ![u] = v]
          /\ at' = [place EXCEPT ![u] = "working"]
          /\ UNCHANGED queue
    BY <1>2
  <2>2. u \in Workers /\ at[u] = "waiting" /\ Src[u] = c
    BY DEF WaitingOn
  <2>3. /\ at'[u] = "working" /\ val'[u] = v /\ Job[u] = For(c)
        /\ \A w \in Workers : w # u => at'[w] = place[w] /\ val'[w] = val[w]
    BY <2>1, <2>2, ForReader DEF Shape
  <2>4. ASSUME NEW y, NEW b, NEW n, NEW p, NEW j, y # "out"
        PROVE  Holds(y, b, n, p, j)' <=>
                 \/ Holds(y, b, n, p, j)
                 \/ y = "work" /\ b = u /\ n = 0 /\ p = v /\ j = For(c)
    <3>1. CASE y = "queue"
      BY <2>1, <3>1 DEF Holds
    <3>2. CASE y = "work"
      <4>1. CASE b = u
        BY <2>2, <2>3, <3>2, <4>1 DEF Holds
      <4>2. CASE b # u
        <5>1. Holds(y, b, n, p, j)' <=>
                /\ b \in Workers /\ Job[b] = j /\ n = 0
                /\ at'[b] \in {"working", "loading"} /\ val'[b] = p
          BY <3>2 DEF Holds
        <5>2. Holds(y, b, n, p, j) <=>
                /\ b \in Workers /\ Job[b] = j /\ n = 0
                /\ at[b] \in {"working", "loading"} /\ val[b] = p
          BY <3>2 DEF Holds
        <5> QED BY <2>3, <4>2, <5>1, <5>2
      <4> QED BY <4>1, <4>2
    <3>3. CASE y # "queue" /\ y # "work"
      BY <2>4, <3>3 DEF Holds
    <3> QED BY <3>1, <3>2, <3>3
  <2>5. \A p, j : ~Holds("work", u, 0, p, j)
    BY <2>2 DEF Holds
  <2>6. Arrives(c, v, "work", u, 0)
    BY <2>4, <2>5 DEF Arrives
  <2> QED BY <2>6
<1> QED BY <1>1, <1>2 DEF Put

\* The seed is on the way to the filter.
LEMMA FeedData ==
  ASSUME Shape, Shape', Data, Feed
  PROVE  Data'
<1>1. /\ main = "feeding" /\ Put(Input, Seed, at)
      /\ Input \in Channels /\ Seed \in Pages /\ For(Input) = "filter"
      /\ UNCHANGED <<out, processed, loads, failures, countedWords>>
  BY PipingAssumption, GraphAssumption DEF Feed, pageVars
<1>2. PICK x, a, i : Arrives(Input, Seed, x, a, i)
  BY <1>1, PutArrives DEF Shape
<1>3. ASSUME NEW y, NEW b, NEW n, NEW p, NEW j
      PROVE  Holds(y, b, n, p, j)' <=>
               \/ Holds(y, b, n, p, j)
               \/ y = x /\ b = a /\ n = i /\ p = Seed /\ j = "filter"
  <2>1. CASE y = "out"
    BY <1>1, <1>2, <2>1 DEF Holds, Arrives
  <2>2. CASE y # "out"
    BY <1>1, <1>2, <2>2 DEF Arrives
  <2> QED BY <2>1, <2>2
<1>4. ASSUME NEW p, NEW j
      PROVE  Carried(p, j)' <=> Carried(p, j) \/ (p = Seed /\ j = "filter")
  <2>1. ASSUME Carried(p, j)' PROVE Carried(p, j) \/ (p = Seed /\ j = "filter")
    <3>1. PICK y, b, n : Holds(y, b, n, p, j)'
      BY <2>1 DEF Carried
    <3> QED BY <1>3, <3>1, HoldsCarried
  <2>2. ASSUME Carried(p, j) \/ (p = Seed /\ j = "filter") PROVE Carried(p, j)'
    <3>1. \E y, b, n : Holds(y, b, n, p, j)'
      BY <1>3, <2>2 DEF Carried
    <3> QED BY <3>1, CarriedNext
  <2> QED BY <2>1, <2>2
<1>5. Unique'
  <2>1. "filter" \notin Single
    BY DEF Single
  <2> QED BY <1>3, <2>1 DEF Data, Unique
<1>6. \A q : Settled(q) => Settled(q)'
  BY <1>1, <1>4, SettledStays
<1>7. Settled(Seed)'
  BY <1>4 DEF Settled
<1>8. \A p \in Pages : Carried(p, "filter")' => p \in Known
  BY <1>4, KnownFacts DEF Data, Meaning
<1> QED BY <1>1, <1>4, <1>5, <1>6, <1>7, <1>8, SameCounts

\* The first value left leaves, the others move up.
LEMMA PutNextData ==
  ASSUME Shape, Shape', Ends, Data, NEW w \in Workers, PutNext(w),
         NEW c, NEW v, c = out[w][1][1], v = out[w][1][2]
  PROVE  Data'
<1>1. /\ out[w] # <<>> /\ c \in Channels /\ v \in Pages
      /\ Put(c, v, Afterwards(w)) /\ Afterwards(w) \in [Workers -> Places]
      /\ \A u \in Workers :
           Afterwards(w)[u] \in {"working", "loading"} <=> at[u] \in {"working", "loading"}
      /\ out' = [out EXCEPT ![w] = Tail(out[w])]
      /\ UNCHANGED <<processed, loads, failures, countedWords, main>>
  BY PutNextFacts
<1>2. PICK x, a, i : Arrives(c, v, x, a, i)
  BY <1>1, PutArrives
<1>3. /\ out'[w] = Tail(out[w]) /\ out[w] \in Seq(Channels \X Pages)
      /\ \A u \in Workers : u # w => out'[u] = out[u]
  BY <1>1 DEF Shape
<1>4. /\ 1 \in DOMAIN out[w]
      /\ \A n \in DOMAIN out[w] : n \in Nat /\ n >= 1
      /\ \A n : n \in DOMAIN out'[w] <=> n \in Nat /\ n # 0 /\ n + 1 \in DOMAIN out[w]
      /\ \A n \in DOMAIN out'[w] : out'[w][n] = out[w][n + 1]
  <2>1. PICK q : q = out[w]
    OBVIOUS
  <2>2. PICK t : t = out'[w]
    OBVIOUS
  <2>3. q \in Seq(Channels \X Pages) /\ q # <<>> /\ t = Tail(q)
    BY <1>1, <1>3, <2>1, <2>2
  <2>4. /\ 1 \in DOMAIN q
        /\ \A n \in DOMAIN q : n \in Nat /\ n >= 1
        /\ \A n : n \in DOMAIN Tail(q) <=> n \in Nat /\ n # 0 /\ n + 1 \in DOMAIN q
        /\ \A n \in DOMAIN Tail(q) : Tail(q)[n] = q[n + 1]
    BY <2>3, TailFacts, Zenon
  <2>5. /\ 1 \in DOMAIN q
        /\ \A n \in DOMAIN q : n \in Nat /\ n >= 1
        /\ \A n : n \in DOMAIN t <=> n \in Nat /\ n # 0 /\ n + 1 \in DOMAIN q
        /\ \A n \in DOMAIN t : t[n] = q[n + 1]
    BY <2>3, <2>4, Zenon
  <2> QED BY <2>1, <2>2, <2>5, Zenon
<1>5. Holds("out", w, 1, v, For(c))
  BY <1>4 DEF Holds
<1>6. ASSUME NEW y, NEW b, NEW n, NEW p, NEW j, Holds(y, b, n, p, j)'
      PROVE  \/ Holds(y, b, n, p, j) /\ ~(y = "out" /\ b = w)
             \/ /\ y = "out" /\ b = w /\ n \in Nat /\ n # 0
                /\ Holds("out", w, n + 1, p, j)
             \/ y = x /\ b = a /\ n = i /\ Holds("out", w, 1, p, j)
  <2>1. CASE y = "out" /\ b = w
    <3>1. n \in DOMAIN out'[w] /\ For(out'[w][n][1]) = j /\ out'[w][n][2] = p
      BY <1>6, <2>1 DEF Holds
    <3>2. /\ n \in Nat /\ n # 0 /\ n + 1 \in DOMAIN out[w]
          /\ For(out[w][n + 1][1]) = j /\ out[w][n + 1][2] = p
      BY <1>4, <3>1
    <3> QED BY <2>1, <3>2 DEF Holds
  <2>2. CASE y = "out" /\ b # w
    BY <1>3, <1>6, <2>2 DEF Holds
  <2>3. CASE y # "out"
    BY <1>2, <1>5, <1>6, <2>3 DEF Arrives
  <2> QED BY <2>1, <2>2, <2>3
<1>7. ASSUME NEW y, NEW b, NEW n, NEW p, NEW j, Holds(y, b, n, p, j)
      PROVE  \/ Holds(y, b, n, p, j)'
             \/ Holds("out", w, n - 1, p, j)'
             \/ Holds(x, a, i, p, j)'
  <2>1. CASE y = "out" /\ b = w
    <3>1. n \in DOMAIN out[w] /\ For(out[w][n][1]) = j /\ out[w][n][2] = p
      BY <1>7, <2>1 DEF Holds
    <3>2. CASE n = 1
      <4>1. p = v /\ j = For(c) /\ x # "out"
        BY <1>2, <3>1, <3>2 DEF Arrives
      <4> QED BY <1>2, <4>1 DEF Arrives
    <3>3. CASE n # 1
      <4>1. /\ n - 1 \in DOMAIN out'[w]
            /\ For(out'[w][n - 1][1]) = j /\ out'[w][n - 1][2] = p
        BY <1>4, <3>1, <3>3
      <4>2. Holds("out", w, n - 1, p, j)'
        BY <4>1 DEF Holds
      <4> QED BY <4>2
    <3> QED BY <3>2, <3>3
  <2>2. CASE y = "out" /\ b # w
    BY <1>3, <1>7, <2>2 DEF Holds
  <2>3. CASE y # "out"
    BY <1>2, <1>7, <2>3 DEF Arrives
  <2> QED BY <2>1, <2>2, <2>3
<1>8. \A p, j : Carried(p, j)' <=> Carried(p, j)
  <2>1. ASSUME NEW p, NEW j, Carried(p, j)' PROVE Carried(p, j)
    <3>1. PICK y, b, n : Holds(y, b, n, p, j)'
      BY <2>1 DEF Carried
    <3> QED BY <1>6, <3>1, HoldsCarried
  <2>2. ASSUME NEW p, NEW j, Carried(p, j) PROVE Carried(p, j)'
    <3>1. PICK y, b, n : Holds(y, b, n, p, j)
      BY <2>2 DEF Carried
    <3>2. \E z, d, k : Holds(z, d, k, p, j)'
      BY <1>7, <3>1
    <3> QED BY <3>2, CarriedNext
  <2> QED BY <2>1, <2>2
<1>9. ASSUME NEW p \in Pages, NEW j \in Single, NEW k \in Single,
             NEW y \in Holders, NEW z \in Holders,
             NEW b \in Channels \cup Workers, NEW d \in Channels \cup Workers,
             NEW m \in Nat, NEW n \in Nat,
             Holds(y, b, m, p, j)', Holds(z, d, n, p, k)'
      PROVE  y = z /\ b = d /\ m = n
  <2>1. CASE Holds(y, b, m, p, j) /\ ~(y = "out" /\ b = w)
    BY <1>6, <1>9, <2>1, OnePlace DEF Data
  <2>2. CASE /\ y = "out" /\ b = w /\ m # 0
             /\ Holds("out", w, m + 1, p, j)
    <3>1. CASE Holds(z, d, n, p, k) /\ ~(z = "out" /\ d = w)
      BY <2>2, <3>1, OnePlace DEF Data
    <3>2. CASE z = "out" /\ d = w /\ n # 0 /\ Holds("out", w, n + 1, p, k)
      <4>1. m + 1 = n + 1
        BY <2>2, <3>2, OnePlace DEF Data
      <4> QED BY <2>2, <3>2, <4>1
    <3>3. CASE z = x /\ d = a /\ n = i /\ Holds("out", w, 1, p, k)
      <4>1. m + 1 = 1
        BY <2>2, <3>3, OnePlace DEF Data
      <4> QED BY <2>2, <4>1
    <3> QED BY <1>6, <1>9, <3>1, <3>2, <3>3
  <2>3. CASE y = x /\ b = a /\ m = i /\ Holds("out", w, 1, p, j)
    <3>1. CASE Holds(z, d, n, p, k) /\ ~(z = "out" /\ d = w)
      BY <2>3, <3>1, OnePlace DEF Data
    <3>2. CASE z = "out" /\ d = w /\ n # 0 /\ Holds("out", w, n + 1, p, k)
      <4>1. n + 1 = 1
        BY <2>3, <3>2, OnePlace DEF Data
      <4> QED BY <3>2, <4>1
    <3>3. CASE z = x /\ d = a /\ n = i
      BY <2>3, <3>3
    <3> QED BY <1>6, <1>9, <3>1, <3>2, <3>3
  <2> QED BY <1>6, <1>9, <2>1, <2>2, <2>3
<1>10. Unique'
  BY <1>9 DEF Unique
<1> QED BY <1>1, <1>8, <1>10, SameCarriers

\* Nothing is on the way yet.
LEMMA DataInit == Init => Data
<1> SUFFICES ASSUME Init PROVE Data
  OBVIOUS
<1>1. \A x, a, i, p, j : ~Holds(x, a, i, p, j)
  BY DEF Init, Holds
<1>2. \A p, j : ~Carried(p, j)
  BY <1>1 DEF Carried
<1>3. Unique
  BY <1>1 DEF Unique
<1>4. /\ processed = {} /\ main = "feeding"
      /\ \A p \in Pages : loads[p] = 0 /\ failures[p] = 0 /\ countedWords[p] = 0
  BY DEF Init
<1>5. Meaning
  BY <1>2 DEF Meaning
<1>6. Counters
  BY <1>4 DEF Counters
<1>7. Complete
  BY <1>4 DEF Complete
<1>8. Bounded
  BY <1>4, FS_EmptySet, PipingAssumption DEF Bounded
<1> QED BY <1>3, <1>5, <1>6, <1>7, <1>8 DEF Data

\* close() takes no value out of anybody's hands.
LEMMA CloseQuiet ==
  ASSUME Shape, NEW c, Close(c, at)
  PROVE  \A w \in Workers :
           at'[w] \in {"working", "loading"} <=> at[w] \in {"working", "loading"}
BY DEF Close, WaitingOn, Shape

\* The steps of the main thread and of a worker that ends.
LEMMA EndingData ==
  ASSUME Shape, Data,
         CloseInput \/ PoolWaited \/ WaitEndsEarly \/ \E w \in Workers : CloseNext(w)
  PROVE  Data'
<1>1. /\ UNCHANGED <<processed, loads, failures, countedWords, queue, val, out>>
      /\ main' # "feeding" => main # "feeding"
  BY DEF CloseInput, PoolWaited, WaitEndsEarly, CloseNext, chanVars, workVars, pageVars
<1>2. CASE CloseInput
  BY <1>1, <1>2, CloseQuiet, QuietData DEF CloseInput
<1>3. CASE PoolWaited \/ WaitEndsEarly
  BY <1>1, <1>3, QuietData DEF PoolWaited, WaitEndsEarly, workVars
<1>4. ASSUME NEW w \in Workers, CloseNext(w) PROVE Data'
  <2>1. CASE \E i \in DOMAIN Dst[w] : Close(Dst[w][i], at)
    BY <1>1, <2>1, CloseQuiet, QuietData
  <2>2. CASE at[w] = "closing" /\ at' = At(w, "ended")
    <3>1. \A u \in Workers :
            at'[u] \in {"working", "loading"} <=> at[u] \in {"working", "loading"}
      BY <2>2 DEF At, Shape
    <3> QED BY <1>1, <3>1, QuietData
  <2> QED BY <1>4, <2>1, <2>2 DEF CloseNext
<1> QED BY <1>2, <1>3, <1>4

\* A worker that waits for the network keeps its value.
LEMMA StartLoadData ==
  ASSUME Shape, Data, NEW w \in Workers, StartLoad(w)
  PROVE  Data'
<1>1. /\ UNCHANGED <<processed, loads, failures, countedWords, queue, val, out, main>>
      /\ at[w] = "working" /\ at' = At(w, "loading")
  BY DEF StartLoad, chanVars, pageVars
<1>2. \A u \in Workers :
        at'[u] \in {"working", "loading"} <=> at[u] \in {"working", "loading"}
  BY <1>1 DEF At, Shape
<1> QED BY <1>1, <1>2, QuietData

LEMMA StepData ==
  ASSUME Shape, Shape', Ends, Data, NEW w \in Workers, Step(w)
  PROVE  Data'
<1>1. PICK v : v = val[w]
  OBVIOUS
<1>2. PICK c : c = Src[w]
  OBVIOUS
<1>3. PICK d, u : d = out[w][1][1] /\ u = out[w][1][2]
  OBVIOUS
<1>4. CASE Get(w)
  BY <1>2, <1>4, GetData
<1>5. CASE PutNext(w)
  BY <1>3, <1>5, PutNextData
<1>6. CASE CloseNext(w)
  BY <1>6, EndingData
<1>7. CASE Filter(w)
  BY <1>1, <1>7, FilterData
<1>8. CASE StartLoad(w)
  BY <1>8, StartLoadData
<1>9. CASE EndLoad(w)
  BY <1>1, <1>9, EndLoadData
<1>10. CASE Split(w)
  BY <1>1, <1>10, SplitData
<1>11. CASE Href(w)
  BY <1>1, <1>11, HrefData
<1>12. CASE CountWords(w)
  BY <1>1, <1>12, CountData
<1>13. CASE Parse(w)
  BY <1>1, <1>13, ParseData
<1> QED BY <1>4, <1>5, <1>6, <1>7, <1>8, <1>9, <1>10, <1>11, <1>12, <1>13 DEF Step

LEMMA DataNext ==
  ASSUME Shape, Shape', Ends, Data, [Next]_vars
  PROVE  Data'
<1>1. CASE UNCHANGED vars
  <2>1. UNCHANGED <<processed, loads, failures, countedWords, queue, val, out, at, main>>
    BY <1>1 DEF vars, chanVars, workVars, pageVars
  <2> QED BY <2>1, QuietData
<1>2. ASSUME NEW w \in Workers, Step(w) PROVE Data'
  BY <1>2, StepData
<1>3. CASE MainStep \/ WaitEndsEarly
  BY <1>3, FeedData, EndingData DEF MainStep
<1> QED BY <1>1, <1>2, <1>3 DEF Next

-----------------------------------------------------------------------------
(* The theorems *)

\* The inductive invariant of the pipelines (data.h, data.cpp:124-292).
THEOREM InductiveInvariant == Spec => []IInv
<1>1. Init => IInv
  BY ShapeInit, EndsInit, DataInit DEF IInv
<1>2. IInv /\ [Next]_vars => IInv'
  BY EndsNext, DataNext DEF IInv
<1> QED BY <1>1, <1>2, PTL DEF Spec

\* Workers have work, and load and count a page once at most, whatever the graph
\* of the pages (data.cpp:140-152).
THEOREM WorkIsDoneOnce == Spec => []PipingInv
<1>1. IInv => PipingInv
  <2> SUFFICES ASSUME IInv PROVE PipingInv
    OBVIOUS
  <2>1. TypeOK
    BY PipingAssumption DEF IInv, Shape, TypeOK
  <2>2. EachOnce
    BY DEF IInv, Data, Counters, EachOnce
  <2> QED BY <2>1, <2>2 DEF PipingInv
<1> QED BY <1>1, InductiveInvariant, PTL

\* No channel is closed before those who put into it are done (data.h:34-40).
THEOREM NothingIsLeftForClosed == Spec => []NothingForClosed
<1>1. IInv => NothingForClosed
  <2> SUFFICES ASSUME IInv, NEW w \in Workers, NEW i \in DOMAIN out[w]
               PROVE  ~closed[out[w][i][1]]
    BY DEF NothingForClosed
  <2>1. out[w] \in Seq(Channels \X Pages) /\ Shape /\ Ends
    BY DEF IInv, Shape
  <2>2. out[w][i] \in Channels \X Pages /\ out[w] # <<>>
    BY <2>1, ElementFacts
  <2>3. at[w] = "putting" /\ out[w][i][1] \in Channels
    BY <2>1, <2>2 DEF Shape
  <2> QED BY <2>1, <2>3, BusyFacts
<1> QED BY <1>1, InductiveInvariant, PTL

\* The end gets from Input to every worker and channel of the graph: it does not come
\* to rest before, whatever the second wait() does (data.h:26-31).
THEOREM EverybodyHasEnded == Spec => []AllIsOver
<1>1. IInv => AllIsOver
  BY RestIsOver DEF IInv
<1> QED BY <1>1, InductiveInvariant, PTL

-----------------------------------------------------------------------------
(* The refinement of Crawl *)

Loaded == {p \in Pages : loads[p] > 0}
Failed == {p \in Pages : failures[p] > 0}
Counted == {p \in Pages : countedWords[p] > 0}

\* Crawl has the Cardinality of FiniteSets under a name of its own.
LEMMA SameCardinality == \A S : Abstract!Cardinality(S) = Cardinality(S)
BY DEF Abstract!Cardinality, Cardinality

\* Steps in which no page moves on.
LEMMA NoPageMoves ==
  ASSUME UNCHANGED <<processed, loads, failures, countedWords>>,
         main' = "reading" <=> main = "reading"
  PROVE  UNCHANGED Abstract!crawlVars
BY DEF Abstract!crawlVars

\* What the filter accepts is known, as Meaning says, and so found in Crawl.
LEMMA FilterFinds ==
  ASSUME IInv, NEW w \in Workers, Filter(w), NEW v, v = val[w]
  PROVE  (Abstract!Find(v) /\ v \in Pages) \/ UNCHANGED Abstract!crawlVars
<1>1. /\ at[w] = "working" /\ Job[w] = "filter" /\ v \in Pages /\ Shape
      /\ processed' = processed \cup {p \in {v} : Accepted(p)}
      /\ UNCHANGED <<loads, failures, countedWords, main>>
  BY DEF IInv, Filter, Shape
<1>2. CASE ~Accepted(v)
  <2>1. processed' = processed
    BY <1>1, <1>2
  <2> QED BY <1>1, <2>1, NoPageMoves
<1>3. CASE Accepted(v)
  <2>1. processed' = processed \cup {v}
    BY <1>1, <1>3
  <2>2. Carried(v, "filter")
    BY <1>1, WorkHolds
  <2>3. v \in Abstract!Known
    BY <1>1, <2>2 DEF IInv, Data, Meaning, Known
  <2>4. v \in (Abstract!Known \cap Matching) \ processed /\ Cardinality(processed) < MaxUrls
    BY <1>3, <2>3 DEF Accepted
  <2>5. /\ Loaded' = Loaded /\ Failed' = Failed /\ Counted' = Counted
        /\ (main = "reading")' = (main = "reading")
    BY <1>1 DEF Loaded, Failed, Counted
  <2>6. Abstract!Find(v)
    BY <2>1, <2>4, <2>5, SameCardinality DEF Abstract!Find, Loaded, Failed, Counted
  <2> QED BY <1>1, <2>6
<1> QED BY <1>2, <1>3

\* A value for the loader means that its page has not been loaded.
LEMMA EndLoadLoads ==
  ASSUME IInv, NEW w \in Workers, EndLoad(w), NEW v, v = val[w]
  PROVE  Abstract!Load(v) /\ v \in Pages
<1>1. /\ at[w] = "loading" /\ Job[w] = "load" /\ v \in Pages /\ Shape
      /\ UNCHANGED <<processed, countedWords, main>>
      /\ loads \in [Pages -> Nat] /\ failures \in [Pages -> Nat]
  BY DEF IInv, EndLoad, Shape
<1>2. Carried(v, "load")
  BY <1>1, WorkHolds
<1>3. v \in processed \cap Parsable /\ loads[v] = 0 /\ failures[v] = 0
  BY <1>1, <1>2 DEF IInv, Data, Meaning
<1>4. v \notin Loaded /\ v \notin Failed
  BY <1>1, <1>3 DEF Loaded, Failed
<1>5. \/ loads' = [loads EXCEPT ![v] = loads[v] + 1] /\ failures' = failures
      \/ failures' = [failures EXCEPT ![v] = failures[v] + 1] /\ loads' = loads
  BY DEF EndLoad
<1>6. \/ Loaded' = Loaded \cup {v} /\ Failed' = Failed
      \/ Failed' = Failed \cup {v} /\ Loaded' = Loaded
  <2>1. CASE loads' = [loads EXCEPT ![v] = loads[v] + 1] /\ failures' = failures
    <3>1. loads'[v] > 0 /\ \A p \in Pages : p # v => loads'[p] = loads[p]
      BY <1>1, <2>1
    <3> QED BY <1>1, <2>1, <3>1 DEF Loaded, Failed
  <2>2. CASE failures' = [failures EXCEPT ![v] = failures[v] + 1] /\ loads' = loads
    <3>1. failures'[v] > 0 /\ \A p \in Pages : p # v => failures'[p] = failures[p]
      BY <1>1, <2>2
    <3> QED BY <1>1, <2>2, <3>1 DEF Loaded, Failed
  <2> QED BY <1>5, <2>1, <2>2
<1>7. Counted' = Counted
  BY <1>1 DEF Counted
<1> QED BY <1>1, <1>3, <1>4, <1>6, <1>7 DEF Abstract!Load, Loaded, Failed, Counted

\* A value for the counter means that its page was loaded and not counted.
LEMMA CountWordsCounts ==
  ASSUME IInv, NEW w \in Workers, CountWords(w), NEW v, v = val[w]
  PROVE  Abstract!Count(v) /\ v \in Pages
<1>1. /\ at[w] = "working" /\ Job[w] = "count" /\ v \in Pages /\ Shape
      /\ UNCHANGED <<processed, loads, failures, main>>
      /\ countedWords' = [countedWords EXCEPT ![v] = countedWords[v] + 1]
      /\ countedWords \in [Pages -> Nat]
  BY DEF IInv, CountWords, Shape
<1>2. Carried(v, "count")
  BY <1>1, WorkHolds
<1>3. loads[v] > 0 /\ countedWords[v] = 0
  BY <1>1, <1>2 DEF IInv, Data, Meaning
<1>4. /\ countedWords'[v] > 0
      /\ \A p \in Pages : p # v => countedWords'[p] = countedWords[p]
  BY <1>1
<1>5. /\ v \in Loaded /\ v \notin Counted
      /\ Counted' = Counted \cup {v}
      /\ Loaded' = Loaded /\ Failed' = Failed
  BY <1>1, <1>3, <1>4 DEF Loaded, Counted, Failed
<1> QED BY <1>1, <1>5 DEF Abstract!Count, Loaded, Failed, Counted

\* When nothing is on the way any more, all was found, loaded and counted.
LEMMA AllIsDone ==
  ASSUME IInv, Drained, main # "feeding"
  PROVE  /\ Known \cap Matching \subseteq processed \/ Cardinality(processed) = MaxUrls
         /\ processed \cap Parsable = Loaded \cup Failed
         /\ Counted = Loaded
<1>1. \A w \in Workers : out[w] = <<>>
  BY DEF IInv, Shape, Drained
<1>2. \A p, j : ~Carried(p, j)
  <2>1. \A x, a, i, p, j : ~Holds(x, a, i, p, j)
    BY <1>1 DEF Holds, Drained
  <2> QED BY <2>1 DEF Carried
<1>3. /\ Shape /\ Complete /\ Counters
      /\ loads \in [Pages -> Nat] /\ failures \in [Pages -> Nat]
      /\ countedWords \in [Pages -> Nat] /\ processed \in SUBSET Pages
  BY DEF IInv, Data, Shape
<1>4. /\ Settled(Seed)
      /\ \A p \in processed \cap Parsable : loads[p] + failures[p] > 0
      /\ \A p \in Pages : loads[p] > 0 =>
           countedWords[p] > 0 /\ \A i \in DOMAIN Links[p] : Settled(Links[p][i])
  BY <1>2, <1>3 DEF Complete
<1>5. \A q \in Known : Settled(q)
  BY <1>4, KnownFacts
<1>6. Known \cap Matching \subseteq processed \/ Cardinality(processed) = MaxUrls
  BY <1>2, <1>5 DEF Settled
<1>7. processed \cap Parsable = Loaded \cup Failed
  <2>1. ASSUME NEW p \in Pages
        PROVE  p \in processed \cap Parsable <=> loads[p] > 0 \/ failures[p] > 0
    <3>1. loads[p] \in Nat /\ failures[p] \in Nat
      BY <1>3
    <3>2. loads[p] + failures[p] > 0 <=> loads[p] > 0 \/ failures[p] > 0
      BY <3>1
    <3> QED BY <1>3, <1>4, <3>2 DEF Counters
  <2> QED BY <1>3, <2>1 DEF Loaded, Failed
<1>8. Counted = Loaded
  BY <1>3, <1>4 DEF Counters, Counted, Loaded
<1> QED BY <1>6, <1>7, <1>8

\* What the main thread reads: of the pages that match and are the seed or linked from
\* a page that was loaded, the filter has let all through or maxUrls; these were loaded
\* or could not be, except for those that cannot be parsed, and what was loaded is
\* counted, once.
Result ==
  /\ Known \cap Matching \subseteq processed \/ Cardinality(processed) = MaxUrls
  /\ processed \cap Parsable = Loaded \cup Failed
  /\ \A p \in Pages : countedWords[p] = IF p \in Loaded THEN 1 ELSE 0

\* When the main thread reads the results they are complete, and have been since its
\* first wait() returned: the second one, which may end early, does not matter for them
\* (data.h:26-31, data.cpp:274-292).
THEOREM ResultIsComplete ==
  Spec => [](main \in {"closing", "ending", "reading"} => Result)
<1>1. IInv => (main \in {"closing", "ending", "reading"} => Result)
  <2> SUFFICES ASSUME IInv, main \in {"closing", "ending", "reading"} PROVE Result
    OBVIOUS
  <2>1. Drained
    BY DEF IInv, Ends
  <2>2. /\ Known \cap Matching \subseteq processed \/ Cardinality(processed) = MaxUrls
        /\ processed \cap Parsable = Loaded \cup Failed
        /\ Counted = Loaded
    BY <2>1, AllIsDone
  <2>3. ASSUME NEW p \in Pages
        PROVE  countedWords[p] = IF p \in Loaded THEN 1 ELSE 0
    <3>1. countedWords[p] \in Nat /\ countedWords[p] <= 1
      BY DEF IInv, Shape, Data, Counters
    <3>2. p \in Loaded <=> countedWords[p] > 0
      BY <2>2 DEF Counted
    <3> QED BY <3>1, <3>2
  <2> QED BY <2>2, <2>3 DEF Result
<1> QED BY <1>1, InductiveInvariant, PTL

\* The return of the second wait(), early or not, is the end of Crawl.
LEMMA WaitFinishes ==
  ASSUME IInv, PoolWaited \/ WaitEndsEarly
  PROVE  Abstract!Finish \/ UNCHANGED Abstract!crawlVars
<1>1. UNCHANGED <<processed, loads, failures, countedWords>>
  BY DEF PoolWaited, WaitEndsEarly, pageVars
<1>2. CASE main = "waiting" /\ main' = "closing"
  BY <1>1, <1>2, NoPageMoves
<1>3. CASE main = "ending" /\ main' = "reading"
  <2>1. Drained
    BY <1>3 DEF IInv, Ends
  <2>2. /\ Known \cap Matching \subseteq processed \/ Cardinality(processed) = MaxUrls
        /\ processed \cap Parsable = Loaded \cup Failed
        /\ Counted = Loaded
    BY <1>3, <2>1, AllIsDone
  <2>3. Loaded' = Loaded /\ Failed' = Failed /\ Counted' = Counted
    BY <1>1 DEF Loaded, Failed, Counted
  <2>4. (main = "reading")' = TRUE
    BY <1>3
  <2> QED
    BY <1>1, <2>2, <2>3, <2>4, SameCardinality
    DEF Abstract!Finish, Loaded, Failed, Counted, Known
<1> QED BY <1>2, <1>3 DEF PoolWaited, WaitEndsEarly

\* Every step is one of Crawl, or moves no page on.
LEMMA StepImplementsCrawl ==
  ASSUME IInv, [Next]_vars
  PROVE  [Abstract!CrawlNext]_Abstract!crawlVars
<1>1. CASE UNCHANGED vars
  BY <1>1, NoPageMoves DEF vars, pageVars
<1>2. ASSUME NEW w \in Workers, Step(w)
      PROVE  [Abstract!CrawlNext]_Abstract!crawlVars
  <2>1. PICK v : v = val[w]
    OBVIOUS
  <2>2. CASE Filter(w)
    BY <2>1, <2>2, FilterFinds DEF Abstract!CrawlNext
  <2>3. CASE EndLoad(w)
    BY <2>1, <2>3, EndLoadLoads DEF Abstract!CrawlNext
  <2>4. CASE CountWords(w)
    BY <2>1, <2>4, CountWordsCounts DEF Abstract!CrawlNext
  <2>5. CASE \/ Get(w) \/ PutNext(w) \/ CloseNext(w)
             \/ Parse(w) \/ StartLoad(w) \/ Split(w) \/ Href(w)
    <3>1. UNCHANGED <<processed, loads, failures, countedWords, main>>
      BY <2>5 DEF Get, PutNext, CloseNext, Parse, StartLoad, Split, Href, pageVars
    <3> QED BY <3>1, NoPageMoves
  <2> QED BY <1>2, <2>2, <2>3, <2>4, <2>5 DEF Step
<1>3. CASE Feed \/ CloseInput
  <2>1. /\ UNCHANGED <<processed, loads, failures, countedWords>>
        /\ main' = "reading" <=> main = "reading"
    BY <1>3 DEF Feed, CloseInput, pageVars
  <2> QED BY <2>1, NoPageMoves
<1>4. CASE PoolWaited \/ WaitEndsEarly
  BY <1>4, WaitFinishes DEF Abstract!CrawlNext
<1> QED BY <1>1, <1>2, <1>3, <1>4 DEF Next, MainStep

\* The pipelines implement Crawl: when the main thread reads the results every page
\* that can be found was found, loaded and counted, or maxUrls were, although workers
\* may still be closing their channels, and none changes them (data.cpp:227-292).
THEOREM PipingImplementsCrawl == Spec => ImplementsCrawl
<1>1. Init => Abstract!CrawlInit
  BY DEF Init, Abstract!CrawlInit
<1>2. IInv /\ [Next]_vars => [Abstract!CrawlNext]_Abstract!crawlVars
  BY StepImplementsCrawl
<1> QED
  BY <1>1, <1>2, InductiveInvariant, PTL DEF Spec, ImplementsCrawl, Abstract!CrawlSpec

=============================================================================
