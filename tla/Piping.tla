------------------------------- MODULE Piping -------------------------------
(***************************************************************************)
(* Pipelines (data.h) as examples/data.cpp combines them: workers that     *)
(* loop over one channel, put what they make of each value into others,    *)
(* and close those when they end - in a graph with a cycle, so that only   *)
(* the main thread can begin the end, with closeAndWait().                 *)
(*                                                                         *)
(* The channels behave as Conduit says.  The first wait() of               *)
(* closeAndWait(), the pool's first, returns when no journey is runnable   *)
(* and no operation outstanding; the second may return at any time, as     *)
(* ThreadPool shows, and the workers then go on while the main thread      *)
(* reads the result.  The network service is the pool's own.               *)
(*                                                                         *)
(* The main thread stays in processing(): when it leaves before the        *)
(* workers have ended, it destroys channels they use, which is undefined.  *)
(* parseText, excludeTags and splitWords are one step, which counts the    *)
(* words of a page: its text stands for its paragraphs and words.          *)
(***************************************************************************)
EXTENDS Integers, SequencesExt, FiniteSets

CONSTANTS
  Channels, Workers,
  Src,       \* the channel a worker reads
  Dst,       \* the channels it closes when it ends, in this order
  Job,       \* what it does with a value
  Input,     \* the channel the main thread feeds and closes
  Pages, Seed,
  Links,     \* the urls in each page
  Matching,  \* the urls that contain UrlFilter::filter
  Parsable,  \* the urls parseUrl() makes a host and a path of
  MaxUrls,   \* UrlFilter::maxUrls
  None

Jobs == {"filter", "parse", "load", "split", "href", "count"}

ASSUME PipingAssumption ==
  /\ Src \in [Workers -> Channels] /\ Dst \in [Workers -> Seq(Channels)]
  /\ Job \in [Workers -> Jobs]
  /\ Input \in Channels
  /\ Seed \in Pages /\ Matching \subseteq Pages /\ Parsable \subseteq Pages
  /\ None \notin Pages
  /\ Links \in [Pages -> Seq(Pages)]
  /\ MaxUrls \in Nat

\* What is done with the values of a channel.
For(c) == Job[CHOOSE w \in Workers : Src[w] = c]

\* The jobs the destinations of a worker are for, in their order.
Feeds(job) ==
  CASE job = "filter" -> <<"parse">>
    [] job = "parse" -> <<"load">>
    [] job = "load" -> <<"split">>
    [] job = "split" -> <<"count", "href">>
    [] job = "href" -> <<"filter">>
    [] job = "count" -> <<>>

\* The graph of processing(), with any number of workers in a pipe and any number of
\* channels between two.  The filter is alone: each journey of a pipe has a copy of
\* its function, and another copy of UrlFilter would have its own processed.
ASSUME GraphAssumption ==
  /\ For(Input) = "filter"
  /\ \A c \in Channels : \E w \in Workers : Src[w] = c
  /\ \A v, w \in Workers :
       /\ Src[v] = Src[w] => Job[v] = Job[w]
       /\ Job[v] = "filter" /\ Job[w] = "filter" => v = w
  /\ \A w \in Workers : [i \in DOMAIN Dst[w] |-> For(Dst[w][i])] = Feeds(Job[w])
  /\ \A C \in SUBSET Channels :
       /\ Input \in C
       /\ \A w \in Workers : Src[w] \in C => \A i \in DOMAIN Dst[w] : Dst[w][i] \in C
       => C = Channels

VARIABLES
  queue, closed,  \* the channels
  at,             \* where each worker is
  val,            \* the value it works on
  out,            \* the channels and values it has yet to put
  processed,      \* UrlFilter::processed
  loads,          \* how often each page was loaded
  failures,       \* how often loading failed
  countedWords,   \* how often each page was counted
  main            \* where the main thread is

chanVars == <<queue, closed>>
workVars == <<at, val, out>>
pageVars == <<processed, loads, failures, countedWords>>
vars == <<chanVars, workVars, pageVars, main>>

\* Started, or about to call get; suspended there; working on val; waiting for the
\* network; putting; closing its destinations; over.
Places == {"getting", "waiting", "working", "loading", "putting", "closing", "ended"}
MainPlaces == {"feeding", "waiting", "closing", "ending", "reading"}

Init ==
  /\ queue = [c \in Channels |-> <<>>]
  /\ closed = [c \in Channels |-> FALSE]
  /\ at = [w \in Workers |-> "getting"]
  /\ val = [w \in Workers |-> None]
  /\ out = [w \in Workers |-> <<>>]
  /\ processed = {}
  /\ loads = [p \in Pages |-> 0]
  /\ failures = [p \in Pages |-> 0]
  /\ countedWords = [p \in Pages |-> 0]
  /\ main = "feeding"

-----------------------------------------------------------------------------
(* The channels *)

WaitingOn(c) == {w \in Workers : Src[w] = c /\ at[w] = "waiting"}

\* Channel::put, by someone whose own place becomes place[w].
Put(c, v, place) ==
  \/ /\ WaitingOn(c) = {}
     /\ queue' = [queue EXCEPT ![c] = Append(@, v)]
     /\ at' = place
     /\ UNCHANGED val
  \/ \E w \in WaitingOn(c) :
       /\ val' = [val EXCEPT ![w] = v]
       /\ at' = [place EXCEPT ![w] = "working"]
       /\ UNCHANGED queue

\* Channel::close: nothing if it is closed; get() returns false to who waits.
Close(c, place) ==
  /\ closed' = [closed EXCEPT ![c] = TRUE]
  /\ at' = [w \in Workers |-> IF w \in WaitingOn(c) THEN "closing" ELSE place[w]]

-----------------------------------------------------------------------------
(* The workers *)

At(w, place) == [at EXCEPT ![w] = place]

\* Iterator::operator++: Channel::get.
Get(w) ==
  /\ at[w] = "getting"
  /\ \/ /\ queue[Src[w]] # <<>>
        /\ val' = [val EXCEPT ![w] = Head(queue[Src[w]])]
        /\ queue' = [queue EXCEPT ![Src[w]] = Tail(@)]
        /\ at' = At(w, "working")
     \/ /\ queue[Src[w]] = <<>>
        /\ at' = At(w, IF closed[Src[w]] THEN "closing" ELSE "waiting")
        /\ UNCHANGED <<queue, val>>
  /\ UNCHANGED <<closed, out, pageVars, main>>

\* The values s go to the first destination.
Emit(w, s) ==
  /\ out' = [out EXCEPT ![w] = [i \in DOMAIN s |-> <<Dst[w][1], s[i]>>]]
  /\ at' = At(w, IF s = <<>> THEN "getting" ELSE "putting")

\* Mutant of Accepted: pages are not remembered.
AcceptedAgain(p) == p \in Matching /\ Cardinality(processed) < MaxUrls

\* UrlFilter::operator().
Accepted(p) ==
  /\ p \in Matching
  /\ Cardinality(processed) < MaxUrls
  /\ p \notin processed

\* piping1to01: an empty result is not put.
Filter(w) ==
  /\ at[w] = "working" /\ Job[w] = "filter"
  /\ processed' = processed \cup {p \in {val[w]} : Accepted(p)}
  /\ Emit(w, IF Accepted(val[w]) THEN <<val[w]>> ELSE <<>>)
  /\ UNCHANGED <<chanVars, val, loads, failures, countedWords, main>>

\* parseUrl: what it cannot parse is empty, and not put either.
Parse(w) ==
  /\ at[w] = "working" /\ Job[w] = "parse"
  /\ Emit(w, IF val[w] \in Parsable THEN <<val[w]>> ELSE <<>>)
  /\ UNCHANGED <<chanVars, val, pageVars, main>>

\* loadContent: it suspends for the network.
StartLoad(w) ==
  /\ at[w] = "working" /\ Job[w] = "load"
  /\ at' = At(w, "loading")
  /\ UNCHANGED <<chanVars, val, out, pageVars, main>>

\* Mutant of EndLoad: the exception ends the worker.
EndLoadOrWorker(w) ==
  /\ at[w] = "loading"
  /\ \/ /\ loads' = [loads EXCEPT ![val[w]] = @ + 1]
        /\ Emit(w, <<val[w]>>)
        /\ UNCHANGED failures
     \/ /\ failures' = [failures EXCEPT ![val[w]] = @ + 1]
        /\ at' = At(w, "closing")
        /\ UNCHANGED <<loads, out>>
  /\ UNCHANGED <<chanVars, val, processed, countedWords, main>>

\* Mutant of EndLoad: what cannot be loaded is tried again.
EndLoadOrRetry(w) ==
  /\ at[w] = "loading"
  /\ \/ /\ loads' = [loads EXCEPT ![val[w]] = @ + 1]
        /\ Emit(w, <<val[w]>>)
     \/ /\ at' = At(w, "working")
        /\ UNCHANGED <<loads, out>>
  /\ UNCHANGED <<chanVars, val, processed, failures, countedWords, main>>

\* It returns, or throws an exception that piping1to1 catches.
EndLoad(w) ==
  /\ at[w] = "loading"
  /\ \/ /\ loads' = [loads EXCEPT ![val[w]] = @ + 1]
        /\ Emit(w, <<val[w]>>)
        /\ UNCHANGED failures
     \/ /\ failures' = [failures EXCEPT ![val[w]] = @ + 1]
        /\ Emit(w, <<>>)
        /\ UNCHANGED loads
  /\ UNCHANGED <<chanVars, val, processed, countedWords, main>>

\* Each content goes to all the destinations; closers run in the reverse order.
Split(w) ==
  /\ at[w] = "working" /\ Job[w] = "split"
  /\ out' = [out EXCEPT ![w] = [i \in DOMAIN Dst[w] |-> <<Reverse(Dst[w])[i], val[w]>>]]
  /\ at' = At(w, "putting")
  /\ UNCHANGED <<chanVars, val, pageVars, main>>

\* parseHref in piping1toMany.
Href(w) ==
  /\ at[w] = "working" /\ Job[w] = "href"
  /\ Emit(w, Links[val[w]])
  /\ UNCHANGED <<chanVars, val, pageVars, main>>

\* The last journey: ++countedWords.
CountWords(w) ==
  /\ at[w] = "working" /\ Job[w] = "count"
  /\ countedWords' = [countedWords EXCEPT ![val[w]] = @ + 1]
  /\ at' = At(w, "getting")
  /\ UNCHANGED <<chanVars, val, out, processed, loads, failures, main>>

PutNext(w) ==
  /\ at[w] = "putting"
  /\ Put(Head(out[w])[1], Head(out[w])[2],
         IF Len(out[w]) = 1 THEN At(w, "getting") ELSE at)
  /\ out' = [out EXCEPT ![w] = Tail(@)]
  /\ UNCHANGED <<closed, pageVars, main>>

\* ~Closer for each destination; the first worker that ends closes it for all.
CloseNext(w) ==
  LET open == {i \in DOMAIN Dst[w] : ~closed[Dst[w][i]]}
  IN  /\ at[w] = "closing"
      /\ \/ \E i \in open :
              /\ \A k \in open : i <= k
              /\ Close(Dst[w][i], at)
         \/ /\ open = {}
            /\ at' = At(w, "ended")
            /\ UNCHANGED closed
      /\ UNCHANGED <<queue, val, out, pageVars, main>>

-----------------------------------------------------------------------------
(* The main thread *)

Feed ==
  /\ main = "feeding"
  /\ Put(Input, Seed, at)
  /\ main' = "waiting"
  /\ UNCHANGED <<closed, out, pageVars>>

\* Mutant of Quiescent: the network is not part of the pool.
QuiescentButNetwork ==
  \A w \in Workers : at[w] \in {"waiting", "loading", "ended"}

\* No journey is queued or runs, no operation is outstanding.
Quiescent == \A w \in Workers : at[w] \in {"waiting", "ended"}

\* tp.wait() returns when all is quiet: the first no earlier.
PoolWaited ==
  /\ main \in {"waiting", "ending"} /\ Quiescent
  /\ main' = IF main = "waiting" THEN "closing" ELSE "reading"
  /\ UNCHANGED <<chanVars, workVars, pageVars>>

\* A worker thread that comes late out of the first round ends the second wait().
WaitEndsEarly ==
  /\ main = "ending"
  /\ main' = "reading"
  /\ UNCHANGED <<chanVars, workVars, pageVars>>

CloseInput ==
  /\ main = "closing"
  /\ Close(Input, at)
  /\ main' = "ending"
  /\ UNCHANGED <<queue, val, out, pageVars>>

-----------------------------------------------------------------------------

Step(w) ==
  \/ Get(w) \/ PutNext(w) \/ CloseNext(w)
  \/ Filter(w) \/ Parse(w) \/ StartLoad(w) \/ EndLoad(w)
  \/ Split(w) \/ Href(w) \/ CountWords(w)

MainStep == Feed \/ PoolWaited \/ CloseInput

Next == (\E w \in Workers : Step(w)) \/ MainStep \/ WaitEndsEarly

\* Threads run, loads come to an end; nobody need end a wait() early.
Spec ==
  /\ Init /\ [][Next]_vars
  /\ \A w \in Workers : WF_vars(Step(w))
  /\ WF_vars(MainStep)

-----------------------------------------------------------------------------
(* Properties *)

TypeOK ==
  /\ queue \in [Channels -> Seq(Pages)]
  /\ closed \in [Channels -> BOOLEAN]
  /\ at \in [Workers -> Places]
  /\ val \in [Workers -> Pages \cup {None}]
  /\ \A w \in Workers : at[w] \in {"working", "loading"} => val[w] # None
  /\ \A w \in Workers : at[w] = "putting" => out[w] # <<>>
  /\ out \in [Workers -> Seq(Channels \X Pages)]
  /\ processed \subseteq Pages
  /\ loads \in [Pages -> Nat] /\ failures \in [Pages -> Nat]
  /\ countedWords \in [Pages -> Nat]
  /\ main \in MainPlaces

\* Nobody has a value left for a channel that is closed: it would stay there, as
\* put() does not look (data.h:34-40, channel.h:115-128; the first worker of a
\* pipe that ends closes the channel the others still put into).
NothingForClosed ==
  \A w \in Workers : \A i \in DOMAIN out[w] : ~closed[out[w][i][1]]

\* Once Input is closed, the graph comes to rest only when every worker has ended,
\* after all the channels were closed and emptied: nobody is left suspended, and no
\* value behind (data.h:26-31, data.cpp:247-272).
AllIsOver ==
  main \in {"ending", "reading"} /\ (\A w \in Workers : at[w] \in {"waiting", "ended"}) =>
    /\ \A w \in Workers : at[w] = "ended"
    /\ \A c \in Channels : queue[c] = <<>> /\ closed[c]

\* A page is loaded, and counted, once at most (data.cpp:140-152).
EachOnce == \A p \in Pages : loads[p] + failures[p] <= 1 /\ countedWords[p] <= 1

\* Workers have work, and do none of it twice.
PipingInv == TypeOK /\ EachOnce

Abstract == INSTANCE Crawl WITH
  found <- processed,
  loaded <- {p \in Pages : loads[p] > 0},
  failed <- {p \in Pages : failures[p] > 0},
  counted <- {p \in Pages : countedWords[p] > 0},
  over <- main = "reading"

\* The pipelines implement Crawl: the result is read when every page that can be
\* found was found, loaded and counted, although the workers may still be closing
\* their channels, and it changes no more (data.cpp:227-292).
ImplementsCrawl == Abstract!CrawlSpec

\* closeAndWait() returns, and every worker ends (data.h:26-31).
Terminates == <>(main = "reading" /\ \A w \in Workers : at[w] = "ended")

=============================================================================
