------------------------------ MODULE Exchange ------------------------------
(***************************************************************************)
(* The programs that use the network: Network::get (examples/client.cpp)   *)
(* and the server it talks to (examples/server.cpp), whose strings go as a *)
(* char with the size and then the bytes; and loadContent                  *)
(* (examples/data.cpp), which talks to some HTTP server.                   *)
(***************************************************************************)
EXTENDS Network, FiniteSets

CONSTANTS
  Requests,    \* what the clients may ask for
  Chars,       \* how many values a char has, which is signed (256 in the build)
  SuffixSize   \* the size of " world!"

\* size is that of the key, or of the body the HTTP server has, which it sends
\* in chunks or with a content length.
Request == [program : {"get", "load", "none"}, size : Nat, chunked : BOOLEAN]

ASSUME ExchangeAssumption ==
  /\ Requests \subseteq [Conns -> Request]
  /\ Chars \in Nat \ {0}
  /\ SuffixSize \in Nat /\ 2 * SuffixSize <= Chars
  /\ Interruptible \subseteq Conns \X {"client"}

VARIABLES
  request,   \* what the client of each connection does
  point,     \* the point in its program each journey has got to
  want,      \* the size of the buffer of its next read
  accepted,  \* the connection goAccept has accepted and holds, or None
  resp       \* loadContent: what was read so far

progVars == <<request, point, want, accepted, resp>>
vars == <<netVars, progVars>>

Clients == Conns \X {"client"}
Servers == Conns \X {"server"}
Size(e) == request[e[1]].size
IsGet(e) == request[e[1]].program = "get"

Key == <<"key", 0>>
World == <<"world", 0>>
Head1 == <<"head", 0>>
Eol2 == <<"eol eol", 0>>
Body == <<"body", 0>>
Bytes == {Key, World, Head1, Eol2, Body} \cup ({"size"} \X (0 .. Chars - 1))

Times(n, b) == [i \in 1 .. n |-> b]

\* char(n)
SizeByte(n) == <<"size", n % Chars>>

\* The sizes a byte that was read may be taken for.
SizesIn(bytes) ==
  {n \in 0 .. Chars - 1 : \E b \in ToSet(bytes) : b[1] = "size" => b[2] = n}

\* size_t(char) is huge for a negative char: no buffer can have it.
Allocatable(n) == 2 * n < Chars

Init ==
  /\ request \in Requests
  /\ NetInit({Acceptor} \cup {e \in Clients : request[e[1]].program # "none"})
  /\ point = [j \in Journeys |->
       IF j = Acceptor THEN "accept" ELSE IF j \in Servers THEN "readSize"
       ELSE IF IsGet(j) THEN "connect" ELSE "resolve"]
  /\ want = [j \in Journeys |-> 1]
  /\ accepted = None
  /\ resp = [c \in Conns |-> <<>>]

Go(j, p) == point' = [point EXCEPT ![j] = p]
Want(j, n) == want' = [want EXCEPT ![j] = n]

-----------------------------------------------------------------------------
(* The operations the programs are in *)

\* The strings of each side.
SentByClient(e) == Times(Size(e), Key)
SentByServer(e) == buf[e] \o Times(SuffixSize, World)

\* Mutant of AnswerSize: it is taken before the suffix is appended.
SizeOfKey(e) == Len(buf[e])

AnswerSize(e) == Len(SentByServer(e))

Operation(j) ==
  \/ point[j] = "resolve" /\ Resolve(j)
  \/ point[j] = "connect" /\ Connect(j, IsGet(j))
  \/ point[j] = "request" /\ Write(j, <<>>)
  \/ point[j] = "writeSize" /\ Write(j, <<SizeByte(
       IF j \in Clients THEN Size(j) ELSE AnswerSize(j))>>)
  \/ point[j] = "writeStr" /\ Write(j,
       IF j \in Clients THEN SentByClient(j) ELSE SentByServer(j))
  \/ point[j] \in {"readSize", "readStr", "readBody"} /\ Read(j, want[j])
  \/ point[j] \in {"readHead", "readChunks"} /\ PartialRead(j, Len(wire[j]))

Complete(j) == Operation(j) /\ UNCHANGED progVars

CompleteAccept(c) ==
  /\ Accept(c)
  /\ accepted' = c
  /\ UNCHANGED <<request, point, want, resp>>

Start(j) ==
  /\ point[j] \notin {"go", "release"}
  /\ DeferIo(j)
  /\ UNCHANGED progVars

Throw(j) == (EventBefore(j) \/ ThrowAfter(j)) /\ UNCHANGED progVars

Continue(j, p) ==
  /\ DeferIoAgain(j) /\ Go(j, p)
  /\ UNCHANGED <<request, accepted>>

\* An exception that is not deferIo's.
Fail(j) ==
  /\ Returns(j) /\ Over(j)
  /\ UNCHANGED <<err, buf, backlog, progVars>>

-----------------------------------------------------------------------------
(* Network::get, the handler of serve(), and the beginning of loadContent *)

\* The next operation, where it does not depend on what was read.
After(j) ==
  CASE point[j] = "resolve" -> {"connect"}
    [] point[j] = "connect" -> {IF IsGet(j) THEN "writeSize" ELSE "request"}
    [] point[j] = "request" -> {"readHead"}
    [] point[j] = "writeSize" -> {"writeStr"}
    [] point[j] = "writeStr" -> {"readSize"}
    [] point[j] = "readStr" /\ j \in Servers -> {"writeSize"}
    [] OTHER -> {}

Advance(j) ==
  /\ \E p \in After(j) : Continue(j, p)
  /\ Want(j, 1)
  /\ UNCHANGED resp

\* Buffer(size_t(sz[0]), 0) for the string that follows, or length_error.
SizeRead(j) ==
  /\ point[j] = "readSize"
  /\ \E n \in SizesIn(buf[j]) :
       \/ Allocatable(n) /\ Continue(j, "readStr") /\ Want(j, n) /\ UNCHANGED resp
       \/ ~Allocatable(n) /\ Fail(j)

Return(j) ==
  /\ Returns(j) /\ Over(j) /\ Go(j, "returned")
  /\ UNCHANGED <<err, buf, backlog, request, want, accepted>>

GetReturns(j) ==
  /\ j \in Clients /\ point[j] = "readStr"
  /\ Return(j)
  /\ UNCHANGED resp

-----------------------------------------------------------------------------
(* The loop of serve(), with Acceptor::goAccept *)

Accepted ==
  /\ Returns(Acceptor) /\ SetAt(Acceptor, "running") /\ Go(Acceptor, "go")
  /\ UNCHANGED <<err, buf, wireVars, request, want, accepted, resp>>

\* go(): from here on two unique_ptrs have the Socket.
GoHandler ==
  /\ point[Acceptor] = "go"
  /\ SetAt(<<accepted, "server">>, "running")
  /\ Go(Acceptor, "release")
  /\ UNCHANGED <<op, err, buf, wireVars, request, want, accepted, resp>>

\* Mutant of Release: holder deletes the Socket.
ReleaseByDelete ==
  /\ point[Acceptor] = "release"
  /\ Go(Acceptor, "accept")
  /\ accepted' = None
  /\ sock' = [sock EXCEPT ![<<accepted, "server">>] = "closed"]
  /\ UNCHANGED <<ioVars, wire, backlog, request, want, resp>>

\* holder.release()
Release ==
  /\ point[Acceptor] = "release"
  /\ Go(Acceptor, "accept")
  /\ accepted' = None
  /\ UNCHANGED <<netVars, request, want, resp>>

-----------------------------------------------------------------------------
(* loadContent *)

\* Some HTTP server sends less than it announced or more, and may hang up.
HttpAnswer(c) ==
  LET client == <<c, "client">>
      server == <<c, "server">>
  IN  /\ ~IsGet(client) /\ point[client] = "readHead"
      /\ sock[server] = "none"
      /\ \E n \in 0 .. request[c].size + 1 :
           wire' = [wire EXCEPT ![client] = <<Head1, Eol2>> \o Times(n, Body)
                      \o IF request[c].chunked THEN <<Eol2>> ELSE <<>>]
      /\ \E s \in {"open", "closed"} : sock' = [sock EXCEPT ![server] = s]
      /\ UNCHANGED <<ioVars, backlog, progVars>>

\* What follows the header in r.
BodyOf(r) == SubSeq(r, SelectInSeq(r, LAMBDA b : b = Eol2) + 1, Len(r))

\* Mutant of Rest: the header counts.
RestWithHeader(c, r) == request[c].size - Len(r)

\* How much of the announced length is missing.
Rest(c, r) == request[c].size - Len(BodyOf(r))

\* The loop that reads the header, and what is decided after it.
HeadRead(j) ==
  LET c == j[1]
      r == resp[c] \o buf[j]
  IN  /\ point[j] = "readHead" /\ Resumable(j)
      /\ \/ /\ Eol2 \notin ToSet(r)
            /\ Continue(j, "readHead")
            /\ UNCHANGED want
         \/ /\ Eol2 \in ToSet(r) /\ ~request[c].chunked /\ Rest(c, r) >= 0
            /\ Continue(j, "readBody")
            /\ Want(j, Rest(c, r))
         \/ /\ Eol2 \in ToSet(r) /\ request[c].chunked /\ Last(r) # Eol2
            /\ Continue(j, "readChunks")
            /\ UNCHANGED want
         \/ Eol2 \in ToSet(r) /\ request[c].chunked /\ Last(r) = Eol2 /\ Return(j)
      /\ resp' = [resp EXCEPT ![c] = r]

\* len - (resp.size() - header) has wrapped around, or a VERIFY has failed.
HeadRejected(j) ==
  /\ point[j] = "readHead" /\ Eol2 \in ToSet(resp[j[1]] \o buf[j])
  /\ Fail(j)

BodyRead(j) ==
  /\ point[j] = "readBody"
  /\ Return(j)
  /\ resp' = [resp EXCEPT ![j[1]] = @ \o buf[j]]

ChunkRead(j) ==
  LET r == resp[j[1]] \o buf[j]
  IN  /\ point[j] = "readChunks" /\ Resumable(j)
      /\ \/ Last(r) # Eol2 /\ Continue(j, "readChunks") /\ UNCHANGED want
         \/ Last(r) = Eol2 /\ Return(j)
      /\ resp' = [resp EXCEPT ![j[1]] = r]

-----------------------------------------------------------------------------

Step(j) ==
  \/ Start(j) \/ Complete(j) \/ Throw(j) \/ Advance(j) \/ SizeRead(j) \/ GetReturns(j)
  \/ HeadRead(j) \/ HeadRejected(j) \/ BodyRead(j) \/ ChunkRead(j)

Serve ==
  \/ Start(Acceptor) \/ Throw(Acceptor) \/ Accepted \/ GoHandler \/ Release
  \/ \E c \in Conns : CompleteAccept(c)

\* The operating system may refuse, at any time.
AcceptFails == Fails(Acceptor) /\ UNCHANGED progVars

Next == (\E j \in Ends : Step(j)) \/ Serve \/ AcceptFails \/ \E c \in Conns : HttpAnswer(c)

\* Journeys and operations go on; no HTTP server is obliged to answer.
Spec ==
  /\ Init /\ [][Next]_vars
  /\ \A j \in Ends : WF_vars(Step(j))
  /\ WF_vars(Serve)

-----------------------------------------------------------------------------
(* Properties *)

TypeOK ==
  /\ at \in [Journeys -> {"unborn", "running", "suspended", "over"}]
  /\ op \in [Journeys -> {"none", "outstanding", "completed"}]
  /\ err \in [Journeys -> BOOLEAN]
  /\ buf \in [Journeys -> Seq(Bytes)]
  /\ wire \in [Ends -> Seq(Bytes)]
  /\ sock \in [Ends -> {"none", "open", "closed"}]
  /\ backlog \subseteq Conns
  /\ want \in [Journeys -> Nat]
  /\ accepted \in Conns \cup {None}
  /\ resp \in [Conns -> Seq(Bytes)]

\* While an operation is outstanding the frame its completion writes to is there,
\* and so is its Socket, whoever is interrupted and in whatever order goAccept and
\* the handler it starts go on (network.cpp:27-50, 124-133).
FramesAlive ==
  \A e \in Ends : op[e] = "outstanding" => at[e] = "suspended" /\ sock[e] # "closed"

\* What an operation will write to, and what has been written, is there.
ExchangeInv == TypeOK /\ FramesAlive

\* A get that returns has the answer to its key, provided that the size of the key
\* fits into a char: a longer one is cut, and the answer is that to another key
\* (client.cpp:60-83, server.cpp:36-50).
AnswerIsRight ==
  \A e \in Clients :
    point[e] = "returned" /\ IsGet(e) /\ Size(e) < Chars
      => buf[e] = Times(Size(e), Key) \o Times(SuffixSize, World)

\* Content with an announced length is complete when loadContent returns it,
\* however the response is cut into segments (data.cpp:176-205).
BodyIsComplete ==
  \A c \in Conns :
    point[<<c, "client">>] = "returned" /\ request[c].program = "load" /\ ~request[c].chunked
      => BodyOf(resp[c]) = Times(request[c].size, Body)

\* Every get returns or throws; no timeout would end an operation that is
\* outstanding (network.cpp:27-38).
GetEnds == \A e \in Clients : IsGet(e) ~> at[e] = "over"

\* The server gets rid of its journey and Socket when the client has gone.
HandlerEnds ==
  \A c \in Conns :
    at[<<c, "server">>] # "unborn" /\ at[<<c, "client">>] = "over"
      ~> at[<<c, "server">>] = "over" /\ sock[<<c, "server">>] = "closed"

\* Both sides of an exchange come to an end.
ExchangeEnds == GetEnds /\ HandlerEnds

=============================================================================
