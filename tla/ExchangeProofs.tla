--------------------------- MODULE ExchangeProofs ---------------------------
(***************************************************************************)
(* Proofs about Exchange: that nothing is written to a frame or through a  *)
(* Socket that has gone, that a get returns the answer to its key, and     *)
(* that content with an announced length is complete when it is returned.  *)
(* The inductive invariants say who can still hold the Socket of each end, *)
(* and which bytes are on their way at each point of the two programs.     *)
(***************************************************************************)
EXTENDS Exchange, WellFoundedInduction, TLAPS

ClientOf(c) == <<c, "client">>
ServerOf(c) == <<c, "server">>

\* The operation of j has succeeded, and j has not gone on.
Done(j) == op[j] = "completed" /\ ~err[j]

-----------------------------------------------------------------------------
(* The inductive invariant of the control *)

\* Which points belong to which program.
GetPoints == {"connect", "writeSize", "writeStr", "readSize", "readStr", "returned"}
LoadPoints ==
  {"resolve", "connect", "request", "readHead", "readBody", "readChunks", "returned"}
ServerPoints == {"readSize", "readStr", "writeSize", "writeStr"}
AllPoints == GetPoints \cup LoadPoints \cup {"accept", "go", "release"}

Domains ==
  /\ request \in Requests
  /\ point \in [Journeys -> AllPoints]
  /\ at \in [Journeys -> {"unborn", "running", "suspended", "over"}]
  /\ op \in [Journeys -> {"none", "outstanding", "completed"}]
  /\ err \in [Journeys -> BOOLEAN]
  /\ sock \in [Ends -> {"none", "open", "closed"}]
  /\ backlog \subseteq Conns
  /\ accepted \in Conns \cup {None}

Points ==
  \A c \in Conns :
    /\ point[ServerOf(c)] \in ServerPoints
    /\ point[ClientOf(c)] \in IF IsGet(ClientOf(c)) THEN GetPoints ELSE LoadPoints

\* An operation is outstanding or completed for the journey that waits for it.
Frames ==
  \A j \in Journeys :
    /\ at[j] \in {"unborn", "running"} => op[j] = "none"
    /\ op[j] = "outstanding" => at[j] = "suspended"

\* The acceptor holds a connection from its completion to the release.
Accepting ==
  /\ point[Acceptor] \in {"accept", "go", "release"}
  /\ point[Acceptor] # "accept" => at[Acceptor] = "running" /\ accepted # None
  /\ accepted # None /\ point[Acceptor] = "accept" => Done(Acceptor)
  /\ Done(Acceptor) => accepted # None
  /\ accepted # None /\ point[Acceptor] # "release"
       => at[ServerOf(accepted)] = "unborn" /\ sock[ServerOf(accepted)] = "open"

\* Nobody has seen the connection at the server's end.
Unseen(c) ==
  /\ c \notin backlog /\ c # accepted
  /\ at[ServerOf(c)] = "unborn"

\* A connection is accepted once, and its handler alone closes its Socket.
Sockets ==
  \A c \in Conns :
    /\ at[ClientOf(c)] \in {"running", "suspended"} => sock[ClientOf(c)] # "closed"
    /\ at[ServerOf(c)] \in {"running", "suspended"} => sock[ServerOf(c)] = "open"
    /\ c \in backlog =>
         /\ at[ServerOf(c)] = "unborn" /\ c # accepted
         /\ at[Acceptor] # "over" => sock[ServerOf(c)] = "none"
    /\ ~IsGet(ClientOf(c)) => Unseen(c)
    /\ point[ClientOf(c)] = "connect" /\ ~Done(ClientOf(c)) /\ IsGet(ClientOf(c))
         => Unseen(c) /\ sock[ServerOf(c)] = "none"

Control == Domains /\ Points /\ Frames /\ Accepting /\ Sockets

-----------------------------------------------------------------------------
(* Names *)

LEMMA EndNames ==
  /\ Acceptor \in Journeys /\ Acceptor \notin Ends /\ Ends \subseteq Journeys
  /\ \A c \in Conns :
       /\ ClientOf(c) \in Ends /\ ServerOf(c) \in Ends
       /\ ClientOf(c) \in Clients /\ ServerOf(c) \notin Clients
       /\ ServerOf(c) \in Servers /\ ClientOf(c) \notin Servers
       /\ ClientOf(c)[1] = c /\ ServerOf(c)[1] = c
       /\ Peer(ClientOf(c)) = ServerOf(c) /\ Peer(ServerOf(c)) = ClientOf(c)
  /\ \A e \in Ends : e[1] \in Conns /\ (e = ClientOf(e[1]) \/ e = ServerOf(e[1]))
  /\ \A e \in Ends : Peer(e) \in Ends
  /\ \A c, d \in Conns :
       /\ ClientOf(c) # ServerOf(d)
       /\ ClientOf(c) = ClientOf(d) => c = d
       /\ ServerOf(c) = ServerOf(d) => c = d
  BY NetworkAssumption
  DEF Acceptor, Journeys, Ends, ClientOf, ServerOf, Clients, Servers, Peer

LEMMA OthersAreNotInterruptible ==
  Acceptor \notin Interruptible /\ \A c \in Conns : ServerOf(c) \notin Interruptible
  BY ExchangeAssumption, NetworkAssumption DEF Acceptor, ServerOf

-----------------------------------------------------------------------------
(* What a step of one end does to the control *)

Starts(e) ==
  /\ at[e] = "running"
  /\ at' = [at EXCEPT ![e] = "suspended"]
  /\ op' = [op EXCEPT ![e] = "outstanding"]
  /\ err' = [err EXCEPT ![e] = FALSE]
  /\ UNCHANGED <<sock, backlog, point>>

Connects(e) ==
  /\ point[e] = "connect" /\ ~err'[e]
  /\ sock' = [sock EXCEPT ![e] = "open"]
  /\ backlog' = backlog \cup IF IsGet(e) THEN {e[1]} ELSE {}
  /\ IsGet(e) => at[Acceptor] # "over"

Operates(e) ==
  /\ op[e] = "outstanding"
  /\ op' = [op EXCEPT ![e] = "completed"]
  /\ \E b \in BOOLEAN : err' = [err EXCEPT ![e] = b]
  /\ UNCHANGED <<at, point>>
  /\ UNCHANGED <<sock, backlog>> \/ Connects(e)

EndsHere(e) ==
  /\ at[e] \in {"running", "suspended"}
  /\ at' = [at EXCEPT ![e] = "over"]
  /\ \/ op' = op /\ op[e] # "outstanding"
     \/ op' = [op EXCEPT ![e] = "none"] /\ point[e] # "connect"
  /\ sock' = [sock EXCEPT ![e] = "closed"]
  /\ point' = point \/ (e \in Clients /\ point' = [point EXCEPT ![e] = "returned"])
  /\ UNCHANGED <<err, backlog>>

Continues(e) ==
  /\ at[e] = "suspended" /\ op[e] = "completed" /\ ~err[e]
  /\ op' = [op EXCEPT ![e] = "outstanding"]
  /\ \E p \in AllPoints :
       /\ point' = [point EXCEPT ![e] = p]
       /\ e \in Servers => p \in ServerPoints
       /\ e \in Clients => p \in IF IsGet(e) THEN GetPoints \ {"connect"} ELSE LoadPoints
  /\ UNCHANGED <<at, err, sock, backlog>>

Stepped(e) ==
  /\ UNCHANGED <<request, accepted>>
  /\ Starts(e) \/ Operates(e) \/ EndsHere(e) \/ Continues(e)

LEMMA OverClosesOne ==
  ASSUME Control, NEW e \in Ends, Over(e)
  PROVE  at' = [at EXCEPT ![e] = "over"] /\ sock' = [sock EXCEPT ![e] = "closed"]
  BY EndNames DEF Over, SetAt, Closed, Control, Domains

LEMMA ContinueContinues ==
  ASSUME Control, NEW e \in Ends, NEW p \in AllPoints, Continue(e, p),
         e \in Servers => p \in ServerPoints,
         e \in Clients => p \in IF IsGet(e) THEN GetPoints \ {"connect"} ELSE LoadPoints
  PROVE  Stepped(e)
  BY DEF Continue, DeferIoAgain, Resumable, Go, wireVars, Stepped, Continues

LEMMA FailEndsHere ==
  ASSUME Control, NEW e \in Ends, Fail(e), point[e] # "connect"
  PROVE  Stepped(e)
<1>1. Over(e) /\ Returns(e) /\ UNCHANGED <<err, backlog, request, accepted, point>>
  BY DEF Fail, progVars
<1> QED BY <1>1, OverClosesOne DEF Returns, Resumable, Stepped, EndsHere

LEMMA ReturnEndsHere ==
  ASSUME Control, NEW e \in Ends, e \in Clients, Return(e), point[e] # "connect"
  PROVE  Stepped(e)
  BY OverClosesOne, EndNames
  DEF Return, Returns, Resumable, Go, Stepped, EndsHere, Control, Domains

LEMMA OperationOperates ==
  ASSUME Control, NEW e \in Ends, Operation(e), UNCHANGED point
  PROVE  Operates(e)
<1>1. CASE Resolve(e)
  BY <1>1 DEF Resolve, Completes, wireVars, Operates
<1>2. CASE point[e] = "connect" /\ Connect(e, IsGet(e))
  <2>1. CASE Fails(e)
    BY <2>1 DEF Fails, Completes, wireVars, Operates
  <2>2. CASE ~Fails(e)
    <3>1. /\ IsGet(e) => at[Acceptor] # "over"
          /\ Completes(e, FALSE)
          /\ sock' = [sock EXCEPT ![e] = "open"]
          /\ backlog' = backlog \cup IF IsGet(e) THEN {e[1]} ELSE {}
      BY <1>2, <2>2 DEF Connect
    <3>2. ~err'[e]
      BY <3>1, EndNames DEF Completes, Control, Domains
    <3> QED BY <1>2, <3>1, <3>2 DEF Completes, Operates, Connects
  <2> QED BY <2>1, <2>2
<1>3. ASSUME NEW bytes, Write(e, bytes) PROVE Operates(e)
  BY <1>3 DEF Write, Fails, Completes, wireVars, Operates
<1>4. ASSUME NEW n, Receive(e, n) PROVE Operates(e)
  BY <1>4 DEF Receive, Completes, Operates
<1>5. CASE Fails(e)
  BY <1>5 DEF Fails, Completes, wireVars, Operates
<1>6. ASSUME NEW n, Read(e, n) \/ PartialRead(e, n) PROVE Operates(e)
  BY <1>4, <1>5, <1>6 DEF Read, PartialRead
<1> QED BY <1>1, <1>2, <1>3, <1>6 DEF Operation

LEMMA EndSteps ==
  ASSUME Control, NEW e \in Ends, Step(e)
  PROVE  Stepped(e)
<1> USE EndNames
<1>1. CASE Start(e)
  BY <1>1 DEF Start, DeferIo, SetAt, wireVars, progVars, Stepped, Starts
<1>2. CASE Complete(e)
  BY <1>2, OperationOperates DEF Complete, progVars, Stepped
<1>3. CASE Throw(e)
  <2>1. /\ Over(e) /\ UNCHANGED <<op, err, backlog, request, accepted, point>>
        /\ at[e] = "running" \/ (at[e] = "suspended" /\ op[e] = "completed")
    BY <1>3 DEF Throw, EventBefore, ThrowAfter, Resumable, progVars
  <2>2. op[e] # "outstanding"
    BY <2>1 DEF Control, Frames
  <2> QED BY <2>1, <2>2, OverClosesOne DEF Stepped, EndsHere
<1>4. CASE Advance(e)
  BY <1>4, ContinueContinues
  DEF Advance, After, GetPoints, LoadPoints, ServerPoints, AllPoints, Control, Points, IsGet
<1>5. CASE SizeRead(e)
  BY <1>5, ContinueContinues, FailEndsHere
  DEF SizeRead, GetPoints, LoadPoints, ServerPoints, AllPoints, Control, Points, IsGet
<1>6. CASE GetReturns(e)
  BY <1>6, ReturnEndsHere DEF GetReturns
<1>7. CASE HeadRead(e) \/ BodyRead(e) \/ ChunkRead(e)
  <2>1. point[e] \in {"readHead", "readBody", "readChunks"}
    BY <1>7 DEF HeadRead, BodyRead, ChunkRead
  <2>2. e \in Clients /\ e \notin Servers /\ ~IsGet(e)
    BY <2>1 DEF Control, Points, GetPoints, ServerPoints
  <2>3. Return(e) \/ \E p \in {"readHead", "readBody", "readChunks"} : Continue(e, p)
    BY <1>7 DEF HeadRead, BodyRead, ChunkRead
  <2>4. {"readHead", "readBody", "readChunks"} \subseteq LoadPoints \cap AllPoints
    BY DEF LoadPoints, AllPoints
  <2> QED BY <2>1, <2>2, <2>3, <2>4, ContinueContinues, ReturnEndsHere
<1>8. CASE HeadRejected(e)
  BY <1>8, FailEndsHere DEF HeadRejected
<1> QED BY <1>1, <1>2, <1>3, <1>4, <1>5, <1>6, <1>7, <1>8 DEF Step

-----------------------------------------------------------------------------
(* The control is kept *)

LEMMA EndKeepsControl ==
  ASSUME Control, NEW e \in Ends, Stepped(e)
  PROVE  Control'
<1> USE EndNames
<1>1. UNCHANGED <<request, accepted>> /\ \A x : IsGet(x)' = IsGet(x)
  BY DEF Stepped, IsGet
<1>2. CASE Starts(e)
  <2>1. Domains' BY <1>1, <1>2 DEF Starts, Control, Domains
  <2>2. Points' BY <1>1, <1>2 DEF Starts, Control, Points
  <2>3. Frames' BY <1>2 DEF Starts, Control, Domains, Frames
  <2>4. Accepting'
    BY <1>1, <1>2 DEF Starts, Control, Domains, Accepting, Done
  <2>5. Sockets'
    BY <1>1, <1>2 DEF Starts, Control, Domains, Frames, Sockets, Unseen, Done
  <2> QED BY <2>1, <2>2, <2>3, <2>4, <2>5 DEF Control
<1>3. CASE Operates(e)
  <2>1. Domains' BY <1>1, <1>3 DEF Operates, Connects, Control, Domains
  <2>2. Points' BY <1>1, <1>3 DEF Operates, Control, Points
  <2>3. Frames' BY <1>3 DEF Operates, Control, Domains, Frames
  <2>4. Accepting'
    BY <1>1, <1>3, <2>1 DEF Operates, Connects, Control, Domains, Accepting, Done, Points, ServerPoints
  <2>5. Sockets'
    <3>1. CASE UNCHANGED <<sock, backlog>>
      BY <1>1, <1>3, <3>1 DEF Operates, Control, Domains, Frames, Sockets, Unseen, Done
    <3>2. CASE Connects(e)
      <4>1. PICK c \in Conns : e = ClientOf(c)
        BY <3>2 DEF Connects, Control, Points, ServerPoints
      <4>2. IsGet(e) => Unseen(c) /\ sock[ServerOf(c)] = "none"
        BY <1>3, <3>2, <4>1 DEF Operates, Connects, Control, Sockets, Done
      <4> QED BY <1>1, <1>3, <3>2, <4>1, <4>2
              DEF Operates, Connects, Control, Domains, Frames, Sockets, Unseen, Done
    <3> QED BY <1>3, <3>1, <3>2 DEF Operates
  <2> QED BY <2>1, <2>2, <2>3, <2>4, <2>5 DEF Control
<1>4. CASE EndsHere(e)
  <2>1. Domains' BY <1>1, <1>4 DEF EndsHere, Control, Domains, AllPoints, GetPoints
  <2>2. Points'
    BY <1>1, <1>4 DEF EndsHere, Control, Domains, Points, GetPoints, LoadPoints
  <2>3. Frames' BY <1>4 DEF EndsHere, Control, Domains, Frames
  <2>4. Accepting'
    BY <1>1, <1>4 DEF EndsHere, Control, Domains, Accepting, Done
  <2>5. Sockets'
    <3>1. \A c \in Conns : point'[ClientOf(c)] = "connect" /\ ~Done(ClientOf(c))'
            => point[ClientOf(c)] = "connect" /\ ~Done(ClientOf(c))
      BY <1>4 DEF EndsHere, Control, Domains, Done
    <3>2. \A c \in Conns : IsGet(ClientOf(c))' = IsGet(ClientOf(c))
            /\ (at[ServerOf(c)] = "unborn" => at'[ServerOf(c)] = "unborn" /\ ServerOf(c) # e)
      BY <1>1, <1>4 DEF EndsHere, Control, Domains
    <3>3. \A c \in Conns : Unseen(c) => Unseen(c)'
      BY <1>1, <1>4, <3>2 DEF EndsHere, Unseen
    <3>4. \A x \in Journeys : at'[x] = IF x = e THEN "over" ELSE at[x]
      BY <1>4 DEF EndsHere, Control, Domains
    <3>5. \A x \in Ends : sock'[x] = IF x = e THEN "closed" ELSE sock[x]
      BY <1>4 DEF EndsHere, Control, Domains
    <3>6. backlog' = backlog /\ accepted' = accepted
      BY <1>1, <1>4 DEF EndsHere
    <3>7. ASSUME NEW c \in Conns
          PROVE  /\ at'[ClientOf(c)] \in {"running", "suspended"} => sock'[ClientOf(c)] # "closed"
                 /\ at'[ServerOf(c)] \in {"running", "suspended"} => sock'[ServerOf(c)] = "open"
                 /\ c \in backlog' =>
                      /\ at'[ServerOf(c)] = "unborn" /\ c # accepted'
                      /\ at'[Acceptor] # "over" => sock'[ServerOf(c)] = "none"
      BY <3>2, <3>4, <3>5, <3>6 DEF Control, Sockets
    <3>8. ASSUME NEW c \in Conns
          PROVE  /\ ~IsGet(ClientOf(c))' => Unseen(c)'
                 /\ point'[ClientOf(c)] = "connect" /\ ~Done(ClientOf(c))' /\ IsGet(ClientOf(c))'
                      => Unseen(c)' /\ sock'[ServerOf(c)] = "none"
      <4>1. Unseen(c) => sock'[ServerOf(c)] = sock[ServerOf(c)]
        BY <3>2, <3>5 DEF Unseen
      <4> QED BY <3>1, <3>2, <3>3, <4>1 DEF Control, Sockets
    <3> QED BY <3>7, <3>8 DEF Sockets
  <2> QED BY <2>1, <2>2, <2>3, <2>4, <2>5 DEF Control
<1>5. CASE Continues(e)
  <2>1. Domains' BY <1>1, <1>5 DEF Continues, Control, Domains
  <2>2. Points' BY <1>1, <1>5 DEF Continues, Control, Domains, Points
  <2>3. Frames' BY <1>5 DEF Continues, Control, Domains, Frames
  <2>4. Accepting'
    BY <1>1, <1>5 DEF Continues, Control, Domains, Accepting, Done
  <2>5. Sockets'
    BY <1>1, <1>5 DEF Continues, Control, Domains, Frames, Sockets, Unseen, Done
  <2> QED BY <2>1, <2>2, <2>3, <2>4, <2>5 DEF Control
<1> QED BY <1>2, <1>3, <1>4, <1>5 DEF Stepped

LEMMA AcceptorKeepsControl ==
  ASSUME Control, Serve \/ AcceptFails
  PROVE  Control'
<1> USE EndNames
<1> USE DEF Control
<1>1. UNCHANGED request /\ \A x : IsGet(x)' = IsGet(x)
  BY DEF Serve, AcceptFails, Start, Throw, Accepted, GoHandler, Release, CompleteAccept,
         progVars, IsGet
<1>2. CASE Start(Acceptor)
  <2>1. /\ point[Acceptor] = "accept" /\ at[Acceptor] = "running"
        /\ at' = [at EXCEPT ![Acceptor] = "suspended"]
        /\ op' = [op EXCEPT ![Acceptor] = "outstanding"]
        /\ err' = [err EXCEPT ![Acceptor] = FALSE]
        /\ UNCHANGED <<sock, backlog, point, accepted>>
    BY <1>2 DEF Start, DeferIo, SetAt, wireVars, progVars, Accepting
  <2>2. Domains' BY <1>1, <2>1 DEF Domains
  <2>3. Points' BY <1>1, <2>1 DEF Points
  <2>4. Frames' BY <2>1 DEF Domains, Frames
  <2>5. Accepting' BY <1>1, <2>1 DEF Domains, Frames, Accepting, Done
  <2>6. Sockets' BY <1>1, <2>1 DEF Domains, Frames, Sockets, Unseen, Done
  <2> QED BY <2>2, <2>3, <2>4, <2>5, <2>6
<1>3. CASE Throw(Acceptor)
  <2>1. /\ at[Acceptor] = "suspended" /\ op[Acceptor] = "completed" /\ err[Acceptor]
        /\ Over(Acceptor)
        /\ UNCHANGED <<op, err, backlog, point, accepted>>
    BY <1>3, OthersAreNotInterruptible DEF Throw, EventBefore, ThrowAfter, Resumable, progVars
  <2>2. /\ at' = [at EXCEPT ![Acceptor] = "over"]
        /\ \A c \in Conns : sock'[ClientOf(c)] = sock[ClientOf(c)]
        /\ \A c \in Conns : sock'[ServerOf(c)]
             = IF c \in backlog THEN "closed" ELSE sock[ServerOf(c)]
    BY <2>1 DEF Over, SetAt, Closed, ClientOf, ServerOf
  <2>3. accepted = None
    BY <2>1 DEF Accepting, Domains, Done
  <2>4. Domains'
    BY <1>1, <2>1, <2>2 DEF Domains, Over
  <2>5. Points' BY <1>1, <2>1 DEF Points
  <2>6. Frames' BY <2>1, <2>2 DEF Domains, Frames
  <2>7. Accepting' BY <2>1, <2>2, <2>3 DEF Domains, Accepting, Done
  <2>8. Sockets' BY <1>1, <2>1, <2>2 DEF Domains, Sockets, Unseen, Done
  <2> QED BY <2>4, <2>5, <2>6, <2>7, <2>8
<1>4. CASE Accepted
  <2>1. /\ Done(Acceptor) /\ at[Acceptor] = "suspended"
        /\ at' = [at EXCEPT ![Acceptor] = "running"]
        /\ op' = [op EXCEPT ![Acceptor] = "none"]
        /\ point' = [point EXCEPT ![Acceptor] = "go"]
        /\ UNCHANGED <<err, sock, backlog, accepted>>
    BY <1>4 DEF Accepted, Returns, Resumable, Done, SetAt, Go, wireVars
  <2>2. Domains' BY <1>1, <2>1 DEF Domains, AllPoints
  <2>3. Points' BY <1>1, <2>1 DEF Points, Domains
  <2>4. Frames' BY <2>1 DEF Domains, Frames
  <2>5. point[Acceptor] = "accept" /\ accepted # None
    BY <2>1 DEF Accepting, Frames, Done
  <2>6. Accepting' BY <2>1, <2>5, NetworkAssumption DEF Domains, Accepting, Done
  <2>7. Sockets' BY <1>1, <2>1 DEF Domains, Frames, Sockets, Unseen, Done
  <2> QED BY <2>2, <2>3, <2>4, <2>6, <2>7
<1>5. CASE GoHandler
  <2>1. /\ point[Acceptor] = "go"
        /\ at' = [at EXCEPT ![ServerOf(accepted)] = "running"]
        /\ point' = [point EXCEPT ![Acceptor] = "release"]
        /\ UNCHANGED <<op, err, sock, backlog, accepted>>
    BY <1>5 DEF GoHandler, SetAt, Go, ServerOf, wireVars
  <2>2. accepted \in Conns /\ sock[ServerOf(accepted)] = "open" /\ at[ServerOf(accepted)] = "unborn"
    BY <2>1 DEF Accepting, Domains
  <2>3. Domains' BY <1>1, <2>1, <2>2 DEF Domains, AllPoints
  <2>4. Points' BY <1>1, <2>1 DEF Points, Domains
  <2>5. Frames' BY <2>1, <2>2 DEF Domains, Frames
  <2>6. Accepting' BY <2>1, <2>2 DEF Domains, Accepting, Done
  <2>7. Sockets' BY <1>1, <2>1, <2>2 DEF Domains, Frames, Sockets, Unseen, Done
  <2> QED BY <2>3, <2>4, <2>5, <2>6, <2>7
<1>6. CASE Release
  <2>1. /\ point[Acceptor] = "release"
        /\ point' = [point EXCEPT ![Acceptor] = "accept"]
        /\ accepted' = None
        /\ UNCHANGED <<at, op, err, sock, backlog>>
    BY <1>6 DEF Release, Go, netVars, ioVars, wireVars
  <2>2. Domains' BY <1>1, <2>1 DEF Domains, AllPoints
  <2>3. Points' BY <1>1, <2>1 DEF Points, Domains
  <2>4. Frames' BY <2>1 DEF Domains, Frames
  <2>5. Accepting' BY <2>1 DEF Domains, Frames, Accepting, Done
  <2>6. Sockets'
    BY <1>1, <2>1, NetworkAssumption DEF Domains, Frames, Sockets, Unseen, Done
  <2> QED BY <2>2, <2>3, <2>4, <2>5, <2>6
<1>7. ASSUME NEW c \in Conns, CompleteAccept(c) PROVE Control'
  <2>1. /\ op[Acceptor] = "outstanding" /\ c \in backlog
        /\ op' = [op EXCEPT ![Acceptor] = "completed"]
        /\ err' = [err EXCEPT ![Acceptor] = FALSE]
        /\ backlog' = backlog \ {c}
        /\ sock' = [sock EXCEPT ![ServerOf(c)] = "open"]
        /\ accepted' = c
        /\ UNCHANGED <<at, point>>
    BY <1>7 DEF CompleteAccept, Accept, Completes, ServerOf
  <2>2. Domains' BY <1>1, <2>1 DEF Domains
  <2>3. Points' BY <1>1, <2>1 DEF Points
  <2>4. Frames' BY <2>1 DEF Domains, Frames
  <2>5. accepted = None /\ point[Acceptor] = "accept" /\ at[ServerOf(c)] = "unborn"
    BY <2>1 DEF Frames, Accepting, Sockets, Done
  <2>6. Accepting' BY <2>1, <2>5, NetworkAssumption DEF Domains, Accepting, Done
  <2>7. Sockets' BY <1>1, <2>1, <2>5 DEF Domains, Frames, Sockets, Unseen, Done
  <2> QED BY <2>2, <2>3, <2>4, <2>6, <2>7
<1>8. CASE AcceptFails
  <2>1. /\ op[Acceptor] = "outstanding"
        /\ op' = [op EXCEPT ![Acceptor] = "completed"]
        /\ err' = [err EXCEPT ![Acceptor] = TRUE]
        /\ UNCHANGED <<at, sock, backlog, point, accepted>>
    BY <1>8 DEF AcceptFails, Fails, Completes, wireVars, progVars
  <2>2. Domains' BY <1>1, <2>1 DEF Domains
  <2>3. Points' BY <1>1, <2>1 DEF Points
  <2>4. Frames' BY <2>1 DEF Domains, Frames
  <2>5. Accepting' BY <2>1 DEF Domains, Frames, Accepting, Done
  <2>6. Sockets' BY <1>1, <2>1 DEF Domains, Frames, Sockets, Unseen, Done
  <2> QED BY <2>2, <2>3, <2>4, <2>5, <2>6
<1> QED BY <1>2, <1>3, <1>4, <1>5, <1>6, <1>7, <1>8 DEF Serve

LEMMA HttpKeepsControl ==
  ASSUME Control, NEW c \in Conns, HttpAnswer(c)
  PROVE  Control'
<1> USE EndNames DEF Control
<1>1. /\ UNCHANGED <<at, op, err, backlog, request, point, accepted>>
      /\ ~IsGet(ClientOf(c)) /\ sock[ServerOf(c)] = "none"
      /\ \E s \in {"open", "closed"} : sock' = [sock EXCEPT ![ServerOf(c)] = s]
  BY DEF HttpAnswer, ioVars, progVars, ClientOf, ServerOf
<1>2. \A x : IsGet(x)' = IsGet(x)
  BY <1>1 DEF IsGet
<1>3. Domains' BY <1>1 DEF Domains
<1>4. Points' BY <1>1, <1>2 DEF Points
<1>5. Frames' BY <1>1 DEF Frames
<1>6. Accepting' BY <1>1 DEF Accepting, Sockets, Domains, Done, Unseen
<1>7. Sockets' BY <1>1, <1>2 DEF Domains, Sockets, Unseen, Done
<1> QED BY <1>3, <1>4, <1>5, <1>6, <1>7

LEMMA ControlAtFirst == Init => Control
<1> SUFFICES ASSUME Init PROVE Control
  OBVIOUS
<1> USE EndNames, NetworkAssumption DEF Init, NetInit
<1>1. Domains BY DEF Domains, AllPoints, GetPoints, LoadPoints
<1>2. Points BY DEF Points, GetPoints, LoadPoints, ServerPoints, IsGet
<1>3. Frames BY DEF Frames
<1>4. Accepting BY DEF Accepting, Done
<1>5. Sockets BY DEF Sockets, Unseen, Done
<1> QED BY <1>1, <1>2, <1>3, <1>4, <1>5 DEF Control

LEMMA ControlStep == Control /\ [Next]_vars => Control'
<1> SUFFICES ASSUME Control, [Next]_vars PROVE Control'
  OBVIOUS
<1>1. ASSUME NEW e \in Ends, Step(e) PROVE Control'
  BY <1>1, EndSteps, EndKeepsControl
<1>2. CASE UNCHANGED vars
  BY <1>2
  DEF vars, netVars, ioVars, wireVars, progVars, Control, Domains, Points, Frames,
      Accepting, Sockets, Unseen, Done, IsGet
<1> QED BY <1>1, <1>2, AcceptorKeepsControl, HttpKeepsControl DEF Next

-----------------------------------------------------------------------------
(* The bytes *)

Data ==
  /\ buf \in [Journeys -> Seq(Bytes)]
  /\ wire \in [Ends -> Seq(Bytes)]
  /\ want \in [Journeys -> Nat]
  /\ resp \in [Conns -> Seq(Bytes)]

\* What the two sides of a get should send each other.
KeySize(c) == Size(ClientOf(c))
Keys(c) == Times(KeySize(c), Key)
Answer(c) == Keys(c) \o Times(SuffixSize, World)
Asked(c) == <<SizeByte(KeySize(c))>>
Told(c) == <<SizeByte(KeySize(c) + SuffixSize)>>

Short(c) == IsGet(ClientOf(c)) /\ KeySize(c) < Chars

\* What the client has sent.
Sent(c) ==
  LET e == ClientOf(c)
  IN  CASE point[e] = "connect" \/ (point[e] = "writeSize" /\ ~Done(e)) -> <<>>
        [] (point[e] = "writeSize" /\ Done(e)) \/ (point[e] = "writeStr" /\ ~Done(e)) -> Asked(c)
        [] OTHER -> Asked(c) \o Keys(c)

\* The client has not read the size of the answer.
Waits(c) ==
  \/ point[ClientOf(c)] \in {"connect", "writeSize", "writeStr"}
  \/ point[ClientOf(c)] = "readSize" /\ ~Done(ClientOf(c))

\* From the accept to the size of the key, to the key, to the answer, to the next size,
\* which does not come.
NothingRead(c) ==
  /\ point[ServerOf(c)] = "readSize" /\ ~Done(ServerOf(c))
  /\ want[ServerOf(c)] = 1 /\ wire[ServerOf(c)] = Sent(c)
  /\ wire[ClientOf(c)] = <<>> /\ Waits(c)

SizeIsRead(c) ==
  /\ \/ point[ServerOf(c)] = "readSize" /\ Done(ServerOf(c)) /\ buf[ServerOf(c)] = Asked(c)
     \/ /\ point[ServerOf(c)] = "readStr" /\ ~Done(ServerOf(c))
        /\ want[ServerOf(c)] = KeySize(c) /\ 2 * KeySize(c) < Chars
  /\ Sent(c) = Asked(c) \o wire[ServerOf(c)]
  /\ wire[ClientOf(c)] = <<>> /\ Waits(c)

KeyIsRead(c) ==
  /\ \/ point[ServerOf(c)] = "readStr" /\ Done(ServerOf(c))
     \/ point[ServerOf(c)] = "writeSize" /\ ~Done(ServerOf(c))
  /\ buf[ServerOf(c)] = Keys(c) /\ 2 * KeySize(c) < Chars
  /\ Sent(c) = Asked(c) \o Keys(c) /\ wire[ServerOf(c)] = <<>>
  /\ wire[ClientOf(c)] = <<>> /\ Waits(c)

SizeIsTold(c) ==
  /\ \/ point[ServerOf(c)] = "writeSize" /\ Done(ServerOf(c))
     \/ point[ServerOf(c)] = "writeStr" /\ ~Done(ServerOf(c))
  /\ buf[ServerOf(c)] = Keys(c) /\ 2 * KeySize(c) < Chars
  /\ Sent(c) = Asked(c) \o Keys(c) /\ wire[ServerOf(c)] = <<>>
  /\ sock[ClientOf(c)] # "closed"
       => wire[ClientOf(c)] = IF Waits(c) THEN Told(c) ELSE <<>>

Answered(c) ==
  /\ \/ point[ServerOf(c)] = "writeStr" /\ Done(ServerOf(c))
     \/ /\ point[ServerOf(c)] = "readSize" /\ ~Done(ServerOf(c))
        /\ want[ServerOf(c)] = 1
  /\ Sent(c) = Asked(c) \o Keys(c) /\ wire[ServerOf(c)] = <<>>

ServerSide(c) ==
  sock[ServerOf(c)] # "closed" =>
    NothingRead(c) \/ SizeIsRead(c) \/ KeyIsRead(c) \/ SizeIsTold(c) \/ Answered(c)

\* What the client has read, and what is left for it to read, whether its server is
\* still there or not.
ClientSide(c) ==
  LET e == ClientOf(c)
  IN  /\ Waits(c) =>
           \/ wire[e] = <<>>
           \/ (wire[e] \in {Told(c), Told(c) \o Answer(c)} /\ 2 * KeySize(c) < Chars)
      /\ point[e] = "readSize" /\ Done(e) =>
           buf[e] = Told(c) /\ 2 * KeySize(c) < Chars
      /\ point[e] = "readStr" /\ ~Done(e) => want[e] = KeySize(c) + SuffixSize
      /\ (point[e] = "readSize" /\ Done(e)) \/ (point[e] = "readStr" /\ ~Done(e)) =>
           wire[e] \in {<<>>, Answer(c)}
      /\ point[e] = "readSize" => want[e] = 1
      /\ (point[e] = "readStr" /\ Done(e)) \/ point[e] = "returned" => buf[e] = Answer(c)

Gets == \A c \in Conns : Short(c) => ServerSide(c) /\ ClientSide(c)

-----------------------------------------------------------------------------
(* Content with an announced length *)

\* The response, byte by byte.
Response(i) == IF i = 1 THEN Head1 ELSE IF i = 2 THEN Eol2 ELSE Body
IsPart(s, k) == \A i \in DOMAIN s : s[i] = Response(k + i)

\* What was read and is not in the response yet.
Pending(c) ==
  IF point[ClientOf(c)] \in {"readHead", "readBody"} /\ Done(ClientOf(c))
  THEN buf[ClientOf(c)] ELSE <<>>

Announced(c) == request[c].program = "load" /\ ~request[c].chunked

LoadInv(c) ==
  LET e == ClientOf(c)
  IN  /\ IsPart(resp[c], 0)
      /\ IsPart(Pending(c), Len(resp[c]))
      /\ IsPart(wire[e], Len(resp[c]) + Len(Pending(c)))
      /\ sock[ServerOf(c)] = "none" =>
           /\ point[e] \in {"resolve", "connect", "request", "readHead"}
           /\ wire[e] = <<>> /\ resp[c] = <<>> /\ Pending(c) = <<>>
      /\ point[e] = "readBody" =>
           /\ Len(resp[c]) >= 2 /\ want[e] + Len(resp[c]) = request[c].size + 2
           /\ Done(e) => Len(buf[e]) = want[e]
      /\ point[e] = "returned" => Len(resp[c]) = request[c].size + 2
      /\ point[e] # "readChunks"

Loads == \A c \in Conns : Announced(c) => LoadInv(c)

-----------------------------------------------------------------------------
(* Sequences of bytes *)

LEMMA JoinFacts ==
  ASSUME NEW S, NEW s \in Seq(S)
  PROVE  /\ s \o <<>> = s /\ <<>> \o s = s
         /\ Len(s) = 0 => s = <<>>
         /\ SubSeq(s, 1, Len(s)) = s
         /\ SubSeq(s, Len(s) + 1, Len(s)) = <<>>
  OBVIOUS

LEMMA PrefixFacts ==
  ASSUME NEW S, NEW s \in Seq(S), NEW n \in 0 .. Len(s)
  PROVE  /\ SubSeq(s, 1, n) \in Seq(S) /\ Len(SubSeq(s, 1, n)) = n
         /\ SubSeq(s, n + 1, Len(s)) \in Seq(S)
         /\ Len(SubSeq(s, n + 1, Len(s))) = Len(s) - n
         /\ \A i \in 1 .. n : SubSeq(s, 1, n)[i] = s[i]
         /\ \A i \in 1 .. Len(s) - n : SubSeq(s, n + 1, Len(s))[i] = s[n + i]
  OBVIOUS

LEMMA HeadFacts ==
  ASSUME NEW S, NEW b \in S, NEW s \in Seq(S)
  PROVE  /\ <<b>> \o s \in Seq(S) /\ Len(<<b>> \o s) = 1 + Len(s)
         /\ SubSeq(<<b>> \o s, 1, 1) = <<b>>
         /\ SubSeq(<<b>> \o s, 2, Len(<<b>> \o s)) = s
         /\ \A t \in Seq(S) : <<b>> \o s = <<b>> \o t => s = t
<1> DEFINE u == <<b>> \o s
<1>1. u \in Seq(S) /\ Len(u) = 1 + Len(s) /\ u[1] = b /\ \A i \in 1 .. Len(s) : u[i + 1] = s[i]
  OBVIOUS
<1>2. SubSeq(u, 1, 1) = <<b>>
  <2> HIDE DEF u
  <2>1. /\ SubSeq(u, 1, 1) \in Seq(S) /\ Len(SubSeq(u, 1, 1)) = 1
        /\ SubSeq(u, 1, 1)[1] = b
    BY <1>1, PrefixFacts
  <2>2. \A v \in Seq(S) : Len(v) = 1 /\ v[1] = b => v = <<b>>
    OBVIOUS
  <2> QED BY <2>1, <2>2
<1>3. SubSeq(u, 2, Len(u)) = s
  BY <1>1
<1>4. ASSUME NEW t \in Seq(S), u = <<b>> \o t PROVE s = t
  <2>1. Len(s) = Len(t) /\ \A i \in 1 .. Len(t) : u[i + 1] = t[i]
    BY <1>1, <1>4
  <2> QED BY <1>1, <2>1
<1> QED BY <1>1, <1>2, <1>3, <1>4

LEMMA TimesIsSeq ==
  ASSUME NEW S, NEW b \in S, NEW n \in Nat
  PROVE  Times(n, b) \in Seq(S) /\ Len(Times(n, b)) = n
  BY DEF Times

LEMMA BytesAreBytes ==
  /\ {Key, World, Head1, Eol2, Body} \subseteq Bytes
  /\ \A n \in Nat : SizeByte(n) \in Bytes
  BY ExchangeAssumption DEF Bytes, SizeByte

\* A size that fits into a char is read as it was written.
LEMMA SizesRead ==
  ASSUME NEW n \in Nat, n < Chars, NEW k \in SizesIn(<<SizeByte(n)>>)
  PROVE  k = n
<1>1. n % Chars = n
  BY ExchangeAssumption
<1>2. ToSet(<<SizeByte(n)>>) = {SizeByte(n)}
  BY DEF ToSet
<1> QED BY <1>1, <1>2 DEF SizesIn, SizeByte

\* The end of the header, where there is one.
LEMMA FirstEol ==
  ASSUME NEW r \in Seq(Bytes), Eol2 \in ToSet(r)
  PROVE  /\ BodyOf(r) \in Seq(Bytes)
         /\ \E k \in 1 .. Len(r) :
              /\ r[k] = Eol2 /\ \A i \in 1 .. k - 1 : r[i] # Eol2
              /\ BodyOf(r) = SubSeq(r, k + 1, Len(r))
<1> DEFINE I == {i \in 1 .. Len(r) : r[i] = Eol2}
<1>1. I # {} /\ I \subseteq Nat
  BY DEF ToSet
<1>2. PICK k \in I : \A i \in I : ~(<<i, k>> \in OpToRel(<, Nat))
  BY <1>1, NatLessThanWellFounded, WFMin
<1>3. k \in I /\ \A i \in I : k <= i
  <2>1. \A i, n \in Nat : i < n => <<i, n>> \in OpToRel(<, Nat)
    BY DEF OpToRel
  <2>2. \A i \in I : ~(i < k)
    BY <1>1, <1>2, <2>1, Zenon
  <2> QED BY <1>1, <2>2
<1>4. Min(I) = k
  <2>1. Min(I) \in I /\ \A i \in I : Min(I) <= i
    BY <1>3 DEF Min
  <2> QED BY <1>1, <1>3, <2>1
<1>5. BodyOf(r) = SubSeq(r, k + 1, Len(r))
  BY <1>1, <1>4 DEF BodyOf, SelectInSeq
<1>6. BodyOf(r) \in Seq(Bytes)
  BY <1>3, <1>5, PrefixFacts
<1>7. \A i \in 1 .. k - 1 : r[i] # Eol2
  BY <1>3
<1> QED BY <1>3, <1>5, <1>6, <1>7

-----------------------------------------------------------------------------
(* Types *)

LEMMA RequestTypes ==
  ASSUME Domains
  PROVE  /\ request \in [Conns -> Request]
         /\ \A e \in Ends : Size(e) \in Nat
  BY EndNames, ExchangeAssumption DEF Domains, Request, Size

LEMMA RestIsNat ==
  ASSUME Domains, NEW c \in Conns, NEW r \in Seq(Bytes), Eol2 \in ToSet(r), Rest(c, r) >= 0
  PROVE  Rest(c, r) \in Nat
<1>1. request[c].size \in Nat
  BY RequestTypes DEF Request
<1>2. Len(BodyOf(r)) \in Nat
  BY FirstEol
<1> QED BY <1>1, <1>2 DEF Rest

LEMMA DataAtFirst == Init => Data
  BY EndNames DEF Init, NetInit, Data

LEMMA OverKeepsData ==
  ASSUME Data, NEW j \in Journeys, Over(j)
  PROVE  wire' \in [Ends -> Seq(Bytes)]
  BY DEF Over, Data

LEMMA OperationKeepsData ==
  ASSUME Control, Data, NEW e \in Ends, Operation(e), UNCHANGED progVars
  PROVE  Data'
<1> USE EndNames
<1> USE DEF Data
<1>1. UNCHANGED <<want, resp>>
  BY DEF progVars
<1>2. ASSUME UNCHANGED <<buf, wire>> PROVE Data'
  BY <1>1, <1>2
<1>3. ASSUME NEW n \in 0 .. Len(wire[e]), Receive(e, n) PROVE Data'
  <2>1. /\ buf' = [buf EXCEPT ![e] = SubSeq(wire[e], 1, n)]
        /\ wire' = [wire EXCEPT ![e] = SubSeq(wire[e], n + 1, Len(wire[e]))]
    BY <1>3 DEF Receive
  <2>2. wire[e] \in Seq(Bytes)
    OBVIOUS
  <2> QED BY <1>1, <2>1, <2>2, PrefixFacts
<1>4. ASSUME NEW bytes \in Seq(Bytes), Write(e, bytes) PROVE Data'
  <2>1. CASE buf' = buf /\ wire' = [wire EXCEPT ![Peer(e)] = @ \o bytes]
    <3>1. Peer(e) \in Ends
      OBVIOUS
    <3>2. wire[Peer(e)] \o bytes \in Seq(Bytes)
      BY <1>4, <3>1
    <3> QED BY <1>1, <2>1, <3>1, <3>2
  <2>2. CASE UNCHANGED <<buf, wire>>
    BY <2>2, <1>2
  <2> QED BY <1>4, <2>1, <2>2 DEF Write, Fails, wireVars
<1>5. CASE Fails(e)
  BY <1>5, <1>2 DEF Fails, wireVars
<1>6. CASE Resolve(e) \/ Connect(e, IsGet(e))
  BY <1>5, <1>6, <1>2 DEF Resolve, Connect, wireVars
<1>7. ASSUME Read(e, want[e]) \/ PartialRead(e, Len(wire[e])) PROVE Data'
  BY <1>3, <1>5, <1>7 DEF Read, PartialRead
<1>8. /\ <<>> \in Seq(Bytes)
      /\ SentByClient(e) \in Seq(Bytes) /\ SentByServer(e) \in Seq(Bytes)
      /\ <<SizeByte(Size(e))>> \in Seq(Bytes) /\ <<SizeByte(AnswerSize(e))>> \in Seq(Bytes)
  <2>1. Size(e) \in Nat
    BY RequestTypes DEF Control
  <2>2. Times(SuffixSize, World) \in Seq(Bytes) /\ SentByClient(e) \in Seq(Bytes)
    BY <2>1, TimesIsSeq, BytesAreBytes, ExchangeAssumption DEF SentByClient
  <2>3. SentByServer(e) \in Seq(Bytes)
    BY <2>2 DEF SentByServer
  <2> QED BY <2>1, <2>2, <2>3, BytesAreBytes DEF AnswerSize
<1> QED BY <1>4, <1>6, <1>7, <1>8 DEF Operation

LEMMA EndKeepsData ==
  ASSUME Control, Data, NEW e \in Ends, Step(e)
  PROVE  Data'
<1> USE EndNames DEF Data
<1>1. CASE Start(e)
  BY <1>1 DEF Start, DeferIo, wireVars, progVars
<1>2. CASE Complete(e)
  BY <1>2, OperationKeepsData DEF Complete
<1>3. ASSUME Over(e), UNCHANGED <<buf, want, resp>> PROVE Data'
  BY <1>3, OverKeepsData
<1>4. CASE Throw(e)
  BY <1>3, <1>4 DEF Throw, EventBefore, ThrowAfter, progVars
<1>5. ASSUME NEW p, Continue(e, p), NEW n \in Nat, Want(e, n), UNCHANGED resp PROVE Data'
  BY <1>5 DEF Continue, DeferIoAgain, Want, wireVars
<1>6. CASE Advance(e)
  BY <1>6, <1>5 DEF Advance
<1>7. CASE Fail(e)
  BY <1>3, <1>7 DEF Fail, progVars
<1>8. CASE SizeRead(e)
  <2>1. \A bytes : SizesIn(bytes) \subseteq Nat
    BY ExchangeAssumption DEF SizesIn
  <2> QED BY <1>5, <1>7, <1>8, <2>1 DEF SizeRead
<1>9. CASE GetReturns(e)
  BY <1>3, <1>9 DEF GetReturns, Return
<1>10. CASE HeadRejected(e)
  BY <1>7, <1>10 DEF HeadRejected
<1>11. CASE HeadRead(e) \/ BodyRead(e) \/ ChunkRead(e)
  <2>1. resp' = [resp EXCEPT ![e[1]] = resp[e[1]] \o buf[e]]
    BY <1>11 DEF HeadRead, BodyRead, ChunkRead
  <2>2. resp[e[1]] \o buf[e] \in Seq(Bytes)
    OBVIOUS
  <2>3. resp' \in [Conns -> Seq(Bytes)]
    BY <2>1, <2>2
  <2>4. CASE Return(e)
    BY <2>3, <2>4, OverKeepsData DEF Return
  <2>5. ASSUME NEW p, Continue(e, p), UNCHANGED want PROVE Data'
    BY <2>3, <2>5 DEF Continue, DeferIoAgain, wireVars
  <2>6. ASSUME NEW p, Continue(e, p), NEW n \in Nat, Want(e, n) PROVE Data'
    BY <2>3, <2>6 DEF Continue, DeferIoAgain, Want, wireVars
  <2> QED BY <1>11, <2>2, <2>4, <2>5, <2>6, RestIsNat DEF HeadRead, BodyRead, ChunkRead, Control
<1> QED BY <1>1, <1>2, <1>4, <1>6, <1>8, <1>9, <1>10, <1>11 DEF Step

LEMMA AcceptorKeepsData ==
  ASSUME Data, Serve \/ AcceptFails
  PROVE  Data'
<1> USE EndNames DEF Data
<1>1. UNCHANGED <<buf, want, resp>>
  BY DEF Serve, AcceptFails, Start, DeferIo, Throw, EventBefore, ThrowAfter, Accepted, GoHandler,
         Release, CompleteAccept, Accept, Fails, progVars, netVars, ioVars
<1>2. wire' = wire \/ Over(Acceptor)
  BY DEF Serve, AcceptFails, Start, DeferIo, Throw, EventBefore, ThrowAfter, Accepted, GoHandler,
         Release, CompleteAccept, Accept, Fails, netVars, wireVars
<1> QED BY <1>1, <1>2, OverKeepsData

LEMMA HttpKeepsData ==
  ASSUME Control, Data, NEW c \in Conns, HttpAnswer(c)
  PROVE  Data'
<1> USE EndNames DEF Data
<1>1. PICK n \in 0 .. request[c].size + 1 :
        wire' = [wire EXCEPT ![ClientOf(c)] = <<Head1, Eol2>> \o Times(n, Body)
                   \o IF request[c].chunked THEN <<Eol2>> ELSE <<>>]
  BY DEF HttpAnswer, ClientOf
<1>2. n \in Nat
  BY RequestTypes DEF Control, Request
<1>3. <<Head1, Eol2>> \in Seq(Bytes) /\ <<Eol2>> \in Seq(Bytes) /\ Times(n, Body) \in Seq(Bytes)
  BY <1>2, TimesIsSeq, BytesAreBytes
<1>4. <<Head1, Eol2>> \o Times(n, Body)
        \o (IF request[c].chunked THEN <<Eol2>> ELSE <<>>) \in Seq(Bytes)
  BY <1>3
<1> QED BY <1>1, <1>4 DEF HttpAnswer, ioVars, progVars

LEMMA DataStep == Control /\ Data /\ [Next]_vars => Data'
<1> SUFFICES ASSUME Control, Data, [Next]_vars PROVE Data'
  OBVIOUS
<1>1. CASE UNCHANGED vars
  BY <1>1 DEF vars, netVars, ioVars, wireVars, progVars, Data
<1> QED BY <1>1, EndKeepsData, AcceptorKeepsData, HttpKeepsData DEF Next

-----------------------------------------------------------------------------
(* A get and its handler *)

LEMMA MessageFacts ==
  ASSUME Domains, NEW c \in Conns, Short(c)
  PROVE  /\ KeySize(c) \in 0 .. Chars - 1
         /\ Keys(c) \in Seq(Bytes) /\ Len(Keys(c)) = KeySize(c)
         /\ Answer(c) \in Seq(Bytes) /\ Len(Answer(c)) = KeySize(c) + SuffixSize
         /\ \E a \in Bytes : Asked(c) = <<a>>
         /\ \E a \in Bytes : Told(c) = <<a>>
         /\ \A n \in SizesIn(Asked(c)) : n = KeySize(c)
         /\ 2 * KeySize(c) < Chars => \A n \in SizesIn(Told(c)) : n = KeySize(c) + SuffixSize
<1>1. KeySize(c) \in 0 .. Chars - 1
  BY RequestTypes, EndNames, ExchangeAssumption DEF KeySize, Short
<1>2. Keys(c) \in Seq(Bytes) /\ Len(Keys(c)) = KeySize(c)
  BY <1>1, TimesIsSeq, BytesAreBytes DEF Keys
<1>3. Times(SuffixSize, World) \in Seq(Bytes) /\ Len(Times(SuffixSize, World)) = SuffixSize
  BY TimesIsSeq, BytesAreBytes, ExchangeAssumption
<1>4. Answer(c) \in Seq(Bytes) /\ Len(Answer(c)) = KeySize(c) + SuffixSize
  BY <1>2, <1>3 DEF Answer
<1>5. \E a \in Bytes : Asked(c) = <<a>>
  BY <1>1, BytesAreBytes DEF Asked
<1>6. \E a \in Bytes : Told(c) = <<a>>
  BY <1>1, BytesAreBytes, ExchangeAssumption DEF Told
<1>7. \A n \in SizesIn(Asked(c)) : n = KeySize(c)
  BY <1>1, SizesRead, ExchangeAssumption DEF Asked
<1>8. 2 * KeySize(c) < Chars => \A n \in SizesIn(Told(c)) : n = KeySize(c) + SuffixSize
  <2>1. 2 * KeySize(c) < Chars => KeySize(c) + SuffixSize \in Nat /\ KeySize(c) + SuffixSize < Chars
    BY <1>1, ExchangeAssumption
  <2> QED BY <2>1, SizesRead DEF Told
<1> QED BY <1>1, <1>2, <1>4, <1>5, <1>6, <1>7, <1>8

\* What a message is followed by.
LEMMA MessagesFollow ==
  ASSUME Domains, NEW c \in Conns, Short(c)
  PROVE  /\ \A m \in {Asked(c), Told(c)}, s \in Seq(Bytes) :
              /\ m \o s \in Seq(Bytes) /\ Len(m \o s) = 1 + Len(s) /\ m # <<>>
              /\ SubSeq(m \o s, 1, 1) = m /\ SubSeq(m \o s, 2, Len(m \o s)) = s
              /\ m \o s # <<>> /\ \A t \in Seq(Bytes) : m \o s = m \o t => s = t
         /\ \A m \in {Asked(c), Told(c)} :
              /\ m \in Seq(Bytes) /\ Len(m) = 1 /\ m \o <<>> = m
              /\ SubSeq(m, 1, 1) = m /\ SubSeq(m, 2, Len(m)) = <<>>
<1>1. ASSUME NEW a \in Bytes, NEW s \in Seq(Bytes)
      PROVE  /\ <<a>> \o s \in Seq(Bytes) /\ Len(<<a>> \o s) = 1 + Len(s) /\ <<a>> # <<>>
             /\ SubSeq(<<a>> \o s, 1, 1) = <<a>> /\ SubSeq(<<a>> \o s, 2, Len(<<a>> \o s)) = s
             /\ <<a>> \o s # <<>> /\ \A t \in Seq(Bytes) : <<a>> \o s = <<a>> \o t => s = t
  <2>1. <<a>> \o s # <<>>
    OBVIOUS
  <2> QED BY <2>1, HeadFacts
<1>2. ASSUME NEW a \in Bytes
      PROVE  /\ <<a>> \in Seq(Bytes) /\ Len(<<a>>) = 1 /\ <<a>> \o <<>> = <<a>>
             /\ SubSeq(<<a>>, 1, 1) = <<a>> /\ SubSeq(<<a>>, 2, Len(<<a>>)) = <<>>
  <2>1. <<a>> \in Seq(Bytes) /\ Len(<<a>>) = 1
    OBVIOUS
  <2>2. ASSUME NEW m \in Seq(Bytes), Len(m) = 1
        PROVE  m \o <<>> = m /\ SubSeq(m, 1, 1) = m /\ SubSeq(m, 2, Len(m)) = <<>>
    BY <2>2, JoinFacts
  <2> QED BY <2>1, <2>2
<1>3. ASSUME NEW m \in {Asked(c), Told(c)} PROVE \E a \in Bytes : m = <<a>>
  BY MessageFacts
<1>4. \A m \in {Asked(c), Told(c)}, s \in Seq(Bytes) :
        /\ m \o s \in Seq(Bytes) /\ Len(m \o s) = 1 + Len(s) /\ m # <<>>
        /\ SubSeq(m \o s, 1, 1) = m /\ SubSeq(m \o s, 2, Len(m \o s)) = s
        /\ m \o s # <<>> /\ \A t \in Seq(Bytes) : m \o s = m \o t => s = t
  <2> TAKE m \in {Asked(c), Told(c)}, s \in Seq(Bytes)
  <2>1. PICK a \in Bytes : m = <<a>>
    BY <1>3
  <2> QED BY <1>1, <2>1
<1>5. \A m \in {Asked(c), Told(c)} :
        /\ m \in Seq(Bytes) /\ Len(m) = 1 /\ m \o <<>> = m
        /\ SubSeq(m, 1, 1) = m /\ SubSeq(m, 2, Len(m)) = <<>>
  <2> TAKE m \in {Asked(c), Told(c)}
  <2>1. PICK a \in Bytes : m = <<a>>
    BY <1>3
  <2> QED BY <1>2, <2>1
<1> QED BY <1>4, <1>5

\* A step that neither reads nor writes, and may take the Socket of the server away.
LEMMA QuietForGet ==
  ASSUME Domains, NEW c \in Conns, Short(c), ServerSide(c), ClientSide(c), UNCHANGED request,
         \A e \in {ClientOf(c), ServerOf(c)} :
           point'[e] = point[e] /\ buf'[e] = buf[e] /\ want'[e] = want[e]
             /\ (Done(e)' <=> Done(e)),
         wire'[ClientOf(c)] = wire[ClientOf(c)],
         sock'[ClientOf(c)] = sock[ClientOf(c)],
         sock'[ServerOf(c)] # "closed" =>
           sock[ServerOf(c)] # "closed" /\ wire'[ServerOf(c)] = wire[ServerOf(c)]
  PROVE  ServerSide(c)' /\ ClientSide(c)'
<1>1. /\ KeySize(c)' = KeySize(c) /\ Keys(c)' = Keys(c) /\ Answer(c)' = Answer(c)
      /\ Asked(c)' = Asked(c) /\ Told(c)' = Told(c)
  BY DEF KeySize, Keys, Answer, Asked, Told, Size
<1>2. (Waits(c)' <=> Waits(c)) /\ Sent(c)' = Sent(c)
  BY <1>1 DEF Waits, Sent
<1>3. ClientSide(c)'
  BY <1>1, <1>2 DEF ClientSide
<1>4. ServerSide(c)'
  BY <1>1, <1>2
  DEF ServerSide, NothingRead, SizeIsRead, KeyIsRead, SizeIsTold, Answered
<1> QED BY <1>3, <1>4

GetInv(c) == ServerSide(c) /\ ClientSide(c)

\* Nothing happens to e but what happens to its wire.
KeptAt(e) ==
  /\ point'[e] = point[e] /\ buf'[e] = buf[e] /\ want'[e] = want[e]
  /\ Done(e)' <=> Done(e)
  /\ sock'[e] = sock[e]

LEMMA MessagesAreKept ==
  ASSUME UNCHANGED request, NEW c
  PROVE  /\ KeySize(c)' = KeySize(c) /\ Keys(c)' = Keys(c) /\ Answer(c)' = Answer(c)
         /\ Asked(c)' = Asked(c) /\ Told(c)' = Told(c)
         /\ Short(c)' <=> Short(c)
  BY DEF KeySize, Keys, Answer, Asked, Told, Size, Short, IsGet

\* The client is thrown out of its program, or leaves it for a size it cannot have.
LEMMA ClientGivesUp ==
  ASSUME Domains, NEW c \in Conns, Short(c), GetInv(c), UNCHANGED request,
         KeptAt(ServerOf(c)), wire'[ServerOf(c)] = wire[ServerOf(c)],
         point'[ClientOf(c)] = point[ClientOf(c)], buf'[ClientOf(c)] = buf[ClientOf(c)],
         want'[ClientOf(c)] = want[ClientOf(c)],
         wire'[ClientOf(c)] = <<>>, sock'[ClientOf(c)] = "closed",
         \/ Done(ClientOf(c))' <=> Done(ClientOf(c))
         \/ point[ClientOf(c)] = "readSize" /\ Done(ClientOf(c)) /\ ~Done(ClientOf(c))'
  PROVE  GetInv(c)'
<1> USE DEF GetInv
<1>1. Sent(c)' = Sent(c)
  BY MessagesAreKept DEF Sent
<1>2. Waits(c) => Waits(c)'
  BY DEF Waits
<1>3. ClientSide(c)'
  BY MessagesAreKept DEF ClientSide, Waits
<1>4. ServerSide(c)'
  BY MessagesAreKept, <1>1, <1>2
  DEF ServerSide, NothingRead, SizeIsRead, KeyIsRead, SizeIsTold, Answered, KeptAt
<1> QED BY <1>3, <1>4

\* The client connects, or goes on to the next write, or to the read of the size.
LEMMA ClientGoesOn ==
  ASSUME Domains, NEW c \in Conns, Short(c), GetInv(c), UNCHANGED request,
         KeptAt(ServerOf(c)), wire'[ServerOf(c)] = wire[ServerOf(c)],
         buf'[ClientOf(c)] = buf[ClientOf(c)], wire'[ClientOf(c)] = wire[ClientOf(c)],
         sock[ClientOf(c)] # "closed", sock'[ClientOf(c)] # "closed",
         \/ point[ClientOf(c)] = "connect" /\ point'[ClientOf(c)] = "connect"
         \/ /\ Done(ClientOf(c)) /\ ~Done(ClientOf(c))' /\ want'[ClientOf(c)] = 1
            /\ <<point[ClientOf(c)], point'[ClientOf(c)]>> \in
                 {<<"connect", "writeSize">>, <<"writeSize", "writeStr">>, <<"writeStr", "readSize">>}
  PROVE  GetInv(c)'
<1> USE DEF GetInv
<1>1. Sent(c)' = Sent(c)
  BY MessagesAreKept DEF Sent
<1>2. Waits(c) /\ Waits(c)'
  BY DEF Waits
<1>3. ClientSide(c)'
  BY MessagesAreKept, <1>2 DEF ClientSide
<1>4. ServerSide(c)'
  BY MessagesAreKept, <1>1, <1>2
  DEF ServerSide, NothingRead, SizeIsRead, KeyIsRead, SizeIsTold, Answered, KeptAt
<1> QED BY <1>3, <1>4

\* The client writes the size of the key, or the key.
LEMMA ClientWrites ==
  ASSUME Domains, Data, NEW c \in Conns, Short(c), GetInv(c), UNCHANGED request,
         KeptAt(ServerOf(c)),
         point'[ClientOf(c)] = point[ClientOf(c)], buf'[ClientOf(c)] = buf[ClientOf(c)],
         want'[ClientOf(c)] = want[ClientOf(c)], wire'[ClientOf(c)] = wire[ClientOf(c)],
         sock'[ClientOf(c)] = sock[ClientOf(c)],
         ~Done(ClientOf(c)), Done(ClientOf(c))',
         NEW m \in {Asked(c), Keys(c)},
         \/ point[ClientOf(c)] = "writeSize" /\ m = Asked(c)
         \/ point[ClientOf(c)] = "writeStr" /\ m = Keys(c),
         sock[ServerOf(c)] # "closed" => wire'[ServerOf(c)] = wire[ServerOf(c)] \o m
  PROVE  GetInv(c)'
<1> USE DEF GetInv
<1>1. Sent(c)' = Sent(c) \o m
  <2>1. point[ClientOf(c)] = "writeSize" => Sent(c) = <<>> /\ Sent(c)' = Asked(c)
    BY MessagesAreKept DEF Sent
  <2>2. point[ClientOf(c)] = "writeStr" => Sent(c) = Asked(c) /\ Sent(c)' = Asked(c) \o Keys(c)
    BY MessagesAreKept DEF Sent
  <2>3. <<>> \o Asked(c) = Asked(c)
    BY MessagesFollow, JoinFacts
  <2> QED BY <2>1, <2>2, <2>3
<1>2. Waits(c) /\ Waits(c)'
  BY DEF Waits
<1>3. ClientSide(c)'
  BY MessagesAreKept, <1>2 DEF ClientSide
<1>4. ASSUME sock[ServerOf(c)] # "closed", Sent(c) = Asked(c) \o wire[ServerOf(c)]
      PROVE  /\ wire[ServerOf(c)] = <<>> /\ m = Keys(c)
             /\ wire'[ServerOf(c)] = Keys(c) /\ Sent(c)' = Asked(c) \o Keys(c)
  <2>1. wire[ServerOf(c)] \in Seq(Bytes) /\ Keys(c) \in Seq(Bytes)
    BY EndNames, MessageFacts DEF Data
  <2>2. Sent(c) # <<>>
    BY <1>4, <2>1, MessagesFollow
  <2>3. point[ClientOf(c)] = "writeStr" /\ m = Keys(c) /\ Sent(c) = Asked(c)
    BY <2>2 DEF Sent
  <2>4. wire[ServerOf(c)] = <<>>
    <3>1. Asked(c) \o <<>> = Asked(c) \o wire[ServerOf(c)] /\ <<>> \in Seq(Bytes)
      BY <1>4, <2>3, MessagesFollow
    <3> QED BY <2>1, <3>1, MessagesFollow
  <2>5. <<>> \o Keys(c) = Keys(c)
    BY <2>1, JoinFacts
  <2> QED BY <1>1, <1>4, <2>3, <2>4, <2>5
<1>5. ASSUME sock[ServerOf(c)] # "closed", Sent(c) = Asked(c) \o Keys(c), wire[ServerOf(c)] = <<>>
      PROVE  wire'[ServerOf(c)] = <<>> /\ Sent(c)' = Asked(c) \o Keys(c)
  <2>1. Keys(c) \in Seq(Bytes) /\ <<>> \in Seq(Bytes)
    BY MessageFacts
  <2>2. Sent(c) # <<>>
    BY <1>5, <2>1, MessagesFollow
  <2>3. point[ClientOf(c)] = "writeStr" /\ m = Keys(c) /\ Sent(c) = Asked(c)
    BY <2>2 DEF Sent
  <2>4. Keys(c) = <<>>
    <3>1. Asked(c) \o <<>> = Asked(c) \o Keys(c)
      BY <1>5, <2>3, MessagesFollow
    <3> QED BY <2>1, <3>1, MessagesFollow
  <2>5. <<>> \o <<>> = <<>>
    BY <2>1, JoinFacts
  <2> QED BY <1>1, <1>5, <2>3, <2>4, <2>5
<1>6. ServerSide(c)'
  <2> SUFFICES ASSUME sock[ServerOf(c)] # "closed" PROVE ServerSide(c)'
    BY DEF ServerSide, KeptAt
  <2>1. CASE NothingRead(c)
    <3>1. NothingRead(c)'
      BY <2>1, <1>1, <1>2 DEF NothingRead, KeptAt
    <3> QED BY <3>1 DEF ServerSide
  <2>2. CASE SizeIsRead(c)
    <3>1. SizeIsRead(c)'
      BY <2>2, <1>2, <1>4, MessagesAreKept DEF SizeIsRead, KeptAt
    <3> QED BY <3>1 DEF ServerSide
  <2>3. CASE KeyIsRead(c)
    <3>1. KeyIsRead(c)'
      BY <2>3, <1>2, <1>5, MessagesAreKept DEF KeyIsRead, KeptAt
    <3> QED BY <3>1 DEF ServerSide
  <2>4. CASE SizeIsTold(c)
    <3>1. SizeIsTold(c)'
      BY <2>4, <1>2, <1>5, MessagesAreKept DEF SizeIsTold, KeptAt
    <3> QED BY <3>1 DEF ServerSide
  <2>5. CASE Answered(c)
    <3>1. Answered(c)'
      BY <2>5, <1>2, <1>5, MessagesAreKept DEF Answered, KeptAt
    <3> QED BY <3>1 DEF ServerSide
  <2> QED BY <2>1, <2>2, <2>3, <2>4, <2>5 DEF ServerSide
<1> QED BY <1>3, <1>6

\* The client reads the size of the answer, or the answer.
LEMMA ClientReads ==
  ASSUME Domains, Data, NEW c \in Conns, Short(c), GetInv(c), UNCHANGED request,
         KeptAt(ServerOf(c)), wire'[ServerOf(c)] = wire[ServerOf(c)],
         point[ClientOf(c)] \in {"readSize", "readStr"},
         point'[ClientOf(c)] = point[ClientOf(c)],
         want'[ClientOf(c)] = want[ClientOf(c)], sock'[ClientOf(c)] = sock[ClientOf(c)],
         sock[ClientOf(c)] # "closed",
         ~Done(ClientOf(c)), Done(ClientOf(c))',
         Len(wire[ClientOf(c)]) >= want[ClientOf(c)],
         buf'[ClientOf(c)] = SubSeq(wire[ClientOf(c)], 1, want[ClientOf(c)]),
         wire'[ClientOf(c)] =
           SubSeq(wire[ClientOf(c)], want[ClientOf(c)] + 1, Len(wire[ClientOf(c)]))
  PROVE  GetInv(c)'
<1> USE DEF GetInv
<1>1. Sent(c)' = Sent(c)
  BY MessagesAreKept DEF Sent
<1>2. Len(<<>>) = 0 /\ Answer(c) \in Seq(Bytes)
  BY MessageFacts
<1>3. CASE point[ClientOf(c)] = "readSize"
  <2>1. Waits(c) /\ ~Waits(c)' /\ want[ClientOf(c)] = 1
    BY <1>3 DEF Waits, ClientSide
  <2>2. wire[ClientOf(c)] # <<>>
    BY <1>2, <2>1
  <2>3. wire[ClientOf(c)] \in {Told(c), Told(c) \o Answer(c)} /\ 2 * KeySize(c) < Chars
    BY <2>1, <2>2 DEF ClientSide
  <2> DEFINE w == wire[ClientOf(c)]
  <2>4. buf'[ClientOf(c)] = SubSeq(w, 1, 1) /\ wire'[ClientOf(c)] = SubSeq(w, 2, Len(w))
    BY <2>1
  <2> HIDE DEF w
  <2>5. w = Told(c) => wire'[ClientOf(c)] = <<>> /\ buf'[ClientOf(c)] = Told(c)
    BY <2>4, MessagesFollow
  <2>6. w = Told(c) \o Answer(c) => wire'[ClientOf(c)] = Answer(c) /\ buf'[ClientOf(c)] = Told(c)
    <3>1. /\ SubSeq(Told(c) \o Answer(c), 1, 1) = Told(c)
          /\ SubSeq(Told(c) \o Answer(c), 2, Len(Told(c) \o Answer(c))) = Answer(c)
      BY <1>2, MessagesFollow
    <3> QED BY <2>4, <3>1
  <2> USE DEF w
  <2>7. buf'[ClientOf(c)] = Told(c) /\ wire'[ClientOf(c)] \in {<<>>, Answer(c)}
    BY <2>3, <2>5, <2>6
  <2>8. ClientSide(c)'
    BY <1>3, <2>1, <2>3, <2>7, MessagesAreKept DEF ClientSide
  <2>9. SizeIsTold(c) => SizeIsTold(c)'
    BY <1>1, <2>1, <2>5, MessagesAreKept DEF SizeIsTold, KeptAt
  <2>10. Answered(c) => Answered(c)'
    BY <1>1, MessagesAreKept DEF Answered, KeptAt
  <2>11. ServerSide(c)'
    BY <2>2, <2>9, <2>10 DEF ServerSide, NothingRead, SizeIsRead, KeyIsRead, KeptAt
  <2> QED BY <2>8, <2>11
<1>4. CASE point[ClientOf(c)] = "readStr"
  <2>1. ~Waits(c) /\ ~Waits(c)'
    BY <1>4 DEF Waits
  <2>2. want[ClientOf(c)] = KeySize(c) + SuffixSize /\ wire[ClientOf(c)] \in {<<>>, Answer(c)}
    BY <1>4 DEF ClientSide
  <2>3. Len(Answer(c)) = KeySize(c) + SuffixSize /\ KeySize(c) + SuffixSize \in Nat
    BY MessageFacts, ExchangeAssumption
  <2>4. wire[ClientOf(c)] = Answer(c)
    BY <1>2, <2>2, <2>3, JoinFacts
  <2>5. buf'[ClientOf(c)] = Answer(c) /\ wire'[ClientOf(c)] = <<>>
    BY <1>2, <2>2, <2>3, <2>4, JoinFacts
  <2>6. ClientSide(c)'
    BY <1>4, <2>1, <2>5, MessagesAreKept DEF ClientSide
  <2>7. SizeIsTold(c) => SizeIsTold(c)'
    BY <1>1, <2>1, <2>5, MessagesAreKept DEF SizeIsTold, KeptAt
  <2>8. Answered(c) => Answered(c)'
    BY <1>1, MessagesAreKept DEF Answered, KeptAt
  <2>9. ServerSide(c)'
    BY <2>1, <2>7, <2>8 DEF ServerSide, NothingRead, SizeIsRead, KeyIsRead, KeptAt
  <2> QED BY <2>6, <2>9
<1> QED BY <1>3, <1>4

\* The client makes a buffer of the size it was told, or returns the answer.
LEMMA ClientTakes ==
  ASSUME Domains, NEW c \in Conns, Short(c), GetInv(c), UNCHANGED request,
         KeptAt(ServerOf(c)), wire'[ServerOf(c)] = wire[ServerOf(c)],
         Done(ClientOf(c)), ~Done(ClientOf(c))', buf'[ClientOf(c)] = buf[ClientOf(c)],
         \/ /\ point[ClientOf(c)] = "readSize" /\ point'[ClientOf(c)] = "readStr"
            /\ want'[ClientOf(c)] \in SizesIn(buf[ClientOf(c)])
            /\ wire'[ClientOf(c)] = wire[ClientOf(c)] /\ sock'[ClientOf(c)] = sock[ClientOf(c)]
         \/ /\ point[ClientOf(c)] = "readStr" /\ point'[ClientOf(c)] = "returned"
            /\ wire'[ClientOf(c)] = <<>> /\ sock'[ClientOf(c)] = "closed"
  PROVE  GetInv(c)'
<1> USE DEF GetInv
<1>1. Sent(c)' = Sent(c)
  BY MessagesAreKept DEF Sent
<1>2. ~Waits(c) /\ ~Waits(c)'
  BY DEF Waits
<1>3. point[ClientOf(c)] = "readSize" => want'[ClientOf(c)] = KeySize(c) + SuffixSize
  BY MessageFacts DEF ClientSide
<1>4. ClientSide(c)'
  BY <1>2, <1>3, MessagesAreKept DEF ClientSide
<1>5. SizeIsTold(c) => SizeIsTold(c)'
  BY <1>1, <1>2, MessagesAreKept DEF SizeIsTold, KeptAt
<1>6. Answered(c) => Answered(c)'
  BY <1>1, MessagesAreKept DEF Answered, KeptAt
<1>7. ServerSide(c)'
  BY <1>2, <1>5, <1>6 DEF ServerSide, NothingRead, SizeIsRead, KeyIsRead, KeptAt
<1> QED BY <1>4, <1>7

\* The handler is thrown out, or cannot have a buffer of the size it has read.
LEMMA ServerGivesUp ==
  ASSUME NEW c \in Conns, GetInv(c), UNCHANGED request,
         KeptAt(ClientOf(c)), wire'[ClientOf(c)] = wire[ClientOf(c)],
         sock'[ServerOf(c)] = "closed"
  PROVE  GetInv(c)'
<1>1. Waits(c)' <=> Waits(c)
  BY DEF Waits, KeptAt
<1> QED BY <1>1, MessagesAreKept DEF GetInv, ServerSide, ClientSide, KeptAt

\* What the client sees of a step of the handler that does not write.
LEMMA ClientIsKept ==
  ASSUME NEW c \in Conns, ClientSide(c), UNCHANGED request,
         KeptAt(ClientOf(c)), wire'[ClientOf(c)] = wire[ClientOf(c)]
  PROVE  ClientSide(c)' /\ Sent(c)' = Sent(c) /\ (Waits(c)' <=> Waits(c))
<1>1. Waits(c)' <=> Waits(c)
  BY DEF Waits, KeptAt
<1>2. Sent(c)' = Sent(c)
  BY MessagesAreKept DEF Sent, KeptAt
<1> QED BY <1>1, <1>2, MessagesAreKept DEF ClientSide, KeptAt

\* The handler reads the size of the key, or the key.
LEMMA ServerReads ==
  ASSUME Domains, Data, NEW c \in Conns, Short(c), GetInv(c), UNCHANGED request,
         KeptAt(ClientOf(c)), wire'[ClientOf(c)] = wire[ClientOf(c)],
         point[ServerOf(c)] \in {"readSize", "readStr"},
         point'[ServerOf(c)] = point[ServerOf(c)], sock[ServerOf(c)] # "closed",
         ~Done(ServerOf(c)), Done(ServerOf(c))',
         Len(wire[ServerOf(c)]) >= want[ServerOf(c)],
         buf'[ServerOf(c)] = SubSeq(wire[ServerOf(c)], 1, want[ServerOf(c)]),
         wire'[ServerOf(c)] =
           SubSeq(wire[ServerOf(c)], want[ServerOf(c)] + 1, Len(wire[ServerOf(c)]))
  PROVE  GetInv(c)'
<1> USE DEF GetInv
<1>1. ClientSide(c)' /\ Sent(c)' = Sent(c) /\ (Waits(c)' <=> Waits(c))
  BY ClientIsKept
<1>2. /\ Keys(c) \in Seq(Bytes) /\ wire[ServerOf(c)] \in Seq(Bytes) /\ <<>> \in Seq(Bytes)
      /\ Len(<<>>) = 0
  BY MessageFacts, EndNames DEF Data
<1>3. Sent(c) \in {<<>>, Asked(c), Asked(c) \o Keys(c)}
  BY DEF Sent
<1>4. CASE point[ServerOf(c)] = "readSize"
  <2>1. NothingRead(c)
    <3>1. ~Answered(c)
      BY <1>2, <1>4 DEF Answered
    <3> QED BY <1>4, <3>1 DEF ServerSide, SizeIsRead, KeyIsRead, SizeIsTold
  <2>2. want[ServerOf(c)] = 1 /\ wire[ServerOf(c)] = Sent(c) /\ Sent(c) # <<>>
    BY <1>2, <2>1 DEF NothingRead
  <2>3. CASE Sent(c) = Asked(c)
    <3>1. buf'[ServerOf(c)] = Asked(c) /\ wire'[ServerOf(c)] = <<>> /\ Asked(c) = Asked(c) \o <<>>
      BY <2>2, <2>3, MessagesFollow
    <3> QED BY <1>1, <1>4, <2>1, <2>3, <3>1, MessagesAreKept
            DEF NothingRead, ServerSide, SizeIsRead, KeptAt
  <2>4. CASE Sent(c) = Asked(c) \o Keys(c)
    <3>1. buf'[ServerOf(c)] = Asked(c) /\ wire'[ServerOf(c)] = Keys(c)
      BY <1>2, <2>2, <2>4, MessagesFollow
    <3> QED BY <1>1, <1>4, <2>1, <2>4, <3>1, MessagesAreKept
            DEF NothingRead, ServerSide, SizeIsRead, KeptAt
  <2> QED BY <1>3, <2>2, <2>3, <2>4
<1>5. CASE point[ServerOf(c)] = "readStr"
  <2>1. SizeIsRead(c) /\ want[ServerOf(c)] = KeySize(c) /\ 2 * KeySize(c) < Chars
    BY <1>5 DEF ServerSide, NothingRead, SizeIsRead, KeyIsRead, SizeIsTold, Answered
  <2>2. Sent(c) = Asked(c) \o wire[ServerOf(c)] /\ wire[ClientOf(c)] = <<>> /\ Waits(c)
    BY <2>1 DEF SizeIsRead
  <2>3. wire[ServerOf(c)] \in {<<>>, Keys(c)}
    <3>1. Asked(c) = Asked(c) \o <<>> /\ Asked(c) \o wire[ServerOf(c)] # <<>>
      BY <1>2, MessagesFollow
    <3>2. Asked(c) \o wire[ServerOf(c)] \in {Asked(c) \o <<>>, Asked(c) \o Keys(c)}
      BY <1>3, <2>2, <3>1
    <3> QED BY <1>2, <3>2, MessagesFollow
  <2>4. Len(Keys(c)) = KeySize(c) /\ KeySize(c) \in Nat
    BY MessageFacts, ExchangeAssumption
  <2>5. wire[ServerOf(c)] = Keys(c)
    BY <1>2, <2>1, <2>3, <2>4, JoinFacts
  <2>6. buf'[ServerOf(c)] = Keys(c) /\ wire'[ServerOf(c)] = <<>>
    BY <1>2, <2>1, <2>4, <2>5, JoinFacts
  <2>7. KeyIsRead(c)'
    BY <1>1, <1>5, <2>1, <2>2, <2>5, <2>6, MessagesAreKept DEF KeyIsRead, KeptAt
  <2> QED BY <1>1, <2>7 DEF ServerSide
<1> QED BY <1>4, <1>5

\* The handler makes a buffer of the size it has read, or goes on to a write, or to the
\* next read.
LEMMA ServerGoesOn ==
  ASSUME Domains, NEW c \in Conns, Short(c), GetInv(c), UNCHANGED request,
         KeptAt(ClientOf(c)), wire'[ClientOf(c)] = wire[ClientOf(c)],
         wire'[ServerOf(c)] = wire[ServerOf(c)], buf'[ServerOf(c)] = buf[ServerOf(c)],
         sock[ServerOf(c)] # "closed",
         Done(ServerOf(c)), ~Done(ServerOf(c))',
         \/ /\ point[ServerOf(c)] = "readSize" /\ point'[ServerOf(c)] = "readStr"
            /\ want'[ServerOf(c)] \in SizesIn(buf[ServerOf(c)]) /\ 2 * want'[ServerOf(c)] < Chars
         \/ /\ want'[ServerOf(c)] = 1
            /\ <<point[ServerOf(c)], point'[ServerOf(c)]>> \in
                 {<<"readStr", "writeSize">>, <<"writeSize", "writeStr">>, <<"writeStr", "readSize">>}
  PROVE  GetInv(c)'
<1> USE DEF GetInv
<1>1. ClientSide(c)' /\ Sent(c)' = Sent(c) /\ (Waits(c)' <=> Waits(c))
  BY ClientIsKept
<1>2. CASE point[ServerOf(c)] = "readSize"
  <2>1. SizeIsRead(c) /\ buf[ServerOf(c)] = Asked(c)
    BY <1>2 DEF ServerSide, NothingRead, SizeIsRead, KeyIsRead, SizeIsTold, Answered
  <2>2. want'[ServerOf(c)] = KeySize(c) /\ 2 * KeySize(c) < Chars
    BY <1>2, <2>1, MessageFacts
  <2>3. SizeIsRead(c)'
    BY <1>1, <1>2, <2>1, <2>2, MessagesAreKept DEF SizeIsRead, KeptAt
  <2> QED BY <1>1, <2>3 DEF ServerSide
<1>3. CASE point[ServerOf(c)] = "readStr"
  <2>1. KeyIsRead(c)
    BY <1>3 DEF ServerSide, NothingRead, SizeIsRead, KeyIsRead, SizeIsTold, Answered
  <2>2. KeyIsRead(c)'
    BY <1>1, <1>3, <2>1, MessagesAreKept DEF KeyIsRead, KeptAt
  <2> QED BY <1>1, <2>2 DEF ServerSide
<1>4. CASE point[ServerOf(c)] = "writeSize"
  <2>1. SizeIsTold(c)
    BY <1>4 DEF ServerSide, NothingRead, SizeIsRead, KeyIsRead, SizeIsTold, Answered
  <2>2. SizeIsTold(c)'
    BY <1>1, <1>4, <2>1, MessagesAreKept DEF SizeIsTold, KeptAt
  <2> QED BY <1>1, <2>2 DEF ServerSide
<1>5. CASE point[ServerOf(c)] = "writeStr"
  <2>1. Answered(c)
    BY <1>5 DEF ServerSide, NothingRead, SizeIsRead, KeyIsRead, SizeIsTold, Answered
  <2>2. Answered(c)'
    BY <1>1, <1>5, <2>1, MessagesAreKept DEF Answered, KeptAt
  <2> QED BY <1>1, <2>2 DEF ServerSide
<1> QED BY <1>2, <1>3, <1>4, <1>5

\* The handler writes the size of the answer, or the answer.
LEMMA ServerWrites ==
  ASSUME Domains, Data, NEW c \in Conns, Short(c), GetInv(c), UNCHANGED request,
         KeptAt(ClientOf(c)),
         point[ServerOf(c)] \in {"writeSize", "writeStr"},
         point'[ServerOf(c)] = point[ServerOf(c)], buf'[ServerOf(c)] = buf[ServerOf(c)],
         want'[ServerOf(c)] = want[ServerOf(c)], wire'[ServerOf(c)] = wire[ServerOf(c)],
         sock[ServerOf(c)] # "closed",
         ~Done(ServerOf(c)), Done(ServerOf(c))',
         NEW m, m = IF point[ServerOf(c)] = "writeSize" THEN <<SizeByte(AnswerSize(ServerOf(c)))>>
                    ELSE SentByServer(ServerOf(c)),
         wire'[ClientOf(c)] =
           IF sock[ClientOf(c)] = "closed" THEN wire[ClientOf(c)] ELSE wire[ClientOf(c)] \o m
  PROVE  GetInv(c)'
<1> USE DEF GetInv
<1>1. Sent(c)' = Sent(c) /\ (Waits(c)' <=> Waits(c))
  BY MessagesAreKept DEF Sent, Waits, KeptAt
<1>2. buf[ServerOf(c)] = Keys(c) /\ 2 * KeySize(c) < Chars
  BY DEF ServerSide, NothingRead, SizeIsRead, KeyIsRead, SizeIsTold, Answered
<1>3. SentByServer(ServerOf(c)) = Answer(c) /\ AnswerSize(ServerOf(c)) = KeySize(c) + SuffixSize
  BY <1>2, MessageFacts DEF SentByServer, AnswerSize, Answer
<1>4. <<>> \o Told(c) = Told(c) /\ <<>> \o Answer(c) = Answer(c)
  BY MessageFacts, MessagesFollow, JoinFacts
<1>5. CASE point[ServerOf(c)] = "writeSize"
  <2>1. KeyIsRead(c) /\ m = Told(c)
    BY <1>3, <1>5 DEF ServerSide, NothingRead, SizeIsRead, KeyIsRead, SizeIsTold, Answered, Told
  <2>2. wire'[ClientOf(c)] = IF sock[ClientOf(c)] = "closed" THEN <<>> ELSE Told(c)
    BY <1>4, <2>1 DEF KeyIsRead
  <2>3. Waits(c)
    BY <2>1 DEF KeyIsRead
  <2>4. ClientSide(c)'
    BY <1>1, <1>2, <2>2, <2>3, MessagesAreKept DEF ClientSide, KeptAt, Waits
  <2>5. SizeIsTold(c)'
    BY <1>1, <1>5, <2>1, <2>2, <2>3, MessagesAreKept DEF SizeIsTold, KeyIsRead, KeptAt
  <2> QED BY <2>4, <2>5 DEF ServerSide
<1>6. CASE point[ServerOf(c)] = "writeStr"
  <2>1. SizeIsTold(c) /\ m = Answer(c)
    BY <1>3, <1>6 DEF ServerSide, NothingRead, SizeIsRead, KeyIsRead, SizeIsTold, Answered
  <2>2. sock[ClientOf(c)] # "closed" =>
          wire'[ClientOf(c)] = IF Waits(c) THEN Told(c) \o Answer(c) ELSE Answer(c)
    BY <1>4, <2>1 DEF SizeIsTold
  <2>3. ClientSide(c)'
    BY <1>1, <1>2, <2>2, MessagesAreKept DEF ClientSide, KeptAt, Waits
  <2>4. Answered(c)'
    BY <1>1, <1>6, <2>1, MessagesAreKept DEF SizeIsTold, Answered, KeptAt
  <2> QED BY <2>3, <2>4 DEF ServerSide
<1> QED BY <1>5, <1>6

LEMMA WriteIsLocal ==
  ASSUME Domains, Data, NEW e \in Ends, NEW m, Write(e, m), ~Fails(e), UNCHANGED progVars
  PROVE  /\ KeptAt(Peer(e)) /\ UNCHANGED request
         /\ point'[e] = point[e] /\ buf'[e] = buf[e] /\ want'[e] = want[e]
         /\ wire'[e] = wire[e] /\ sock'[e] = sock[e] /\ ~Done(e) /\ Done(e)'
         /\ wire'[Peer(e)] = IF sock[Peer(e)] = "closed" THEN wire[Peer(e)] ELSE wire[Peer(e)] \o m
<1>1. e \in Journeys /\ Peer(e) \in Ends /\ Peer(e) # e
  BY EndNames
<1>2. /\ op[e] = "outstanding" /\ op' = [op EXCEPT ![e] = "completed"]
      /\ err' = [err EXCEPT ![e] = FALSE]
      /\ UNCHANGED <<buf, sock, request, point, want>>
      /\ wire' = IF sock[Peer(e)] = "closed" THEN wire
                 ELSE [wire EXCEPT ![Peer(e)] = wire[Peer(e)] \o m]
  BY DEF Write, Completes, PeerGone, progVars
<1> QED BY <1>1, <1>2 DEF Domains, Data, Done, KeptAt

\* How the steps of an end are made of the ones above.
LEMMA ClientKeepsGet ==
  ASSUME Control, Data, NEW c \in Conns, Short(c), GetInv(c), Step(ClientOf(c))
  PROVE  GetInv(c)'
<1> DEFINE e == ClientOf(c)
           s == ServerOf(c)
<1>1. /\ e \in Ends /\ e \in Journeys /\ s \in Ends /\ s \in Journeys /\ e # s
      /\ Peer(e) = s /\ e \in Clients /\ e \notin Servers /\ IsGet(e) /\ point[e] \in GetPoints
      /\ e # Acceptor
  BY EndNames DEF Short, Control, Points
<1>2. Domains
  BY DEF Control
<1> USE <1>1, <1>2
<1> USE DEF Domains, Data, Done
<1>3. CASE Start(e)
  BY <1>3, QuietForGet
  DEF Start, DeferIo, SetAt, wireVars, progVars, GetInv, Control, Frames
<1>4. CASE Complete(e)
  <2>0. /\ op[e] = "outstanding" /\ op' = [op EXCEPT ![e] = "completed"]
        /\ UNCHANGED progVars /\ sock[e] # "closed"
    BY <1>4, EndSteps DEF Complete, Operation, Resolve, Connect, Write, Read, PartialRead,
       Receive, Fails, Completes, GetPoints, Control, Frames, Sockets
  <2>1. CASE Fails(e)
    BY <2>0, <2>1, QuietForGet DEF Fails, Completes, wireVars, progVars, GetInv
  <2>2. CASE point[e] = "connect" /\ Connect(e, IsGet(e)) /\ ~Fails(e)
    BY <2>0, <2>2, ClientGoesOn DEF Connect, Completes, progVars, KeptAt
  <2>3. CASE point[e] = "writeSize" /\ Write(e, <<SizeByte(Size(e))>>) /\ ~Fails(e)
    <3>1. <<SizeByte(Size(e))>> = Asked(c)
      BY DEF Asked, KeySize
    <3> HIDE DEF Domains, Data, Done
    <3> QED BY <2>0, <2>3, <3>1, WriteIsLocal, ClientWrites
  <2>4. CASE point[e] = "writeStr" /\ Write(e, SentByClient(e)) /\ ~Fails(e)
    <3>1. SentByClient(e) = Keys(c)
      BY DEF SentByClient, Keys, KeySize
    <3> HIDE DEF Domains, Data, Done
    <3> QED BY <2>0, <2>4, <3>1, WriteIsLocal, ClientWrites
  <2>5. CASE point[e] \in {"readSize", "readStr"} /\ Read(e, want[e]) /\ ~Fails(e)
    BY <2>0, <2>5, ClientReads DEF Read, Receive, Completes, progVars, KeptAt
  <2> QED BY <1>4, <2>1, <2>2, <2>3, <2>4, <2>5 DEF Complete, Operation, GetPoints
<1>5. ASSUME Over(e)
      PROVE  /\ sock' = [sock EXCEPT ![e] = "closed"] /\ wire'[s] = wire[s] /\ wire'[e] = <<>>
  BY <1>5, OverClosesOne DEF Over, Closed
<1>6. CASE Throw(e)
  BY <1>5, <1>6, ClientGivesUp
  DEF Throw, EventBefore, ThrowAfter, progVars, KeptAt
<1>7. CASE Advance(e)
  <2>1. \E p \in After(e) : Continue(e, p)
    BY <1>7 DEF Advance
  <2>2. PICK p \in {"writeSize", "writeStr", "readSize"} :
          Continue(e, p)
            /\ <<point[e], p>> \in
                 {<<"connect", "writeSize">>, <<"writeSize", "writeStr">>, <<"writeStr", "readSize">>}
    BY <2>1 DEF After, GetPoints
  <2>3. /\ at[e] = "suspended" /\ Done(e) /\ op' = [op EXCEPT ![e] = "outstanding"]
        /\ point' = [point EXCEPT ![e] = p] /\ want' = [want EXCEPT ![e] = 1]
        /\ UNCHANGED <<err, buf, wire, sock, request>>
    BY <1>7, <2>2 DEF Advance, Continue, DeferIoAgain, Resumable, Go, Want, wireVars
  <2>4. /\ KeptAt(s) /\ Domains /\ sock[e] # "closed" /\ wire'[s] = wire[s]
        /\ buf'[e] = buf[e] /\ wire'[e] = wire[e] /\ sock'[e] = sock[e]
        /\ Done(e) /\ ~Done(e)' /\ want'[e] = 1 /\ point'[e] = p
    BY <2>2, <2>3 DEF KeptAt, Control, Sockets
  <2> HIDE DEF Domains, Data, Done
  <2> QED BY <2>2, <2>3, <2>4, ClientGoesOn
<1>8. CASE SizeRead(e)
  <2>1. CASE Fail(e)
    BY <1>5, <1>8, <2>1, ClientGivesUp DEF SizeRead, Fail, Returns, Resumable, progVars, KeptAt
  <2>2. CASE ~Fail(e)
    BY <1>8, <2>2, ClientTakes
    DEF SizeRead, Continue, DeferIoAgain, Resumable, Go, Want, wireVars, KeptAt
  <2> QED BY <2>1, <2>2
<1>9. CASE GetReturns(e)
  BY <1>5, <1>9, ClientTakes DEF GetReturns, Return, Returns, Resumable, Go, KeptAt
<1>10. ~HeadRead(e) /\ ~HeadRejected(e) /\ ~BodyRead(e) /\ ~ChunkRead(e)
  BY DEF HeadRead, HeadRejected, BodyRead, ChunkRead, GetPoints
<1> QED BY <1>3, <1>4, <1>6, <1>7, <1>8, <1>9, <1>10 DEF Step

LEMMA ServerKeepsGet ==
  ASSUME Control, Data, NEW c \in Conns, Short(c), GetInv(c), Step(ServerOf(c))
  PROVE  GetInv(c)'
<1> DEFINE e == ServerOf(c)
           s == ClientOf(c)
<1>1. /\ e \in Ends /\ e \in Journeys /\ s \in Ends /\ s \in Journeys /\ e # s
      /\ Peer(e) = s /\ e \notin Clients /\ e \in Servers /\ point[e] \in ServerPoints
      /\ e # Acceptor
  BY EndNames DEF Control, Points
<1>2. Domains
  BY DEF Control
<1> USE <1>1, <1>2
<1> USE DEF Domains, Data, Done
<1>3. CASE Start(e)
  BY <1>3, QuietForGet
  DEF Start, DeferIo, SetAt, wireVars, progVars, GetInv, Control, Frames
<1>4. CASE Complete(e)
  <2>0. /\ op[e] = "outstanding" /\ op' = [op EXCEPT ![e] = "completed"]
        /\ UNCHANGED progVars /\ sock[e] # "closed"
    BY <1>4, EndSteps DEF Complete, Operation, Resolve, Connect, Write, Read, PartialRead,
       Receive, Fails, Completes, ServerPoints, Control, Frames, Sockets
  <2>1. CASE Fails(e)
    BY <2>0, <2>1, QuietForGet DEF Fails, Completes, wireVars, progVars, GetInv
  <2>2. CASE point[e] = "writeSize" /\ Write(e, <<SizeByte(AnswerSize(e))>>) /\ ~Fails(e)
    <3> HIDE DEF Domains, Data, Done
    <3> QED BY <2>0, <2>2, WriteIsLocal, ServerWrites
  <2>3. CASE point[e] = "writeStr" /\ Write(e, SentByServer(e)) /\ ~Fails(e)
    <3> HIDE DEF Domains, Data, Done
    <3> QED BY <2>0, <2>3, WriteIsLocal, ServerWrites
  <2>4. CASE point[e] \in {"readSize", "readStr"} /\ Read(e, want[e]) /\ ~Fails(e)
    BY <2>0, <2>4, ServerReads DEF Read, Receive, Completes, progVars, KeptAt
  <2> QED BY <1>4, <2>1, <2>2, <2>3, <2>4 DEF Complete, Operation, ServerPoints
<1>5. ASSUME Over(e)
      PROVE  /\ sock' = [sock EXCEPT ![e] = "closed"] /\ wire'[s] = wire[s]
  BY <1>5, OverClosesOne DEF Over, Closed
<1>6. CASE Throw(e)
  BY <1>5, <1>6, ServerGivesUp DEF Throw, EventBefore, ThrowAfter, progVars, KeptAt
<1>7. CASE Advance(e)
  <2>1. \E p \in After(e) : Continue(e, p)
    BY <1>7 DEF Advance
  <2>2. PICK p \in {"writeSize", "writeStr", "readSize"} :
          Continue(e, p)
            /\ <<point[e], p>> \in
                 {<<"readStr", "writeSize">>, <<"writeSize", "writeStr">>, <<"writeStr", "readSize">>}
    BY <2>1 DEF After, ServerPoints
  <2>3. /\ at[e] = "suspended" /\ Done(e) /\ op' = [op EXCEPT ![e] = "outstanding"]
        /\ point' = [point EXCEPT ![e] = p] /\ want' = [want EXCEPT ![e] = 1]
        /\ UNCHANGED <<err, buf, wire, sock, request>>
    BY <1>7, <2>2 DEF Advance, Continue, DeferIoAgain, Resumable, Go, Want, wireVars
  <2>4. /\ KeptAt(s) /\ Domains /\ sock[e] # "closed" /\ wire'[s] = wire[s]
        /\ buf'[e] = buf[e] /\ wire'[e] = wire[e]
        /\ Done(e) /\ ~Done(e)' /\ want'[e] = 1 /\ point'[e] = p
    BY <2>2, <2>3 DEF KeptAt, Control, Sockets
  <2> HIDE DEF Domains, Data, Done
  <2> QED BY <2>2, <2>3, <2>4, ServerGoesOn
<1>8. CASE SizeRead(e)
  <2>1. CASE Fail(e)
    BY <1>5, <1>8, <2>1, ServerGivesUp DEF SizeRead, Fail, Returns, Resumable, progVars, KeptAt
  <2>2. CASE ~Fail(e)
    <3>1. PICK n \in SizesIn(buf[e]) :
            Allocatable(n) /\ Continue(e, "readStr") /\ Want(e, n) /\ point[e] = "readSize"
      BY <1>8, <2>2 DEF SizeRead
    <3>2. /\ at[e] = "suspended" /\ Done(e) /\ op' = [op EXCEPT ![e] = "outstanding"]
          /\ point' = [point EXCEPT ![e] = "readStr"] /\ want' = [want EXCEPT ![e] = n]
          /\ UNCHANGED <<err, buf, wire, sock, request>>
      BY <3>1 DEF Continue, DeferIoAgain, Resumable, Go, Want, wireVars
    <3>3. /\ KeptAt(s) /\ Domains /\ sock[e] # "closed" /\ wire'[s] = wire[s]
          /\ buf'[e] = buf[e] /\ wire'[e] = wire[e]
          /\ Done(e) /\ ~Done(e)' /\ want'[e] = n /\ point'[e] = "readStr"
      BY <3>2 DEF KeptAt, Control, Sockets
    <3>4. 2 * n < Chars
      BY <3>1 DEF Allocatable
    <3> HIDE DEF Domains, Data, Done
    <3> QED BY <3>1, <3>2, <3>3, <3>4, ServerGoesOn
  <2> QED BY <2>1, <2>2
<1>9. ~GetReturns(e) /\ ~HeadRead(e) /\ ~HeadRejected(e) /\ ~BodyRead(e) /\ ~ChunkRead(e)
  BY DEF GetReturns, HeadRead, HeadRejected, BodyRead, ChunkRead, ServerPoints
<1> QED BY <1>3, <1>4, <1>6, <1>7, <1>8, <1>9 DEF Step

\* What the steps of others do to the ends of connection c.
LEMMA ElsewhereIsKept ==
  ASSUME Control, Data, NEW c \in Conns, NEW e \in Ends, e[1] # c, Step(e)
  PROVE  /\ UNCHANGED request /\ resp'[c] = resp[c]
         /\ \A x \in {ClientOf(c), ServerOf(c)} : KeptAt(x) /\ wire'[x] = wire[x]
<1> USE EndNames
<1>1. Stepped(e)
  BY EndSteps
<1>2. UNCHANGED request
  BY <1>1 DEF Stepped
<1> SUFFICES ASSUME NEW x \in {ClientOf(c), ServerOf(c)}
             PROVE  KeptAt(x) /\ wire'[x] = wire[x] /\ resp'[c] = resp[c]
  BY <1>2
<1>3. x \in Ends /\ x \in Journeys /\ x # e /\ x # Peer(e) /\ x # Acceptor /\ e # Acceptor
      /\ e[1] \in Conns
  OBVIOUS
<1>4. point'[x] = point[x] /\ (Done(x)' <=> Done(x)) /\ sock'[x] = sock[x]
  BY <1>1, <1>3
  DEF Stepped, Starts, Operates, Connects, EndsHere, Continues, Done, Control, Domains
<1>5. Over(e) => wire'[x] = wire[x]
  BY <1>3 DEF Over, Closed
<1>6. buf'[x] = buf[x] /\ want'[x] = want[x] /\ wire'[x] = wire[x] /\ resp'[c] = resp[c]
  <2> USE <1>3 DEF Data
  <2>1. CASE Start(e)
    BY <2>1 DEF Start, DeferIo, wireVars, progVars
  <2>2. CASE Complete(e)
    <3>1. UNCHANGED <<want, resp>>
      BY <2>2 DEF Complete, progVars
    <3>2. CASE Fails(e)
      BY <3>1, <3>2 DEF Fails, wireVars
    <3>3. ASSUME NEW n, Receive(e, n) PROVE buf'[x] = buf[x] /\ wire'[x] = wire[x]
      BY <3>3 DEF Receive
    <3>4. ASSUME NEW m, Write(e, m) PROVE buf'[x] = buf[x] /\ wire'[x] = wire[x]
      BY <3>4 DEF Write, Fails, wireVars
    <3>5. CASE Resolve(e) \/ Connect(e, IsGet(e))
      BY <3>1, <3>2, <3>5 DEF Resolve, Connect, wireVars
    <3>6. CASE Read(e, want[e]) \/ PartialRead(e, Len(wire[e]))
      BY <3>1, <3>2, <3>3, <3>6 DEF Read, PartialRead
    <3> QED BY <2>2, <3>1, <3>4, <3>5, <3>6 DEF Complete, Operation
  <2>3. CASE Throw(e)
    BY <2>3, <1>5 DEF Throw, EventBefore, ThrowAfter, progVars
  <2>4. ASSUME NEW p, Continue(e, p) PROVE buf'[x] = buf[x] /\ wire'[x] = wire[x]
    BY <2>4 DEF Continue, DeferIoAgain, wireVars
  <2>5. CASE Fail(e)
    BY <2>5, <1>5 DEF Fail, progVars
  <2>6. ASSUME Return(e) PROVE buf'[x] = buf[x] /\ wire'[x] = wire[x]
    BY <2>6, <1>5 DEF Return
  <2>7. CASE Advance(e)
    BY <2>7, <2>4 DEF Advance, Want
  <2>8. CASE SizeRead(e)
    BY <2>8, <2>4, <2>5 DEF SizeRead, Want
  <2>9. CASE GetReturns(e)
    BY <2>9, <2>6 DEF GetReturns, Return
  <2>10. CASE HeadRejected(e)
    BY <2>10, <2>5 DEF HeadRejected
  <2>11. CASE HeadRead(e) \/ BodyRead(e) \/ ChunkRead(e)
    <3>1. resp'[c] = resp[c]
      BY <2>11 DEF HeadRead, BodyRead, ChunkRead
    <3>2. want'[x] = want[x]
      BY <2>11 DEF HeadRead, BodyRead, ChunkRead, Want, Return
    <3>3. Return(e) \/ \E p \in {"readHead", "readBody", "readChunks"} : Continue(e, p)
      BY <2>11 DEF HeadRead, BodyRead, ChunkRead
    <3> QED BY <2>4, <2>6, <3>1, <3>2, <3>3
  <2> QED BY <2>1, <2>2, <2>3, <2>7, <2>8, <2>9, <2>10, <2>11 DEF Step
<1> QED BY <1>4, <1>6 DEF KeptAt

\* The acceptor opens the server's end, or closes what waits there.
LEMMA AcceptorIsQuiet ==
  ASSUME Control, Data, NEW c \in Conns, Serve \/ AcceptFails
  PROVE  /\ UNCHANGED request /\ resp'[c] = resp[c]
         /\ KeptAt(ClientOf(c)) /\ wire'[ClientOf(c)] = wire[ClientOf(c)]
         /\ LET s == ServerOf(c)
            IN  /\ point'[s] = point[s] /\ buf'[s] = buf[s] /\ want'[s] = want[s]
                /\ Done(s)' <=> Done(s)
                /\ \/ sock'[s] = sock[s] /\ wire'[s] = wire[s]
                   \/ sock'[s] = "closed" /\ IsGet(ClientOf(c))
                   \/ sock'[s] = "open" /\ sock[s] = "none" /\ wire'[s] = wire[s]
                        /\ IsGet(ClientOf(c))
<1> USE EndNames
<1>1. UNCHANGED <<request, buf, want, resp>>
  BY DEF Serve, AcceptFails, Start, DeferIo, Throw, EventBefore, ThrowAfter, Accepted, GoHandler,
         Release, CompleteAccept, Accept, Fails, progVars, netVars, ioVars
<1>2. ASSUME NEW e \in {ClientOf(c), ServerOf(c)}
      PROVE  point'[e] = point[e] /\ (Done(e)' <=> Done(e))
  <2>1. e # Acceptor /\ e \in Journeys
    OBVIOUS
  <2>2. point'[e] = point[e]
    BY <2>1
    DEF Serve, AcceptFails, Start, Throw, Accepted, GoHandler, Release, CompleteAccept, Go,
        progVars, Control, Domains
  <2>3. op'[e] = op[e]
    BY <2>1
    DEF Serve, AcceptFails, Start, DeferIo, Throw, EventBefore, ThrowAfter, Accepted, Returns,
        GoHandler, Release, CompleteAccept, Accept, Fails, Completes, netVars, ioVars,
        Control, Domains
  <2>4. err'[e] = err[e]
    <3>1. err' = err \/ \E b \in BOOLEAN : err' = [err EXCEPT ![Acceptor] = b]
      BY DEF Serve, AcceptFails, Start, DeferIo, Throw, EventBefore, ThrowAfter, Accepted,
             GoHandler, Release, CompleteAccept, Accept, Fails, Completes, netVars, ioVars
    <3> QED BY <2>1, <3>1 DEF Control, Domains
  <2> QED BY <2>2, <2>3, <2>4 DEF Done
<1>3. CASE UNCHANGED <<sock, wire>>
  BY <1>1, <1>2, <1>3 DEF KeptAt
<1>4. CASE Throw(Acceptor)
  <2>1. Over(Acceptor)
    BY <1>4 DEF Throw, EventBefore, ThrowAfter
  <2>2. sock'[ClientOf(c)] = sock[ClientOf(c)] /\ wire'[ClientOf(c)] = wire[ClientOf(c)]
    BY <2>1 DEF Over, Closed, ClientOf
  <2>3. CASE c \in backlog
    <3>1. sock'[ServerOf(c)] = "closed"
      BY <2>1, <2>3 DEF Over, Closed, ServerOf
    <3>2. IsGet(ClientOf(c))
      BY <2>3 DEF Control, Sockets, Unseen
    <3> QED BY <1>1, <1>2, <2>2, <3>1, <3>2 DEF KeptAt
  <2>4. CASE c \notin backlog
    <3>1. sock'[ServerOf(c)] = sock[ServerOf(c)] /\ wire'[ServerOf(c)] = wire[ServerOf(c)]
      BY <2>1, <2>4 DEF Over, Closed, ServerOf
    <3> QED BY <1>1, <1>2, <2>2, <3>1 DEF KeptAt
  <2> QED BY <2>3, <2>4
<1>5. ASSUME NEW d \in Conns, CompleteAccept(d)
      PROVE  /\ wire' = wire /\ sock' = [sock EXCEPT ![ServerOf(d)] = "open"]
             /\ IsGet(ClientOf(d)) /\ sock[ServerOf(d)] = "none"
  <2>1. /\ wire' = wire /\ sock' = [sock EXCEPT ![ServerOf(d)] = "open"]
        /\ op[Acceptor] = "outstanding" /\ d \in backlog
    BY <1>5 DEF CompleteAccept, Accept, Completes, ServerOf
  <2> QED BY <2>1 DEF Control, Sockets, Frames, Unseen
<1>6. ASSUME NEW d \in Conns, CompleteAccept(d)
      PROVE  /\ sock'[ClientOf(c)] = sock[ClientOf(c)] /\ wire' = wire
             /\ \/ sock'[ServerOf(c)] = sock[ServerOf(c)]
                \/ sock'[ServerOf(c)] = "open" /\ sock[ServerOf(c)] = "none" /\ IsGet(ClientOf(c))
  BY <1>5, <1>6 DEF Control, Domains
<1>7. \/ UNCHANGED <<sock, wire>> \/ Throw(Acceptor)
      \/ \E d \in Conns : CompleteAccept(d)
  BY DEF Serve, AcceptFails, Start, DeferIo, Accepted, GoHandler, Release, Fails, netVars, wireVars
<1>8. CASE \E d \in Conns : CompleteAccept(d)
  BY <1>1, <1>2, <1>6, <1>8 DEF KeptAt
<1> QED BY <1>3, <1>4, <1>7, <1>8

LEMMA HttpIsElsewhere ==
  ASSUME Control, Data, NEW c \in Conns, NEW d \in Conns, HttpAnswer(d)
  PROVE  /\ UNCHANGED <<request, op, err, point, buf, want, resp>> /\ ~IsGet(ClientOf(d))
         /\ c # d => /\ \A x \in {ClientOf(c), ServerOf(c)} : KeptAt(x) /\ wire'[x] = wire[x]
<1>1. /\ UNCHANGED <<request, op, err, point, buf, want, resp>> /\ ~IsGet(ClientOf(d))
      /\ \E w : wire' = [wire EXCEPT ![ClientOf(d)] = w]
      /\ \E s : sock' = [sock EXCEPT ![ServerOf(d)] = s]
  BY DEF HttpAnswer, ioVars, progVars, ClientOf, ServerOf
<1>2. c # d => \A x \in {ClientOf(c), ServerOf(c)} : x # ClientOf(d) /\ x # ServerOf(d) /\ x \in Ends
  BY EndNames
<1> QED BY <1>1, <1>2 DEF KeptAt, Done, Data, Control, Domains

LEMMA RequestIsKept ==
  ASSUME Control, Data, [Next]_vars
  PROVE  UNCHANGED request
<1>1. ASSUME NEW e \in Ends, Step(e) PROVE UNCHANGED request
  BY <1>1, EndSteps DEF Stepped
<1>2. CASE Serve \/ AcceptFails
  BY <1>2
  DEF Serve, AcceptFails, Start, Throw, Accepted, GoHandler, Release, CompleteAccept, progVars
<1> QED BY <1>1, <1>2, HttpIsElsewhere DEF Next, vars, progVars

LEMMA GetIsKept ==
  ASSUME Control, Data, Next, NEW c \in Conns, Short(c), GetInv(c)
  PROVE  GetInv(c)'
<1> USE EndNames
<1> USE DEF GetInv
<1>1. Domains
  BY DEF Control
<1>2. ASSUME NEW e \in Ends, Step(e) PROVE GetInv(c)'
  <2>1. CASE e[1] = c
    BY <1>2, <2>1, ClientKeepsGet, ServerKeepsGet
  <2>2. CASE e[1] # c
    BY <1>1, <1>2, <2>2, ElsewhereIsKept, QuietForGet DEF KeptAt
  <2> QED BY <2>1, <2>2
<1>3. CASE Serve \/ AcceptFails
  BY <1>1, <1>3, AcceptorIsQuiet, QuietForGet DEF KeptAt
<1>4. ASSUME NEW d \in Conns, HttpAnswer(d) PROVE GetInv(c)'
  <2>1. c # d
    BY <1>4, HttpIsElsewhere DEF Short
  <2> QED BY <1>1, <1>4, <2>1, HttpIsElsewhere, QuietForGet DEF KeptAt
<1> QED BY <1>2, <1>3, <1>4 DEF Next

LEMMA GetsAtFirst == Init => Gets
<1> SUFFICES ASSUME Init, NEW c \in Conns, Short(c) PROVE ServerSide(c) /\ ClientSide(c)
  BY DEF Gets
<1>1. /\ point[ClientOf(c)] = "connect" /\ ~Done(ClientOf(c))
      /\ point[ServerOf(c)] = "readSize" /\ ~Done(ServerOf(c)) /\ want[ServerOf(c)] = 1
      /\ wire[ClientOf(c)] = <<>> /\ wire[ServerOf(c)] = <<>>
  BY EndNames DEF Init, NetInit, Done, Short
<1>2. Sent(c) = <<>> /\ Waits(c)
  BY <1>1 DEF Sent, Waits
<1> QED BY <1>1, <1>2 DEF ServerSide, NothingRead, ClientSide

LEMMA GetsStep == Control /\ Data /\ Gets /\ [Next]_vars => Gets'
<1> SUFFICES ASSUME Control, Data, Gets, [Next]_vars, NEW c \in Conns, Short(c)' PROVE GetInv(c)'
  BY DEF Gets, GetInv
<1>1. CASE UNCHANGED vars
  <2>1. /\ UNCHANGED <<request, point, op, err, buf, want, wire, sock>>
    BY <1>1 DEF vars, netVars, ioVars, wireVars, progVars
  <2>2. GetInv(c) /\ Short(c)
    BY <2>1, MessagesAreKept DEF Gets, GetInv
  <2> QED BY <2>1, <2>2, QuietForGet DEF Done, GetInv, Control
<1>2. CASE Next
  <2>1. UNCHANGED request
    BY RequestIsKept
  <2>2. Short(c) /\ GetInv(c)
    BY <2>1, MessagesAreKept DEF Gets, GetInv
  <2> QED BY <1>2, <2>2, GetIsKept
<1> QED BY <1>1, <1>2

-----------------------------------------------------------------------------
(* Content with an announced length *)

LEMMA PartFacts ==
  ASSUME NEW s \in Seq(Bytes), NEW k \in Nat, IsPart(s, k)
  PROVE  /\ IsPart(<<>>, k)
         /\ \A n \in 0 .. Len(s) :
              IsPart(SubSeq(s, 1, n), k) /\ IsPart(SubSeq(s, n + 1, Len(s)), k + n)
         /\ \A t \in Seq(Bytes) : IsPart(t, k + Len(s)) => IsPart(s \o t, k)
<1>1. IsPart(<<>>, k)
  BY DEF IsPart
<1>2. ASSUME NEW n \in 0 .. Len(s)
      PROVE  IsPart(SubSeq(s, 1, n), k) /\ IsPart(SubSeq(s, n + 1, Len(s)), k + n)
  <2>1. \A i \in DOMAIN SubSeq(s, 1, n) : i \in 1 .. n /\ SubSeq(s, 1, n)[i] = s[i]
    BY PrefixFacts
  <2>2. \A i \in DOMAIN SubSeq(s, n + 1, Len(s)) :
          /\ i \in 1 .. Len(s) - n /\ SubSeq(s, n + 1, Len(s))[i] = s[n + i]
          /\ n + i \in DOMAIN s /\ (k + n) + i = k + (n + i)
    BY PrefixFacts
  <2>3. IsPart(SubSeq(s, 1, n), k)
    BY <2>1 DEF IsPart
  <2>4. IsPart(SubSeq(s, n + 1, Len(s)), k + n)
    BY <2>2 DEF IsPart
  <2> QED BY <2>3, <2>4
<1>3. ASSUME NEW t \in Seq(Bytes), IsPart(t, k + Len(s)) PROVE IsPart(s \o t, k)
  <2>1. ASSUME NEW i \in DOMAIN (s \o t) PROVE (s \o t)[i] = Response(k + i)
    <3>1. CASE i <= Len(s)
      <4>1. i \in DOMAIN s /\ (s \o t)[i] = s[i]
        BY <3>1
      <4> QED BY <4>1 DEF IsPart
    <3>2. CASE i > Len(s)
      <4>1. /\ i - Len(s) \in DOMAIN t /\ (s \o t)[i] = t[i - Len(s)]
            /\ (k + Len(s)) + (i - Len(s)) = k + i
        BY <3>2
      <4> QED BY <1>3, <4>1 DEF IsPart
    <3> QED BY <3>1, <3>2
  <2> QED BY <2>1 DEF IsPart
<1> QED BY <1>1, <1>2, <1>3

\* The header of a response ends with its second byte.
LEMMA HeaderFacts ==
  ASSUME NEW r \in Seq(Bytes), IsPart(r, 0)
  PROVE  /\ Eol2 \in ToSet(r) => Len(r) >= 2 /\ BodyOf(r) = SubSeq(r, 3, Len(r))
         /\ Len(r) >= 2 => Eol2 \in ToSet(r)
         /\ Len(r) >= 2 => Len(BodyOf(r)) = Len(r) - 2 /\ BodyOf(r) = Times(Len(r) - 2, Body)
<1>1. Head1 # Eol2 /\ Body # Eol2
  BY DEF Head1, Eol2, Body
<1>2. \A i \in 1 .. Len(r) : r[i] = IF i = 1 THEN Head1 ELSE IF i = 2 THEN Eol2 ELSE Body
  BY DEF IsPart, Response
<1>3. Eol2 \in ToSet(r) => Len(r) >= 2 /\ BodyOf(r) = SubSeq(r, 3, Len(r))
  <2> SUFFICES ASSUME Eol2 \in ToSet(r) PROVE Len(r) >= 2 /\ BodyOf(r) = SubSeq(r, 3, Len(r))
    OBVIOUS
  <2>1. PICK k \in 1 .. Len(r) : r[k] = Eol2 /\ BodyOf(r) = SubSeq(r, k + 1, Len(r))
    BY FirstEol
  <2>2. k = 2
    BY <1>1, <1>2, <2>1
  <2> QED BY <2>1, <2>2
<1>4. Len(r) >= 2 => Eol2 \in ToSet(r)
  BY <1>2 DEF ToSet
<1>5. ASSUME Len(r) >= 2
      PROVE  Len(BodyOf(r)) = Len(r) - 2 /\ BodyOf(r) = Times(Len(r) - 2, Body)
  <2> DEFINE b == SubSeq(r, 3, Len(r))
             t == Times(Len(r) - 2, Body)
  <2>1. BodyOf(r) = b
    BY <1>3, <1>4, <1>5
  <2>2. b \in Seq(Bytes) /\ Len(b) = Len(r) - 2 /\ \A i \in 1 .. Len(r) - 2 : b[i] = r[2 + i]
    <3>1. 2 \in 0 .. Len(r) /\ 2 + 1 = 3
      BY <1>5
    <3>2. /\ SubSeq(r, 2 + 1, Len(r)) \in Seq(Bytes) /\ Len(SubSeq(r, 2 + 1, Len(r))) = Len(r) - 2
          /\ \A i \in 1 .. Len(r) - 2 : SubSeq(r, 2 + 1, Len(r))[i] = r[2 + i]
      BY <3>1, PrefixFacts
    <3> QED BY <3>1, <3>2
  <2>3. t \in Seq(Bytes) /\ Len(t) = Len(r) - 2
    <3>1. Len(r) - 2 \in Nat
      BY <1>5
    <3> QED BY <3>1, TimesIsSeq, BytesAreBytes
  <2>4. \A i \in 1 .. Len(r) - 2 : t[i] = Body
    BY <1>5 DEF Times
  <2>5. \A i \in 1 .. Len(r) - 2 : r[2 + i] = Body
    BY <1>2, <1>5
  <2> HIDE DEF b, t
  <2>6. b = t
    BY <2>2, <2>3, <2>4, <2>5
  <2> QED BY <2>1, <2>2, <2>6 DEF t
<1> QED BY <1>3, <1>4, <1>5

\* A step that reads nothing, and may take what has not been read away.
LEMMA QuietForLoad ==
  ASSUME Data, NEW c \in Conns, Announced(c), LoadInv(c), UNCHANGED request,
         LET e == ClientOf(c)
         IN  /\ point'[e] = point[e] /\ buf'[e] = buf[e] /\ want'[e] = want[e]
             /\ Done(e)' => Done(e)
             /\ wire'[e] \in {wire[e], <<>>}
             /\ (Done(e)' <=> Done(e)) \/ wire'[e] = <<>>,
         resp'[c] = resp[c], sock'[ServerOf(c)] = sock[ServerOf(c)]
  PROVE  LoadInv(c)'
<1> USE EndNames
<1>1. Pending(c)' = Pending(c) \/ (Pending(c)' = <<>> /\ wire'[ClientOf(c)] = <<>>)
  BY DEF Pending
<1>2. \A k : IsPart(<<>>, k)
  BY DEF IsPart
<1>3. IsPart(resp[c], 0)' /\ IsPart(Pending(c), Len(resp[c]))'
        /\ IsPart(wire[ClientOf(c)], Len(resp[c]) + Len(Pending(c)))'
  BY <1>1, <1>2 DEF LoadInv, IsPart, Response
<1> QED BY <1>1, <1>3 DEF LoadInv

\* Nothing has been received, and the program goes on to the next operation.
LEMMA LoadGoesOn ==
  ASSUME Data, NEW c \in Conns, Announced(c), LoadInv(c), UNCHANGED request,
         LET e == ClientOf(c)
         IN  /\ point[e] \in {"resolve", "connect", "request"}
             /\ point'[e] \in {"resolve", "connect", "request"}
                  \/ (point'[e] = "readHead" /\ ~Done(e)')
             /\ wire'[e] = wire[e],
         resp'[c] = resp[c], sock'[ServerOf(c)] = sock[ServerOf(c)]
  PROVE  LoadInv(c)'
<1>1. Pending(c) = <<>> /\ Pending(c)' = <<>>
  BY DEF Pending
<1>2. IsPart(resp[c], 0)' /\ IsPart(Pending(c), Len(resp[c]))'
        /\ IsPart(wire[ClientOf(c)], Len(resp[c]) + Len(Pending(c)))'
  BY <1>1 DEF LoadInv, IsPart, Response
<1> QED BY <1>1, <1>2 DEF LoadInv

\* A part of the response is read.
LEMMA LoadReads ==
  ASSUME Data, NEW c \in Conns, Announced(c), LoadInv(c), UNCHANGED request,
         NEW n \in 0 .. Len(wire[ClientOf(c)]),
         LET e == ClientOf(c)
         IN  /\ ~Done(e) /\ Done(e)'
             /\ \/ point[e] = "readHead" /\ n > 0
                \/ point[e] = "readBody" /\ n = want[e]
             /\ point'[e] = point[e] /\ want'[e] = want[e]
             /\ buf'[e] = SubSeq(wire[e], 1, n)
             /\ wire'[e] = SubSeq(wire[e], n + 1, Len(wire[e])),
         resp'[c] = resp[c], sock'[ServerOf(c)] = sock[ServerOf(c)]
  PROVE  LoadInv(c)'
<1> DEFINE e == ClientOf(c)
<1>1. e \in Ends /\ e \in Journeys /\ wire[e] \in Seq(Bytes) /\ Len(resp[c]) \in Nat
  BY EndNames DEF Data
<1>2. Pending(c) = <<>> /\ Pending(c)' = buf'[e]
  BY DEF Pending
<1>3. IsPart(wire[e], Len(resp[c]))
  BY <1>1, <1>2 DEF LoadInv
<1>4. Len(buf'[e]) = n /\ IsPart(buf'[e], Len(resp[c])) /\ IsPart(wire'[e], Len(resp[c]) + n)
  BY <1>1, <1>3, PrefixFacts, PartFacts
<1>5. sock[ServerOf(c)] # "none"
  <2>1. CASE point[e] = "readHead"
    BY <2>1 DEF LoadInv
  <2>2. CASE point[e] = "readBody"
    BY <2>2 DEF LoadInv
  <2> QED BY <2>1, <2>2
<1>6. IsPart(resp[c], 0)' /\ IsPart(Pending(c), Len(resp[c]))'
        /\ IsPart(wire[ClientOf(c)], Len(resp[c]) + Len(Pending(c)))'
  <2>1. IsPart(resp[c], 0)'
    BY DEF LoadInv, IsPart, Response
  <2>2. IsPart(Pending(c), Len(resp[c]))'
    BY <1>2, <1>4 DEF IsPart, Response
  <2>3. Len(resp[c])' + Len(Pending(c))' = Len(resp[c]) + n
    BY <1>2, <1>4
  <2>4. IsPart(wire[ClientOf(c)], Len(resp[c]) + Len(Pending(c)))'
    BY <1>4, <2>3 DEF IsPart, Response
  <2> QED BY <2>1, <2>2, <2>4
<1>7. sock'[ServerOf(c)] # "none" /\ point'[e] \in {"readHead", "readBody"}
  BY <1>5
<1>8. point'[e] = "readBody" =>
        /\ Len(resp'[c]) >= 2 /\ want'[e] + Len(resp'[c]) = request'[c].size + 2
        /\ Len(buf'[e]) = want'[e]
  BY <1>4 DEF LoadInv
<1> QED BY <1>6, <1>7, <1>8 DEF LoadInv

\* What was read is appended to the response.
LEMMA LoadAppends ==
  ASSUME Domains, Data, NEW c \in Conns, Announced(c), LoadInv(c), UNCHANGED request,
         NEW r, r = resp[c] \o buf[ClientOf(c)], resp'[c] = r,
         LET e == ClientOf(c)
         IN  /\ Done(e) /\ ~Done(e)' /\ wire'[e] \in {wire[e], <<>>}
             /\ \/ point[e] = "readHead" /\ point'[e] = "readHead"
                \/ /\ point[e] = "readHead" /\ point'[e] = "readBody" /\ Eol2 \in ToSet(r)
                   /\ want'[e] = Rest(c, r)
                \/ point[e] = "readBody" /\ point'[e] = "returned",
         sock'[ServerOf(c)] = sock[ServerOf(c)]
  PROVE  LoadInv(c)'
<1> DEFINE e == ClientOf(c)
<1>1. /\ e \in Ends /\ e \in Journeys /\ wire[e] \in Seq(Bytes) /\ Len(resp[c]) \in Nat
      /\ resp[c] \in Seq(Bytes) /\ buf[e] \in Seq(Bytes)
  BY EndNames DEF Data
<1>2. Pending(c) = buf[e] /\ Pending(c)' = <<>>
  BY DEF Pending
<1>3. r \in Seq(Bytes) /\ Len(r) = Len(resp[c]) + Len(buf[e])
  BY <1>1
<1>4. IsPart(r, 0)
  <2>1. IsPart(resp[c], 0) /\ IsPart(buf[e], 0 + Len(resp[c]))
    BY <1>1, <1>2 DEF LoadInv
  <2> QED BY <1>1, <2>1, PartFacts
<1>5. IsPart(wire'[e], Len(r))
  <2>1. IsPart(wire[e], Len(r))
    BY <1>2, <1>3 DEF LoadInv
  <2>2. IsPart(<<>>, Len(r))
    BY DEF IsPart
  <2> QED BY <2>1, <2>2
<1>6. IsPart(resp[c], 0)' /\ IsPart(Pending(c), Len(resp[c]))'
        /\ IsPart(wire[ClientOf(c)], Len(resp[c]) + Len(Pending(c)))'
  <2>1. IsPart(resp[c], 0)'
    BY <1>4 DEF IsPart, Response
  <2>2. IsPart(Pending(c), Len(resp[c]))'
    BY <1>2 DEF IsPart, Response
  <2>3. Len(resp[c])' + Len(Pending(c))' = Len(r)
    BY <1>2, <1>3
  <2>4. IsPart(wire[ClientOf(c)], Len(resp[c]) + Len(Pending(c)))'
    BY <1>5, <2>3 DEF IsPart, Response
  <2> QED BY <2>1, <2>2, <2>4
<1>7. sock'[ServerOf(c)] = "none" =>
        point'[e] = "readHead" /\ wire'[e] = <<>> /\ resp'[c] = <<>> /\ Pending(c)' = <<>>
  <2> SUFFICES ASSUME sock[ServerOf(c)] = "none"
               PROVE  point'[e] = "readHead" /\ wire'[e] = <<>> /\ resp'[c] = <<>>
    BY <1>2
  <2>1. wire[e] = <<>> /\ resp[c] = <<>> /\ buf[e] = <<>> /\ point[e] = "readHead"
    BY <1>2 DEF LoadInv
  <2>2. r = <<>>
    BY <1>1, <2>1, JoinFacts
  <2>3. Eol2 \notin ToSet(r)
    BY <2>2 DEF ToSet
  <2> QED BY <2>1, <2>2, <2>3
<1>8. point'[e] = "readBody" =>
        Len(resp'[c]) >= 2 /\ want'[e] + Len(resp'[c]) = request'[c].size + 2
  <2> SUFFICES ASSUME point'[e] = "readBody"
               PROVE  Len(r) >= 2 /\ Rest(c, r) + Len(r) = request[c].size + 2
    OBVIOUS
  <2>1. Eol2 \in ToSet(r)
    OBVIOUS
  <2>2. Len(r) >= 2 /\ Len(BodyOf(r)) = Len(r) - 2
    BY <1>3, <1>4, <2>1, HeaderFacts
  <2>3. request[c].size \in Nat
    BY RequestTypes DEF Request
  <2>4. Rest(c, r) = request[c].size - (Len(r) - 2)
    BY <2>2 DEF Rest
  <2>5. \A n, k \in Nat : (n - (k - 2)) + k = n + 2
    OBVIOUS
  <2>6. \A q \in Seq(Bytes) : Len(q) \in Nat
    OBVIOUS
  <2>7. Len(r) \in Nat
    BY <1>3, <2>6
  <2> QED BY <2>2, <2>3, <2>4, <2>5, <2>7
<1>9. point'[e] = "returned" => Len(resp'[c]) = request'[c].size + 2
  <2> SUFFICES ASSUME point[e] = "readBody" PROVE Len(r) = request[c].size + 2
    OBVIOUS
  <2>1. want[e] + Len(resp[c]) = request[c].size + 2 /\ Len(buf[e]) = want[e]
    BY DEF LoadInv
  <2> QED BY <1>1, <1>3, <2>1
<1> QED BY <1>6, <1>7, <1>8, <1>9 DEF LoadInv

LEMMA ClientKeepsLoad ==
  ASSUME Control, Data, NEW c \in Conns, Announced(c), LoadInv(c), Step(ClientOf(c))
  PROVE  LoadInv(c)'
<1> DEFINE e == ClientOf(c)
           s == ServerOf(c)
<1>1. /\ e \in Ends /\ e \in Journeys /\ s \in Ends /\ s \in Journeys /\ e # s
      /\ Peer(e) = s /\ e \in Clients /\ e \notin Servers /\ ~IsGet(e) /\ point[e] \in LoadPoints
      /\ e # Acceptor /\ e[1] = c
  BY EndNames DEF Announced, IsGet, Control, Points
<1>2. Domains
  BY DEF Control
<1> USE <1>1, <1>2
<1> USE DEF Domains, Data, Done
<1>3. UNCHANGED request
  BY EndSteps DEF Stepped
<1>4. sock'[s] = sock[s]
  <2>1. sock' = sock \/ \E x : sock' = [sock EXCEPT ![e] = x]
    BY EndSteps DEF Stepped, Starts, Operates, Connects, EndsHere, Continues
  <2> QED BY <2>1
<1> HIDE DEF Domains, Data, Done
<1>5. ASSUME UNCHANGED <<point, want, resp>>, buf' = buf, Done(e)' <=> Done(e),
             wire'[e] \in {wire[e], <<>>}
      PROVE  LoadInv(c)'
  BY <1>3, <1>4, <1>5, QuietForLoad
<1>6. CASE Start(e)
  <2>1. Done(e)' <=> Done(e)
    BY <1>6 DEF Start, DeferIo, Done, Control, Frames, Domains
  <2> QED BY <1>5, <1>6, <2>1 DEF Start, DeferIo, wireVars, progVars
<1>7. CASE Complete(e)
  <2>1. /\ op[e] = "outstanding" /\ op' = [op EXCEPT ![e] = "completed"]
        /\ UNCHANGED progVars
    BY <1>7
    DEF Complete, Operation, Resolve, Connect, Write, Read, PartialRead, Receive, Fails, Completes
  <2>2. ~Done(e) /\ point'[e] = point[e] /\ want'[e] = want[e] /\ resp'[c] = resp[c]
    BY <2>1 DEF Done, progVars
  <2>3. CASE Fails(e)
    <3>1. ~Done(e)'
      BY <2>3 DEF Fails, Completes, Done, Domains
    <3> QED BY <1>5, <2>1, <2>2, <2>3, <3>1 DEF Fails, wireVars, progVars
  <2>4. CASE point[e] \in {"resolve", "connect", "request"}
             /\ (Resolve(e) \/ Connect(e, IsGet(e)) \/ Write(e, <<>>))
    <3>1. wire'[e] = wire[e]
      BY <2>4 DEF Resolve, Connect, Write, Fails, wireVars, Data
    <3> QED BY <1>3, <1>4, <2>2, <2>4, <3>1, LoadGoesOn
  <2>5. ASSUME NEW n \in 0 .. Len(wire[e]), Receive(e, n),
               \/ point[e] = "readHead" /\ n > 0
               \/ point[e] = "readBody" /\ n = want[e]
        PROVE  LoadInv(c)'
    <3>1. /\ Done(e)' /\ buf'[e] = SubSeq(wire[e], 1, n)
          /\ wire'[e] = SubSeq(wire[e], n + 1, Len(wire[e]))
      BY <2>5 DEF Receive, Completes, Done, Domains, Data
    <3> QED BY <1>3, <1>4, <2>2, <2>5, <3>1, LoadReads
  <2>6. CASE point[e] = "readBody" /\ Read(e, want[e])
    <3>1. want[e] \in Nat /\ Len(wire[e]) \in Nat
      BY DEF Data
    <3> QED BY <2>3, <2>5, <2>6, <3>1 DEF Read
  <2>7. CASE point[e] = "readHead" /\ PartialRead(e, Len(wire[e]))
    <3>1. Len(wire[e]) \in Nat
      BY DEF Data
    <3> QED BY <2>3, <2>5, <2>7, <3>1 DEF PartialRead
  <2>8. point[e] # "readChunks"
    BY DEF LoadInv
  <2> QED BY <1>7, <2>4, <2>6, <2>7, <2>8 DEF Complete, Operation, LoadPoints
<1>8. ASSUME Over(e) PROVE wire'[e] = <<>>
  BY <1>8 DEF Over, Closed
<1>9. CASE Throw(e)
  BY <1>5, <1>8, <1>9 DEF Throw, EventBefore, ThrowAfter, progVars, Done
<1>10. CASE Advance(e)
  <2>1. PICK p \in After(e) : Continue(e, p)
    BY <1>10 DEF Advance
  <2>2. p \in {"connect", "request", "readHead"} /\ point[e] \in {"resolve", "connect", "request"}
    BY DEF After, LoadPoints
  <2>3. point'[e] = p /\ ~Done(e)' /\ wire'[e] = wire[e]
    BY <2>1 DEF Continue, DeferIoAgain, Go, wireVars, Done, Domains
  <2> QED BY <1>3, <1>4, <1>10, <2>2, <2>3, LoadGoesOn DEF Advance
<1>11. CASE HeadRejected(e)
  <2>1. /\ Over(e) /\ UNCHANGED <<err, buf, progVars>> /\ op' = [op EXCEPT ![e] = "none"]
    BY <1>11 DEF HeadRejected, Fail, Returns
  <2>2. ~Done(e)'
    BY <2>1 DEF Done, Domains
  <2>3. wire'[e] = <<>>
    BY <2>1, <1>8
  <2> QED BY <1>3, <1>4, <2>1, <2>2, <2>3, QuietForLoad DEF progVars, LoadInv, Pending
<1>12. CASE HeadRead(e) \/ BodyRead(e)
  <2>1. PICK r : r = resp[c] \o buf[e]
    OBVIOUS
  <2>2. resp'[c] = r
    BY <1>12, <2>1 DEF HeadRead, BodyRead, Data
  <2>3. ~request[c].chunked
    BY DEF Announced
  <2>4. \/ point[e] = "readHead" /\ Continue(e, "readHead")
        \/ /\ point[e] = "readHead" /\ Continue(e, "readBody") /\ Eol2 \in ToSet(r)
           /\ want' = [want EXCEPT ![e] = Rest(c, r)]
        \/ point[e] = "readBody" /\ Return(e)
    BY <1>12, <2>1, <2>3 DEF HeadRead, BodyRead, Want
  <2>5. Done(e)
    BY <2>4 DEF Continue, DeferIoAgain, Return, Returns, Resumable, Done
  <2>6. ASSUME NEW p, Continue(e, p) PROVE point'[e] = p /\ ~Done(e)' /\ wire'[e] = wire[e]
    BY <2>6 DEF Continue, DeferIoAgain, Go, wireVars, Done, Domains
  <2>7. ASSUME Return(e) PROVE point'[e] = "returned" /\ ~Done(e)' /\ wire'[e] = <<>>
    BY <2>7, <1>8 DEF Return, Returns, Go, Done, Domains
  <2>8. want' = [want EXCEPT ![e] = Rest(c, r)] => want'[e] = Rest(c, r)
    BY DEF Data
  <2> QED BY <1>3, <1>4, <2>1, <2>2, <2>4, <2>5, <2>6, <2>7, <2>8, LoadAppends
<1>13. ~SizeRead(e) /\ ~GetReturns(e) /\ ~ChunkRead(e)
  BY DEF SizeRead, GetReturns, ChunkRead, LoadInv, LoadPoints
<1> QED BY <1>6, <1>7, <1>9, <1>10, <1>11, <1>12, <1>13 DEF Step

LEMMA NoServerForLoads ==
  ASSUME Control, NEW c \in Conns, Announced(c)
  PROVE  ~Step(ServerOf(c)) /\ ~IsGet(ClientOf(c))
<1>1. ~IsGet(ClientOf(c)) /\ ServerOf(c) \in Ends /\ ServerOf(c) \in Journeys
  BY EndNames DEF Announced, IsGet
<1>2. at[ServerOf(c)] = "unborn" /\ op[ServerOf(c)] = "none"
  BY <1>1 DEF Control, Sockets, Unseen, Frames
<1> QED BY <1>1, <1>2, EndSteps DEF Stepped, Starts, Operates, EndsHere, Continues

\* Some HTTP server answers.
LEMMA HttpKeepsLoad ==
  ASSUME Control, Data, NEW c \in Conns, Announced(c), LoadInv(c), HttpAnswer(c)
  PROVE  LoadInv(c)'
<1> DEFINE e == ClientOf(c)
<1>1. /\ sock[ServerOf(c)] = "none" /\ sock'[ServerOf(c)] # "none" /\ point[e] = "readHead"
      /\ UNCHANGED <<request, op, err, point, buf, want, resp>>
  BY EndNames DEF HttpAnswer, ioVars, progVars, ClientOf, ServerOf, Control, Domains
<1>2. PICK n \in Nat : wire'[e] = <<Head1, Eol2>> \o Times(n, Body) \o <<>>
  <2>1. PICK n \in 0 .. request[c].size + 1 :
          wire' = [wire EXCEPT ![e] = <<Head1, Eol2>> \o Times(n, Body)
                     \o IF request[c].chunked THEN <<Eol2>> ELSE <<>>]
    BY DEF HttpAnswer, ClientOf
  <2>2. n \in Nat
    BY RequestTypes DEF Control, Request
  <2>3. (IF request[c].chunked THEN <<Eol2>> ELSE <<>>) = <<>>
    BY DEF Announced
  <2>4. wire'[e] = <<Head1, Eol2>> \o Times(n, Body) \o <<>>
    BY <2>1, <2>3, EndNames DEF Data
  <2> QED BY <2>2, <2>4
<1>3. wire[e] = <<>> /\ resp[c] = <<>> /\ Pending(c) = <<>>
  BY <1>1 DEF LoadInv
<1>4. resp'[c] = <<>> /\ Pending(c)' = <<>>
  BY <1>1, <1>3 DEF Pending, Done
<1>5. IsPart(wire'[e], 0)
  <2>1. Times(n, Body) \in Seq(Bytes) /\ <<Head1, Eol2>> \in Seq(Bytes)
    BY TimesIsSeq, BytesAreBytes
  <2>2. IsPart(<<Head1, Eol2>>, 0)
    BY DEF IsPart, Response
  <2>3. IsPart(Times(n, Body), 0 + Len(<<Head1, Eol2>>))
    BY DEF IsPart, Times, Response
  <2>4. <<Head1, Eol2>> \o Times(n, Body) \in Seq(Bytes)
    BY <2>1
  <2>5. IsPart(<<Head1, Eol2>> \o Times(n, Body), 0)
    BY <2>1, <2>2, <2>3, PartFacts
  <2>6. <<Head1, Eol2>> \o Times(n, Body) \o <<>> = <<Head1, Eol2>> \o Times(n, Body)
    BY <2>4, JoinFacts
  <2> QED BY <1>2, <2>5, <2>6
<1>6. IsPart(resp[c], 0)' /\ IsPart(Pending(c), Len(resp[c]))'
        /\ IsPart(wire[ClientOf(c)], Len(resp[c]) + Len(Pending(c)))'
  <2>1. IsPart(resp[c], 0)' /\ IsPart(Pending(c), Len(resp[c]))'
    BY <1>4 DEF IsPart
  <2>2. Len(resp[c])' + Len(Pending(c))' = 0
    BY <1>4
  <2> QED BY <1>5, <2>1, <2>2 DEF IsPart, Response
<1> QED BY <1>1, <1>6 DEF LoadInv

LEMMA LoadIsKept ==
  ASSUME Control, Data, Next, NEW c \in Conns, Announced(c), LoadInv(c)
  PROVE  LoadInv(c)'
<1> USE EndNames
<1>1. ASSUME NEW e \in Ends, Step(e) PROVE LoadInv(c)'
  <2>1. CASE e[1] = c
    BY <1>1, <2>1, ClientKeepsLoad, NoServerForLoads
  <2>2. CASE e[1] # c
    BY <1>1, <2>2, ElsewhereIsKept, QuietForLoad DEF KeptAt
  <2> QED BY <2>1, <2>2
<1>2. CASE Serve \/ AcceptFails
  BY <1>2, AcceptorIsQuiet, NoServerForLoads, QuietForLoad DEF KeptAt
<1>3. ASSUME NEW d \in Conns, HttpAnswer(d) PROVE LoadInv(c)'
  <2>1. CASE c = d
    BY <1>3, <2>1, HttpKeepsLoad
  <2>2. CASE c # d
    BY <1>3, <2>2, HttpIsElsewhere, QuietForLoad DEF KeptAt
  <2> QED BY <2>1, <2>2
<1> QED BY <1>1, <1>2, <1>3 DEF Next

LEMMA LoadsAtFirst == Init => Loads
<1> SUFFICES ASSUME Init, NEW c \in Conns, Announced(c) PROVE LoadInv(c)
  BY DEF Loads
<1>1. /\ point[ClientOf(c)] = "resolve" /\ wire[ClientOf(c)] = <<>> /\ resp[c] = <<>>
  BY EndNames DEF Init, NetInit, Announced, IsGet
<1>2. Pending(c) = <<>>
  BY <1>1 DEF Pending
<1> QED BY <1>1, <1>2 DEF LoadInv, IsPart

LEMMA LoadsStep == Control /\ Data /\ Loads /\ [Next]_vars => Loads'
<1> SUFFICES ASSUME Control, Data, Loads, [Next]_vars, NEW c \in Conns, Announced(c)'
             PROVE  LoadInv(c)'
  BY DEF Loads
<1>1. UNCHANGED request /\ Announced(c) /\ LoadInv(c)
  BY RequestIsKept DEF Loads, Announced
<1>2. CASE UNCHANGED vars
  <2>1. UNCHANGED <<point, op, err, buf, want, wire, sock, resp>>
    BY <1>2 DEF vars, netVars, ioVars, wireVars, progVars
  <2> QED BY <1>1, <2>1, QuietForLoad DEF Done
<1>3. CASE Next
  BY <1>1, <1>3, LoadIsKept
<1> QED BY <1>2, <1>3

-----------------------------------------------------------------------------

IInv == Control /\ Data /\ Gets /\ Loads

\* The inductive invariant of the network programs: who holds the Socket of each end, and
\* what is on its way (network.cpp, client.cpp, server.cpp, data.cpp:176-205).
THEOREM InductiveInvariant == Spec => []IInv
<1>1. Init => IInv
  BY ControlAtFirst, DataAtFirst, GetsAtFirst, LoadsAtFirst DEF IInv
<1>2. IInv /\ [Next]_vars => IInv'
  BY ControlStep, DataStep, GetsStep, LoadsStep DEF IInv
<1> QED BY <1>1, <1>2, PTL DEF Spec

\* For every number of connections and requests, and wherever a client is interrupted,
\* what an outstanding operation will write to is there.
THEOREM FramesStayAlive == Spec => []ExchangeInv
<1>1. IInv => TypeOK
  BY DEF IInv, Control, Domains, Data, TypeOK
<1>2. IInv => FramesAlive
  <2> SUFFICES ASSUME IInv, NEW e \in Ends, op[e] = "outstanding"
               PROVE  at[e] = "suspended" /\ sock[e] # "closed"
    BY DEF FramesAlive
  <2>1. at[e] = "suspended"
    BY EndNames DEF IInv, Control, Frames
  <2>2. PICK c \in Conns : e = ClientOf(c) \/ e = ServerOf(c)
    BY EndNames
  <2> QED BY <2>1, <2>2 DEF IInv, Control, Sockets
<1> QED BY <1>1, <1>2, InductiveInvariant, PTL DEF ExchangeInv

\* For every key whose size fits into a char, a get that returns has the answer to its
\* key, in whatever order both sides read, write, fail and are interrupted.
THEOREM GetIsAnswered == Spec => []AnswerIsRight
<1>1. IInv => AnswerIsRight
  <2> SUFFICES ASSUME IInv, NEW e \in Clients, point[e] = "returned", IsGet(e), Size(e) < Chars
               PROVE  buf[e] = Times(Size(e), Key) \o Times(SuffixSize, World)
    BY DEF AnswerIsRight
  <2>1. PICK c \in Conns : e = ClientOf(c)
    BY DEF Clients, ClientOf
  <2>2. ClientSide(c)
    BY <2>1 DEF IInv, Gets, Short, KeySize
  <2> QED BY <2>1, <2>2 DEF ClientSide, Answer, Keys, KeySize
<1> QED BY <1>1, InductiveInvariant, PTL

\* For every length, number of bytes the server sends, and way they are cut into
\* segments, content with an announced length is complete when it is returned.
THEOREM ContentIsComplete == Spec => []BodyIsComplete
<1>1. IInv => BodyIsComplete
  <2> SUFFICES ASSUME IInv, NEW c \in Conns, point[ClientOf(c)] = "returned", Announced(c)
               PROVE  BodyOf(resp[c]) = Times(request[c].size, Body)
    BY DEF BodyIsComplete, ClientOf, Announced
  <2>1. LoadInv(c) /\ resp[c] \in Seq(Bytes)
    BY DEF IInv, Loads, Data
  <2>2. IsPart(resp[c], 0) /\ Len(resp[c]) = request[c].size + 2
    BY <2>1 DEF LoadInv
  <2>3. request[c].size \in Nat
    BY RequestTypes DEF IInv, Control, Request
  <2>4. Len(resp[c]) >= 2 /\ Len(resp[c]) - 2 = request[c].size
    BY <2>2, <2>3
  <2> QED BY <2>1, <2>2, <2>4, HeaderFacts
<1> QED BY <1>1, InductiveInvariant, PTL
=============================================================================
