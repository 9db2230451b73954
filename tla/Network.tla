------------------------------ MODULE Network ------------------------------
(***************************************************************************)
(* Sockets and the acceptor (network.cpp).  Each operation is a call of    *)
(* deferIo(): the journey switches out, the deferred handler starts an     *)
(* operation of asio, and its completion handler writes to the frame and   *)
(* the buffer of the journey that waits, before it proceeds it.            *)
(*                                                                         *)
(* The journey at one end of a connection is named by that end.  asio and  *)
(* TCP are external: bytes arrive in order, in any segments; a peer that   *)
(* has closed makes operations fail, or leaves what it had sent.           *)
(***************************************************************************)
EXTENDS Integers, SequencesExt

CONSTANTS
  Conns,          \* connections
  Interruptible,  \* journeys whose Goer somebody uses, or with a Timeout
  None

Ends == Conns \X {"client", "server"}
Acceptor == <<None, "acceptor">>
Journeys == Ends \cup {Acceptor}

ASSUME NetworkAssumption == Interruptible \subseteq Journeys /\ None \notin Conns

VARIABLES
  at,      \* the journey is not created, running, suspended in deferIo or over
  op,      \* its operation: none, outstanding, completed (proceed was called)
  err,     \* deferIo's error, in its frame
  buf,     \* the buffer of the journey's last read
  wire,    \* the bytes on their way to, or unread at, each end
  sock,    \* the Socket of each end: not there, open, or destroyed
  backlog  \* connections that can be accepted

ioVars == <<at, op, err, buf>>
wireVars == <<wire, sock, backlog>>
netVars == <<ioVars, wireVars>>

Peer(e) == <<e[1], IF e[2] = "client" THEN "server" ELSE "client">>

NetInit(born) ==
  /\ at = [j \in Journeys |-> IF j \in born THEN "running" ELSE "unborn"]
  /\ op = [j \in Journeys |-> "none"]
  /\ err = [j \in Journeys |-> FALSE]
  /\ buf = [j \in Journeys |-> <<>>]
  /\ wire = [e \in Ends |-> <<>>]
  /\ sock = [e \in Ends |-> "none"]
  /\ backlog = {}

SetAt(j, place) == at' = [at EXCEPT ![j] = place]

\* Mutant of Over: the Socket is not closed.
OverWithoutClosing(j) == SetAt(j, "over") /\ UNCHANGED <<sock, wire>>

\* What is closed with the journey: its Socket, or the Acceptor with what waits there.
Closed(j) == IF j = Acceptor THEN backlog \X {"server"} ELSE {j}

\* An exception, or the end of its handler, ends the journey; what is unread is lost.
Over(j) ==
  /\ SetAt(j, "over")
  /\ sock' = [e \in Ends |-> IF e \in Closed(j) THEN "closed" ELSE sock[e]]
  /\ wire' = [e \in Ends |-> IF e \in Closed(j) THEN <<>> ELSE wire[e]]

-----------------------------------------------------------------------------
(* deferIo *)

\* A journey goes on from one switch to the next in one step: what it does between
\* them is its own business, except for the loop that accepts.

\* An event is thrown before the switch; the operation is never started.
EventBefore(j) ==
  /\ at[j] = "running" /\ j \in Interruptible
  /\ Over(j)
  /\ UNCHANGED <<op, err, buf, backlog>>

\* The journey switches out, and the deferred handler starts the operation.
DeferIo(j) ==
  /\ at[j] = "running"
  /\ SetAt(j, "suspended")
  /\ op' = [op EXCEPT ![j] = "outstanding"]
  /\ err' = [err EXCEPT ![j] = FALSE]
  /\ UNCHANGED <<buf, wireVars>>

Resumable(j) == at[j] = "suspended" /\ op[j] = "completed"

\* The end of deferIo throws an event or system_error (or the next one does) ...
ThrowAfter(j) ==
  /\ Resumable(j)
  /\ err[j] \/ j \in Interruptible
  /\ Over(j)
  /\ UNCHANGED <<op, err, buf, backlog>>

\* ... or returns ...
Returns(j) ==
  /\ Resumable(j) /\ ~err[j]
  /\ op' = [op EXCEPT ![j] = "none"]

\* ... and the journey calls it again.
DeferIoAgain(j) ==
  /\ Resumable(j) /\ ~err[j]
  /\ op' = [op EXCEPT ![j] = "outstanding"]
  /\ UNCHANGED <<at, err, buf, wireVars>>

-----------------------------------------------------------------------------
(* Completions: the handler writes error and buffer, and calls proceed. *)

Completes(j, e) ==
  /\ op[j] = "outstanding"
  /\ op' = [op EXCEPT ![j] = "completed"]
  /\ err' = [err EXCEPT ![j] = e]
  /\ UNCHANGED at

\* Nothing is read, written or accepted; the peer has gone, or refused.
Fails(j) == Completes(j, TRUE) /\ UNCHANGED <<buf, wireVars>>

PeerGone(e) == sock[Peer(e)] = "closed"

Receive(e, n) ==
  /\ Completes(e, FALSE)
  /\ buf' = [buf EXCEPT ![e] = SubSeq(wire[e], 1, n)]
  /\ wire' = [wire EXCEPT ![e] = SubSeq(@, n + 1, Len(@))]
  /\ UNCHANGED <<sock, backlog>>

\* Socket::read: the whole buffer of n bytes.
Read(e, n) ==
  \/ Len(wire[e]) >= n /\ Receive(e, n)
  \/ PeerGone(e) /\ Fails(e)

\* Socket::partialRead: what there is; the buffer is resized to it.
PartialRead(e, n) ==
  \/ \E k \in 1 .. n : k <= Len(wire[e]) /\ Receive(e, k)
  \/ PeerGone(e) /\ Fails(e)

\* Socket::write; what a closed peer is sent is lost.
Write(e, bytes) ==
  \/ /\ Completes(e, FALSE)
     /\ wire' = IF PeerGone(e) THEN wire ELSE [wire EXCEPT ![Peer(e)] = @ \o bytes]
     /\ UNCHANGED <<buf, sock, backlog>>
  \/ PeerGone(e) /\ Fails(e)

\* Socket::connect, to the Acceptor or to a port that is not modelled.
Connect(e, toAcceptor) ==
  \/ /\ toAcceptor => at[Acceptor] # "over"
     /\ Completes(e, FALSE)
     /\ sock' = [sock EXCEPT ![e] = "open"]
     /\ backlog' = backlog \cup IF toAcceptor THEN {e[1]} ELSE {}
     /\ UNCHANGED <<buf, wire>>
  \/ Fails(e)

\* Resolver::resolve, whose result is not modelled.
Resolve(e) == \E failed \in BOOLEAN : Completes(e, failed) /\ UNCHANGED <<buf, wireVars>>

\* Acceptor::accept of connection c.
Accept(c) ==
  /\ c \in backlog
  /\ Completes(Acceptor, FALSE)
  /\ backlog' = backlog \ {c}
  /\ sock' = [sock EXCEPT ![<<c, "server">>] = "open"]
  /\ UNCHANGED <<buf, wire>>

=============================================================================
