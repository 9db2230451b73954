---------------------------- MODULE EventsProofs ----------------------------
(***************************************************************************)
(* What the external events of a journey promise, for every number of      *)
(* timers, cancellers and guards: an event is thrown once, not inside the  *)
(* deepest EventsGuard, and no timer runs outside the scope of its         *)
(* Timeout.                                                                *)
(***************************************************************************)
EXTENDS Events, FiniteSetTheorems, TLAPS

\* An event that is in the cell, or that Goer::reset has read, has been accepted and
\* not been thrown; what has been thrown was accepted.
Cell ==
  /\ \A e \in {status, event} : e = None \/ (sender[e] = "accepted" /\ e \notin thrown)
  /\ \A e \in thrown : sender[e] = "accepted"

\* The events are disabled by an open guard only, and always by the deepest; they
\* stay enabled while handleEvents is in progress.
Enabling ==
  /\ ~allowed => Guards # {}
  /\ allowed => Cardinality(Guards) < MaxGuards
  /\ Cardinality(Guards) <= MaxGuards
  /\ code = "reset" => allowed

IInv == TypeOK /\ Cell /\ TimerStopped

-----------------------------------------------------------------------------
(* The scopes. *)

Opened(x) == scopes' = Append(scopes, x)
Closed == scopes # <<>> /\ scopes' = SubSeq(scopes, 1, Len(scopes) - 1)

LEMMA GuardsAreFinite ==
  ASSUME TypeOK
  PROVE  /\ Len(scopes) \in Nat /\ DOMAIN scopes = 1 .. Len(scopes)
         /\ IsFiniteSet(Guards) /\ Cardinality(Guards) \in Nat
<1>1. Len(scopes) \in Nat /\ DOMAIN scopes = 1 .. Len(scopes)
  BY DEF TypeOK
<1>2. IsFiniteSet(1 .. Len(scopes))
  BY <1>1, FS_Interval
<1>3. Guards \subseteq 1 .. Len(scopes)
  BY <1>1 DEF Guards
<1> QED BY <1>1, <1>2, <1>3, FS_Subset, FS_CardinalityType

LEMMA OpenedFacts ==
  ASSUME TypeOK, NEW x \in Timers \cup {Guard}, Opened(x)
  PROVE  /\ scopes' \in Seq(Timers \cup {Guard}) /\ scopes' # <<>>
         /\ \A y : Open(y) \/ y = x => Open(y)'
         /\ x # Guard => Guards' = Guards
         /\ x = Guard => Guards' # {} /\ Cardinality(Guards') = Cardinality(Guards) + 1
<1>1. /\ Len(scopes') = Len(scopes) + 1 /\ Len(scopes) \in Nat
      /\ DOMAIN scopes' = 1 .. Len(scopes) + 1 /\ DOMAIN scopes = 1 .. Len(scopes)
      /\ \A i \in 1 .. Len(scopes) : scopes'[i] = scopes[i]
      /\ scopes'[Len(scopes) + 1] = x
      /\ scopes' \in Seq(Timers \cup {Guard})
  BY DEF TypeOK, Opened
<1>2. scopes' # <<>> /\ \A y : Open(y) \/ y = x => Open(y)'
  BY <1>1 DEF Open
<1>3. Guards' = IF x = Guard THEN Guards \cup {Len(scopes) + 1} ELSE Guards
  BY <1>1 DEF Guards, Guard
<1>4. Len(scopes) + 1 \notin Guards
  BY <1>1 DEF Guards
<1> QED BY <1>1, <1>2, <1>3, <1>4, GuardsAreFinite, FS_AddElement

LEMMA ClosedFacts ==
  ASSUME TypeOK, Closed
  PROVE  /\ scopes' \in Seq(Timers \cup {Guard}) /\ Top \in Timers \cup {Guard}
         /\ \A y : Open(y) /\ y # Top => Open(y)'
         /\ Top # Guard => Guards' = Guards
         /\ Top = Guard => Cardinality(Guards') = Cardinality(Guards) - 1
<1>1. /\ Len(scopes) \in Nat \ {0} /\ DOMAIN scopes = 1 .. Len(scopes)
      /\ scopes' \in Seq(Timers \cup {Guard}) /\ DOMAIN scopes' = 1 .. Len(scopes) - 1
      /\ \A i \in 1 .. Len(scopes) - 1 : scopes'[i] = scopes[i]
      /\ Top \in Timers \cup {Guard}
  BY DEF TypeOK, Closed, Top
<1>2. \A y : Open(y) /\ y # Top => Open(y)'
  BY <1>1 DEF Open, Top
<1>3. Guards' = Guards \ {Len(scopes)} /\ (Len(scopes) \in Guards <=> Top = Guard)
  BY <1>1 DEF Guards, Guard, Top
<1>4. Top = Guard => Cardinality(Guards') = Cardinality(Guards) - 1
  BY <1>3, GuardsAreFinite, FS_RemoveElement
<1> QED BY <1>1, <1>2, <1>3, <1>4

\* The end of a scope, whatever ends it.
LEMMA LeaveScopeKeeps ==
  ASSUME IInv, LeaveScope, UNCHANGED thrown, event' \in {event, status},
         UNCHANGED status
  PROVE  /\ scopes' \in Seq(Timers \cup {Guard}) /\ allowed' \in BOOLEAN
         /\ sender' \in [Senders -> SenderPlaces]
         /\ Cell' /\ TimerStopped'
<1> USE EventsAssumption DEF IInv
<1>1. Closed
  BY DEF LeaveScope, Closed
<1>2. /\ scopes' \in Seq(Timers \cup {Guard}) /\ Top \in Timers \cup {Guard}
      /\ \A y : Open(y) /\ y # Top => Open(y)'
  BY <1>1, ClosedFacts
<1>3. /\ sender' \in [Senders -> SenderPlaces]
      /\ \A s \in Senders : /\ sender'[s] = "armed" => sender[s] = "armed"
                            /\ sender[s] = "accepted" => sender'[s] = "accepted"
                            /\ s \in Timers /\ s = Top => sender'[s] # "armed"
  BY <1>2 DEF LeaveScope, Become, TypeOK, SenderPlaces, Senders, Guard
<1>4. TimerStopped'
  BY <1>2, <1>3 DEF TimerStopped, Senders
<1>5. Cell'
  BY <1>3 DEF Cell, TypeOK
<1>6. allowed' \in BOOLEAN
  BY DEF LeaveScope, TypeOK
<1> QED BY <1>2, <1>3, <1>4, <1>5, <1>6

-----------------------------------------------------------------------------

LEMMA NextIInv == IInv /\ [Next]_vars => IInv'
<1> SUFFICES ASSUME IInv, [Next]_vars PROVE IInv'
  OBVIOUS
<1> USE EventsAssumption DEF IInv
<1>1. ASSUME NEW t \in Timers, OpenTimeout(t) PROVE IInv'
  <2>1. Opened(t) /\ t \in Senders /\ t # None
    BY <1>1 DEF OpenTimeout, Opened, Senders
  <2>2. scopes' \in Seq(Timers \cup {Guard}) /\ \A y : Open(y) \/ y = t => Open(y)'
    BY <2>1, OpenedFacts
  <2>3. /\ sender' \in [Senders -> SenderPlaces] /\ sender[t] = "idle"
        /\ \A s \in Senders : s # t => sender'[s] = sender[s]
    BY <1>1, <2>1 DEF OpenTimeout, Become, TypeOK, SenderPlaces
  <2>4. TypeOK'
    BY <1>1, <2>2, <2>3 DEF OpenTimeout, TypeOK
  <2>5. TimerStopped'
    BY <2>2, <2>3 DEF TimerStopped, Senders
  <2>6. Cell'
    BY <1>1, <2>1, <2>3 DEF OpenTimeout, Cell, TypeOK
  <2> QED BY <2>4, <2>5, <2>6
<1>2. ASSUME NEW t \in Timers, Expire(t) PROVE IInv'
  <2>1. /\ t \in Senders /\ sender[t] = "armed" /\ sender' \in [Senders -> SenderPlaces]
        /\ \A s \in Senders : s # t => sender'[s] = sender[s]
        /\ sender'[t] = "expired"
    BY <1>2 DEF Expire, Become, TypeOK, SenderPlaces, Senders
  <2>2. UNCHANGED <<status, allowed, code, caller, event, scopes, thrown>>
    BY <1>2 DEF Expire, userVars
  <2>3. TypeOK' /\ Cell'
    BY <2>1, <2>2 DEF TypeOK, Cell
  <2>4. TimerStopped'
    BY <2>1, <2>2 DEF TimerStopped, Open, Senders
  <2> QED BY <2>3, <2>4
<1>3. ASSUME NEW s \in Senders, Check(s) PROVE IInv'
  <2>1. /\ sender[s] \notin {"armed", "accepted"} /\ sender' \in [Senders -> SenderPlaces]
        /\ \A r \in Senders : r # s => sender'[r] = sender[r]
        /\ sender'[s] \in {"passed", "refused"}
    BY <1>3 DEF Check, Become, TypeOK, SenderPlaces
  <2>2. UNCHANGED <<status, allowed, code, caller, event, scopes, thrown>>
    BY <1>3 DEF Check, userVars
  <2>3. TypeOK' /\ Cell'
    BY <2>1, <2>2 DEF TypeOK, Cell
  <2>4. TimerStopped'
    BY <2>1, <2>2 DEF TimerStopped, Open, Senders
  <2> QED BY <2>3, <2>4
<1>4. ASSUME NEW s \in Senders, Store(s) PROVE IInv'
  <2>1. /\ sender[s] = "passed" /\ sender' \in [Senders -> SenderPlaces]
        /\ \A r \in Senders : r # s => sender'[r] = sender[r]
        /\ sender'[s] = "accepted" /\ status' = s
    BY <1>4 DEF Store, Become, TypeOK, SenderPlaces
  <2>2. UNCHANGED <<allowed, code, caller, event, scopes, thrown>>
    BY <1>4 DEF Store, userVars
  <2>3. TypeOK' /\ Cell'
    BY <2>1, <2>2 DEF TypeOK, Cell
  <2>4. TimerStopped'
    BY <2>1, <2>2 DEF TimerStopped, Open, Senders
  <2> QED BY <2>3, <2>4
<1>5. CASE HandleEvents
  BY <1>5 DEF HandleEvents, Handle, TypeOK, Cell, TimerStopped, Open, CodePlaces, Callers
<1>6. CASE FinishReset
  <2>1. scopes' = scopes \/ Opened(Guard)
    BY <1>6 DEF FinishReset, Opened
  <2>2. scopes' \in Seq(Timers \cup {Guard}) /\ \A y : Open(y) => Open(y)'
    BY <2>1, OpenedFacts DEF TypeOK, Open
  <2>3. TypeOK' /\ Cell'
    BY <1>6, <2>2 DEF FinishReset, TypeOK, Cell, CodePlaces
  <2>4. TimerStopped'
    BY <1>6, <2>2 DEF FinishReset, TimerStopped
  <2> QED BY <2>3, <2>4
<1>7. CASE OpenGuard
  <2>1. scopes' = scopes \/ Opened(Guard)
    BY <1>7 DEF OpenGuard, Opened
  <2>2. scopes' \in Seq(Timers \cup {Guard}) /\ \A y : Open(y) => Open(y)'
    BY <2>1, OpenedFacts DEF TypeOK, Open
  <2>3. TypeOK' /\ Cell'
    BY <1>7, <2>2 DEF OpenGuard, Handle, TypeOK, Cell, CodePlaces, Callers
  <2>4. TimerStopped'
    BY <1>7, <2>2 DEF OpenGuard, TimerStopped
  <2> QED BY <2>3, <2>4
<1>8. CASE CloseScope
  <2>1. event' \in {event, status} /\ UNCHANGED <<status, thrown>>
    BY <1>8 DEF CloseScope, Handle
  <2>2. /\ scopes' \in Seq(Timers \cup {Guard}) /\ allowed' \in BOOLEAN
        /\ sender' \in [Senders -> SenderPlaces]
        /\ Cell' /\ TimerStopped'
    BY <1>8, <2>1, LeaveScopeKeeps DEF CloseScope
  <2> QED BY <1>8, <2>1, <2>2 DEF CloseScope, Handle, TypeOK, CodePlaces, Callers
<1>9. CASE Unwind
  <2>1. /\ scopes' \in Seq(Timers \cup {Guard}) /\ allowed' \in BOOLEAN
        /\ sender' \in [Senders -> SenderPlaces]
        /\ Cell' /\ TimerStopped'
    BY <1>9, LeaveScopeKeeps DEF Unwind
  <2> QED BY <1>9, <2>1 DEF Unwind, TypeOK
<1>10. CASE Throw \/ Catch \/ End
  BY <1>10 DEF Throw, Catch, End, TypeOK, Cell, TimerStopped, Open, CodePlaces
<1>11. CASE UNCHANGED vars
  BY <1>11 DEF vars, userVars, TypeOK, Cell, TimerStopped, Open
<1> QED
  BY <1>1, <1>2, <1>3, <1>4, <1>5, <1>6, <1>7, <1>8, <1>9, <1>10, <1>11 DEF Next

\* Guards open and close, and events are handled where they are allowed.
LEMMA NextEnabling ==
  ASSUME TypeOK, Enabling, [Next]_vars
  PROVE  Enabling'
<1> USE EventsAssumption
<1>1. Cardinality(Guards) \in Nat /\ MaxGuards \in Nat /\ allowed \in BOOLEAN
  BY GuardsAreFinite DEF TypeOK
<1>2. CASE UNCHANGED <<scopes, allowed>> /\ (code' = "reset" => allowed)
  BY <1>2 DEF Enabling, Guards
<1>3. CASE /\ Opened(Guard)
           /\ ~allowed' /\ code' # "reset" /\ Cardinality(Guards) < MaxGuards
  <2>1. Guards' # {} /\ Cardinality(Guards') = Cardinality(Guards) + 1
    BY <1>3, OpenedFacts
  <2> QED BY <1>1, <1>3, <2>1 DEF Enabling
<1>4. ASSUME NEW t \in Timers, OpenTimeout(t) PROVE Enabling'
  <2>1. Opened(t) /\ t # Guard /\ UNCHANGED <<allowed, code>>
    BY <1>4 DEF OpenTimeout, Opened, Guard
  <2>2. Guards' = Guards
    BY <2>1, OpenedFacts
  <2> QED BY <2>1, <2>2 DEF Enabling
<1>5. CASE LeaveScope /\ (code' = "reset" => allowed' \/ code = "reset")
  <2>1. /\ Closed /\ allowed' = (allowed \/ Top = Guard)
    BY <1>5 DEF LeaveScope, Closed
  <2>2. /\ Top # Guard => Guards' = Guards
        /\ Top = Guard => Cardinality(Guards') = Cardinality(Guards) - 1
    BY <2>1, ClosedFacts
  <2>3. code' = "reset" => allowed'
    BY <1>5, <2>1 DEF Enabling
  <2>4. CASE Top = Guard
    <3>1. allowed' = TRUE
      BY <2>1, <2>4
    <3>2. Cardinality(Guards') < MaxGuards
      <4>1. Cardinality(Guards) <= MaxGuards
        BY DEF Enabling
      <4> QED BY <1>1, <2>2, <2>4, <4>1
    <3>3. Cardinality(Guards') <= MaxGuards
      BY <1>1, <2>2, <2>4, <3>2
    <3> QED BY <3>1, <3>2, <3>3 DEF Enabling
  <2>5. CASE Top # Guard
    <3>1. allowed' = allowed /\ Guards' = Guards
      BY <1>1, <2>1, <2>2, <2>5
    <3> QED BY <2>3, <3>1 DEF Enabling
  <2> QED BY <2>4, <2>5
<1>6. ASSUME NEW s \in Senders, Check(s) \/ Store(s) \/ (s \in Timers /\ Expire(s))
      PROVE  Enabling'
  BY <1>2, <1>6 DEF Check, Store, Expire, userVars, Enabling
<1>7. CASE HandleEvents
  BY <1>2, <1>7 DEF HandleEvents
<1>8. CASE FinishReset
  BY <1>2, <1>3, <1>8 DEF FinishReset, Opened, Enabling
<1>9. CASE OpenGuard
  BY <1>2, <1>3, <1>9 DEF OpenGuard, Handle, Opened
<1>10. CASE CloseScope
  BY <1>5, <1>10 DEF CloseScope, Handle
<1>11. CASE Unwind
  BY <1>5, <1>11 DEF Unwind
<1>12. CASE Throw \/ Catch \/ End \/ UNCHANGED vars
  BY <1>2, <1>12 DEF Throw, Catch, End, vars, userVars, Enabling
<1>13. \A t \in Timers : t \in Senders
  BY DEF Senders
<1> QED
  BY <1>4, <1>6, <1>7, <1>8, <1>9, <1>10, <1>11, <1>12, <1>13 DEF Next

-----------------------------------------------------------------------------

\* The inductive invariant, however the accesses to the cell interleave.
THEOREM InductiveInvariant == Spec => []IInv
<1>1. Init => IInv
  <2> SUFFICES ASSUME Init PROVE IInv
    OBVIOUS
  <2>1. TypeOK
    BY DEF Init, TypeOK, SenderPlaces, CodePlaces, Callers
  <2>2. Cell /\ TimerStopped
    BY DEF Init, Cell, TimerStopped, Senders
  <2> QED BY <2>1, <2>2 DEF IInv
<1>2. IInv /\ [Next]_vars => IInv'
  BY NextIInv
<1> QED BY <1>1, <1>2, PTL DEF Spec

\* handleEvents throws an event at most once.
THEOREM EventIsThrownOnce == Spec => []ThrownOnce
<1>1. IInv => ThrownOnce
  BY DEF IInv, Cell, ThrownOnce
<1> QED BY <1>1, InductiveInvariant, PTL

\* A timer runs only inside the scope of its Timeout.
THEOREM NoTimerIsLeft == Spec => []TimerStopped
<1>1. IInv => TimerStopped
  BY DEF IInv
<1> QED BY <1>1, InductiveInvariant, PTL

\* The events are disabled by open guards and by nothing else.
THEOREM GuardsEnable == ASSUME MaxGuards > 0 PROVE Spec => []Enabling
<1>1. Init => Enabling
  <2> SUFFICES ASSUME Init PROVE Enabling
    OBVIOUS
  <2>1. Guards = {} /\ Cardinality(Guards) = 0
    BY FS_EmptySet DEF Init, Guards
  <2> QED BY <2>1, EventsAssumption DEF Init, Enabling
<1>2. IInv /\ Enabling /\ [Next]_vars => Enabling'
  BY NextEnabling DEF IInv
<1> QED BY <1>1, <1>2, InductiveInvariant, PTL DEF Spec

\* Without an open guard the user's code runs with the events allowed; and the types.
THEOREM AllowedOutsideOfGuards == ASSUME MaxGuards > 0 PROVE Spec => []EventsInv
<1>1. IInv /\ Enabling => EventsInv
  BY DEF IInv, Enabling, EventsInv, AllowedOutside
<1> QED BY <1>1, InductiveInvariant, GuardsEnable, PTL

\* Inside the deepest guard no event is thrown.
THEOREM DeepestGuardIsQuiet == ASSUME MaxGuards > 0 PROVE Spec => QuietInGuard
<1>1. IInv /\ Enabling /\ [Next]_vars => [thrown' # thrown => Cardinality(Guards) < MaxGuards]_vars
  <2> SUFFICES ASSUME Enabling, Next, thrown' # thrown PROVE Cardinality(Guards) < MaxGuards
    BY DEF vars
  <2>1. CASE FinishReset
    BY <2>1 DEF FinishReset, Enabling
  <2>2. CASE ~FinishReset
    BY <2>2 DEF Next, OpenTimeout, Expire, Check, Store, HandleEvents, OpenGuard, CloseScope,
       Throw, Unwind, Catch, End, userVars, vars
  <2> QED BY <2>1, <2>2
<1> QED BY <1>1, InductiveInvariant, GuardsEnable, PTL DEF Spec, QuietInGuard

=============================================================================
