------------------------- MODULE HeartbeatClientProofs -------------------------
(***************************************************************************)
(* Proofs that the safety properties of HeartbeatClient hold however many    *)
(* packets the server sends and however often the client connects.          *)
(***************************************************************************)
EXTENDS HeartbeatClient, FiniteSetTheorems, TLAPS

(* The states at the start satisfy the invariant.                            *)
LEMMA InitInv == Init => IInv
<1> SUFFICES ASSUME Init PROVE IInv
  OBVIOUS
<1> USE ClientAssumption DEF Init, COVER_OFF, COVER_ON, Nothing
<1>1. TypeOK
  <2>1. answersOnly \in BOOLEAN /\ regular \in BOOLEAN
    BY Zenon
  <2> QED BY <2>1 DEF TypeOK
<1>2. Requests
  <2>1. Unread = {}
    BY DEF Unread
  <2> QED BY <2>1, FS_EmptySet DEF Requests
<1>3. Prepared /\ Silent /\ Alternation /\ StateAlternates
  BY DEF Prepared, Silent, Alternation, StateAlternates
<1> QED BY <1>1, <1>2, <1>3 DEF IInv

(* Nothing that is received leads to a heartbeat.                            *)
LEMMA NothingReceived ==
  stream = <<>> => \A n \in 0 .. Len(stream) : n = 0 /\ ~IsHeartbeat(SubSeq(stream, 1, n))
BY DEF IsHeartbeat

(* What is left in the stream by a recv() that returns n pieces.             *)
LEMMA ReadPieces ==
  ASSUME TypeOK, NEW n \in 0 .. Len(stream)
  PROVE  /\ SubSeq(stream, n + 1, Len(stream)) \in Seq({HeartbeatHead, OtherHead, Rest})
         /\ Len(SubSeq(stream, n + 1, Len(stream))) = Len(stream) - n
         /\ \A i \in 1 .. Len(stream) - n :
               SubSeq(stream, n + 1, Len(stream))[i] = stream[n + i]
         /\ IsHeartbeat(SubSeq(stream, 1, n)) => n > 0 /\ stream[1] = HeartbeatHead
BY DEF TypeOK, IsHeartbeat

(* No step breaks TypeOK: the state is never anything but on or off.         *)
LEMMA TypeStep ==
  ASSUME TypeOK, Prepared, [Next]_vars
  PROVE  TypeOK'
<1> USE ClientAssumption DEF TypeOK, serverVars, COVER_OFF, COVER_ON, Nothing
<1>1. CASE \E head \in {HeartbeatHead, OtherHead} : Write(head)
  BY <1>1 DEF Write
<1>2. CASE \E how \in {"ended", "reset"} : EndLink(how)
  BY <1>2 DEF EndLink
<1>3. CASE Connect
  BY <1>3 DEF Connect
<1>4. CASE Prepare
  BY <1>4 DEF Prepare, Toggled
<1>5. CASE Recv
  <2>1. PICK n \in 0 .. Len(stream) :
          /\ stream' = SubSeq(stream, n + 1, Len(stream))
          /\ regular' = (regular /\ n = 2 /\ stream[1] = HeartbeatHead)
          /\ IF IsHeartbeat(SubSeq(stream, 1, n))
               THEN pc' = "send" /\ UNCHANGED send_buffer
               ELSE pc' = "prepare" /\ send_buffer' = Nothing
    BY <1>5 DEF Recv
  <2>2. stream' \in Seq({HeartbeatHead, OtherHead, Rest})
    BY <2>1, ReadPieces
  <2>3. regular' \in BOOLEAN
    BY <2>1, Zenon
  <2>4. pc' \in {"send", "prepare"} /\ send_buffer' \in {send_buffer, Nothing}
    BY <2>1
  <2> QED BY <1>5, <2>2, <2>3, <2>4 DEF Recv
<1>6. CASE RecvFails
  BY <1>6 DEF RecvFails
<1>7. CASE Send
  BY <1>7 DEF Send, Prepared
<1>8. CASE SendFails
  BY <1>8 DEF SendFails
<1>9. CASE Close
  BY <1>9 DEF Close
<1>10. CASE UNCHANGED vars
  BY <1>10 DEF vars
<1> QED
  BY <1>1, <1>2, <1>3, <1>4, <1>5, <1>6, <1>7, <1>8, <1>9, <1>10
  DEF Next, Server, Client

(* What is prepared is not touched until it is sent or thrown away.          *)
LEMMA PreparedStep ==
  ASSUME TypeOK, Prepared, [Next]_vars
  PROVE  Prepared'
<1> USE DEF TypeOK, Prepared, serverVars
<1>1. CASE \E head \in {HeartbeatHead, OtherHead} : Write(head)
  BY <1>1 DEF Write
<1>2. CASE \E how \in {"ended", "reset"} : EndLink(how)
  BY <1>2 DEF EndLink
<1>3. CASE Connect
  BY <1>3 DEF Connect
<1>4. CASE Prepare
  BY <1>4 DEF Prepare
<1>5. CASE Recv
  BY <1>5 DEF Recv
<1>6. CASE RecvFails
  BY <1>6 DEF RecvFails
<1>7. CASE Send
  BY <1>7 DEF Send
<1>8. CASE SendFails
  BY <1>8 DEF SendFails
<1>9. CASE Close
  BY <1>9 DEF Close
<1>10. CASE UNCHANGED vars
  BY <1>10 DEF vars
<1> QED
  BY <1>1, <1>2, <1>3, <1>4, <1>5, <1>6, <1>7, <1>8, <1>9, <1>10
  DEF Next, Server, Client

(* The server waits for the client and the client for the server.            *)
LEMMA SilentStep ==
  ASSUME TypeOK, Silent, [Next]_vars
  PROVE  Silent'
<1> USE DEF TypeOK, Silent, serverVars
<1>1. CASE \E head \in {HeartbeatHead, OtherHead} : Write(head)
  BY <1>1 DEF Write
<1>2. CASE \E how \in {"ended", "reset"} : EndLink(how)
  BY <1>2 DEF EndLink
<1>3. CASE Connect
  BY <1>3 DEF Connect
<1>4. CASE Prepare
  BY <1>4 DEF Prepare
<1>5. CASE Recv
  BY <1>5, NothingReceived DEF Recv
<1>6. CASE RecvFails
  BY <1>6 DEF RecvFails
<1>7. CASE Send
  BY <1>7 DEF Send
<1>8. CASE SendFails
  BY <1>8 DEF SendFails
<1>9. CASE Close
  BY <1>9 DEF Close
<1>10. CASE UNCHANGED vars
  BY <1>10 DEF vars
<1> QED
  BY <1>1, <1>2, <1>3, <1>4, <1>5, <1>6, <1>7, <1>8, <1>9, <1>10
  DEF Next, Server, Client

(* Only finitely many heartbeats are unread.                                 *)
LEMMA UnreadFinite ==
  ASSUME TypeOK
  PROVE  IsFiniteSet(Unread) /\ Cardinality(Unread) \in Nat
<1>1. IsFiniteSet(1 .. Len(stream))
  BY FS_Interval DEF TypeOK
<1>2. Unread \in SUBSET (1 .. Len(stream))
  BY DEF Unread
<1> QED BY <1>1, <1>2, FS_Subset, FS_CardinalityType

(* A set that, moved n places up, lies within a finite set is no larger.      *)
LEMMA ShiftedSet ==
  ASSUME NEW n \in Nat, NEW T, IsFiniteSet(T), NEW S, S \subseteq Nat,
         \A i \in S : n + i \in T
  PROVE  Cardinality(S) \in Nat /\ Cardinality(S) <= Cardinality(T)
<1> DEFINE f == [i \in S |-> n + i]
<1>1. f \in Injection(S, T)
  <2>1. f \in [S -> T]
    OBVIOUS
  <2>2. \A a, b \in S : f[a] = f[b] => a = b
    OBVIOUS
  <2> QED BY <2>1, <2>2 DEF Injection, IsInjective
<1> QED BY <1>1, FS_Injection, FS_CardinalityType

(* Reading a heartbeat takes it from the stream, however it is cut.          *)
LEMMA RequestsStep ==
  ASSUME TypeOK, Requests, [Next]_vars
  PROVE  Requests'
<1>1. CASE \E head \in {HeartbeatHead, OtherHead} : Write(head)
  <2> PICK head \in {HeartbeatHead, OtherHead} : Write(head)
    BY <1>1
  <2>1. /\ stream' = stream \o <<head, Rest>>
        /\ requested' = IF head = HeartbeatHead THEN requested + 1 ELSE requested
        /\ UNCHANGED <<pc, beats>>
    BY DEF Write
  <2>2. \A i \in 1 .. Len(stream') : i \in 1 .. Len(stream) \/ i = Len(stream) + 1 \/ i = Len(stream) + 2
    BY <2>1 DEF TypeOK
  <2>3. /\ \A i \in 1 .. Len(stream) : stream'[i] = stream[i]
        /\ stream'[Len(stream) + 1] = head /\ stream'[Len(stream) + 2] = Rest
    BY <2>1 DEF TypeOK
  <2>4. CASE head = HeartbeatHead
    <3>1. Unread' \subseteq Unread \cup {Len(stream) + 1}
      BY <2>2, <2>3 DEF Unread, HeartbeatHead, Rest
    <3>2. Cardinality(Unread') \in Nat /\ Cardinality(Unread') <= Cardinality(Unread) + 1
      <4>1. /\ IsFiniteSet(Unread \cup {Len(stream) + 1})
          /\ Cardinality(Unread \cup {Len(stream) + 1}) \in {Cardinality(Unread), Cardinality(Unread) + 1}
      BY UnreadFinite, FS_AddElement
    <4>2. /\ IsFiniteSet(Unread')
          /\ Cardinality(Unread') <= Cardinality(Unread \cup {Len(stream) + 1})
      BY <3>1, <4>1, FS_Subset
    <4> QED BY <4>1, <4>2, UnreadFinite, FS_CardinalityType
    <3> QED BY <2>1, <2>4, <3>2, UnreadFinite DEF Requests, TypeOK
  <2>5. CASE head # HeartbeatHead
    <3>1. Unread' \subseteq Unread
      BY <2>2, <2>3, <2>5 DEF Unread, HeartbeatHead, Rest
    <3>2. Cardinality(Unread') \in Nat /\ Cardinality(Unread') <= Cardinality(Unread)
      BY <3>1, UnreadFinite, FS_Subset, FS_CardinalityType
    <3> QED BY <2>1, <2>5, <3>2, UnreadFinite DEF Requests, TypeOK
  <2> QED BY <2>4, <2>5
<1>2. CASE \E how \in {"ended", "reset"} : EndLink(how)
  <2>1. UNCHANGED <<stream, beats, requested, pc>>
    BY <1>2 DEF EndLink, serverVars
  <2>2. Unread' = Unread
    BY <2>1 DEF Unread
  <2> QED BY <2>1, <2>2 DEF Requests
<1>3. CASE Connect
  <2>1. stream' = <<>> /\ beats' = <<>> /\ requested' = 0 /\ pc' = "prepare"
    BY <1>3 DEF Connect
  <2>2. Unread' = {}
    BY <2>1 DEF Unread
  <2> QED BY <2>1, <2>2, FS_EmptySet DEF Requests
<1>4. CASE Prepare
  <2>1. UNCHANGED <<stream, beats, requested>> /\ pc' # "send"
    BY <1>4 DEF Prepare, serverVars
  <2>2. Unread' = Unread
    BY <2>1 DEF Unread
  <2> QED BY <2>1, <2>2, UnreadFinite DEF Requests, TypeOK
<1>5. CASE Recv
  <2>1. PICK n \in 0 .. Len(stream) :
          /\ stream' = SubSeq(stream, n + 1, Len(stream))
          /\ IF IsHeartbeat(SubSeq(stream, 1, n)) THEN pc' = "send" ELSE pc' = "prepare"
    BY <1>5 DEF Recv
  <2>2. pc = "recv" /\ UNCHANGED <<beats, requested>>
    BY <1>5 DEF Recv
  <2>3. CASE IsHeartbeat(SubSeq(stream, 1, n))
    <3>1. 1 \in Unread /\ n > 0
      BY <2>3, ReadPieces DEF Unread
    <3>2. \A i \in Unread' : n + i \in Unread \ {1}
      BY <2>1, <3>1, ReadPieces DEF Unread, TypeOK
    <3>3. Cardinality(Unread') \in Nat /\ Cardinality(Unread') <= Cardinality(Unread \ {1})
      <4>1. IsFiniteSet(Unread \ {1})
      BY UnreadFinite, FS_RemoveElement
    <4>2. Unread' \subseteq Nat
      BY DEF Unread
    <4>3. n \in Nat
      BY DEF TypeOK
    <4> QED BY <3>2, <4>1, <4>2, <4>3, ShiftedSet
    <3>4. Cardinality(Unread \ {1}) = Cardinality(Unread) - 1
      BY <3>1, UnreadFinite, FS_RemoveElement
    <3> QED BY <2>1, <2>2, <2>3, <3>3, <3>4, UnreadFinite DEF Requests, TypeOK
  <2>4. CASE ~IsHeartbeat(SubSeq(stream, 1, n))
    <3>1. \A i \in Unread' : n + i \in Unread
      BY <2>1, ReadPieces DEF Unread, TypeOK
    <3>2. Cardinality(Unread') \in Nat /\ Cardinality(Unread') <= Cardinality(Unread)
      <4>1. Unread' \subseteq Nat
      BY DEF Unread
    <4>2. n \in Nat
      BY DEF TypeOK
    <4> QED BY <3>1, <4>1, <4>2, ShiftedSet, UnreadFinite
    <3> QED BY <2>1, <2>2, <2>4, <3>2, UnreadFinite DEF Requests, TypeOK
  <2> QED BY <2>3, <2>4
<1>6. CASE RecvFails
  <2>1. UNCHANGED <<stream, beats, requested>> /\ pc' # "send"
    BY <1>6 DEF RecvFails, serverVars
  <2>2. Unread' = Unread
    BY <2>1 DEF Unread
  <2> QED BY <2>1, <2>2, UnreadFinite DEF Requests, TypeOK
<1>7. CASE Send
  <2>1. /\ UNCHANGED <<stream, requested>> /\ pc = "send" /\ pc' = "prepare"
        /\ Len(beats') = Len(beats) + 1
    BY <1>7 DEF Send, TypeOK
  <2>2. Unread' = Unread
    BY <2>1 DEF Unread
  <2> QED BY <2>1, <2>2, UnreadFinite DEF Requests, TypeOK
<1>8. CASE SendFails
  <2>1. UNCHANGED <<stream, beats, requested>> /\ pc' # "send"
    BY <1>8 DEF SendFails, serverVars
  <2>2. Unread' = Unread
    BY <2>1 DEF Unread
  <2> QED BY <2>1, <2>2, UnreadFinite DEF Requests, TypeOK
<1>9. CASE Close
  <2>1. UNCHANGED <<stream, beats, requested>> /\ pc' # "send"
    BY <1>9 DEF Close, serverVars
  <2>2. Unread' = Unread
    BY <2>1 DEF Unread
  <2> QED BY <2>1, <2>2, UnreadFinite DEF Requests, TypeOK
<1>10. CASE UNCHANGED vars
  <2>1. UNCHANGED <<stream, beats, requested, pc>>
    BY <1>10 DEF vars, serverVars
  <2>2. Unread' = Unread
    BY <2>1 DEF Unread
  <2> QED BY <2>1, <2>2 DEF Requests
<1> QED
  BY <1>1, <1>2, <1>3, <1>4, <1>5, <1>6, <1>7, <1>8, <1>9, <1>10
  DEF Next, Server, Client

(* While every turn sends a heartbeat, the time stamp tells how the state of  *)
(* this turn differs from those of the last two.                            *)
LEMMA AlternationStep ==
  ASSUME TypeOK, Prepared, Alternation, [Next]_vars
  PROVE  Alternation'
<1> USE DEF TypeOK, Alternation, serverVars
<1>1. CASE \E head \in {HeartbeatHead, OtherHead} : Write(head)
  BY <1>1 DEF Write
<1>2. CASE \E how \in {"ended", "reset"} : EndLink(how)
  BY <1>2 DEF EndLink
<1>3. CASE Connect
  BY <1>3 DEF Connect
<1>4. CASE Prepare
  BY <1>4 DEF Prepare, Toggled, COVER_OFF, COVER_ON
<1>5. CASE Recv
  <2>1. PICK n \in 0 .. Len(stream) :
          /\ regular' = (regular /\ n = 2 /\ stream[1] = HeartbeatHead)
          /\ IsHeartbeat(SubSeq(stream, 1, n)) => pc' = "send"
    BY <1>5 DEF Recv
  <2>2. regular' => regular /\ pc' = "send"
    <3> SUFFICES ASSUME regular' PROVE regular /\ pc' = "send"
      OBVIOUS
    <3>1. regular /\ n = 2 /\ stream[1] = HeartbeatHead
      BY <2>1
    <3>2. IsHeartbeat(SubSeq(stream, 1, n))
      BY <3>1 DEF IsHeartbeat
    <3> QED BY <2>1, <3>1, <3>2
  <2>3. pc = "recv" /\ UNCHANGED <<timestamp, cover_state, beats>>
    BY <1>5 DEF Recv
  <2> QED BY <2>2, <2>3
<1>6. CASE RecvFails
  BY <1>6 DEF RecvFails
<1>7. CASE Send
  BY <1>7 DEF Send, Prepared
<1>8. CASE SendFails
  BY <1>8 DEF SendFails
<1>9. CASE Close
  BY <1>9 DEF Close
<1>10. CASE UNCHANGED vars
  BY <1>10 DEF vars
<1> QED
  BY <1>1, <1>2, <1>3, <1>4, <1>5, <1>6, <1>7, <1>8, <1>9, <1>10
  DEF Next, Server, Client

(* The heartbeat that is sent differs from the last but one.                 *)
LEMMA AlternatesStep ==
  ASSUME TypeOK, Prepared, Alternation, StateAlternates, [Next]_vars
  PROVE  StateAlternates'
<1> USE DEF TypeOK, StateAlternates, serverVars
<1>1. CASE \E head \in {HeartbeatHead, OtherHead} : Write(head)
  BY <1>1 DEF Write
<1>2. CASE \E how \in {"ended", "reset"} : EndLink(how)
  BY <1>2 DEF EndLink
<1>3. CASE Connect
  BY <1>3 DEF Connect
<1>4. CASE Prepare
  BY <1>4 DEF Prepare
<1>5. CASE Recv
  BY <1>5 DEF Recv
<1>6. CASE RecvFails
  BY <1>6 DEF RecvFails
<1>7. CASE Send
  <2>1. /\ beats' = Append(beats, cover_state) /\ UNCHANGED regular
        /\ regular /\ Len(beats) >= 2 => beats[Len(beats) - 1] # cover_state
    BY <1>7 DEF Send, Prepared, Alternation
  <2>2. /\ Len(beats') = Len(beats) + 1 /\ beats'[Len(beats) + 1] = cover_state
        /\ \A i \in 1 .. Len(beats) : beats'[i] = beats[i]
    BY <2>1
  <2> SUFFICES ASSUME regular, NEW i \in 1 .. Len(beats) - 1
               PROVE  beats'[i] # beats'[i + 2]
    BY <2>1, <2>2
  <2>3. CASE i = Len(beats) - 1
    BY <2>1, <2>2, <2>3
  <2>4. CASE i \in 1 .. Len(beats) - 2
    BY <2>2, <2>4
  <2> QED BY <2>3, <2>4
<1>8. CASE SendFails
  BY <1>8 DEF SendFails
<1>9. CASE Close
  BY <1>9 DEF Close
<1>10. CASE UNCHANGED vars
  BY <1>10 DEF vars
<1> QED
  BY <1>1, <1>2, <1>3, <1>4, <1>5, <1>6, <1>7, <1>8, <1>9, <1>10
  DEF Next, Server, Client

(* No step breaks the invariant.                                             *)
LEMMA StepInv == IInv /\ [Next]_vars => IInv'
BY TypeStep, PreparedStep, RequestsStep, SilentStep, AlternationStep, AlternatesStep DEF IInv

(* Every state satisfies the invariant, and with it the type invariant.      *)
THEOREM Invariance == Spec => []IInv
BY InitInv, StepInv, PTL DEF Spec

(* The client answers each heartbeat at most once and begins with none,      *)
(* wherever recv() cuts the stream.                                         *)
THEOREM NeverUnasked == Spec => []OneBeatPerRequest
<1>1. IInv => OneBeatPerRequest
  BY UnreadFinite DEF IInv, Requests, TypeOK, OneBeatPerRequest
<1> QED BY <1>1, Invariance, PTL

(* With a server like that of the demo, nothing is ever sent by either side.  *)
THEOREM TwoOfADemoAreSilent == Spec => []NobodyBegins
<1>1. IInv => NobodyBegins
  BY DEF IInv, Silent, NobodyBegins
<1> QED BY <1>1, Invariance, PTL

(* While each turn receives one heartbeat, the state sent alternates.        *)
THEOREM EverySecondTurn == Spec => []StateAlternates
<1>1. IInv => StateAlternates
  BY DEF IInv
<1> QED BY <1>1, Invariance, PTL

(* A client whose stream has ended has lost the server: no step, and so no    *)
(* sequence of steps, gets it out of its loop.                              *)
THEOREM NoWayBack == Spec => SpinsForEver
<1>1. [Next]_vars => [Spinning => Spinning' /\ beats' = beats]_vars
  <2> SUFFICES ASSUME [Next]_vars, Spinning PROVE Spinning' /\ beats' = beats
    OBVIOUS
  <2> USE DEF Spinning, serverVars
  <2>1. CASE \E head \in {HeartbeatHead, OtherHead} : Write(head)
    BY <2>1 DEF Write
  <2>2. CASE \E how \in {"ended", "reset"} : EndLink(how)
    BY <2>2 DEF EndLink
  <2>3. CASE Connect
    BY <2>3 DEF Connect
  <2>4. CASE Prepare
    BY <2>4 DEF Prepare
  <2>5. CASE Recv
    BY <2>5, NothingReceived DEF Recv
  <2>6. CASE RecvFails
    BY <2>6 DEF RecvFails
  <2>7. CASE Send
    BY <2>7 DEF Send
  <2>8. CASE SendFails
    BY <2>8 DEF SendFails
  <2>9. CASE Close
    BY <2>9 DEF Close
  <2>10. CASE UNCHANGED vars
    BY <2>10 DEF vars
  <2> QED
    BY <2>1, <2>2, <2>3, <2>4, <2>5, <2>6, <2>7, <2>8, <2>9, <2>10
    DEF Next, Server, Client
<1> QED BY <1>1, PTL DEF Spec, SpinsForEver
=============================================================================
