------------------------- MODULE ControlServerProofs -------------------------
(***************************************************************************)
(* Proofs that the safety properties of ControlServer hold for any number of *)
(* peers, of commands and of descriptors, and however recv() cuts or joins   *)
(* the packets.                                                             *)
(***************************************************************************)
EXTENDS ControlServer, TLAPS

(* The states at the start satisfy the invariant.                            *)
LEMMA InitInv == Init => IInv
<1> SUFFICES ASSUME Init PROVE IInv
  OBVIOUS
<1> USE ServerAssumption DEF Init
<1>1. TypeOK
  <2>1. merged \in BOOLEAN
    BY Zenon
  <2> QED BY <2>1 DEF TypeOK, Empty, Zero, COVER_OFF, COVER_ON
<1>2. PeerInv /\ StreamInv
  BY DEF PeerInv, StreamInv, Passed
<1>3. AnswerInv /\ NothingSkipped /\ AnswersFollowCommands
  BY DEF AnswerInv, NothingSkipped, AnswersFollowCommands
<1>4. DescriptorsAccounted
  BY DEF DescriptorsAccounted
<1> QED BY <1>1, <1>2, <1>3, <1>4 DEF IInv

(* An element more in a sequence.                                            *)
LEMMA OneMore ==
  ASSUME NEW S, NEW seq \in Seq(S), NEW e \in S
  PROVE  /\ \A i \in 1 .. Len(seq) : seq[i] \in S
         /\ Append(seq, e) \in Seq(S)
         /\ Len(Append(seq, e)) = Len(seq) + 1
         /\ \A i \in 1 .. Len(seq) + 1 : Append(seq, e)[i] = IF i <= Len(seq) THEN seq[i] ELSE e
OBVIOUS

(* An answer is for the packet it is made for if its command is known, and    *)
(* empty otherwise.                                                         *)
LEMMA AnswerShape ==
  ASSUME TypeOK, NEW k \in 1 .. MaxPackets
  PROVE  /\ Answer(k) \in [of : 0 .. MaxPackets, size : Nat, length : Nat]
         /\ asked[k] \in Known => Answer(k).of = k /\ Answer(k).size > 0
         /\ asked[k] \notin Known => Answer(k) = Empty
BY ServerAssumption
DEF TypeOK, Answer, Known, Reply, Text, Empty, COVER_OFF, COVER_ON

(* What a recv() that returns n halves leaves in the stream.                 *)
LEMMA ReadHalves ==
  ASSUME TypeOK, NEW n \in 1 .. Len(stream)
  PROVE  /\ SubSeq(stream, n + 1, Len(stream)) \in Seq((1 .. MaxPackets) \X {1, 2})
         /\ Len(SubSeq(stream, n + 1, Len(stream))) = Len(stream) - n
         /\ \A i \in 1 .. Len(stream) - n :
               SubSeq(stream, n + 1, Len(stream))[i] = stream[n + i]
BY DEF TypeOK

(* Two halves are taken for a packet only if they are one, and begin what is *)
(* unread: a recv() of one half cannot bring a packet.                       *)
LEMMA PacketIsWhole ==
  ASSUME TypeOK, StreamInv, NEW n \in 1 .. Len(stream), PacketIn(Fill(n)) # 0
  PROVE  /\ n >= 2
         /\ PacketIn(Fill(n)) \in 1 .. Len(asked)
         /\ 2 * PacketIn(Fill(n)) = Passed + 2
         /\ asked[PacketIn(Fill(n))] # "DAMAGED"
<1>1. /\ Fill(n)[1] = stream[1] /\ stream[1][2] = 1
      /\ Fill(n)[2] = Half(stream[1][1], 2)
      /\ asked[stream[1][1]] # "DAMAGED"
      /\ PacketIn(Fill(n)) = stream[1][1]
  BY DEF PacketIn, Fill
<1>2. n >= 2
  BY <1>1 DEF Fill, Half, Zero
<1>3. stream[1][1] \in Nat \ {0}
  BY ServerAssumption DEF TypeOK
<1>4. Place(stream[1]) = Passed + 1 /\ Passed \in Nat
  BY DEF StreamInv, Passed, TypeOK
<1>5. Place(stream[1]) = 2 * stream[1][1] + 1 - 2
  BY <1>1, Zenon DEF Place
<1>6. 2 * stream[1][1] = Passed + 2
  BY <1>3, <1>4, <1>5
<1>7. stream[1][1] \in 1 .. Len(asked)
  BY <1>2, <1>3, <1>6 DEF Passed, TypeOK
<1> QED BY <1>1, <1>2, <1>6, <1>7

(* What recv() does: it reads n halves, and an answer is put in the buffer    *)
(* for the packet they begin with, or RESEND will be sent.                   *)
LEMMA RecvReads ==
  ASSUME TypeOK, StreamInv, Recv
  PROVE  \E n \in 1 .. Len(stream) :
           /\ stream' \in Seq((1 .. MaxPackets) \X {1, 2})
           /\ Len(stream') = Len(stream) - n
           /\ \A i \in 1 .. Len(stream') : stream'[i] = stream[n + i]
           /\ merged' = (merged \/ n # 2)
           /\ \/ pc' = "resend" /\ send_buffer' = send_buffer
              \/ /\ pc' = "send" /\ n >= 2
                 /\ \E k \in 1 .. Len(asked) :
                       /\ 2 * k = Passed + 2
                       /\ asked[k] # "DAMAGED"
                       /\ send_buffer' = Answer(k)
<1>1. PICK n \in 1 .. Len(stream) :
        /\ recv_buffer' = Fill(n)
        /\ stream' = SubSeq(stream, n + 1, Len(stream))
        /\ merged' = (merged \/ n # 2)
  BY DEF Recv
<1>2. CASE PacketIn(Fill(n)) = 0
  BY <1>1, <1>2, ReadHalves DEF Recv
<1>3. CASE PacketIn(Fill(n)) # 0
  BY <1>1, <1>3, ReadHalves, PacketIsWhole DEF Recv
<1> QED BY <1>2, <1>3

(* No step breaks TypeOK: the descriptors suffice for what is open.         *)
LEMMA TypeStep ==
  ASSUME TypeOK, PeerInv, StreamInv, DescriptorsAccounted, [Next]_vars
  PROVE  TypeOK'
<1> USE ServerAssumption DEF TypeOK, setupVars, sessionVars, Empty, CloseClient
<1>1. CASE PortFreed
  BY <1>1 DEF PortFreed
<1>2. CASE Connect
  <2>1. merged' \in BOOLEAN
    BY <1>2, Zenon DEF Connect
  <2> QED BY <1>2, <2>1 DEF Connect
<1>3. CASE HangUp
  BY <1>3 DEF HangUp
<1>4. CASE \E command \in Commands : Ask(command)
  <2>1. PICK command \in Commands : Ask(command)
    BY <1>4
  <2>2. Len(asked) + 1 \in 1 .. MaxPackets
    BY <2>1 DEF Ask
  <2>3. asked' \in Seq(Commands) /\ Len(asked') = Len(asked) + 1
    BY <2>1 DEF Ask
  <2>4. <<Half(Len(asked) + 1, 1), Half(Len(asked) + 1, 2)>>
          \in Seq((1 .. MaxPackets) \X {1, 2})
    BY <2>2 DEF Half
  <2>5. stream' \in Seq((1 .. MaxPackets) \X {1, 2})
    BY <2>1, <2>4 DEF Ask
  <2> QED BY <2>1, <2>2, <2>3, <2>5 DEF Ask
<1>5. CASE Socket
  BY <1>5 DEF Socket
<1>6. CASE BindAndListen
  BY <1>6 DEF BindAndListen
<1>7. CASE BindFails
  BY <1>7 DEF BindFails, DescriptorsAccounted
<1>8. CASE Accept
  BY <1>8 DEF Accept
<1>9. CASE Recv
  <2>1. PICK n \in 1 .. Len(stream) :
          recv_buffer' = Fill(n) /\ merged' = (merged \/ n # 2)
    BY <1>9 DEF Recv
  <2>2. Len(recv_buffer') = 2
    BY <2>1 DEF Fill
  <2>3. merged' \in BOOLEAN
    BY <2>1, Zenon
  <2>4. stream' \in Seq((1 .. MaxPackets) \X {1, 2}) /\ pc' \in {"resend", "send"}
    BY <1>9, RecvReads
  <2>5. send_buffer' \in [of : 0 .. MaxPackets, size : Nat, length : Nat]
    <3>1. CASE send_buffer' = send_buffer
      BY <3>1
    <3>2. CASE \E k \in 1 .. Len(asked) : send_buffer' = Answer(k)
      <4>1. PICK k \in 1 .. Len(asked) : send_buffer' = Answer(k)
        BY <3>2
      <4>2. k \in 1 .. MaxPackets
        OBVIOUS
      <4> QED BY <4>1, <4>2, AnswerShape
    <3> QED BY <1>9, <3>1, <3>2, RecvReads
  <2> QED BY <1>9, <2>2, <2>3, <2>4, <2>5 DEF Recv
<1>10. CASE RecvEnds
  BY <1>10 DEF RecvEnds, DescriptorsAccounted
<1>11. CASE Resend
  <2>1. Reply(0, Text(6)) \in [of : 0 .. MaxPackets, size : Nat, length : Nat]
    BY DEF Reply, Text
  <2> QED BY <1>11, <2>1 DEF Resend, DescriptorsAccounted
<1>12. CASE Send
  <2>1. answers' \in Seq([of : 0 .. MaxPackets, size : Nat, length : Nat])
    <3>1. answers' = answers \/ answers' = Append(answers, send_buffer)
      BY <1>12 DEF Send
    <3>2. Append(answers, send_buffer) \in Seq([of : 0 .. MaxPackets, size : Nat, length : Nat])
      BY OneMore, Zenon
    <3> QED BY <3>1, <3>2, Zenon
  <2>2. Empty \in [of : 0 .. MaxPackets, size : Nat, length : Nat]
    OBVIOUS
  <2> QED BY <1>12, <2>1, <2>2 DEF Send
<1>13. CASE SendFails
  BY <1>13 DEF SendFails, DescriptorsAccounted
<1>14. CASE SendKills
  BY <1>14 DEF SendKills
<1>15. CASE UNCHANGED vars
  BY <1>15 DEF vars
<1> QED
  BY <1>1, <1>2, <1>3, <1>4, <1>5, <1>6, <1>7, <1>8,
     <1>9, <1>10, <1>11, <1>12, <1>13, <1>14, <1>15
  DEF Next, Server, Setup

(* Peers come when the server accepts, and go when it closes.               *)
LEMMA PeerStep ==
  ASSUME TypeOK, PeerInv, [Next]_vars
  PROVE  PeerInv'
<1> USE DEF TypeOK, PeerInv, setupVars, sessionVars, CloseClient
<1>1. CASE PortFreed
  BY <1>1 DEF PortFreed
<1>2. CASE Connect
  BY <1>2 DEF Connect
<1>3. CASE HangUp
  BY <1>3 DEF HangUp
<1>4. CASE \E command \in Commands : Ask(command)
  BY <1>4 DEF Ask
<1>5. CASE Socket
  BY <1>5 DEF Socket
<1>6. CASE BindAndListen
  BY <1>6 DEF BindAndListen
<1>7. CASE BindFails
  BY <1>7 DEF BindFails
<1>8. CASE Accept
  BY <1>8 DEF Accept
<1>9. CASE Recv
  BY <1>9 DEF Recv
<1>10. CASE RecvEnds
  BY <1>10 DEF RecvEnds
<1>11. CASE Resend
  BY <1>11 DEF Resend
<1>12. CASE Send
  BY <1>12 DEF Send
<1>13. CASE SendFails
  BY <1>13 DEF SendFails
<1>14. CASE SendKills
  BY <1>14 DEF SendKills
<1>15. CASE UNCHANGED vars
  BY <1>15 DEF vars
<1> QED
  BY <1>1, <1>2, <1>3, <1>4, <1>5, <1>6, <1>7, <1>8,
     <1>9, <1>10, <1>11, <1>12, <1>13, <1>14, <1>15
  DEF Next, Server, Setup

(* A new packet is the end of the stream.                                    *)
LEMMA AskedLast ==
  ASSUME TypeOK, StreamInv, NEW command \in Commands, Ask(command)
  PROVE  StreamInv'
<1>1. /\ Len(asked') = Len(asked) + 1
      /\ stream' = stream \o <<Half(Len(asked) + 1, 1), Half(Len(asked) + 1, 2)>>
  BY DEF TypeOK, Ask
<1>2. Len(asked) \in Nat /\ Len(stream) \in Nat
  BY DEF TypeOK
<1>3. /\ Len(stream') = Len(stream) + 2
      /\ \A i \in 1 .. Len(stream) : stream'[i] = stream[i]
      /\ stream'[Len(stream) + 1] = Half(Len(asked) + 1, 1)
      /\ stream'[Len(stream) + 2] = Half(Len(asked) + 1, 2)
  BY <1>1 DEF TypeOK
<1>4. Passed' = Passed /\ Passed = 2 * Len(asked) - Len(stream) /\ Passed >= 0
  BY <1>1, <1>2, <1>3 DEF Passed, StreamInv
<1>5. /\ Place(Half(Len(asked) + 1, 1)) = Passed + (Len(stream) + 1)
      /\ Place(Half(Len(asked) + 1, 2)) = Passed + (Len(stream) + 2)
  <2>1. /\ Place(Half(Len(asked) + 1, 1)) = 2 * (Len(asked) + 1) + 1 - 2
        /\ Place(Half(Len(asked) + 1, 2)) = 2 * (Len(asked) + 1) + 2 - 2
    BY <1>2 DEF Place, Half
  <2> QED BY <1>2, <1>4, <2>1
<1>6. ASSUME NEW i \in 1 .. Len(stream') PROVE Place(stream'[i]) = Passed + i
  <2>1. i \in 1 .. Len(stream) \/ i = Len(stream) + 1 \/ i = Len(stream) + 2
    BY <1>2, <1>3
  <2>2. CASE i \in 1 .. Len(stream)
    <3>1. Place(stream[i]) = Passed + i
      BY <2>2 DEF StreamInv
    <3> QED BY <1>3, <2>2, <3>1
  <2> QED BY <1>3, <1>5, <2>1, <2>2
<1> QED BY <1>4, <1>6 DEF StreamInv

(* The stream stays the end of what was sent.                               *)
LEMMA StreamStep ==
  ASSUME TypeOK, PeerInv, StreamInv, [Next]_vars
  PROVE  StreamInv'
<1> USE DEF TypeOK, PeerInv, StreamInv, Passed, setupVars, sessionVars, CloseClient
<1>1. CASE PortFreed
  BY <1>1 DEF PortFreed
<1>2. CASE Connect
  BY <1>2 DEF Connect
<1>3. CASE HangUp
  BY <1>3 DEF HangUp
<1>4. CASE \E command \in Commands : Ask(command)
  <2>1. PICK command \in Commands : Ask(command)
    BY <1>4
  <2> QED BY <2>1, AskedLast
<1>5. CASE Socket
  BY <1>5 DEF Socket
<1>6. CASE BindAndListen
  BY <1>6 DEF BindAndListen
<1>7. CASE BindFails
  BY <1>7 DEF BindFails
<1>8. CASE Accept
  BY <1>8 DEF Accept
<1>9. CASE Recv
  <2>1. PICK n \in 1 .. Len(stream) :
          /\ Len(stream') = Len(stream) - n
          /\ \A i \in 1 .. Len(stream') : stream'[i] = stream[n + i]
    BY <1>9, RecvReads
  <2>2. asked' = asked
    BY <1>9 DEF Recv
  <2>3. Passed' = Passed + n
    BY <2>1, <2>2
  <2>4. ASSUME NEW i \in 1 .. Len(stream') PROVE Place(stream'[i]) = Passed' + i
    <3>1. n + i \in 1 .. Len(stream) /\ stream'[i] = stream[n + i]
      BY <2>1
    <3>2. Place(stream[n + i]) = Passed + (n + i)
      BY <3>1
    <3>3. Place(stream'[i]) = Place(stream[n + i])
      BY <3>1, Zenon
    <3>4. Passed \in Int
      OBVIOUS
    <3> HIDE DEF Passed, TypeOK, StreamInv
    <3> QED BY <2>3, <3>2, <3>3, <3>4
  <2> QED BY <2>3, <2>4
<1>10. CASE RecvEnds
  BY <1>10 DEF RecvEnds
<1>11. CASE Resend
  BY <1>11 DEF Resend
<1>12. CASE Send
  BY <1>12 DEF Send
<1>13. CASE SendFails
  BY <1>13 DEF SendFails
<1>14. CASE SendKills
  BY <1>14 DEF SendKills
<1>15. CASE UNCHANGED vars
  BY <1>15 DEF vars
<1> QED
  BY <1>1, <1>2, <1>3, <1>4, <1>5, <1>6, <1>7, <1>8,
     <1>9, <1>10, <1>11, <1>12, <1>13, <1>14, <1>15
  DEF Next, Server, Setup

(* Until another peer is there, what has been read stays read, and is the     *)
(* same command.                                                            *)
LEMMA OnceRead ==
  ASSUME TypeOK, PeerInv, StreamInv, [Next]_vars, ~Connect
  PROVE  /\ Passed \in Nat /\ Passed' \in Nat /\ Passed <= Passed'
         /\ Len(asked) \in Nat /\ Len(asked') \in Nat /\ Len(asked) <= Len(asked')
         /\ \A k \in 1 .. Len(asked) : asked'[k] = asked[k]
         /\ \A k \in Nat : 2 * k <= Passed => k <= Len(asked)
<1> USE DEF TypeOK, PeerInv, StreamInv, Passed, setupVars, sessionVars, CloseClient
<1>1. CASE PortFreed
  BY <1>1 DEF PortFreed
<1>2. CASE Connect
  BY <1>2
<1>3. CASE HangUp
  BY <1>3 DEF HangUp
<1>4. CASE \E command \in Commands : Ask(command)
  <2>1. PICK command \in Commands : Ask(command)
    BY <1>4
  <2>2. Len(asked') = Len(asked) + 1 /\ Len(stream') = Len(stream) + 2
    BY <2>1 DEF Ask
  <2>3. \A k \in 1 .. Len(asked) : asked'[k] = asked[k]
    BY <2>1 DEF Ask
  <2> QED BY <2>2, <2>3
<1>5. CASE Socket
  BY <1>5 DEF Socket
<1>6. CASE BindAndListen
  BY <1>6 DEF BindAndListen
<1>7. CASE BindFails
  BY <1>7 DEF BindFails
<1>8. CASE Accept
  BY <1>8 DEF Accept
<1>9. CASE Recv
  <2>1. PICK n \in 1 .. Len(stream) : Len(stream') = Len(stream) - n
    BY <1>9, RecvReads
  <2>2. asked' = asked
    BY <1>9 DEF Recv
  <2> QED BY <2>1, <2>2
<1>10. CASE RecvEnds
  BY <1>10 DEF RecvEnds
<1>11. CASE Resend
  BY <1>11 DEF Resend
<1>12. CASE Send
  BY <1>12 DEF Send
<1>13. CASE SendFails
  BY <1>13 DEF SendFails
<1>14. CASE SendKills
  BY <1>14 DEF SendKills
<1>15. CASE UNCHANGED vars
  BY <1>15 DEF vars
<1> QED
  BY <1>1, <1>2, <1>3, <1>4, <1>5, <1>6, <1>7, <1>8,
     <1>9, <1>10, <1>11, <1>12, <1>13, <1>14, <1>15
  DEF Next, Server, Setup

(* So a known command that has been read remains one.                        *)
LEMMA OnceDue ==
  ASSUME TypeOK, PeerInv, StreamInv, [Next]_vars, ~Connect,
         NEW k \in Nat \ {0}, Due(k)
  PROVE  Due(k)' /\ 2 * k <= Passed' /\ asked'[k] \in Known
<1>1. k \in 1 .. Len(asked)
  BY OnceRead DEF Due
<1>2. asked'[k] = asked[k] /\ 2 * k <= Passed'
  BY <1>1, OnceRead DEF Due
<1> QED BY <1>2 DEF Due

(* The packets that answers are for have numbers.                            *)
LEMMA AnswersNumbered ==
  ASSUME TypeOK
  PROVE  /\ send_buffer.of \in Nat /\ send_buffer.size \in Nat /\ Len(answers) \in Nat
         /\ \A i \in 1 .. Len(answers) : answers[i].of \in Nat
         /\ \A k \in 1 .. Len(asked) : k \in 1 .. MaxPackets
<1>1. ASSUME NEW i \in 1 .. Len(answers) PROVE answers[i].of \in Nat
  <2>1. /\ answers \in Seq([of : 0 .. MaxPackets, size : Nat, length : Nat])
        /\ send_buffer \in [of : 0 .. MaxPackets, size : Nat, length : Nat]
    BY Zenon DEF TypeOK
  <2>2. answers[i] \in [of : 0 .. MaxPackets, size : Nat, length : Nat]
    BY <2>1, OneMore, Zenon
  <2> QED BY <2>2, ServerAssumption
<1> QED BY <1>1, ServerAssumption DEF TypeOK

(* A step that leaves the answers and the buffer alone, or empties it: what    *)
(* was answered stays due.                                                  *)
LEMMA AnswersKept ==
  ASSUME TypeOK, PeerInv, StreamInv, AnswerInv, [Next]_vars, ~Connect,
         answers' = answers, pc' = "send" => pc = "send" /\ send_buffer' = send_buffer,
         peer = "none" => peer' = "none"
  PROVE  AnswerInv'
<1>1. /\ pc' = "send" /\ send_buffer'.of # 0 => Due(send_buffer.of)' /\ send_buffer'.size > 0
      /\ pc' = "send" /\ send_buffer'.of = 0 => send_buffer'.size = 0
  BY OnceDue DEF AnswerInv, TypeOK
<1>2. ASSUME NEW i \in 1 .. Len(answers)
      PROVE  /\ answers[i].of # 0 => Due(answers[i].of)'
             /\ pc' = "send" /\ send_buffer'.of # 0 => answers[i].of < send_buffer'.of
             /\ answers[i].of = 0 => peer' = "none"
  BY OnceDue, AnswersNumbered DEF AnswerInv
<1> QED BY <1>1, <1>2 DEF AnswerInv

(* What is answered was read and is known.                                  *)
LEMMA AnswerStep ==
  ASSUME TypeOK, PeerInv, StreamInv, AnswerInv, [Next]_vars
  PROVE  AnswerInv'
<1> USE DEF setupVars, sessionVars, CloseClient
<1>1. CASE PortFreed
  BY <1>1, AnswersKept DEF PortFreed, Connect, TypeOK
<1>2. CASE Connect
  BY <1>2 DEF Connect, AnswerInv
<1>3. CASE HangUp
  BY <1>3, AnswersKept DEF HangUp, Connect, TypeOK
<1>4. CASE \E command \in Commands : Ask(command)
  BY <1>4, AnswersKept DEF Ask, Connect, TypeOK
<1>5. CASE Socket
  BY <1>5, AnswersKept DEF Socket, Connect, TypeOK
<1>6. CASE BindAndListen
  BY <1>6, AnswersKept DEF BindAndListen, Connect, TypeOK
<1>7. CASE BindFails
  BY <1>7, AnswersKept DEF BindFails, Connect, TypeOK
<1>8. CASE Accept
  BY <1>8, AnswersKept DEF Accept, Connect, TypeOK
<1>9. CASE Recv
  <2>1. PICK n \in 1 .. Len(stream) :
          /\ Len(stream') = Len(stream) - n
          /\ \/ pc' = "resend" /\ send_buffer' = send_buffer
             \/ /\ pc' = "send" /\ n >= 2
                /\ \E k \in 1 .. Len(asked) :
                      /\ 2 * k = Passed + 2
                      /\ asked[k] # "DAMAGED"
                      /\ send_buffer' = Answer(k)
    BY <1>9, RecvReads
  <2>2. CASE pc' = "resend"
    BY <1>9, <2>2, AnswersKept DEF Recv, Connect
  <2>3. CASE pc' = "send"
    <3>1. PICK k \in 1 .. Len(asked) :
            2 * k = Passed + 2 /\ send_buffer' = Answer(k) /\ n >= 2
      BY <2>1, <2>3
    <3>2. asked' = asked /\ answers' = answers /\ peer' = peer /\ peer # "none"
      BY <1>9 DEF Recv, PeerInv
    <3>3. 2 * k <= Passed'
      BY <2>1, <3>1, <3>2 DEF Passed, TypeOK
    <3>4. /\ asked[k] \in Known => send_buffer'.of = k /\ send_buffer'.size > 0 /\ Due(k)'
          /\ asked[k] \notin Known => send_buffer'.of = 0 /\ send_buffer'.size = 0
      <4>1. k \in 1 .. MaxPackets
        BY AnswersNumbered
      <4> QED BY <3>1, <3>2, <3>3, <4>1, AnswerShape DEF Due, Empty
    <3>5. ASSUME NEW i \in 1 .. Len(answers)
          PROVE  Due(answers[i].of)' /\ answers[i].of < k /\ answers[i].of # 0
      <4>1. answers[i].of # 0 /\ answers[i].of \in Nat /\ Due(answers[i].of)
        BY <3>2, AnswersNumbered DEF AnswerInv
      <4>2. Due(answers[i].of)'
        BY <4>1, <1>9, OnceDue DEF Recv, Connect
      <4>3. answers[i].of < k
        BY <3>1, <4>1, OnceRead, <1>9 DEF Due, Recv, Connect
      <4> QED BY <4>1, <4>2, <4>3
    <3> QED BY <2>3, <3>2, <3>4, <3>5 DEF AnswerInv
  <2> QED BY <2>1, <2>2, <2>3
<1>10. CASE RecvEnds
  BY <1>10, AnswersKept DEF RecvEnds, Connect, TypeOK
<1>11. CASE Resend
  <2>1. /\ answers' = Append(answers, Reply(0, Text(6))) /\ Reply(0, Text(6)).of = 0
        /\ peer' = "none" /\ pc' = "accept"
    BY <1>11 DEF Resend, Reply
  <2>2. /\ Len(answers') = Len(answers) + 1 /\ answers'[Len(answers) + 1].of = 0
        /\ \A i \in 1 .. Len(answers) : answers'[i] = answers[i]
    BY <2>1 DEF TypeOK
  <2>3. ASSUME NEW i \in 1 .. Len(answers), answers[i].of # 0
        PROVE  2 * answers[i].of <= Passed' /\ asked'[answers[i].of] \in Known
    BY <2>3, <1>11, OnceDue, AnswersNumbered DEF AnswerInv, Resend, Connect
  <2>4. ASSUME NEW i \in 1 .. Len(answers'), answers'[i].of # 0
        PROVE  2 * answers'[i].of <= Passed' /\ asked'[answers'[i].of] \in Known
    <3>1. i \in 1 .. Len(answers) /\ answers'[i] = answers[i]
      BY <2>2, <2>4, AnswersNumbered
    <3> QED BY <2>3, <2>4, <3>1
  <2> QED BY <2>1, <2>4 DEF AnswerInv, Due
<1>12. CASE Send
  <2>1. CASE send_buffer.size = 0
    BY <1>12, <2>1, AnswersKept DEF Send, Connect
  <2>2. CASE send_buffer.size # 0
    <3>1. answers' = Append(answers, send_buffer) /\ pc' = "recv" /\ peer' = peer
      BY <1>12, <2>2 DEF Send
    <3>2. send_buffer.of \in Nat \ {0} /\ Due(send_buffer.of) /\ peer # "none"
      BY <1>12, <2>2 DEF Send, AnswerInv, PeerInv, TypeOK
    <3>3. /\ Len(answers') = Len(answers) + 1 /\ answers'[Len(answers) + 1] = send_buffer
          /\ \A i \in 1 .. Len(answers) : answers'[i] = answers[i]
      BY <3>1 DEF TypeOK
    <3>4. ASSUME NEW i \in 1 .. Len(answers')
          PROVE  answers'[i].of \in Nat \ {0} /\ Due(answers'[i].of)
      <4>1. CASE i = Len(answers) + 1
        BY <3>2, <3>3, <4>1
      <4>2. CASE i # Len(answers) + 1
        <5>1. i \in 1 .. Len(answers) /\ answers'[i] = answers[i]
          BY <3>3, <4>2, AnswersNumbered
        <5> QED BY <1>12, <3>2, <5>1, AnswersNumbered DEF AnswerInv, Send
      <4> QED BY <4>1, <4>2
    <3>5. ASSUME NEW i \in 1 .. Len(answers')
          PROVE  /\ answers'[i].of # 0 /\ 2 * answers'[i].of <= Passed'
                 /\ asked'[answers'[i].of] \in Known
      BY <3>4, <1>12, OnceDue DEF Send, Connect
    <3> QED BY <3>1, <3>5 DEF AnswerInv, Due
  <2> QED BY <2>1, <2>2
<1>13. CASE SendFails
  BY <1>13, AnswersKept DEF SendFails, Connect, TypeOK
<1>14. CASE SendKills
  BY <1>14, AnswersKept DEF SendKills, Connect, TypeOK
<1>15. CASE UNCHANGED vars
  BY <1>15, AnswersKept DEF vars, Connect, TypeOK
<1> QED
  BY <1>1, <1>2, <1>3, <1>4, <1>5, <1>6, <1>7, <1>8,
     <1>9, <1>10, <1>11, <1>12, <1>13, <1>14, <1>15
  DEF Next, Server, Setup

(* A step that reads nothing and takes no answer away skips nothing.          *)
LEMMA NothingLost ==
  ASSUME TypeOK, PeerInv, StreamInv, NothingSkipped, [Next]_vars, ~Connect,
         Passed' = Passed, answers' = answers, merged' = merged,
         pc' \in {"accept", "recv", "send"} /\ peer' # "none" =>
            /\ peer # "none"
            /\ pc \in {"accept", "recv", "send"}
            /\ pc = "send" => pc' = "send" /\ send_buffer' = send_buffer
  PROVE  NothingSkipped'
<1> SUFFICES ASSUME ~merged, peer # "none", pc \in {"accept", "recv", "send"},
                    pc = "send" => pc' = "send" /\ send_buffer' = send_buffer,
                    NEW k \in 1 .. Len(asked'), 2 * k <= Passed', asked'[k] \in Known
             PROVE  Answered(k)'
  BY DEF NothingSkipped, Due
<1>1. k \in 1 .. Len(asked) /\ Due(k)
  BY OnceRead DEF Due
<1>2. Answered(k)
  BY <1>1 DEF NothingSkipped
<1> QED BY <1>2 DEF Answered

(* Whoever sends one packet at a time has each of them answered.            *)
LEMMA SkipStep ==
  ASSUME TypeOK, PeerInv, StreamInv, AnswerInv, NothingSkipped, [Next]_vars
  PROVE  NothingSkipped'
<1> USE DEF setupVars, sessionVars, CloseClient
<1>1. CASE PortFreed
  BY <1>1, NothingLost DEF PortFreed, Connect, Passed
<1>2. CASE Connect
  BY <1>2 DEF Connect, NothingSkipped
<1>3. CASE HangUp
  BY <1>3, NothingLost DEF HangUp, Connect, Passed
<1>4. CASE \E command \in Commands : Ask(command)
  <2>1. PICK command \in Commands : Ask(command)
    BY <1>4
  <2>2. Len(asked') = Len(asked) + 1 /\ Len(stream') = Len(stream) + 2
    BY <2>1 DEF Ask
  <2>3. Passed' = Passed
    BY <2>2 DEF Passed
  <2> QED BY <2>1, <2>3, NothingLost DEF Ask, Connect
<1>5. CASE Socket
  BY <1>5 DEF Socket, NothingSkipped, PeerInv
<1>6. CASE BindAndListen
  BY <1>6 DEF BindAndListen, NothingSkipped, PeerInv
<1>7. CASE BindFails
  BY <1>7 DEF BindFails, NothingSkipped, PeerInv
<1>8. CASE Accept
  BY <1>8, NothingLost DEF Accept, Connect, Passed
<1>9. CASE Recv
  <2>1. PICK n \in 1 .. Len(stream) :
          /\ Len(stream') = Len(stream) - n
          /\ merged' = (merged \/ n # 2)
          /\ \/ pc' = "resend" /\ send_buffer' = send_buffer
             \/ /\ pc' = "send" /\ n >= 2
                /\ \E k \in 1 .. Len(asked) :
                      /\ 2 * k = Passed + 2
                      /\ asked[k] # "DAMAGED"
                      /\ send_buffer' = Answer(k)
    BY <1>9, RecvReads
  <2>2. /\ asked' = asked /\ answers' = answers /\ peer' = peer /\ peer # "none"
        /\ pc = "recv"
    BY <1>9 DEF Recv, PeerInv
  <2> SUFFICES ASSUME ~merged', pc' = "send", NEW j \in 1 .. Len(asked),
                      2 * j <= Passed', asked[j] \in Known
               PROVE  Answered(j)'
    BY <2>1, <2>2 DEF NothingSkipped, Due
  <2>3. ~merged /\ n = 2
    BY <2>1
  <2>4. PICK k \in 1 .. Len(asked) : 2 * k = Passed + 2 /\ send_buffer' = Answer(k)
    BY <2>1
  <2>5. Passed' = Passed + 2 /\ Passed \in Int
    BY <2>1, <2>2, <2>3 DEF Passed
  <2>6. CASE j = k
    BY <2>4, <2>6, AnswerShape, AnswersNumbered DEF Answered
  <2>7. CASE j # k
    <3>1. Due(j)
      BY <2>4, <2>5, <2>7 DEF Due
    <3>2. Answered(j)
      BY <2>2, <2>3, <3>1 DEF NothingSkipped
    <3> QED BY <2>2, <3>2 DEF Answered
  <2> QED BY <2>6, <2>7
<1>10. CASE RecvEnds
  BY <1>10 DEF RecvEnds, NothingSkipped
<1>11. CASE Resend
  BY <1>11 DEF Resend, NothingSkipped
<1>12. CASE Send
  <2> SUFFICES ASSUME ~merged, NEW k \in 1 .. Len(asked), Due(k)
               PROVE  \E i \in 1 .. Len(answers') : answers'[i].of = k
    BY <1>12 DEF Send, NothingSkipped, Due, Answered, Passed
  <2>1. (\E i \in 1 .. Len(answers) : answers[i].of = k) \/ send_buffer.of = k
    BY <1>12 DEF Send, NothingSkipped, Answered, PeerInv
  <2>2. CASE send_buffer.of = k
    <3>1. send_buffer.size # 0
      BY <1>12, <2>2, AnswersNumbered DEF Send, AnswerInv
    <3>2. Len(answers') = Len(answers) + 1 /\ answers'[Len(answers) + 1] = send_buffer
      BY <1>12, <3>1 DEF Send
    <3>3. Len(answers) + 1 \in 1 .. Len(answers')
      BY <3>2, AnswersNumbered
    <3> QED BY <2>2, <3>2, <3>3
  <2>3. CASE \E i \in 1 .. Len(answers) : answers[i].of = k
    <3>1. PICK i \in 1 .. Len(answers) : answers[i].of = k
      BY <2>3
    <3>2. Len(answers') >= Len(answers) /\ answers'[i] = answers[i]
      BY <1>12 DEF Send
    <3>3. i \in 1 .. Len(answers')
      BY <3>2, AnswersNumbered DEF TypeOK
    <3> QED BY <3>1, <3>2, <3>3
  <2> QED BY <2>1, <2>2, <2>3
<1>13. CASE SendFails
  BY <1>13 DEF SendFails, NothingSkipped
<1>14. CASE SendKills
  BY <1>14 DEF SendKills, NothingSkipped, PeerInv
<1>15. CASE UNCHANGED vars
  BY <1>15, NothingLost DEF vars, Connect, Passed
<1> QED
  BY <1>1, <1>2, <1>3, <1>4, <1>5, <1>6, <1>7, <1>8,
     <1>9, <1>10, <1>11, <1>12, <1>13, <1>14, <1>15
  DEF Next, Server, Setup

(* Commands that come after the answers leave these in order.                *)
LEMMA AsFollowed ==
  ASSUME TypeOK, PeerInv, StreamInv, AnswersFollowCommands, [Next]_vars, ~Connect,
         answers' = answers
  PROVE  AnswersFollowCommands'
BY OnceRead DEF AnswersFollowCommands

(* Answers go out in the order of the commands, each once.                  *)
LEMMA FollowStep ==
  ASSUME TypeOK, PeerInv, StreamInv, AnswerInv, AnswersFollowCommands, [Next]_vars
  PROVE  AnswersFollowCommands'
<1> USE DEF setupVars, sessionVars, CloseClient
<1>1. CASE PortFreed
  BY <1>1, AsFollowed DEF PortFreed, Connect
<1>2. CASE Connect
  BY <1>2 DEF Connect, AnswersFollowCommands
<1>3. CASE HangUp
  BY <1>3, AsFollowed DEF HangUp, Connect
<1>4. CASE \E command \in Commands : Ask(command)
  BY <1>4, AsFollowed DEF Ask, Connect
<1>5. CASE Socket
  BY <1>5, AsFollowed DEF Socket, Connect
<1>6. CASE BindAndListen
  BY <1>6, AsFollowed DEF BindAndListen, Connect
<1>7. CASE BindFails
  BY <1>7, AsFollowed DEF BindFails, Connect
<1>8. CASE Accept
  BY <1>8, AsFollowed DEF Accept, Connect
<1>9. CASE Recv
  BY <1>9, AsFollowed DEF Recv, Connect
<1>10. CASE RecvEnds
  BY <1>10, AsFollowed DEF RecvEnds, Connect
<1>11. CASE Resend
  <2>1. answers' = Append(answers, Reply(0, Text(6))) /\ Reply(0, Text(6)).of = 0
    BY <1>11 DEF Resend, Reply
  <2>2. /\ Len(answers') = Len(answers) + 1 /\ answers'[Len(answers) + 1].of = 0
        /\ \A i \in 1 .. Len(answers) : answers'[i] = answers[i]
    BY <2>1 DEF TypeOK
  <2>3. asked' = asked
    BY <1>11 DEF Resend
  <2>4. ASSUME NEW j \in 1 .. Len(answers'), answers'[j].of # 0
        PROVE  j \in 1 .. Len(answers) /\ \A i \in 1 .. j : answers'[i] = answers[i]
    <3>1. j \in 1 .. Len(answers)
      BY <2>2, <2>4, AnswersNumbered
    <3> QED BY <2>2, <3>1, AnswersNumbered
  <2> SUFFICES ASSUME NEW j \in 1 .. Len(answers'), answers'[j].of # 0
               PROVE  /\ answers'[j].of \in 1 .. Len(asked)
                      /\ asked[answers'[j].of] # "DAMAGED"
                      /\ \A i \in 1 .. j - 1 : answers'[i].of < answers'[j].of
    BY <2>3 DEF AnswersFollowCommands
  <2>5. j \in 1 .. Len(answers) /\ answers[j].of # 0 /\ answers'[j] = answers[j]
    BY <2>4
  <2>6. \A i \in 1 .. j - 1 : answers'[i] = answers[i]
    BY <2>4, <2>5, AnswersNumbered
  <2> QED BY <2>5, <2>6 DEF AnswersFollowCommands
<1>12. CASE Send
  <2>1. CASE send_buffer.size = 0
    BY <1>12, <2>1, AsFollowed DEF Send, Connect
  <2>2. CASE send_buffer.size # 0
    <3>1. /\ answers' = Append(answers, send_buffer) /\ asked' = asked /\ pc = "send"
          /\ send_buffer.of \in Nat \ {0}
      BY <1>12, <2>2, AnswersNumbered DEF Send, AnswerInv
    <3>2. /\ Len(answers') = Len(answers) + 1 /\ answers'[Len(answers) + 1] = send_buffer
          /\ \A i \in 1 .. Len(answers) : answers'[i] = answers[i]
      BY <3>1 DEF TypeOK
    <3> SUFFICES ASSUME NEW j \in 1 .. Len(answers'), answers'[j].of # 0
                 PROVE  /\ answers'[j].of \in 1 .. Len(asked)
                        /\ asked[answers'[j].of] # "DAMAGED"
                        /\ \A i \in 1 .. j - 1 : answers'[i].of < answers'[j].of
      BY <3>1 DEF AnswersFollowCommands
    <3>3. CASE j = Len(answers) + 1
      <4>1. Due(send_buffer.of) /\ \A i \in 1 .. Len(answers) : answers[i].of < send_buffer.of
        BY <3>1 DEF AnswerInv
      <4>2. send_buffer.of \in 1 .. Len(asked) /\ asked[send_buffer.of] # "DAMAGED"
        BY <3>1, <4>1, <1>12, OnceRead DEF Due, Known, Send, Connect
      <4>3. \A i \in 1 .. j - 1 : i \in 1 .. Len(answers) /\ answers'[i] = answers[i]
        BY <3>2, <3>3, AnswersNumbered
      <4> QED BY <3>2, <3>3, <4>1, <4>2, <4>3
    <3>4. CASE j # Len(answers) + 1
      <4>1. j \in 1 .. Len(answers) /\ answers'[j] = answers[j]
        BY <3>2, <3>4, AnswersNumbered
      <4>2. \A i \in 1 .. j - 1 : answers'[i] = answers[i]
        BY <3>2, <4>1, AnswersNumbered
      <4> QED BY <4>1, <4>2 DEF AnswersFollowCommands
    <3> QED BY <3>3, <3>4
  <2> QED BY <2>1, <2>2
<1>13. CASE SendFails
  BY <1>13, AsFollowed DEF SendFails, Connect
<1>14. CASE SendKills
  BY <1>14, AsFollowed DEF SendKills, Connect
<1>15. CASE UNCHANGED vars
  BY <1>15, AsFollowed DEF vars, Connect
<1> QED
  BY <1>1, <1>2, <1>3, <1>4, <1>5, <1>6, <1>7, <1>8,
     <1>9, <1>10, <1>11, <1>12, <1>13, <1>14, <1>15
  DEF Next, Server, Setup

(* A descriptor is open, lost with a failure, or free.                      *)
LEMMA AccountStep ==
  ASSUME TypeOK, DescriptorsAccounted, [Next]_vars
  PROVE  DescriptorsAccounted'
<1> USE ServerAssumption DEF TypeOK, DescriptorsAccounted, setupVars, sessionVars, CloseClient
<1>1. CASE PortFreed
  BY <1>1 DEF PortFreed
<1>2. CASE Connect
  BY <1>2 DEF Connect
<1>3. CASE HangUp
  BY <1>3 DEF HangUp
<1>4. CASE \E command \in Commands : Ask(command)
  BY <1>4 DEF Ask
<1>5. CASE Socket
  BY <1>5 DEF Socket
<1>6. CASE BindAndListen
  BY <1>6 DEF BindAndListen
<1>7. CASE BindFails
  BY <1>7 DEF BindFails
<1>8. CASE Accept
  BY <1>8 DEF Accept
<1>9. CASE Recv
  <2>1. pc = "recv" /\ pc' \in {"resend", "send"} /\ UNCHANGED <<free, failures>>
    BY <1>9 DEF Recv
  <2> QED BY <2>1
<1>10. CASE RecvEnds
  BY <1>10 DEF RecvEnds
<1>11. CASE Resend
  BY <1>11 DEF Resend
<1>12. CASE Send
  BY <1>12 DEF Send
<1>13. CASE SendFails
  BY <1>13 DEF SendFails
<1>14. CASE SendKills
  BY <1>14 DEF SendKills
<1>15. CASE UNCHANGED vars
  BY <1>15 DEF vars
<1> QED
  BY <1>1, <1>2, <1>3, <1>4, <1>5, <1>6, <1>7, <1>8,
     <1>9, <1>10, <1>11, <1>12, <1>13, <1>14, <1>15
  DEF Next, Server, Setup

-----------------------------------------------------------------------------
(* The invariant holds in every state of every execution.                    *)
THEOREM Invariance == Spec => []IInv
<1>1. ASSUME IInv, [Next]_vars PROVE IInv'
  <2>1. TypeOK'
    BY <1>1, TypeStep DEF IInv
  <2>2. PeerInv' /\ StreamInv'
    BY <1>1, PeerStep, StreamStep DEF IInv
  <2>3. AnswerInv' /\ NothingSkipped'
    BY <1>1, AnswerStep, SkipStep DEF IInv
  <2>4. AnswersFollowCommands' /\ DescriptorsAccounted'
    BY <1>1, FollowStep, AccountStep DEF IInv
  <2> QED BY <2>1, <2>2, <2>3, <2>4 DEF IInv
<1> QED BY InitInv, <1>1, PTL DEF Spec

(* However TCP cuts or joins the commands, no answer is given twice, out of   *)
(* order, or for a damaged packet: AnswersFollowCommands, for any number of *)
(* commands and peers.                                                      *)
THEOREM AnswersInOrder == Spec => []AnswersFollowCommands
<1>1. IInv => AnswersFollowCommands
  BY DEF IInv
<1> QED BY Invariance, <1>1, PTL

(* A peer whose packets arrive one by one has every command answered, and     *)
(* nothing else: NoneSkippedUnlessMerged.                                   *)
THEOREM OneByOneNoneSkipped == Spec => []NoneSkippedUnlessMerged
<1>1. ASSUME IInv PROVE NoneSkippedUnlessMerged
  <2> SUFFICES ASSUME ~merged, pc = "recv", stream = <<>>
               PROVE  {k \in 1 .. Len(asked) : asked[k] \in Known}
                        = {answers[i].of : i \in 1 .. Len(answers)}
    BY DEF NoneSkippedUnlessMerged
  <2>1. Len(asked) \in Nat /\ Passed = 2 * Len(asked) /\ peer # "none"
    BY <1>1 DEF IInv, TypeOK, PeerInv, Passed
  <2>2. ASSUME NEW k \in 1 .. Len(asked), asked[k] \in Known
        PROVE  \E i \in 1 .. Len(answers) : answers[i].of = k
    BY <1>1, <2>1, <2>2 DEF IInv, NothingSkipped, Due, Answered
  <2>3. ASSUME NEW i \in 1 .. Len(answers)
        PROVE  answers[i].of \in 1 .. Len(asked) /\ asked[answers[i].of] \in Known
    <3>1. answers[i].of \in Nat \ {0} /\ Due(answers[i].of)
      BY <1>1, <2>1, AnswersNumbered DEF IInv, AnswerInv
    <3> QED BY <2>1, <3>1 DEF Due
  <2> QED BY <2>2, <2>3
<1> QED BY Invariance, <1>1, PTL

(* The server loses descriptors with failed attempts to listen, and with     *)
(* nothing else: DescriptorsAccounted.                                      *)
THEOREM OnlyFailuresLeak == Spec => []DescriptorsAccounted
<1>1. IInv => DescriptorsAccounted
  BY DEF IInv
<1> QED BY Invariance, <1>1, PTL
=============================================================================
