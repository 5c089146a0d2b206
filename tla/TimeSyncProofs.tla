---------------------------- MODULE TimeSyncProofs ----------------------------
(***************************************************************************)
(* Proofs that the properties of TimeSync hold for every number of retries,  *)
(* every timeout and delay, and every pair of epochs.                       *)
(***************************************************************************)
EXTENDS TimeSync, TLAPS

(* A time stamp fits in its 32 bits.                                         *)
LEMMA StampType == \A t \in Nat : Stamp(t) \in 0 .. Wrap - 1
  BY TimeAssumption DEF Stamp

(* Until the time of Unix itself wraps round, a time stamp is either the sum  *)
(* of the time and the offset, or that less one turn.                       *)
LEMMA StampOnce ==
  ASSUME NEW t \in Nat, t < Wrap
  PROVE  Stamp(t) \in {t + Offset, t + Offset - Wrap}
<1> DEFINE q == (t + Offset) \div Wrap
<1>1. /\ Wrap \in Nat /\ Offset \in Nat /\ 0 < Wrap
      /\ t + Offset < Wrap + Wrap
  BY TimeAssumption
<1>2. /\ q \in Int
      /\ t + Offset = Wrap * q + Stamp(t)
      /\ Stamp(t) \in 0 .. Wrap - 1
  BY <1>1, StampType DEF Stamp
<1> HIDE DEF q
<1>3. q >= 0
  <2> SUFFICES ASSUME q <= -1 PROVE FALSE
    BY <1>2
  <2>1. Wrap * q <= -Wrap
    BY <1>1, <1>2
  <2> QED BY <2>1, <1>1, <1>2
<1>4. q <= 1
  <2> SUFFICES ASSUME q >= 2 PROVE FALSE
    BY <1>2
  <2>1. Wrap * q >= Wrap + Wrap
    BY <1>1, <1>2
  <2> QED BY <2>1, <1>1, <1>2
<1>5. q = 0 \/ q = 1
  BY <1>2, <1>3, <1>4
<1> QED BY <1>1, <1>2, <1>5

(* The initial states satisfy the invariant.                                 *)
LEMMA InitInv == Init => IInv
<1> SUFFICES ASSUME Init PROVE IInv
  OBVIOUS
<1> USE TimeAssumption DEF Init, Garbage, NotSet, Short
<1>1. TypeOK
  <2>1. now \in Nat /\ ntp_response \in Garbage .. Wrap - 1 /\ clock \in NotSet .. Wrap - 1
    OBVIOUS
  <2>2. answered \in BOOLEAN
    BY Zenon
  <2> QED BY <2>1, <2>2 DEF TypeOK
<1>2. Fresh /\ Attempts /\ Response /\ ClockSet
  BY DEF Fresh, Attempts, Response, ClockSet
<1> QED BY <1>1, <1>2 DEF IInv

(* No step breaks TypeOK: in particular no more requests than retries are on   *)
(* their way, and the clock is never set beyond what 32 bits can say.        *)
LEMMA TypeStep ==
  ASSUME TypeOK, Attempts, [Next]_vars
  PROVE  TypeOK'
<1> USE TimeAssumption DEF TypeOK, Attempts, netVars, Garbage, NotSet, Short
<1>1. CASE Answer
  BY <1>1 DEF Answer
<1>2. CASE Lose
  <2>1. /\ requests' \in {requests, requests - 1} /\ requests' >= 0
        /\ replies' \subseteq replies
    BY <1>2 DEF Lose
  <2>2. UNCHANGED <<now, replied, inbuf, pc, retries, deadline, ntp_response, answered, clock>>
    BY <1>2 DEF Lose
  <2>3. requests' \in 0 .. MaxRetries
    BY <2>1
  <2>4. replies' \subseteq Nat
    BY <2>1
  <2> QED BY <2>2, <2>3, <2>4
<1>3. CASE \E t \in replies : Arrive(t)
  BY <1>3, StampType DEF Arrive
<1>4. CASE Tick
  BY <1>4 DEF Tick
<1>5. CASE SendTo
  BY <1>5 DEF SendTo
<1>6. CASE SendFails
  BY <1>6 DEF SendFails
<1>7. CASE LoopEnds
  BY <1>7 DEF LoopEnds
<1>8. CASE SelectTimeout
  BY <1>8 DEF SelectTimeout
<1>9. CASE SelectFails
  BY <1>9 DEF SelectFails
<1>10. CASE SelectReady
  BY <1>10 DEF SelectReady
<1>11. CASE Recv
  BY <1>11 DEF Recv
<1>12. CASE RecvInterrupted
  BY <1>12 DEF RecvInterrupted
<1>13. CASE RecvFails
  BY <1>13 DEF RecvFails
<1>14. CASE GiveUp
  BY <1>14 DEF GiveUp
<1>15. CASE SetTime
  BY <1>15 DEF SetTime, UnixTime
<1>16. CASE UNCHANGED vars
  BY <1>16 DEF vars
<1> QED
  BY <1>1, <1>2, <1>3, <1>4, <1>5, <1>6, <1>7, <1>8, <1>9, <1>10, <1>11, <1>12, <1>13, <1>14, <1>15, <1>16
  DEF Next, Network, Program

(* Time passes only while nothing waits to be read and every reply is young.  *)
LEMMA FreshStep ==
  ASSUME TypeOK, Fresh, [Next]_vars
  PROVE  Fresh'
<1> USE TimeAssumption DEF TypeOK, Fresh, Recent, netVars, Short
<1>1. CASE Answer
  BY <1>1 DEF Answer
<1>2. CASE Lose
  BY <1>2 DEF Lose
<1>3. CASE \E t \in replies : Arrive(t)
  BY <1>3 DEF Arrive
<1>4. CASE Tick
  BY <1>4 DEF Tick
<1>5. CASE SendTo
  BY <1>5 DEF SendTo
<1>6. CASE SendFails
  BY <1>6 DEF SendFails
<1>7. CASE LoopEnds
  BY <1>7 DEF LoopEnds
<1>8. CASE SelectTimeout
  BY <1>8 DEF SelectTimeout
<1>9. CASE SelectFails
  BY <1>9 DEF SelectFails
<1>10. CASE SelectReady
  BY <1>10 DEF SelectReady
<1>11. CASE Recv
  BY <1>11 DEF Recv
<1>12. CASE RecvInterrupted
  BY <1>12 DEF RecvInterrupted
<1>13. CASE RecvFails
  BY <1>13 DEF RecvFails
<1>14. CASE GiveUp
  BY <1>14 DEF GiveUp
<1>15. CASE SetTime
  BY <1>15 DEF SetTime
<1>16. CASE UNCHANGED vars
  BY <1>16 DEF vars
<1> QED
  BY <1>1, <1>2, <1>3, <1>4, <1>5, <1>6, <1>7, <1>8, <1>9, <1>10, <1>11, <1>12, <1>13, <1>14, <1>15, <1>16
  DEF Next, Network, Program

(* Each attempt sends one request, which the network loses or answers once.   *)
LEMMA AttemptsStep ==
  ASSUME TypeOK, Attempts, [Next]_vars
  PROVE  Attempts'
<1> USE TimeAssumption DEF TypeOK, Attempts, netVars
<1>1. CASE Answer
  BY <1>1 DEF Answer
<1>2. CASE Lose
  BY <1>2 DEF Lose
<1>3. CASE \E t \in replies : Arrive(t)
  BY <1>3 DEF Arrive
<1>4. CASE Tick
  BY <1>4 DEF Tick
<1>5. CASE SendTo
  BY <1>5 DEF SendTo
<1>6. CASE SendFails
  BY <1>6 DEF SendFails
<1>7. CASE LoopEnds
  BY <1>7 DEF LoopEnds
<1>8. CASE SelectTimeout
  BY <1>8 DEF SelectTimeout
<1>9. CASE SelectFails
  BY <1>9 DEF SelectFails
<1>10. CASE SelectReady
  BY <1>10 DEF SelectReady
<1>11. CASE Recv
  BY <1>11 DEF Recv
<1>12. CASE RecvInterrupted
  BY <1>12 DEF RecvInterrupted
<1>13. CASE RecvFails
  BY <1>13 DEF RecvFails
<1>14. CASE GiveUp
  BY <1>14 DEF GiveUp
<1>15. CASE SetTime
  BY <1>15 DEF SetTime
<1>16. CASE UNCHANGED vars
  BY <1>16 DEF vars
<1> QED
  BY <1>1, <1>2, <1>3, <1>4, <1>5, <1>6, <1>7, <1>8, <1>9, <1>10, <1>11, <1>12, <1>13, <1>14, <1>15, <1>16
  DEF Next, Network, Program

(* The first datagram that is read ends the loop.                            *)
LEMMA ResponseStep ==
  ASSUME TypeOK, Fresh, Attempts, Response, [Next]_vars
  PROVE  Response'
<1> USE TimeAssumption DEF TypeOK, Fresh, Attempts, Response, Recent, netVars, Garbage, Short
<1>1. CASE Answer
  BY <1>1 DEF Answer
<1>2. CASE Lose
  BY <1>2 DEF Lose
<1>3. CASE \E t \in replies : Arrive(t)
  BY <1>3 DEF Arrive
<1>4. CASE Tick
  BY <1>4 DEF Tick
<1>5. CASE SendTo
  BY <1>5 DEF SendTo
<1>6. CASE SendFails
  BY <1>6 DEF SendFails
<1>7. CASE LoopEnds
  BY <1>7 DEF LoopEnds
<1>8. CASE SelectTimeout
  BY <1>8 DEF SelectTimeout
<1>9. CASE SelectFails
  BY <1>9 DEF SelectFails
<1>10. CASE SelectReady
  BY <1>10 DEF SelectReady
<1>11. CASE Recv
  BY <1>11 DEF Recv
<1>12. CASE RecvInterrupted
  BY <1>12 DEF RecvInterrupted
<1>13. CASE RecvFails
  BY <1>13 DEF RecvFails
<1>14. CASE GiveUp
  BY <1>14 DEF GiveUp
<1>15. CASE SetTime
  BY <1>15 DEF SetTime
<1>16. CASE UNCHANGED vars
  BY <1>16 DEF vars
<1> QED
  BY <1>1, <1>2, <1>3, <1>4, <1>5, <1>6, <1>7, <1>8, <1>9, <1>10, <1>11, <1>12, <1>13, <1>14, <1>15, <1>16
  DEF Next, Network, Program

(* settimeofday is called once, at the end, and refuses the 0 of a response   *)
(* that was cleared and not filled.                                         *)
LEMMA ClockSetStep ==
  ASSUME TypeOK, Attempts, Response, ClockSet, [Next]_vars
  PROVE  ClockSet'
<1> USE TimeAssumption DEF TypeOK, Attempts, Response, ClockSet, netVars, Garbage, NotSet
<1>1. CASE Answer
  BY <1>1 DEF Answer
<1>2. CASE Lose
  BY <1>2 DEF Lose
<1>3. CASE \E t \in replies : Arrive(t)
  BY <1>3 DEF Arrive
<1>4. CASE Tick
  BY <1>4 DEF Tick
<1>5. CASE SendTo
  BY <1>5 DEF SendTo
<1>6. CASE SendFails
  BY <1>6 DEF SendFails
<1>7. CASE LoopEnds
  BY <1>7 DEF LoopEnds
<1>8. CASE SelectTimeout
  BY <1>8 DEF SelectTimeout
<1>9. CASE SelectFails
  BY <1>9 DEF SelectFails
<1>10. CASE SelectReady
  BY <1>10 DEF SelectReady
<1>11. CASE Recv
  BY <1>11 DEF Recv
<1>12. CASE RecvInterrupted
  BY <1>12 DEF RecvInterrupted
<1>13. CASE RecvFails
  BY <1>13 DEF RecvFails
<1>14. CASE GiveUp
  BY <1>14 DEF GiveUp
<1>15. CASE SetTime
  <2>1. /\ pc' = "exit" /\ retries' < MaxRetries
        /\ UNCHANGED <<answered, ntp_response>>
        /\ clock = NotSet
    BY <1>15 DEF SetTime
  <2>2. PICK ntp \in IF ntp_response = Garbage THEN 0 .. Wrap - 1 ELSE {ntp_response} :
          clock' = IF UnixTime(ntp) >= 0 THEN UnixTime(ntp) ELSE clock
    BY <1>15 DEF SetTime
  <2>3. CASE answered
    <3>1. ntp = ntp_response
      BY <2>2, <2>3, StampType
    <3> QED BY <2>1, <2>2, <2>3, <3>1
  <2>4. CASE ~answered /\ ntp_response = 0
    BY <2>1, <2>2, <2>4 DEF UnixTime
  <2>5. CASE ~answered /\ ntp_response = Garbage
    BY <2>1, <2>2, <2>5
  <2> QED BY <2>3, <2>4, <2>5
<1>16. CASE UNCHANGED vars
  BY <1>16 DEF vars
<1> QED
  BY <1>1, <1>2, <1>3, <1>4, <1>5, <1>6, <1>7, <1>8, <1>9, <1>10, <1>11, <1>12, <1>13, <1>14, <1>15, <1>16
  DEF Next, Network, Program

(* No step breaks the invariant.                                             *)
LEMMA StepInv == IInv /\ [Next]_vars => IInv'
BY TypeStep, FreshStep, AttemptsStep, ResponseStep, ClockSetStep DEF IInv

(* Every state satisfies the invariant, and with it the type invariant.      *)
THEOREM Invariance == Spec => []IInv
BY InitInv, StepInv, PTL DEF Spec

(* As long as the time of Unix fits in 32 bits, the clock is not set to a    *)
(* time in the future, nor to one further back than a reply can be old.      *)
THEOREM NeverFarFromServer == Spec => []CloseToServer
<1>1. IInv => CloseToServer
  <2> SUFFICES ASSUME IInv, answered, clock # NotSet, now < Wrap
               PROVE  clock <= now /\ now <= clock + MaxDelay
    BY DEF CloseToServer
  <2>1. PICK t \in 0 .. now : Recent(t) /\ ntp_response = Stamp(t)
    BY DEF IInv, Response
  <2>2. clock = Stamp(t) - Offset
    BY <2>1 DEF IInv, ClockSet, UnixTime
  <2>3. /\ now \in Nat /\ clock \in Int /\ clock >= 0
        /\ Offset \in Nat /\ Wrap \in Nat /\ MaxDelay \in Nat
    BY TimeAssumption DEF IInv, TypeOK, NotSet
  <2>4. t \in Nat /\ t < Wrap
    BY <2>1, <2>3
  <2>5. Stamp(t) \in {t + Offset, t + Offset - Wrap}
    BY <2>4, StampOnce
  <2>6. clock = t
    BY <2>2, <2>3, <2>4, <2>5
  <2> QED BY <2>1, <2>3, <2>6 DEF Recent
<1> QED BY <1>1, Invariance, PTL

(* Only the garbage of a response that was never cleared sets the clock      *)
(* without a reply.                                                         *)
THEOREM NothingButGarbage == Spec => []UnansweredOnlyByGarbage
<1>1. IInv => UnansweredOnlyByGarbage
  BY DEF IInv, ClockSet, UnansweredOnlyByGarbage
<1> QED BY <1>1, Invariance, PTL

(* A program that has used up its attempts has received nothing and has left *)
(* the clock alone.                                                         *)
THEOREM NothingOnGivingUp == Spec => []GivesUpUntouched
<1>1. IInv => GivesUpUntouched
  BY TimeAssumption DEF IInv, TypeOK, Response, ClockSet, GivesUpUntouched
<1> QED BY <1>1, Invariance, PTL
=============================================================================
