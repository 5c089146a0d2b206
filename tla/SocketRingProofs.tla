--------------------------- MODULE SocketRingProofs ---------------------------
(***************************************************************************)
(* Proofs that the properties of SocketRing hold for every size of the ring *)
(* and every number of connections.                                        *)
(*                                                                         *)
(* IInv is the inductive invariant.  One lemma per conjunct shows that no   *)
(* step breaks it; the cases are the actions of Next, in their order.       *)
(***************************************************************************)
EXTENDS SocketRingInv, SocketRingQueue, FiniteSets, FiniteSetTheorems, TLAPS

(* A counter modulo the size of the ring is the index of a slot.             *)
LEMMA SlotInSlots == \A n \in Nat : Slot(n) \in Slots
  BY RingAssumption DEF Slot, Slots

(* Positions less than a ring apart are different slots.                     *)
LEMMA SlotInjective ==
  ASSUME NEW a \in Nat, NEW b \in Nat, a < b, b < a + SocketMax
  PROVE  Slot(a) # Slot(b)
<1>1. SUFFICES ASSUME Slot(a) = Slot(b) PROVE FALSE
  OBVIOUS
<1> DEFINE qa == a \div SocketMax  qb == b \div SocketMax
<1>2. /\ qa \in Int /\ a = SocketMax * qa + Slot(a)
      /\ qb \in Int /\ b = SocketMax * qb + Slot(b)
  BY RingAssumption DEF Slot
<1> HIDE DEF qa, qb
<1>3. Slot(a) \in Int /\ Slot(b) \in Int
  BY SlotInSlots DEF Slots
<1>4. b - a = SocketMax * qb - SocketMax * qa
  BY <1>1, <1>2, <1>3, RingAssumption
<1>5. b - a = SocketMax * (qb - qa)
  BY <1>4, <1>2, RingAssumption
<1>6. CASE qb - qa <= 0
  <2>1. SocketMax * (qb - qa) <= 0
    BY <1>6, <1>2, RingAssumption
  <2> QED BY <2>1, <1>5
<1>7. CASE qb - qa >= 1
  <2>1. SocketMax * (qb - qa) >= SocketMax
    BY <1>7, <1>2, RingAssumption
  <2> QED BY <2>1, <1>5, RingAssumption
<1> QED BY <1>6, <1>7, <1>2

(* Counting one descriptor up keeps a table of counters a table of counters. *)
LEMMA CountUp ==
  ASSUME NEW S, NEW f \in [S -> Nat], NEW x
  PROVE  [f EXCEPT ![x] = @ + 1] \in [S -> Nat]
<1> DEFINE g == [f EXCEPT ![x] = @ + 1]
<1>1. g = [y \in S |-> IF y = x THEN f[x] + 1 ELSE f[y]]
  OBVIOUS
<1>2. \A y \in S : (IF y = x THEN f[x] + 1 ELSE f[y]) \in Nat
  OBVIOUS
<1> HIDE DEF g
<1>3. g \in [S -> Nat]
  BY <1>1, <1>2
<1> QED BY <1>3 DEF g

(* Assigning one element of an array keeps its type.                         *)
LEMMA UpdateType ==
  ASSUME NEW S, NEW T, NEW f \in [S -> T], NEW x, NEW v \in T
  PROVE  [f EXCEPT ![x] = v] \in [S -> T]
  OBVIOUS

(* No step of either thread breaks TypeOK.                                   *)
LEMMA TypeStep ==
  ASSUME TypeOK, [Next]_vars
  PROVE  TypeOK'
<1> USE RingAssumption
    DEF TypeOK, Phantom, NoSocket, vars, acceptVars, workerVars, historyVars, WorkerAt
<1>1. CASE Accept(accepted + 1)
  BY <1>1 DEF Accept
<1>2. CASE AcceptFails
  BY <1>2 DEF AcceptFails
<1>3. CASE Spawn
  BY <1>3 DEF Spawn
<1>4. CASE Refuse
  BY <1>4, CountUp DEF Refuse
<1>5. CASE Admit
  BY <1>5 DEF Admit
<1>6. CASE Store
  <2>1. sockets' \in [Slots -> Phantom .. accepted]
    BY <1>6, UpdateType DEF Store
  <2> QED BY <1>6, <2>1 DEF Store
<1>7. CASE Load
  BY <1>7, SlotInSlots DEF Load
<1>8. CASE Clear
  <2>1. sockets' \in [Slots -> Phantom .. accepted]
    BY <1>8, UpdateType DEF Clear
  <2> QED BY <1>8, <2>1 DEF Clear
<1>9. CASE Take
  BY <1>9, CountUp DEF Take
<1>10. CASE Idle
  BY <1>10 DEF Idle
<1>11. CASE HangUp
  BY <1>11, CountUp DEF HangUp, Counted
<1>12. CASE Close
  BY <1>12, CountUp DEF Close
<1>13. CASE UNCHANGED vars
  BY <1>13
<1> QED
  BY <1>1, <1>2, <1>3, <1>4, <1>5, <1>6, <1>7, <1>8, <1>9, <1>10, <1>11, <1>12, <1>13
  DEF Next, TryAccept, Worker

(* The capacity test bounds the counters: between the test and the store the *)
(* worker can only make room.                                               *)
LEMMA CapacityStep ==
  ASSUME TypeOK, Capacity, [Next]_vars
  PROVE  Capacity'
<1> USE RingAssumption
    DEF TypeOK, Phantom, NoSocket, Descriptors, Counted, vars, acceptVars,
        workerVars, historyVars, WorkerAt, Capacity, Full
<1>1. CASE Accept(accepted + 1)
  BY <1>1 DEF Accept
<1>2. CASE AcceptFails
  BY <1>2 DEF AcceptFails
<1>3. CASE Spawn
  BY <1>3 DEF Spawn
<1>4. CASE Refuse
  BY <1>4 DEF Refuse
<1>5. CASE Admit
  BY <1>5 DEF Admit
<1>6. CASE Store
  BY <1>6 DEF Store
<1>7. CASE Load
  BY <1>7 DEF Load
<1>8. CASE Clear
  BY <1>8 DEF Clear
<1>9. CASE Take
  BY <1>9 DEF Take
<1>10. CASE Idle
  BY <1>10 DEF Idle
<1>11. CASE HangUp
  BY <1>11 DEF HangUp
<1>12. CASE Close
  BY <1>12 DEF Close
<1>13. CASE UNCHANGED vars
  BY <1>13
<1> QED
  BY <1>1, <1>2, <1>3, <1>4, <1>5, <1>6, <1>7, <1>8, <1>9, <1>10, <1>11, <1>12, <1>13
  DEF Next, TryAccept, Worker

(* Nobody serves or closes a descriptor that is still queued.                *)
LEMMA UntouchedStep ==
  ASSUME TypeOK, TypeOK', Capacity, Ownership, [Next]_vars
  PROVE  Untouched'
<1> USE RingAssumption
    DEF TypeOK, Phantom, NoSocket, Descriptors, Counted, vars, acceptVars,
        workerVars, historyVars, WorkerAt, Ownership, Capacity, Untouched,
        InHand, InRing, Newest, WorkerOwns, Early
<1>1. CASE Accept(accepted + 1)
  BY <1>1 DEF Accept
<1>2. CASE AcceptFails
  BY <1>2 DEF AcceptFails
<1>3. CASE Spawn
  BY <1>3 DEF Spawn
<1>4. CASE Refuse
  BY <1>4 DEF Refuse
<1>5. CASE Admit
  BY <1>5 DEF Admit
<1>6. CASE Store
  BY <1>6, SlotInSlots DEF Store
<1>7. CASE Load
  BY <1>7, SlotInSlots DEF Load
<1>8. CASE Clear
  BY <1>8, SlotInSlots DEF Clear
<1>9. CASE Take
  BY <1>9 DEF Take
<1>10. CASE Idle
  BY <1>10 DEF Idle
<1>11. CASE HangUp
  BY <1>11 DEF HangUp
<1>12. CASE Close
  BY <1>12 DEF Close
<1>13. CASE UNCHANGED vars
  BY <1>13
<1> QED
  BY <1>1, <1>2, <1>3, <1>4, <1>5, <1>6, <1>7, <1>8, <1>9, <1>10, <1>11, <1>12, <1>13
  DEF Next, TryAccept, Worker

(* What accept() has just returned is nowhere else.                          *)
LEMMA NewestStep ==
  ASSUME TypeOK, TypeOK', Capacity, Ownership, [Next]_vars
  PROVE  Newest'
<1> USE RingAssumption
    DEF TypeOK, Phantom, NoSocket, Descriptors, Counted, vars, acceptVars,
        workerVars, historyVars, WorkerAt, Ownership, Capacity, Newest
<1>1. CASE Accept(accepted + 1)
  BY <1>1 DEF Accept
<1>2. CASE AcceptFails
  BY <1>2 DEF AcceptFails
<1>3. CASE Spawn
  BY <1>3 DEF Spawn
<1>4. CASE Refuse
  BY <1>4 DEF Refuse
<1>5. CASE Admit
  BY <1>5 DEF Admit
<1>6. CASE Store
  BY <1>6, SlotInSlots DEF Store
<1>7. CASE Load
  BY <1>7, SlotInSlots DEF Load
<1>8. CASE Clear
  BY <1>8, SlotInSlots DEF Clear
<1>9. CASE Take
  BY <1>9 DEF Take
<1>10. CASE Idle
  BY <1>10 DEF Idle
<1>11. CASE HangUp
  BY <1>11 DEF HangUp
<1>12. CASE Close
  BY <1>12 DEF Close
<1>13. CASE UNCHANGED vars
  BY <1>13
<1> QED
  BY <1>1, <1>2, <1>3, <1>4, <1>5, <1>6, <1>7, <1>8, <1>9, <1>10, <1>11, <1>12, <1>13
  DEF Next, TryAccept, Worker

(* A descriptor is stored in one slot only.                                  *)
LEMMA OneSlotStep ==
  ASSUME TypeOK, TypeOK', Capacity, Ownership, [Next]_vars
  PROVE  OneSlot'
<1> USE RingAssumption
    DEF TypeOK, Phantom, NoSocket, Descriptors, Counted, vars, acceptVars,
        workerVars, historyVars, WorkerAt, Ownership, Capacity, OneSlot,
        Newest
<1>1. CASE Accept(accepted + 1)
  BY <1>1 DEF Accept
<1>2. CASE AcceptFails
  BY <1>2 DEF AcceptFails
<1>3. CASE Spawn
  BY <1>3 DEF Spawn
<1>4. CASE Refuse
  BY <1>4 DEF Refuse
<1>5. CASE Admit
  BY <1>5 DEF Admit
<1>6. CASE Store
  BY <1>6, SlotInSlots DEF Store
<1>7. CASE Load
  BY <1>7, SlotInSlots DEF Load
<1>8. CASE Clear
  BY <1>8, SlotInSlots DEF Clear
<1>9. CASE Take
  BY <1>9 DEF Take
<1>10. CASE Idle
  BY <1>10 DEF Idle
<1>11. CASE HangUp
  BY <1>11 DEF HangUp
<1>12. CASE Close
  BY <1>12 DEF Close
<1>13. CASE UNCHANGED vars
  BY <1>13
<1> QED
  BY <1>1, <1>2, <1>3, <1>4, <1>5, <1>6, <1>7, <1>8, <1>9, <1>10, <1>11, <1>12, <1>13
  DEF Next, TryAccept, Worker

(* From the zeroing of its slot on, the worker alone has its descriptor.     *)
LEMMA WorkerOwnsStep ==
  ASSUME TypeOK, TypeOK', Capacity, Ownership, [Next]_vars
  PROVE  WorkerOwns'
<1> USE RingAssumption
    DEF TypeOK, Phantom, NoSocket, Descriptors, Counted, vars, acceptVars,
        workerVars, historyVars, WorkerAt, Ownership, Capacity, WorkerOwns,
        InRing, InHand, Untouched, OneSlot, Newest, Early
<1>1. CASE Accept(accepted + 1)
  BY <1>1 DEF Accept
<1>2. CASE AcceptFails
  BY <1>2 DEF AcceptFails
<1>3. CASE Spawn
  BY <1>3 DEF Spawn
<1>4. CASE Refuse
  BY <1>4 DEF Refuse
<1>5. CASE Admit
  BY <1>5 DEF Admit
<1>6. CASE Store
  BY <1>6, SlotInSlots DEF Store
<1>7. CASE Load
  BY <1>7, SlotInSlots DEF Load
<1>8. CASE Clear
  BY <1>8, SlotInSlots DEF Clear
<1>9. CASE Take
  BY <1>9 DEF Take
<1>10. CASE Idle
  BY <1>10 DEF Idle
<1>11. CASE HangUp
  BY <1>11 DEF HangUp
<1>12. CASE Close
  BY <1>12 DEF Close
<1>13. CASE UNCHANGED vars
  BY <1>13
<1> QED
  BY <1>1, <1>2, <1>3, <1>4, <1>5, <1>6, <1>7, <1>8, <1>9, <1>10, <1>11, <1>12, <1>13
  DEF Next, TryAccept, Worker

(* Nothing is served or closed a second time.                                *)
LEMMA OnceStep ==
  ASSUME TypeOK, TypeOK', Capacity, Ownership, [Next]_vars
  PROVE  OnceUnlessHungUp'
<1> USE RingAssumption
    DEF TypeOK, Phantom, NoSocket, Descriptors, Counted, vars, acceptVars,
        workerVars, historyVars, WorkerAt, Ownership, Capacity, OnceUnlessHungUp,
        Untouched, WorkerOwns, InRing, InHand, Early
<1>1. CASE Accept(accepted + 1)
  BY <1>1 DEF Accept
<1>2. CASE AcceptFails
  BY <1>2 DEF AcceptFails
<1>3. CASE Spawn
  BY <1>3 DEF Spawn
<1>4. CASE Refuse
  BY <1>4 DEF Refuse
<1>5. CASE Admit
  BY <1>5 DEF Admit
<1>6. CASE Store
  BY <1>6, SlotInSlots DEF Store
<1>7. CASE Load
  BY <1>7, SlotInSlots DEF Load
<1>8. CASE Clear
  BY <1>8, SlotInSlots DEF Clear
<1>9. CASE Take
  BY <1>9 DEF Take
<1>10. CASE Idle
  BY <1>10 DEF Idle
<1>11. CASE HangUp
  BY <1>11 DEF HangUp
<1>12. CASE Close
  BY <1>12 DEF Close
<1>13. CASE UNCHANGED vars
  BY <1>13
<1> QED
  BY <1>1, <1>2, <1>3, <1>4, <1>5, <1>6, <1>7, <1>8, <1>9, <1>10, <1>11, <1>12, <1>13
  DEF Next, TryAccept, Worker

(* The slot of the initialiser's -1 is the first one used.                   *)
LEMMA SlotZero == Slot(0) = 0
  BY RingAssumption DEF Slot

(* That the -1 was taken is never undone.                                    *)
LEMMA PhantomStable ==
  ASSUME TypeOK, Capacity, PhantomTaken, [Next]_vars
  PROVE  PhantomTaken'
<1> USE RingAssumption
    DEF TypeOK, Phantom, NoSocket, Descriptors, Counted, vars, acceptVars,
        workerVars, historyVars, WorkerAt, PhantomTaken, Held, Capacity
<1>1. CASE Accept(accepted + 1)
  BY <1>1 DEF Accept
<1>2. CASE AcceptFails
  BY <1>2 DEF AcceptFails
<1>3. CASE Spawn
  BY <1>3 DEF Spawn
<1>4. CASE Refuse
  BY <1>4 DEF Refuse
<1>5. CASE Admit
  BY <1>5 DEF Admit
<1>6. CASE Store
  BY <1>6 DEF Store
<1>7. CASE Load
  BY <1>7 DEF Load
<1>8. CASE Clear
  BY <1>8 DEF Clear
<1>9. CASE Take
  BY <1>9 DEF Take
<1>10. CASE Idle
  BY <1>10 DEF Idle
<1>11. CASE HangUp
  BY <1>11 DEF HangUp
<1>12. CASE Close
  BY <1>12 DEF Close
<1>13. CASE UNCHANGED vars
  BY <1>13
<1> QED
  BY <1>1, <1>2, <1>3, <1>4, <1>5, <1>6, <1>7, <1>8, <1>9, <1>10, <1>11, <1>12, <1>13
  DEF Next, TryAccept, Worker

(* Without the -1, queued descriptors stay between the two counters.         *)
LEMMA WindowStep ==
  ASSUME TypeOK, TypeOK', Capacity, Capacity', Ownership, Window,
         ~PhantomTaken', [Next]_vars
  PROVE  Window'
<1> USE RingAssumption
    DEF TypeOK, Phantom, NoSocket, Descriptors, Counted, vars, acceptVars,
        workerVars, historyVars, WorkerAt, Window, PhantomTaken, Held,
        Capacity
<1>1. CASE Accept(accepted + 1)
  BY <1>1 DEF Accept
<1>2. CASE AcceptFails
  BY <1>2 DEF AcceptFails
<1>3. CASE Spawn
  BY <1>3 DEF Spawn
<1>4. CASE Refuse
  BY <1>4 DEF Refuse
<1>5. CASE Admit
  BY <1>5 DEF Admit
<1>6. CASE Store
  <2>1. /\ Slot(socket_head) \in Slots
        /\ sockets' = [sockets EXCEPT ![Slot(socket_head)] = client_sock]
        /\ socket_head' = socket_head + 1
        /\ UNCHANGED <<socket_tail, wpc, wsock>>
        /\ socket_head < socket_tail + SocketMax - 1
    BY <1>6, SlotInSlots DEF Store
  <2>2. client_sock > 0
    BY <1>6 DEF Store, Ownership, Newest
  <2>3. ASSUME NEW i \in Slots, sockets'[i] > 0
        PROVE  \E p \in socket_tail' .. socket_head' - 1 : Slot(p) = i
    <3>1. CASE i = Slot(socket_head)
      BY <2>1, <3>1
    <3>2. CASE i # Slot(socket_head)
      BY <2>1, <2>3, <3>2
    <3> QED BY <3>1, <3>2
  <2>4. ASSUME NEW i \in Slots
        PROVE  sockets'[i] # Phantom
    BY <2>1, <2>2, SlotZero
  <2>5. socket_tail < socket_head => sockets'[Slot(socket_tail)] = sockets[Slot(socket_tail)]
    BY <2>1, SlotInSlots, SlotInjective
  <2> QED BY <2>1, <2>3, <2>4, <2>5
<1>7. CASE Load
  BY <1>7, SlotInSlots DEF Load
<1>8. CASE Clear
  BY <1>8, SlotInSlots DEF Clear
<1>9. CASE Take
  BY <1>9, SlotInSlots DEF Take
<1>10. CASE Idle
  BY <1>10 DEF Idle
<1>11. CASE HangUp
  BY <1>11 DEF HangUp
<1>12. CASE Close
  BY <1>12 DEF Close
<1>13. CASE UNCHANGED vars
  BY <1>13
<1> QED
  BY <1>1, <1>2, <1>3, <1>4, <1>5, <1>6, <1>7, <1>8, <1>9, <1>10, <1>11, <1>12, <1>13
  DEF Next, TryAccept, Worker

(* Without the -1, they stay in the order of accept().                       *)
LEMMA OrderStep ==
  ASSUME TypeOK, TypeOK', Capacity, Capacity', Ownership, Window,
         ~PhantomTaken', Window', Order, [Next]_vars
  PROVE  Order'
<1> USE RingAssumption
    DEF TypeOK, Phantom, NoSocket, Descriptors, Counted, vars, acceptVars,
        workerVars, historyVars, WorkerAt, Order, Window, PhantomTaken, Held,
        Capacity, Ownership, Newest
<1>1. CASE Accept(accepted + 1)
  BY <1>1 DEF Accept
<1>2. CASE AcceptFails
  BY <1>2 DEF AcceptFails
<1>3. CASE Spawn
  BY <1>3 DEF Spawn
<1>4. CASE Refuse
  BY <1>4 DEF Refuse
<1>5. CASE Admit
  BY <1>5 DEF Admit
<1>6. CASE Store
  BY <1>6, SlotInSlots, SlotInjective, SlotZero DEF Store
<1>7. CASE Load
  <2>1. CASE wsock' > 0
    <3>1. sockets[Slot(socket_tail)] = wsock'
      BY <1>7 DEF Load
    <3>2. socket_tail \in socket_tail .. socket_head - 1
      BY <2>1, <3>1, <1>7, SlotInSlots DEF Load
    <3>3. last < wsock'
      BY <2>1, <3>1, SlotInSlots
    <3>4. ASSUME NEW i \in Slots, sockets[i] > 0
          PROVE  wsock' <= sockets[i]
      <4>1. PICK p \in socket_tail .. socket_head - 1 : Slot(p) = i
        BY <3>4
      <4>2. CASE p = socket_tail
        BY <4>1, <4>2, <3>1
      <4>3. CASE socket_tail < p
        BY <4>1, <4>3, <3>1, <3>2, <3>4, <2>1
      <4> QED BY <4>1, <4>2, <4>3
    <3> QED BY <1>7, <3>3, <3>4 DEF Load
  <2> QED BY <1>7, <2>1 DEF Load
<1>8. CASE Clear
  BY <1>8, SlotInSlots DEF Clear
<1>9. CASE Take
  BY <1>9, SlotInSlots DEF Take, WorkerOwns, InRing
<1>10. CASE Idle
  BY <1>10 DEF Idle
<1>11. CASE HangUp
  BY <1>11 DEF HangUp
<1>12. CASE Close
  BY <1>12 DEF Close
<1>13. CASE UNCHANGED vars
  BY <1>13
<1> QED
  BY <1>1, <1>2, <1>3, <1>4, <1>5, <1>6, <1>7, <1>8, <1>9, <1>10, <1>11, <1>12, <1>13
  DEF Next, TryAccept, Worker

(* No step leads out of the wedged state, and none serves a connection in it. *)
LEMMA WedgedStep ==
  ASSUME TypeOK, Capacity, Wedged, [Next]_vars
  PROVE  Wedged' /\ serves' = serves
<1> USE RingAssumption
    DEF TypeOK, Phantom, NoSocket, Descriptors, Counted, vars, acceptVars,
        workerVars, historyVars, WorkerAt, Wedged, Capacity
<1>1. CASE Accept(accepted + 1)
  BY <1>1 DEF Accept
<1>2. CASE AcceptFails
  BY <1>2 DEF AcceptFails
<1>3. CASE Spawn
  BY <1>3 DEF Spawn
<1>4. CASE Refuse
  BY <1>4 DEF Refuse
<1>5. CASE Admit
  BY <1>5 DEF Admit
<1>6. CASE Store
  BY <1>6, SlotInSlots, SlotInjective DEF Store
<1>7. CASE Load
  BY <1>7, SlotInSlots DEF Load
<1>8. CASE Clear
  BY <1>8, SlotInSlots DEF Clear
<1>9. CASE Take
  BY <1>9, SlotInSlots DEF Take
<1>10. CASE Idle
  BY <1>10 DEF Idle
<1>11. CASE HangUp
  BY <1>11 DEF HangUp
<1>12. CASE Close
  BY <1>12 DEF Close
<1>13. CASE UNCHANGED vars
  BY <1>13
<1> QED
  BY <1>1, <1>2, <1>3, <1>4, <1>5, <1>6, <1>7, <1>8, <1>9, <1>10, <1>11, <1>12, <1>13
  DEF Next, TryAccept, Worker

(* Without the -1, a step that loses a descriptor wedges the worker.         *)
LEMMA LossStep ==
  ASSUME TypeOK, TypeOK', Capacity, Capacity', Ownership, Window,
         ~PhantomTaken', LossWedges, [Next]_vars
  PROVE  LossWedges'
<1> USE RingAssumption
    DEF TypeOK, Phantom, NoSocket, Descriptors, Counted, vars, acceptVars,
        workerVars, historyVars, WorkerAt, LossWedges, Lost, Wedged, InHand,
        InRing, Window, PhantomTaken, Held, Capacity, Ownership, Newest
<1>1. CASE Accept(accepted + 1)
  BY <1>1 DEF Accept
<1>2. CASE AcceptFails
  BY <1>2 DEF AcceptFails
<1>3. CASE Spawn
  BY <1>3 DEF Spawn
<1>4. CASE Refuse
  BY <1>4 DEF Refuse
<1>5. CASE Admit
  BY <1>5 DEF Admit
<1>6. CASE Store
  BY <1>6, SlotInSlots, SlotInjective, SlotZero DEF Store
<1>7. CASE Load
  BY <1>7, SlotInSlots DEF Load
<1>8. CASE Clear
  BY <1>8, SlotInSlots DEF Clear
<1>9. CASE Take
  BY <1>9, SlotInSlots DEF Take
<1>10. CASE Idle
  BY <1>10 DEF Idle
<1>11. CASE HangUp
  BY <1>11 DEF HangUp
<1>12. CASE Close
  BY <1>12 DEF Close
<1>13. CASE UNCHANGED vars
  BY <1>13
<1> QED
  BY <1>1, <1>2, <1>3, <1>4, <1>5, <1>6, <1>7, <1>8, <1>9, <1>10, <1>11, <1>12, <1>13
  DEF Next, TryAccept, Worker

(* With the -1, at most one descriptor is left behind the worker.           *)
LEMMA OneStrayStep ==
  ASSUME TypeOK, TypeOK', Capacity, Capacity', Ownership, OneStray,
         [Next]_vars
  PROVE  OneStray'
<1> USE RingAssumption
    DEF TypeOK, Phantom, NoSocket, Descriptors, Counted, vars, acceptVars,
        workerVars, historyVars, WorkerAt, OneStray, StraySlot, Capacity
<1>1. CASE Accept(accepted + 1)
  BY <1>1 DEF Accept
<1>2. CASE AcceptFails
  BY <1>2 DEF AcceptFails
<1>3. CASE Spawn
  BY <1>3 DEF Spawn
<1>4. CASE Refuse
  BY <1>4 DEF Refuse
<1>5. CASE Admit
  BY <1>5 DEF Admit
<1>6. CASE Store
  BY <1>6, SlotInSlots, SlotInjective, SlotZero DEF Store, Ownership, Newest
<1>7. CASE Load
  <2>1. /\ wpc = "load" /\ wpc' = "clear"
        /\ wsock' = sockets[Slot(socket_tail)]
        /\ UNCHANGED <<sockets, socket_head, socket_tail>>
        /\ Slot(socket_tail) \in Slots
    BY <1>7, SlotInSlots DEF Load
  <2>2. \A i \in Slots : StraySlot(i)' <=> StraySlot(i)
    BY <2>1
  <2>3. socket_tail >= socket_head /\ wsock' > 0 => StraySlot(Slot(socket_tail))
    BY <2>1
  <2> HIDE DEF StraySlot
  <2>4. wsock' # NoSocket => socket_tail <= socket_head
    BY <2>1, <2>3
  <2>5. wsock' # NoSocket /\ socket_tail = socket_head =>
          \A i \in Slots : StraySlot(i) => i = Slot(socket_tail)
    BY <2>1, <2>3 DEF StraySlot
  <2> QED BY <2>1, <2>2, <2>4, <2>5
<1>8. CASE Clear
  <2>1. /\ wpc = "clear" /\ wpc' = "test"
        /\ sockets' = [sockets EXCEPT ![Slot(socket_tail)] = NoSocket]
        /\ UNCHANGED <<wsock, socket_head, socket_tail>>
        /\ Slot(socket_tail) \in Slots
    BY <1>8, SlotInSlots DEF Clear
  <2>2. \A i \in Slots : StraySlot(i)' <=> StraySlot(i) /\ i # Slot(socket_tail)
    BY <2>1
  <2>3. \A i \in Slots : sockets'[i] # Phantom
    BY <2>1, SlotZero
  <2>4. sockets'[Slot(socket_tail)] = NoSocket
    BY <2>1
  <2> HIDE DEF StraySlot
  <2> QED BY <2>1, <2>2, <2>3, <2>4
<1>9. CASE Take
  <2>1. /\ wpc = "test" /\ wpc' = "serve" /\ wsock # NoSocket
        /\ socket_tail' = socket_tail + 1
        /\ UNCHANGED <<sockets, wsock, socket_head>>
        /\ Slot(socket_tail) \in Slots
    BY <1>9, SlotInSlots DEF Take
  <2>2. \A i \in Slots : StraySlot(i)' => StraySlot(i) \/ i = Slot(socket_tail)
    BY <2>1
  <2>3. socket_tail = socket_head => \A i \in Slots : StraySlot(i)' => StraySlot(i)
    BY <2>1
  <2>4. \A i \in Slots : StraySlot(i)' => sockets[i] # NoSocket
    BY <2>1
  <2>5. \A i \in Slots : sockets[i] # Phantom
    BY <2>1
  <2> HIDE DEF StraySlot
  <2> QED BY <2>1, <2>2, <2>3, <2>4, <2>5
<1>10. CASE Idle
  BY <1>10 DEF Idle
<1>11. CASE HangUp
  BY <1>11 DEF HangUp
<1>12. CASE Close
  BY <1>12 DEF Close
<1>13. CASE UNCHANGED vars
  BY <1>13
<1> QED
  BY <1>1, <1>2, <1>3, <1>4, <1>5, <1>6, <1>7, <1>8, <1>9, <1>10, <1>11, <1>12, <1>13
  DEF Next, TryAccept, Worker

-----------------------------------------------------------------------------
(* The initial state satisfies the invariant.                                *)
LEMMA InitInv == Init => IInv
<1> SUFFICES ASSUME Init PROVE IInv
  OBVIOUS
<1> USE RingAssumption DEF Init, Phantom, NoSocket, Slots, Descriptors, Counted
<1>1. TypeOK
  <2>1. sockets \in [Slots -> Phantom .. accepted]
    <3>1. \A i \in Slots : (IF i = 0 THEN Phantom ELSE NoSocket) \in Phantom .. accepted
      OBVIOUS
    <3> QED BY <3>1
  <2>2. serves \in [Counted -> Nat] /\ closes \in [Counted -> Nat]
    OBVIOUS
  <2>3. /\ accepted \in 0 .. MaxAccepts
        /\ socket_head \in Nat /\ socket_tail \in Nat
        /\ client_sock \in Phantom .. accepted
        /\ wsock \in Phantom .. accepted
        /\ last \in Phantom .. accepted
    OBVIOUS
  <2>4. accept_thread \in BOOLEAN
    BY Zenon
  <2>5. /\ apc \in {"accept", "spawn", "check", "store", "exited"}
        /\ wpc \in {"none", "load", "clear", "test", "serve"}
        /\ early \subseteq Counted
    OBVIOUS
  <2> HIDE DEF Init
  <2> QED BY <2>1, <2>2, <2>3, <2>4, <2>5 DEF TypeOK
<1>2. Ownership
  BY DEF Ownership, Untouched, Newest, OneSlot, WorkerOwns, OnceUnlessHungUp, Early,
         InHand, InRing
<1>3. Capacity
  BY DEF Capacity
<1>4. OneStray
  BY DEF OneStray, StraySlot
<1>5. Window /\ Order
  BY SlotZero DEF Window, Order
<1>6. LossWedges
  BY DEF LossWedges, Lost
<1> QED BY <1>1, <1>2, <1>3, <1>4, <1>5, <1>6 DEF IInv

(* The invariant is inductive.                                               *)
LEMMA StepInv == IInv /\ [Next]_vars => IInv'
<1> SUFFICES ASSUME IInv, [Next]_vars PROVE IInv'
  OBVIOUS
<1> USE DEF IInv
<1>1. TypeOK'
  BY TypeStep
<1>2. Capacity'
  BY CapacityStep
<1>3. Ownership'
  BY <1>1, UntouchedStep, NewestStep, OneSlotStep, WorkerOwnsStep, OnceStep
  DEF Ownership
<1>4. OneStray'
  BY <1>1, <1>2, OneStrayStep
<1>5. CASE PhantomTaken'
  BY <1>1, <1>2, <1>3, <1>4, <1>5 DEF LossWedges
<1>6. CASE ~PhantomTaken'
  <2>1. ~PhantomTaken
    BY <1>6, PhantomStable
  <2>2. Window'
    BY <1>1, <1>2, <1>6, <2>1, WindowStep
  <2>3. Order'
    BY <1>1, <1>2, <1>6, <2>1, <2>2, OrderStep
  <2>4. LossWedges'
    BY <1>1, <1>2, <1>6, <2>1, LossStep
  <2> QED BY <1>1, <1>2, <1>3, <1>4, <2>2, <2>3, <2>4
<1> QED BY <1>5, <1>6

(* The invariant holds in every reachable state.                             *)
THEOREM Invariance == Spec => []IInv
  BY InitInv, StepInv, PTL DEF Spec

(* Every variable of the hand-off keeps its type: in particular no slot and no *)
(* local of either thread ever holds a number that accept() did not return, *)
(* other than the 0 and the -1 of the initialiser.                          *)
THEOREM TypeCorrect == Spec => []TypeOK
<1>1. IInv => TypeOK
  BY DEF IInv
<1> QED BY <1>1, Invariance, PTL

(* No interleaving of the two threads serves a connection twice.  Its          *)
(* descriptor is closed a second time only by the worker, only after           *)
(* handle_request has closed it on a hang-up, and never a third time.         *)
THEOREM TwiceOnlyByHangUp == Spec => []OnceUnlessHungUp
<1>1. IInv => OnceUnlessHungUp
  BY DEF IInv, Ownership
<1> QED BY <1>1, Invariance, PTL

(* The counters are never a whole ring apart, so a store never overwrites a   *)
(* queued descriptor ahead of the worker; only the -1 puts the worker ahead. *)
THEOREM CountersBounded == Spec => []CountersInStep
<1>1. IInv => CountersInStep
  <2> SUFFICES ASSUME IInv PROVE CountersInStep
    OBVIOUS
  <2> USE DEF IInv, TypeOK
  <2>1. socket_head - socket_tail \in -1 .. SocketMax - 1
    BY RingAssumption DEF Capacity, OneStray
  <2>2. socket_tail > socket_head => serves[Phantom] > 0
    <3>1. CASE ~PhantomTaken
      BY <3>1 DEF Window
    <3>2. CASE Held(Phantom)
      BY <3>2 DEF Held, OneStray, Phantom, NoSocket
    <3> QED BY <3>1, <3>2 DEF PhantomTaken
  <2>3. socket_head <= accepted /\ socket_tail <= accepted + 1
    BY DEF Capacity, OneStray
  <2> QED BY <2>1, <2>2, <2>3 DEF CountersInStep
<1> QED BY <1>1, Invariance, PTL

(* Unless the -1 was taken, a connection is lost only by wedging the worker.  *)
THEOREM OnlyTheRaceLoses == Spec => []LossWedges
<1>1. IInv => LossWedges
  BY DEF IInv
<1> QED BY <1>1, Invariance, PTL

(* A wedged worker stays wedged for ever and serves nothing any more.         *)
THEOREM WedgedForEver == Spec => WedgeIsPermanent
<1>1. IInv /\ [Next]_vars => [Wedged => Wedged' /\ serves' = serves]_vars
  BY WedgedStep DEF IInv
<1> QED BY <1>1, Invariance, PTL DEF Spec, WedgeIsPermanent

(* Unless the -1 was taken, accept_request gets the connections in the order  *)
(* in which accept() returned them.                                          *)
THEOREM FirstComeFirstServed == Spec => ServedInOrder
<1>1. IInv /\ [Next]_vars => [~PhantomTaken /\ last' # last => last' > last]_vars
  <2> SUFFICES ASSUME IInv, [Next]_vars, ~PhantomTaken, last' # last
               PROVE  last' > last
    OBVIOUS
  <2>1. Take
    BY DEF Next, TryAccept, Worker, Accept, AcceptFails, Spawn, Refuse, Admit, Store,
           Load, Clear, Idle, HangUp, Close, vars, acceptVars, workerVars, historyVars
  <2>2. wsock > 0 /\ wpc = "test" /\ last' = wsock
    BY <2>1 DEF Take, WorkerAt, PhantomTaken, Held, IInv, TypeOK, Phantom, NoSocket
  <2> QED BY <2>2 DEF IInv, Order, TypeOK
<1> QED BY <1>1, Invariance, PTL DEF Spec, ServedInOrder

-----------------------------------------------------------------------------
(* SocketRing implements HandOff.                                           *)

(* A store adds a position at the end, zeroing only empties the worker's own. *)
LEMMA NoHolesStep ==
  ASSUME TypeOK, IInv, NoHoles, [Next]_vars
  PROVE  NoHoles'
<1> USE RingAssumption
    DEF TypeOK, NoHoles, vars, acceptVars, workerVars, historyVars, WorkerAt, Phantom
<1>1. CASE Accept(accepted + 1)
  BY <1>1 DEF Accept
<1>2. CASE AcceptFails
  BY <1>2 DEF AcceptFails
<1>3. CASE Spawn
  BY <1>3 DEF Spawn
<1>4. CASE Refuse
  BY <1>4 DEF Refuse
<1>5. CASE Admit
  BY <1>5 DEF Admit
<1>6. CASE Store
  BY <1>6, SlotInSlots, SlotInjective DEF Store, IInv, Capacity, Ownership, Newest
<1>7. CASE Load
  BY <1>7 DEF Load
<1>8. CASE Clear
  <2>1. \A p \in socket_tail + 1 .. socket_head - 1 :
            Slot(p) \in Slots /\ Slot(p) # Slot(socket_tail)
    BY SlotInSlots, SlotInjective DEF IInv, Capacity
  <2> QED BY <1>8, <2>1 DEF Clear
<1>9. CASE Take
  BY <1>9 DEF Take
<1>10. CASE Idle
  BY <1>10 DEF Idle
<1>11. CASE HangUp
  BY <1>11 DEF HangUp
<1>12. CASE Close
  BY <1>12 DEF Close
<1>13. CASE UNCHANGED vars
  BY <1>13
<1> QED
  BY <1>1, <1>2, <1>3, <1>4, <1>5, <1>6, <1>7, <1>8, <1>9, <1>10, <1>11, <1>12, <1>13
  DEF Next, TryAccept, Worker

(* Only the worker zeroes a slot or moves on.                                *)
LEMMA UnworkedStep ==
  ASSUME TypeOK, IInv, Unworked, [Next]_vars
  PROVE  Unworked'
<1> USE RingAssumption
    DEF TypeOK, Unworked, vars, acceptVars, workerVars, historyVars, WorkerAt,
        Phantom, NoSocket, IInv, Capacity
<1>1. CASE Accept(accepted + 1)
  BY <1>1 DEF Accept
<1>2. CASE AcceptFails
  BY <1>2 DEF AcceptFails
<1>3. CASE Spawn
  BY <1>3 DEF Spawn
<1>4. CASE Refuse
  BY <1>4 DEF Refuse
<1>5. CASE Admit
  BY <1>5 DEF Admit
<1>6. CASE Store
  BY <1>6, SlotInSlots DEF Store, Ownership, Newest
<1>7. CASE Load
  BY <1>7 DEF Load
<1>8. CASE Clear
  BY <1>8 DEF Clear
<1>9. CASE Take
  BY <1>9 DEF Take
<1>10. CASE Idle
  BY <1>10 DEF Idle
<1>11. CASE HangUp
  BY <1>11 DEF HangUp
<1>12. CASE Close
  BY <1>12 DEF Close
<1>13. CASE UNCHANGED vars
  BY <1>13
<1> QED
  BY <1>1, <1>2, <1>3, <1>4, <1>5, <1>6, <1>7, <1>8, <1>9, <1>10, <1>11, <1>12, <1>13
  DEF Next, TryAccept, Worker

(* The worker closes what it serves before it takes the next.                *)
LEMMA OneServedStep ==
  ASSUME TypeOK, IInv, OneServed, [Next]_vars
  PROVE  OneServed'
<1> USE RingAssumption
    DEF TypeOK, OneServed, vars, acceptVars, workerVars, historyVars, WorkerAt,
        Phantom, NoSocket, Descriptors, Counted, Early
<1>1. CASE Accept(accepted + 1)
  BY <1>1 DEF Accept
<1>2. CASE AcceptFails
  BY <1>2 DEF AcceptFails
<1>3. CASE Spawn
  BY <1>3 DEF Spawn, IInv, Capacity
<1>4. CASE Refuse
  <2>1. client_sock \in Descriptors /\ serves[client_sock] = 0
    BY <1>4 DEF Refuse, IInv, Ownership, Newest, Untouched, InHand
  <2> QED BY <1>4, <2>1 DEF Refuse
<1>5. CASE Admit
  BY <1>5 DEF Admit
<1>6. CASE Store
  BY <1>6 DEF Store
<1>7. CASE Load
  BY <1>7 DEF Load
<1>8. CASE Clear
  BY <1>8 DEF Clear
<1>9. CASE Take
  BY <1>9 DEF Take
<1>10. CASE Idle
  BY <1>10 DEF Idle
<1>11. CASE HangUp
  BY <1>11 DEF HangUp
<1>12. CASE Close
  <2>1. \A d \in Descriptors : d # wsock => ~(serves[d] > 0 /\ closes[d] = Early(d))
    BY <1>12 DEF Close
  <2>2. wsock \in Descriptors => closes[wsock] = Early(wsock)
    BY <1>12 DEF Close, IInv, Ownership, WorkerOwns
  <2>3. ASSUME NEW d \in Descriptors PROVE ~(serves'[d] > 0 /\ closes'[d] = Early(d)')
    <3>1. CASE d = wsock
      BY <1>12, <2>2, <3>1 DEF Close
    <3>2. CASE d # wsock
      BY <1>12, <2>1, <3>2 DEF Close
    <3> QED BY <3>1, <3>2
  <2> QED BY <2>3
<1>13. CASE UNCHANGED vars
  BY <1>13
<1> QED
  BY <1>1, <1>2, <1>3, <1>4, <1>5, <1>6, <1>7, <1>8, <1>9, <1>10, <1>11, <1>12, <1>13
  DEF Next, TryAccept, Worker

(* The strengthened invariant holds in every reachable state.                *)
THEOREM QueueInvariance == Spec => []QueueInv
<1>1. Init => QueueInv
  <2> SUFFICES ASSUME Init PROVE QueueInv
    OBVIOUS
  <2>1. IInv
    BY InitInv
  <2>2. NoHoles /\ Unworked /\ OneServed
    BY SlotZero, SlotInSlots, RingAssumption
    DEF Init, NoHoles, Unworked, OneServed, NoSocket, Phantom, Descriptors, Counted
  <2> QED BY <2>1, <2>2 DEF QueueInv
<1>2. QueueInv /\ [Next]_vars => QueueInv'
  <2> SUFFICES ASSUME QueueInv, [Next]_vars PROVE QueueInv'
    OBVIOUS
  <2>1. TypeOK /\ IInv /\ NoHoles /\ Unworked /\ OneServed
    BY DEF QueueInv, IInv
  <2> QED BY <2>1, StepInv, NoHolesStep, UnworkedStep, OneServedStep DEF QueueInv
<1> QED BY <1>1, <1>2, PTL DEF Spec

-----------------------------------------------------------------------------
(* What waits in the abstract queue is what a slot or the worker's hand holds. *)
QueuedWaits ==
  \A d \in Descriptors : StatusOf(d) = "queued" <=> InRing(d) \/ Held(d)

(* A connection is queued in HandOff when a slot or the worker holds it.    *)
LEMMA QueuedIsWaiting == QueueInv => QueuedWaits
<1> SUFFICES ASSUME QueueInv, NEW d \in Descriptors
             PROVE  StatusOf(d) = "queued" <=> InRing(d) \/ Held(d)
  BY DEF QueuedWaits
<1> USE DEF QueueInv, IInv, TypeOK, Descriptors, Counted, Phantom
<1>1. /\ serves[d] \in Nat /\ closes[d] \in Nat
      /\ accepted \in Nat
  OBVIOUS
<1>2. InRing(d) \/ Held(d) =>
          d <= accepted /\ ~InHand(d) /\ serves[d] = 0 /\ closes[d] = 0
  <2>1. CASE InRing(d)
    BY <2>1 DEF InRing, InHand, Ownership, Untouched, Newest
  <2>2. CASE Held(d)
    BY <2>2 DEF Held, InHand, Ownership, WorkerOwns, Newest
  <2> QED BY <2>1, <2>2
<1>3. ASSUME InRing(d) \/ Held(d) PROVE StatusOf(d) = "queued"
  BY <1>1, <1>2, <1>3 DEF StatusOf, Lost
<1>4. ASSUME StatusOf(d) = "queued" PROVE InRing(d) \/ Held(d)
  BY <1>1, <1>4 DEF StatusOf, Lost
<1> QED BY <1>3, <1>4

(* The same in the next state.                                              *)
LEMMA QueuedIsWaitingNext == QueueInv' => QueuedWaits'
  BY QueuedIsWaiting, PTL

(* HandOff counts as SocketRing does.                                       *)
LEMMA SameCardinality == \A S : Queue!Cardinality(S) = Cardinality(S)
  BY DEF Queue!Cardinality, Cardinality

(* While the queue is sound, it is as long as the counters are apart: each     *)
(* position between them stands for one waiting descriptor.                  *)
LEMMA QueueLength ==
  ASSUME QueueInv, ~Wedged, ~PhantomTaken
  PROVE  Cardinality(Queue!Are("queued")) = socket_head - socket_tail
<1> DEFINE Positions == socket_tail .. socket_head - 1
           Waiting   == {d \in Descriptors : InRing(d) \/ Held(d)}
           InTest    == wpc = "test" /\ wsock # NoSocket
           f         == [p \in Positions |->
                           IF p = socket_tail /\ InTest THEN wsock ELSE sockets[Slot(p)]]
<1> USE RingAssumption DEF QueueInv, IInv, TypeOK, Phantom, NoSocket
<1>1. Queue!Are("queued") = Waiting
  BY QueuedIsWaiting DEF QueuedWaits, Queue!Are, Queue!Connections, Status, Descriptors
<1>2. /\ Window /\ Ownership /\ Capacity
      /\ socket_tail \in Nat /\ socket_head \in Nat
      /\ socket_tail <= socket_head
  BY DEF Window
<1>3. \A p \in Positions : Slot(p) \in Slots
  BY <1>2, SlotInSlots
<1>4. InTest => wsock > 0
  BY DEF PhantomTaken, Held
<1>5. ASSUME NEW p \in Positions, ~(p = socket_tail /\ InTest)
      PROVE  sockets[Slot(p)] > 0
  <2>1. CASE p # socket_tail
    BY <2>1, <1>2 DEF NoHoles
  <2>2. CASE p = socket_tail
    <3>1. sockets[Slot(p)] # NoSocket
      BY <2>2, <1>2, <1>5 DEF Wedged, Unworked, Window, Capacity
    <3> QED BY <3>1, <1>2, <1>3, <2>2 DEF Window
  <2> QED BY <2>1, <2>2
<1>6. \A p \in Positions : f[p] \in Waiting
  <2> SUFFICES ASSUME NEW p \in Positions PROVE f[p] \in Waiting
    OBVIOUS
  <2>1. CASE p = socket_tail /\ InTest
    BY <2>1, <1>4 DEF Held, Descriptors
  <2>2. CASE ~(p = socket_tail /\ InTest)
    BY <2>2, <1>3, <1>5 DEF InRing, Descriptors
  <2> QED BY <2>1, <2>2
<1>7. \A p, q \in Positions : f[p] = f[q] => p = q
  <2> SUFFICES ASSUME NEW p \in Positions, NEW q \in Positions, p < q, f[p] = f[q]
               PROVE  FALSE
    BY <1>2
  <2>1. Slot(p) # Slot(q)
    BY <1>2, SlotInjective DEF Capacity
  <2>2. f[q] = sockets[Slot(q)] /\ sockets[Slot(q)] > 0
    BY <1>2, <1>5
  <2>3. CASE p = socket_tail /\ InTest
    <3>1. ~InRing(wsock)
      BY <2>3, <1>2, <1>4 DEF Ownership, WorkerOwns
    <3> QED BY <2>2, <2>3, <3>1, <1>3 DEF InRing
  <2>4. CASE ~(p = socket_tail /\ InTest)
    BY <2>1, <2>2, <2>4, <1>2, <1>3 DEF Ownership, OneSlot
  <2> QED BY <2>3, <2>4
<1>8. \A d \in Waiting : \E p \in Positions : f[p] = d
  <2> SUFFICES ASSUME NEW d \in Waiting PROVE \E p \in Positions : f[p] = d
    OBVIOUS
  <2>1. CASE InRing(d)
    <3>1. PICK i \in Slots : sockets[i] = d
      BY <2>1 DEF InRing
    <3>2. d > 0
      BY DEF Descriptors
    <3>3. PICK p \in Positions : Slot(p) = i
      BY <3>1, <3>2, <1>2 DEF Window
    <3>4. ~(p = socket_tail /\ InTest)
      BY <3>1, <3>2, <3>3, <1>2 DEF Window
    <3> QED BY <3>1, <3>3, <3>4
  <2>2. CASE Held(d) /\ ~InRing(d)
    <3>1. wsock = d /\ d > 0 /\ wpc \in {"clear", "test"}
      BY <2>2 DEF Held, Descriptors
    <3>2. socket_tail \in Positions
      BY <3>1, <1>2 DEF Window
    <3>3. CASE wpc = "test"
      BY <3>1, <3>2, <3>3
    <3>4. CASE wpc = "clear"
      BY <3>1, <3>2, <3>4, <1>2, <1>3, <2>2 DEF Window, InRing
    <3> QED BY <3>1, <3>3, <3>4
  <2> QED BY <2>1, <2>2
<1>9. ExistsBijection(Positions, Waiting)
  <2> HIDE DEF Positions, Waiting
  <2>1. f \in [Positions -> Waiting]
    BY <1>6
  <2>2. f \in Bijection(Positions, Waiting)
    BY <2>1, <1>7, <1>8 DEF Bijection, Injection, Surjection, IsInjective
  <2> QED BY <2>2 DEF ExistsBijection
<1>10. IsFiniteSet(Positions) /\ Cardinality(Positions) = socket_head - socket_tail
  <2>1. socket_tail \in Int /\ socket_head - 1 \in Int
    BY <1>2
  <2>2. /\ IsFiniteSet(socket_tail .. socket_head - 1)
        /\ Cardinality(socket_tail .. socket_head - 1)
              = IF socket_tail > socket_head - 1 THEN 0 ELSE socket_head - 1 - socket_tail + 1
    BY <2>1, FS_Interval
  <2> QED BY <2>2, <1>2
<1> QED BY <1>1, <1>9, <1>10, FS_Bijection

-----------------------------------------------------------------------------
(* The mode changes in two steps only: the worker loads the -1, or zeroes a    *)
(* slot that was filled behind its back.                                    *)
LEMMA ModeStep ==
  ASSUME QueueInv, QueueInv', [Next]_vars
  PROVE  \/ Mode' = Mode
         \/ Load /\ Mode = "sound" /\ Mode' = "phantom"
         \/ Clear /\ Mode' = "wedged"
<1> USE RingAssumption
    DEF QueueInv, IInv, TypeOK, vars, acceptVars, workerVars, historyVars, WorkerAt,
        Phantom, NoSocket, Descriptors, Counted, Capacity
<1>1. Wedged => Wedged'
  BY WedgedStep
<1>2. PhantomTaken => PhantomTaken'
  BY PhantomStable
<1>3. ASSUME ~Wedged, Wedged' PROVE Clear
  <2> USE <1>3 DEF Wedged
  <2>1. CASE Accept(accepted + 1)
    BY <2>1 DEF Accept
  <2>2. CASE AcceptFails
    BY <2>2 DEF AcceptFails
  <2>3. CASE Spawn
    BY <2>3 DEF Spawn, Unworked
  <2>4. CASE Refuse
    BY <2>4 DEF Refuse
  <2>5. CASE Admit
    BY <2>5 DEF Admit
  <2>6. CASE Store
    <3>1. Slot(socket_tail) \in Slots /\ Slot(socket_head) \in Slots
      BY SlotInSlots
    <3>2. client_sock > 0
      BY <2>6 DEF Store, Ownership, Newest
    <3>3. socket_tail < socket_head => Slot(socket_tail) # Slot(socket_head)
      BY SlotInjective
    <3>4. socket_tail >= socket_head \/ sockets'[Slot(socket_tail)] = sockets[Slot(socket_tail)]
      BY <2>6, <3>1, <3>3 DEF Store
    <3>5. socket_tail = socket_head => sockets'[Slot(socket_tail)] # NoSocket
      BY <2>6, <3>1, <3>2 DEF Store
    <3>6. UNCHANGED <<accept_thread, socket_tail, wpc, wsock>> /\ socket_head' = socket_head + 1
      BY <2>6 DEF Store
    <3> QED BY <3>4, <3>5, <3>6
  <2>7. CASE Load
    BY <2>7 DEF Load
  <2>9. CASE Take
    BY <2>9 DEF Take, NoHoles
  <2>10. CASE Idle
    BY <2>10 DEF Idle
  <2>11. CASE HangUp
    BY <2>11 DEF HangUp
  <2>12. CASE Close
    BY <2>12 DEF Close
  <2>13. CASE UNCHANGED vars
    BY <2>13
  <2> QED
    BY <2>1, <2>2, <2>3, <2>4, <2>5, <2>6, <2>7, <2>9, <2>10, <2>11, <2>12, <2>13
    DEF Next, TryAccept, Worker
<1>4. ASSUME ~PhantomTaken, PhantomTaken' PROVE Load /\ ~Wedged
  <2> USE <1>4 DEF PhantomTaken, Held
  <2>1. CASE Accept(accepted + 1)
    BY <2>1 DEF Accept
  <2>2. CASE AcceptFails
    BY <2>2 DEF AcceptFails
  <2>3. CASE Spawn
    BY <2>3 DEF Spawn
  <2>4. CASE Refuse
    BY <2>4 DEF Refuse
  <2>5. CASE Admit
    BY <2>5 DEF Admit
  <2>6. CASE Store
    BY <2>6 DEF Store
  <2>7. CASE Load
    BY <2>7, SlotInSlots DEF Load, Window, Wedged
  <2>8. CASE Clear
    BY <2>8 DEF Clear
  <2>9. CASE Take
    BY <2>9 DEF Take
  <2>10. CASE Idle
    BY <2>10 DEF Idle
  <2>11. CASE HangUp
    BY <2>11 DEF HangUp
  <2>12. CASE Close
    BY <2>12 DEF Close
  <2>13. CASE UNCHANGED vars
    BY <2>13
  <2> QED
    BY <2>1, <2>2, <2>3, <2>4, <2>5, <2>6, <2>7, <2>8, <2>9, <2>10, <2>11, <2>12, <2>13
    DEF Next, TryAccept, Worker
<1>5. Load /\ Clear => FALSE
  BY DEF Load, Clear
<1> QED BY <1>1, <1>2, <1>3, <1>4, <1>5, Zenon DEF Mode

(* How a step of the two threads is a step of the queue: by the connections   *)
(* whose status it changes.                                                 *)
LEMMA StatusKept ==
  ASSUME \A d \in Descriptors : StatusOf(d)' = StatusOf(d)
  PROVE  Status' = Status
  BY DEF Status

(* One connection moves on.                                                 *)
LEMMA StatusMoved ==
  ASSUME NEW c \in Descriptors, NEW s, StatusOf(c)' = s,
         \A d \in Descriptors : d # c => StatusOf(d)' = StatusOf(d)
  PROVE  Queue!Move(c, s)
  BY DEF Queue!Move, Status

(* A new connection is the next in the backlog.                              *)
LEMMA AcceptRefines ==
  ASSUME QueueInv, QueueInv', Mode' = Mode, Accept(accepted + 1)
  PROVE  Queue!Next
<1>. PICK c : c = accepted + 1
  OBVIOUS
<1> USE DEF QueueInv, IInv, TypeOK, Descriptors, Counted, historyVars, workerVars, Phantom
<1>1. c \in Descriptors
  BY RingAssumption DEF Accept
<1>2. \A d \in Descriptors : StatusOf(d) # "accepted"
  BY DEF Accept, StatusOf, Early, InHand
<1>3. \A d \in Descriptors : StatusOf(d) = "backlog" <=> d > accepted
  BY DEF StatusOf
<1>4. StatusOf(c)' = "accepted"
  BY DEF Accept, StatusOf, Early, InHand
<1>5. ASSUME NEW d \in Descriptors, d # c PROVE StatusOf(d)' = StatusOf(d)
  BY <1>5 DEF Accept, StatusOf, Early, InHand, Lost, InRing, Held
<1>6. Queue!Move(c, "accepted")
  BY <1>1, <1>4, <1>5, StatusMoved
<1>7. Queue!Arrive(c)
  <2>1. Queue!Are("accepted") = {}
    BY <1>2 DEF Queue!Are, Queue!Connections, Status
  <2>2. Status[c] = "backlog"
    BY <1>1, <1>3 DEF Status
  <2>3. ASSUME NEW b \in 1 .. c - 1 PROVE Status[b] # "backlog"
    <3>1. b \in Descriptors /\ ~(b > accepted)
      BY <1>1, RingAssumption
    <3> QED BY <3>1, <1>3 DEF Status
  <2>4. UNCHANGED Mode
    OBVIOUS
  <2> QED BY <1>6, <2>1, <2>2, <2>3, <2>4 DEF Queue!Arrive
<1> QED BY <1>1, <1>7 DEF Queue!Next, Queue!Connections

(* The counters are a ring's length apart when a connection is turned away.   *)
LEMMA RefuseRefines ==
  ASSUME QueueInv, QueueInv', Mode' = Mode, Refuse
  PROVE  Queue!Next
<1>. PICK c : c = client_sock
  OBVIOUS
<1> USE DEF QueueInv, IInv, TypeOK, Descriptors, Counted, historyVars, workerVars, Phantom
<1>1. c \in Descriptors /\ InHand(c) /\ c <= accepted
  BY DEF Refuse, Ownership, Newest, InHand
<1>2. StatusOf(c) = "accepted"
  BY <1>1 DEF StatusOf
<1>3. serves[c] = 0 /\ closes[c] = 0
  BY <1>1 DEF Ownership, Untouched
<1>4. StatusOf(c)' = "refused"
  BY <1>1, <1>3 DEF Refuse, StatusOf, Early, InHand
<1>5. ASSUME NEW d \in Descriptors, d # c PROVE StatusOf(d)' = StatusOf(d)
  BY <1>5 DEF Refuse, StatusOf, Early, InHand, Lost, InRing, Held
<1>6. Queue!Move(c, "refused")
  BY <1>1, <1>4, <1>5, StatusMoved
<1>7. Mode = "sound" => Cardinality(Queue!Are("queued")) = SocketMax - 1
  BY QueueLength, RingAssumption DEF Mode, Refuse, Full
<1>8. Queue!Refuse(c)
  BY <1>1, <1>2, <1>6, <1>7, SameCardinality DEF Queue!Refuse, Status
<1> QED BY <1>1, <1>8 DEF Queue!Next, Queue!Connections

(* A store appends to the queue; it overwrites a waiting descriptor only when *)
(* the -1 has set the counters apart.                                       *)
LEMMA StoreRefines ==
  ASSUME QueueInv, QueueInv', Mode' = Mode, Store
  PROVE  Queue!Next
<1>. PICK c, v : c = client_sock /\ v = sockets[Slot(socket_head)]
  OBVIOUS
<1> USE RingAssumption
    DEF QueueInv, IInv, TypeOK, Descriptors, Counted, historyVars, workerVars, Phantom
<1>1. c \in Descriptors /\ InHand(c) /\ c <= accepted
  BY DEF Store, Ownership, Newest, InHand
<1>2. StatusOf(c) = "accepted"
  BY <1>1 DEF StatusOf
<1>3. Slot(socket_head) \in Slots
  BY SlotInSlots
<1>4. StatusOf(c)' = "queued"
  <2>1. InRing(c)'
    BY <1>1, <1>3 DEF Store, InRing
  <2> QED BY <2>1, QueuedIsWaitingNext, <1>1 DEF QueuedWaits
<1>5. ASSUME NEW d \in Descriptors, d # c, d # v PROVE StatusOf(d)' = StatusOf(d)
  <2>1. InRing(d)' <=> InRing(d)
    BY <1>3, <1>5 DEF Store, InRing
  <2>2. ~InHand(d) /\ ~InHand(d)'
    BY <1>5 DEF Store, InHand
  <2> QED BY <2>1, <2>2 DEF Store, StatusOf, Early, Lost, Held
<1>6. CASE v > 0 /\ ~Held(v)
  <2>1. v \in Descriptors /\ v # c
    BY <1>3, <1>6, <1>1 DEF Ownership, Newest, Store
  <2>2. StatusOf(v) = "queued"
    BY <2>1, <1>3, QueuedIsWaiting DEF QueuedWaits, InRing
  <2>3. StatusOf(v)' = "lost"
    <3>1. ~InRing(v)'
      BY <2>1, <1>3, <1>6 DEF InRing, Store, Ownership, OneSlot
    <3>2. ~InHand(v)' /\ ~Held(v)'
      BY <1>6 DEF Store, InHand, Held
    <3>3. v <= accepted /\ serves[v] = 0 /\ closes[v] = 0
      BY <2>1, <1>3 DEF Ownership, Untouched, InRing
    <3> QED BY <3>1, <3>2, <3>3, <2>1 DEF StatusOf, Early, Lost, Store
  <2>4. Status' = [Status EXCEPT ![c] = "queued", ![v] = "lost"]
    <3> QED BY <1>1, <1>4, <1>5, <2>1, <2>3 DEF Status
  <2>5. Mode # "sound"
    <3>1. ASSUME ~PhantomTaken PROVE FALSE
      <4>1. PICK p \in socket_tail .. socket_head - 1 : Slot(p) = Slot(socket_head)
        BY <3>1, <1>3, <1>6 DEF Window
      <4> QED BY <4>1, <3>1, SlotInjective DEF Window, Capacity
    <3> QED BY <3>1 DEF Mode
  <2>6. Queue!EnqueueOver(c, v)
    BY <1>1, <1>2, <2>1, <2>2, <2>4, <2>5 DEF Queue!EnqueueOver, Status
  <2> QED BY <1>1, <2>1, <2>6 DEF Queue!Next, Queue!Connections
<1>7. CASE ~(v > 0 /\ ~Held(v))
  <2>1. ASSUME NEW d \in Descriptors, d # c PROVE StatusOf(d)' = StatusOf(d)
    <3>1. CASE d = v
      <4>1. Held(v) /\ Held(v)'
        BY <3>1, <1>7 DEF Held, Store
      <4>2. StatusOf(d) = "queued" /\ StatusOf(d)' = "queued"
        BY <2>1, <4>1, <3>1, QueuedIsWaiting, QueuedIsWaitingNext DEF QueuedWaits
      <4> QED BY <4>2
    <3>2. CASE d # v
      BY <2>1, <3>2, <1>5
    <3> QED BY <3>1, <3>2
  <2>2. Queue!Move(c, "queued")
    BY <1>1, <1>4, <2>1, StatusMoved
  <2>3. Mode = "sound" => Cardinality(Queue!Are("queued")) < SocketMax - 1
    BY QueueLength DEF Mode, Store, Capacity
  <2>4. Queue!Enqueue(c)
    BY <1>1, <1>2, <2>2, <2>3, SameCardinality DEF Queue!Enqueue, Status
  <2> QED BY <1>1, <2>4 DEF Queue!Next, Queue!Connections
<1> QED BY <1>6, <1>7

(* Loading a descriptor is no step of the queue; loading the -1 breaks it.    *)
LEMMA LoadRefines ==
  ASSUME QueueInv, QueueInv', [Next]_vars, Load
  PROVE  Queue!Next \/ UNCHANGED Queue!vars
<1> USE DEF QueueInv, IInv, TypeOK, Descriptors, Counted, acceptVars, historyVars
<1>1. Status' = Status
  <2> SUFFICES ASSUME NEW d \in Descriptors PROVE StatusOf(d)' = StatusOf(d)
    BY StatusKept
  <2>1. /\ InRing(d)' <=> InRing(d)
        /\ Held(d)' => InRing(d)
        /\ ~Held(d)
    BY SlotInSlots DEF Load, WorkerAt, InRing, Held
  <2>2. Lost(d)' <=> Lost(d)
    BY <2>1 DEF Load, Lost, InHand
  <2> QED BY <2>2 DEF Load, StatusOf, Early, InHand
<1>2. CASE Mode' = Mode
  BY <1>1, <1>2 DEF Queue!vars
<1>3. CASE Mode = "sound" /\ Mode' = "phantom"
  BY <1>1, <1>3 DEF Queue!Next, Queue!TakePhantom
<1>4. ~Clear
  BY DEF Load, Clear, WorkerAt
<1> QED BY <1>2, <1>3, <1>4, ModeStep

(* Zeroing a slot loses the descriptor that the worker has not loaded from it. *)
LEMMA ClearRefines ==
  ASSUME QueueInv, QueueInv', [Next]_vars, Clear
  PROVE  Queue!Next \/ UNCHANGED Queue!vars
<1>. PICK c : c = sockets[Slot(socket_tail)]
  OBVIOUS
<1> USE DEF QueueInv, IInv, TypeOK, Descriptors, Counted, acceptVars, historyVars,
            Phantom, NoSocket
<1>1. Slot(socket_tail) \in Slots
  BY SlotInSlots
<1>2. Mode' \in {Mode, "wedged"}
  <2>1. ~Load
    BY DEF Load, Clear, WorkerAt
  <2> QED BY <2>1, ModeStep
<1>3. ASSUME NEW d \in Descriptors, d # c \/ Held(d)
      PROVE  StatusOf(d)' = StatusOf(d)
  <2>1. /\ Held(d)' <=> Held(d)
        /\ InHand(d)' <=> InHand(d)
        /\ Held(d) \/ (InRing(d)' <=> InRing(d))
    BY <1>1, <1>3 DEF Clear, WorkerAt, InRing, Held, InHand
  <2> QED BY <2>1 DEF Clear, StatusOf, Early, Lost
<1>4. CASE c > 0 /\ ~Held(c)
  <2>1. c \in Descriptors
    BY RingAssumption, <1>1, <1>4
  <2>2. StatusOf(c) = "queued"
    BY <1>1, <2>1, QueuedIsWaiting DEF QueuedWaits, InRing
  <2>3. Lost(c)' /\ StatusOf(c)' = "lost"
    <3>1. ~InRing(c)'
      BY <2>1, <1>1, <1>4 DEF InRing, Clear, Ownership, OneSlot
    <3>2. c <= accepted /\ serves[c] = 0 /\ closes[c] = 0 /\ ~InHand(c)
      BY <2>1, <1>1 DEF Ownership, Untouched, Newest, InRing, InHand
    <3>3. ~InHand(c)' /\ ~Held(c)'
      BY <1>4, <3>2 DEF Clear, WorkerAt, InHand, Held
    <3> QED BY <3>1, <3>2, <3>3, <2>1 DEF StatusOf, Early, Lost, Clear
  <2>4. Queue!Move(c, "lost")
    BY <2>1, <2>3, <1>3, StatusMoved
  <2>5. Mode = "sound" => Mode' = "wedged"
    BY <2>1, <2>3, <1>2 DEF LossWedges, Mode
  <2>6. Queue!Lose(c)
    BY <2>1, <2>2, <2>4, <2>5, <1>2 DEF Queue!Lose, Status
  <2> QED BY <2>1, <2>6 DEF Queue!Next, Queue!Connections
<1>5. CASE ~(c > 0 /\ ~Held(c))
  <2>1. Status' = Status
    BY <1>3, <1>5, StatusKept
  <2>2. ~Wedged => ~Wedged'
    <3>1. CASE c > 0
      BY <3>1, <1>5 DEF Wedged, Clear, WorkerAt, Held
    <3>2. CASE c = NoSocket
      BY <3>2, <1>1 DEF Wedged, Clear, WorkerAt
    <3>3. CASE c = Phantom
      <4>1. socket_tail = socket_head
        BY <3>3, <1>1 DEF OneStray
      <4> QED BY <4>1 DEF Wedged, Clear
    <3> QED BY <3>1, <3>2, <3>3, <1>1
  <2>3. Mode' = Mode
    BY <2>2, <1>2 DEF Mode
  <2> QED BY <2>1, <2>3 DEF Queue!vars
<1> QED BY <1>4, <1>5

(* The worker serves the connection that waited first.                       *)
LEMMA TakeRefines ==
  ASSUME QueueInv, QueueInv', Mode' = Mode, Take
  PROVE  Queue!Next \/ UNCHANGED Queue!vars
<1>. PICK c : c = wsock
  OBVIOUS
<1> USE DEF QueueInv, IInv, TypeOK, Descriptors, Counted, acceptVars, Phantom, NoSocket
<1>1. wpc = "test" /\ c # NoSocket
  BY DEF Take, WorkerAt
<1>2. ASSUME NEW d \in Descriptors, d # c
      PROVE  StatusOf(d)' = StatusOf(d)
  BY <1>2 DEF Take, WorkerAt, StatusOf, Early, Lost, InHand, InRing, Held
<1>3. CASE c > 0
  <2>1. c \in Descriptors /\ Held(c)
    BY RingAssumption, <1>1, <1>3 DEF Held
  <2>2. StatusOf(c) = "queued"
    BY <2>1, QueuedIsWaiting DEF QueuedWaits
  <2>3. StatusOf(c)' = "serving"
    <3>1. serves[c] = 0 /\ closes[c] = 0 /\ c \notin early /\ ~InHand(c) /\ c <= accepted
      BY <1>1, <1>3 DEF Ownership, WorkerOwns, Newest, InHand
    <3> QED BY <3>1, <2>1 DEF Take, StatusOf, Early, InHand
  <2>4. Queue!Move(c, "serving")
    BY <2>1, <2>3, <1>2, StatusMoved
  <2>5. Queue!Are("serving") = {}
    BY <1>1 DEF OneServed, StatusOf, Queue!Are, Queue!Connections, Status
  <2>6. Mode # "wedged"
    BY <1>1 DEF Mode, Wedged
  <2>7. Mode = "sound" => \A d \in Queue!Are("queued") : c <= d
    <3> SUFFICES ASSUME Mode = "sound", NEW d \in Queue!Are("queued") PROVE c <= d
      OBVIOUS
    <3>1. d \in Descriptors /\ (InRing(d) \/ Held(d))
      BY QueuedIsWaiting DEF QueuedWaits, Queue!Are, Queue!Connections, Status
    <3>2. Order
      BY DEF Mode
    <3> QED BY <3>1, <3>2, <1>1, <1>3 DEF Order, InRing, Held
  <2>8. Queue!Serve(c)
    BY <2>1, <2>2, <2>4, <2>5, <2>6, <2>7 DEF Queue!Serve, Status
  <2> QED BY <2>1, <2>8 DEF Queue!Next, Queue!Connections
<1>4. CASE c <= 0
  <2>1. Status' = Status
    BY <1>2, <1>4, StatusKept
  <2> QED BY <2>1 DEF Queue!vars
<1> QED BY <1>3, <1>4

(* accept_request has returned.                                              *)
LEMMA CloseRefines ==
  ASSUME QueueInv, QueueInv', Mode' = Mode, Close
  PROVE  Queue!Next \/ UNCHANGED Queue!vars
<1>. PICK c : c = wsock
  OBVIOUS
<1> USE DEF QueueInv, IInv, TypeOK, Descriptors, Counted, acceptVars, Phantom, NoSocket
<1>1. ASSUME NEW d \in Descriptors, d # c
      PROVE  StatusOf(d)' = StatusOf(d)
  BY <1>1 DEF Close, WorkerAt, StatusOf, Early, Lost, InHand, InRing, Held
<1>2. CASE c > 0
  <2>1. c \in Descriptors /\ c <= accepted /\ ~InHand(c)
    BY RingAssumption, <1>2 DEF Ownership, Newest, InHand
  <2>2. serves[c] = 1 /\ closes[c] = Early(c) /\ Early(c) \in Nat
    BY <1>2 DEF Early, Close, WorkerAt, Ownership, WorkerOwns
  <2>3. StatusOf(c) = "serving" /\ StatusOf(c)' = "served"
    BY <2>1, <2>2 DEF Close, StatusOf, Early, InHand
  <2>4. Queue!Finish(c)
    BY <2>1, <2>3, <1>1, StatusMoved DEF Queue!Finish, Status
  <2> QED BY <2>1, <2>4 DEF Queue!Next, Queue!Connections
<1>3. CASE c <= 0
  <2>1. Status' = Status
    BY <1>1, <1>3, StatusKept
  <2> QED BY <2>1 DEF Queue!vars
<1> QED BY <1>2, <1>3

(* The close of handle_request is no step of the queue: the worker has yet to  *)
(* close the same descriptor.                                               *)
LEMMA HangUpRefines ==
  ASSUME QueueInv, QueueInv', Mode' = Mode, HangUp
  PROVE  UNCHANGED Queue!vars
<1>. PICK c : c = wsock
  OBVIOUS
<1> USE DEF QueueInv, IInv, TypeOK, Descriptors, Counted, acceptVars, workerVars,
            Phantom, NoSocket
<1> SUFFICES ASSUME NEW d \in Descriptors PROVE StatusOf(d)' = StatusOf(d)
  BY StatusKept DEF Queue!vars
<1>1. CASE d # c
  BY <1>1 DEF HangUp, StatusOf, Early, Lost, InHand, InRing, Held
<1>2. CASE d = c
  <2>1. d <= accepted /\ ~InHand(d)
    BY <1>2 DEF HangUp, WorkerAt, Ownership, Newest, InHand
  <2>2. serves[d] = 1 /\ closes[d] = Early(d) /\ Early(d) = 0
    BY <1>2 DEF HangUp, WorkerAt, Ownership, WorkerOwns, Early
  <2>3. StatusOf(d) = "serving"
    BY <2>1, <2>2 DEF StatusOf
  <2>4. serves'[d] = 1 /\ closes'[d] = 1 /\ Early(d)' = 1
    BY <1>2, <2>2 DEF HangUp, Early
  <2>5. StatusOf(d)' = "serving"
    BY <2>1, <2>4 DEF HangUp, StatusOf, InHand
  <2> QED BY <2>3, <2>5
<1> QED BY <1>1, <1>2

(* The other steps are inside one of the two threads.                        *)
LEMMA OthersStutter ==
  ASSUME QueueInv, QueueInv', Mode' = Mode,
         AcceptFails \/ Spawn \/ Admit \/ Idle \/ UNCHANGED vars
  PROVE  UNCHANGED Queue!vars
<1> USE DEF QueueInv, IInv, TypeOK, Descriptors, Counted, acceptVars, workerVars,
            historyVars, NoSocket
<1> SUFFICES ASSUME NEW d \in Descriptors PROVE StatusOf(d)' = StatusOf(d)
  BY StatusKept DEF Queue!vars
<1>1. CASE AcceptFails
  BY <1>1 DEF AcceptFails, StatusOf, Early, Lost, InHand, InRing, Held
<1>2. CASE Spawn
  BY <1>2 DEF Spawn, StatusOf, Early, Lost, InHand, InRing, Held, Capacity
<1>3. CASE Admit
  BY <1>3 DEF Admit, StatusOf, Early, Lost, InHand, InRing, Held
<1>4. CASE Idle
  BY <1>4 DEF Idle, WorkerAt, StatusOf, Early, Lost, InHand, InRing, Held
<1>5. CASE UNCHANGED vars
  BY <1>5 DEF vars, StatusOf, Early, Lost, InHand, InRing, Held
<1> QED BY <1>1, <1>2, <1>3, <1>4, <1>5

(* The array, its two counters and the two threads without a lock are a       *)
(* bounded first-in first-out queue in front of one server, or what HandOff   *)
(* says is left of one after the -1 or the race on a slot.                   *)
THEOREM RingImplementsQueue == Spec => ImplementsQueue
<1>1. Init => Queue!Init
  <2> SUFFICES ASSUME Init PROVE Queue!Init
    OBVIOUS
  <2>1. \A c \in Descriptors : StatusOf(c) = "backlog"
    BY RingAssumption DEF Init, StatusOf, Descriptors
  <2>2. Mode = "sound"
    BY DEF Init, Mode, Wedged, PhantomTaken, Held, Phantom, NoSocket, Counted
  <2> QED BY <2>1, <2>2 DEF Queue!Init, Queue!Connections, Status, Descriptors
<1>2. QueueInv /\ QueueInv' /\ [Next]_vars => [Queue!Next]_(Queue!vars)
  <2> SUFFICES ASSUME QueueInv, QueueInv', [Next]_vars
               PROVE  Queue!Next \/ UNCHANGED Queue!vars
    OBVIOUS
  <2>1. ~Load /\ ~Clear => Mode' = Mode
    BY ModeStep
  <2>2. CASE Load
    BY <2>2, LoadRefines
  <2>3. CASE Clear
    BY <2>3, ClearRefines
  <2>4. CASE ~Load /\ ~Clear
    BY <2>1, <2>4, AcceptRefines, RefuseRefines, StoreRefines, TakeRefines, HangUpRefines,
       CloseRefines, OthersStutter
    DEF Next, TryAccept, Worker
  <2> QED BY <2>2, <2>3, <2>4
<1> QED BY <1>1, <1>2, QueueInvariance, PTL DEF Spec, ImplementsQueue, Queue!Spec
=============================================================================
