------------------------ MODULE HttpServerQueueProofs ------------------------
(***************************************************************************)
(* Proof that HttpServer implements HandOff up to the first early close, for *)
(* any number of clients, descriptors and places in the queue.               *)
(***************************************************************************)
EXTENDS HttpServerQueue, HttpServerProofs, FiniteSetTheorems

(* What Append does, entry by entry.                                        *)
LEMMA Appended ==
  ASSUME NEW S, NEW s \in Seq(S), NEW x \in S
  PROVE  /\ Append(s, x) \in Seq(S) /\ Len(Append(s, x)) = Len(s) + 1
         /\ DOMAIN Append(s, x) = 1 .. Len(s) + 1 /\ Append(s, x) # <<>>
         /\ Append(s, x)[Len(s) + 1] = x
         /\ \A k \in 1 .. Len(s) : Append(s, x)[k] = s[k]
<1>1. Append(s, x) \in Seq(S) /\ Len(Append(s, x)) = Len(s) + 1
  OBVIOUS
<1>2. \A k \in 1 .. Len(s) : Append(s, x)[k] = s[k]
  OBVIOUS
<1>3. Append(s, x)[Len(s) + 1] = x
  OBVIOUS
<1>4. DOMAIN Append(s, x) = 1 .. Len(s) + 1 /\ Append(s, x) # <<>>
  BY <1>1
<1> QED BY <1>1, <1>2, <1>3, <1>4

(* Only Accept makes a connection of one that waits for the kernel, and       *)
(* nothing that was read is forgotten.                                      *)
LEMMA NotAccepting ==
  ASSUME TypeOK, WorkerInv, [Next]_vars, \A c \in Clients : ~Accept(c)
  PROVE  /\ afd' \in {afd, NoFd}
         /\ \A c \in Clients : client'[c] \in {"idle", "backlog"} <=> client[c] \in {"idle", "backlog"}
         /\ \A c \in Clients : got[c] > 0 => got'[c] > 0
         /\ \A c \in from' : c \in from \/ got'[c] > 0
<1> USE DEF clientVars, readVars, sendVars, workerVars
<1>1. CASE Startup
  BY <1>1 DEF Startup
<1>2. CASE StartupFails
  BY <1>2 DEF StartupFails
<1>3. CASE AcceptFails
  BY <1>3 DEF AcceptFails
<1>4. CASE Enqueue
  BY <1>4 DEF Enqueue
<1>5. CASE Take
  BY <1>5 DEF Take
<1>6. CASE Recv
  <2>1. PICK c \in Clients, n \in Nat :
           0 < n /\ got' = [got EXCEPT ![c] = got[c] + n] /\ from' = from \union {c}
    BY <1>6, RecvReads
  <2>2. UNCHANGED <<client, afd>>
    BY <1>6 DEF Recv
  <2> QED BY <2>1, <2>2 DEF TypeOK
<1>7. CASE RecvFails
  BY <1>7 DEF RecvFails
<1>8. CASE CloseFailed
  BY <1>8 DEF CloseFailed
<1>9. CASE Respond
  BY <1>9 DEF Respond
<1>10. CASE SendPart
  BY <1>10, SendDelivers DEF TypeOK
<1>11. CASE Finish
  BY <1>11 DEF Finish
<1>12. CASE \E c \in Clients : Connect(c)
  BY <1>12 DEF Connect, TypeOK
<1>13. CASE \E c \in Clients : Send(c)
  BY <1>13 DEF Send
<1>14. CASE \E c \in Clients : HangUp(c)
  BY <1>14 DEF HangUp, TypeOK
<1>15. CASE \E c \in Clients : Break(c)
  BY <1>15 DEF Break, TypeOK
<1>16. CASE UNCHANGED vars
  BY <1>16 DEF vars
<1> QED
  BY <1>1, <1>2, <1>3, <1>4, <1>5, <1>6, <1>7, <1>8, <1>9, <1>10, <1>11, <1>12, <1>13, <1>14, <1>15, <1>16
  DEF Next, AcceptLoop, Worker, ClientStep

(* The history names who was accepted, each client once.                     *)
LEMMA OrderStep ==
  ASSUME TypeOK, WorkerInv, OrderInv, [QueueNext]_<<vars, order>>
  PROVE  OrderInv'
<1>0. /\ order \in Seq(Clients) /\ DOMAIN order = 1 .. Len(order)
      /\ from \subseteq Clients
  BY DEF OrderInv, TypeOK
<1>1. [Next]_vars
  BY DEF QueueNext
<1>2. ASSUME NEW c \in Clients, Accept(c), QueueNext PROVE OrderInv'
  <2>1. /\ afd = NoFd /\ FreeFds # {} /\ afd' = Lowest
        /\ fdtab' = [fdtab EXCEPT ![Lowest] = c]
        /\ client[c] = "backlog" /\ client' = [client EXCEPT ![c] = "open"]
        /\ UNCHANGED <<got, from>>
    BY <1>2 DEF Accept, workerVars, readVars
  <2>2. Lowest \in Fds
    BY <2>1, LowestIsFree
  <2>3. fdtab'[Lowest] = c /\ Lowest # NoFd
    BY <2>1, <2>2, NoFdIsNone DEF TypeOK
  <2>4. order' = Append(order, c)
    BY <1>2, <2>1, <2>3 DEF QueueNext
  <2>5. /\ Len(order') = Len(order) + 1 /\ order'[Len(order) + 1] = c
        /\ \A k \in 1 .. Len(order) : order'[k] = order[k]
        /\ order' \in Seq(Clients) /\ DOMAIN order' = 1 .. Len(order) + 1
    BY <1>0, <1>2, <2>4, Appended
  <2>6. \A k \in DOMAIN order : order[k] # c
    BY <2>1 DEF OrderInv, Range
  <2>7. \A k, l \in DOMAIN order' : order'[k] = order'[l] => k = l
    BY <1>0, <2>5, <2>6 DEF OrderInv
  <2>8. \A d \in Clients : d \in Range(order') <=> d \in Range(order) \/ d = c
    BY <1>0, <2>5 DEF Range
  <2>9. \A d \in Clients : client'[d] \in {"idle", "backlog"} <=> client[d] \in {"idle", "backlog"} /\ d # c
    BY <2>1 DEF TypeOK
  <2> QED BY <2>1, <2>5, <2>7, <2>8, <2>9 DEF OrderInv
<1>3. ASSUME \A c \in Clients : ~Accept(c) PROVE OrderInv'
  <2>1. /\ afd' \in {afd, NoFd}
        /\ \A c \in Clients : client'[c] \in {"idle", "backlog"} <=> client[c] \in {"idle", "backlog"}
        /\ \A c \in Clients : got[c] > 0 => got'[c] > 0
        /\ \A c \in from' : c \in from \/ got'[c] > 0
    BY <1>1, <1>3, NotAccepting
  <2>2. order' = order
    BY <2>1 DEF QueueNext
  <2> QED BY <1>0, <2>1, <2>2 DEF OrderInv
<1>4. CASE UNCHANGED <<vars, order>>
  BY <1>4 DEF OrderInv, vars, clientVars, workerVars, readVars
<1> QED BY <1>2, <1>3, <1>4

(* The steps that hand nothing on: every connection keeps its descriptor, and  *)
(* nothing is read from one without.                                        *)
LEMMA QuietStep ==
  ASSUME TypeOK, WorkerInv, [Next]_vars, \A c \in Clients : ~Accept(c),
         ~Enqueue, ~Take, ~Finish, ~CloseFailed
  PROVE  /\ UNCHANGED <<queue, afd, wfd>>
         /\ \A f \in Fds : fdtab[f] \in Clients \/ fdtab'[f] \in Clients => fdtab'[f] = fdtab[f]
         /\ \A c \in Clients : (\A f \in Fds : fdtab[f] # c) => got'[c] = got[c]
<1> USE DEF clientVars, readVars, sendVars, workerVars
<1>1. CASE Startup
  <2>1. FreeFds # {}
    <3>1. 1 \in Fds
      BY ServerAssumption DEF Fds
    <3> QED BY <1>1, <3>1 DEF Startup, WorkerInv, FreeFds
  <2>2. Lowest \in Fds /\ fdtab[Lowest] = Free
    BY <2>1, LowestIsFree
  <2>3. fdtab' = [fdtab EXCEPT ![Lowest] = Listen] /\ UNCHANGED <<got, queue, afd, wfd>>
    BY <1>1 DEF Startup
  <2> HIDE DEF Lowest
  <2> QED BY <2>2, <2>3, NotClient DEF TypeOK
<1>2. CASE StartupFails
  BY <1>2 DEF StartupFails
<1>3. CASE AcceptFails
  BY <1>3 DEF AcceptFails
<1>4. CASE Recv
  <2>1. PICK c \in Clients, n \in Nat :
           wfd \in Fds /\ fdtab[wfd] = c /\ got' = [got EXCEPT ![c] = got[c] + n]
    BY <1>4, RecvReads DEF Owner
  <2>2. UNCHANGED <<fdtab, queue, afd, wfd>>
    BY <1>4 DEF Recv
  <2> QED BY <2>1, <2>2 DEF TypeOK
<1>5. CASE RecvFails
  BY <1>5 DEF RecvFails
<1>6. CASE Respond
  <2>1. UNCHANGED fdtab \/ (FreeFds # {} /\ fdtab' = [fdtab EXCEPT ![Lowest] = Picture])
    BY <1>6 DEF Respond
  <2>4. UNCHANGED <<got, queue, afd, wfd>>
    BY <1>6 DEF Respond
  <2>2. CASE UNCHANGED fdtab
    BY <2>4, <2>2
  <2>3. CASE FreeFds # {} /\ fdtab' = [fdtab EXCEPT ![Lowest] = Picture]
    <3>1. Lowest \in Fds /\ fdtab[Lowest] = Free
      BY <2>3, LowestIsFree
    <3> HIDE DEF Lowest
    <3> QED BY <2>4, <2>3, <3>1, NotClient DEF TypeOK
  <2> QED BY <2>1, <2>2, <2>3
<1>7. CASE SendPart
  BY <1>7, SendDelivers DEF TypeOK
<1>8. CASE \E c \in Clients : Connect(c)
  BY <1>8 DEF Connect
<1>9. CASE \E c \in Clients : Send(c)
  BY <1>9 DEF Send
<1>10. CASE \E c \in Clients : HangUp(c)
  BY <1>10 DEF HangUp
<1>11. CASE \E c \in Clients : Break(c)
  BY <1>11 DEF Break
<1>12. CASE UNCHANGED vars
  BY <1>12 DEF vars
<1> QED
  BY <1>1, <1>2, <1>3, <1>4, <1>5, <1>6, <1>7, <1>8, <1>9, <1>10, <1>11, <1>12
  DEF Next, AcceptLoop, Worker, ClientStep

(* An accepted client has its descriptor at the end of the order.           *)
LEMMA InOrderAccept ==
  ASSUME TypeOK, ClientInv, QueueApart, OrderInv, InOrder, QueueNext, NEW c \in Clients, Accept(c)
  PROVE  InOrder'
<1>0. /\ order \in Seq(Clients) /\ DOMAIN order = 1 .. Len(order) /\ Len(order) \in Nat
      /\ queue \in Seq(Fds) /\ \A i \in DOMAIN queue : queue[i] \in Fds /\ fdtab[queue[i]] \in Clients
  BY DEF OrderInv, TypeOK, QueueApart, Owner
<1>1. /\ afd = NoFd /\ FreeFds # {} /\ afd' = Lowest
      /\ fdtab' = [fdtab EXCEPT ![Lowest] = c]
      /\ client[c] = "backlog" /\ queue' = queue
  BY DEF Accept
<1>2. Lowest \in Fds /\ fdtab[Lowest] = Free
  BY <1>1, LowestIsFree
<1>3. fdtab'[Lowest] = c /\ Lowest # NoFd
  BY <1>1, <1>2, NoFdIsNone DEF TypeOK
<1>4. order' = Append(order, c)
  BY <1>1, <1>3 DEF QueueNext
<1>5. /\ Len(order') = Len(order) + 1 /\ order'[Len(order) + 1] = c
      /\ \A k \in 1 .. Len(order) : order'[k] = order[k]
      /\ DOMAIN order' = 1 .. Len(order) + 1 /\ order' # <<>>
  BY <1>0, <1>4, Appended
<1>6. \A i \in DOMAIN queue : fdtab'[queue[i]] = fdtab[queue[i]] /\ fdtab[queue[i]] # c
  <2> SUFFICES ASSUME NEW i \in DOMAIN queue
               PROVE  fdtab'[queue[i]] = fdtab[queue[i]] /\ fdtab[queue[i]] # c
    OBVIOUS
  <2>1. queue[i] # Lowest
    BY <1>0, <1>2, NotClient
  <2>2. fdtab[queue[i]] # c
    BY <1>0, <1>1 DEF ClientInv, Owners, Owner
  <2> QED BY <1>0, <1>1, <2>1, <2>2 DEF TypeOK
<1> HIDE DEF Lowest
<1>7. \A i, j \in DOMAIN queue : \A k, l \in DOMAIN order' :
          i < j /\ order'[k] = fdtab'[queue[i]] /\ order'[l] = fdtab'[queue[j]] => k < l
  <2> SUFFICES ASSUME NEW i \in DOMAIN queue, NEW j \in DOMAIN queue,
                      NEW k \in DOMAIN order', NEW l \in DOMAIN order',
                      i < j, order'[k] = fdtab'[queue[i]], order'[l] = fdtab'[queue[j]]
               PROVE  k < l
    OBVIOUS
  <2>1. k \in DOMAIN order /\ l \in DOMAIN order
    BY <1>0, <1>5, <1>6
  <2> QED BY <1>0, <1>5, <1>6, <2>1 DEF InOrder, Owner
<1>8. order'[Len(order')] = fdtab'[afd']
  BY <1>1, <1>3, <1>5
<1> QED BY <1>1, <1>5, <1>7, <1>8 DEF InOrder, Owner

(* Whoever was accepted last waits behind all others.                        *)
LEMMA InOrderEnqueue ==
  ASSUME TypeOK, ClientInv, QueueApart, OrderInv, InOrder, QueueNext, Enqueue
  PROVE  InOrder'
<1>0. /\ order \in Seq(Clients) /\ DOMAIN order = 1 .. Len(order) /\ Len(order) \in Nat
      /\ queue \in Seq(Fds) /\ DOMAIN queue = 1 .. Len(queue) /\ Len(queue) \in Nat
      /\ \A i \in DOMAIN queue : queue[i] \in Fds /\ fdtab[queue[i]] \in Clients /\ queue[i] # afd
  BY DEF OrderInv, TypeOK, QueueApart, Owner
<1>1. afd \in Fds /\ afd # NoFd /\ afd' = NoFd /\ fdtab[afd] \in Clients
  BY DEF Enqueue, TypeOK, QueueApart, Owner
<1>2. order' = order
  BY <1>1 DEF QueueNext
<1>3. CASE queue' = Append(queue, afd) /\ UNCHANGED fdtab
  <2>1. /\ DOMAIN queue' = 1 .. Len(queue) + 1 /\ queue'[Len(queue) + 1] = afd
        /\ \A i \in 1 .. Len(queue) : queue'[i] = queue[i]
    BY <1>0, <1>1, <1>3, Appended
  <2> SUFFICES ASSUME NEW i \in DOMAIN queue', NEW j \in DOMAIN queue',
                      NEW k \in DOMAIN order, NEW l \in DOMAIN order,
                      i < j, order[k] = fdtab[queue'[i]], order[l] = fdtab[queue'[j]]
               PROVE  k < l
    BY <1>1, <1>2, <1>3 DEF InOrder, Owner
  <2>2. i \in DOMAIN queue /\ queue'[i] = queue[i]
    BY <1>0, <2>1
  <2>3. CASE j \in DOMAIN queue
    BY <1>0, <2>1, <2>2, <2>3 DEF InOrder, Owner
  <2>4. CASE j = Len(queue) + 1
    <3>1. order[l] = fdtab[afd] /\ order[Len(order)] = fdtab[afd] /\ Len(order) \in DOMAIN order
      BY <1>0, <1>1, <2>1, <2>4 DEF InOrder, Owner
    <3>2. l = Len(order)
      BY <3>1 DEF OrderInv
    <3>3. fdtab[queue[i]] # fdtab[afd]
      BY <1>0, <1>1, <2>2 DEF ClientInv, Owner
    <3>4. k # l
      BY <2>2, <3>1, <3>3
    <3> QED BY <1>0, <3>2, <3>4
  <2> QED BY <1>0, <2>1, <2>3, <2>4
<1>4. CASE fdtab' = [fdtab EXCEPT ![afd] = Free] /\ UNCHANGED queue
  <2>1. \A i \in DOMAIN queue : fdtab'[queue[i]] = fdtab[queue[i]]
    BY <1>0, <1>4 DEF TypeOK
  <2> QED BY <1>1, <1>2, <1>4, <2>1 DEF InOrder, Owner
<1>5. \/ queue' = Append(queue, afd) /\ UNCHANGED fdtab
      \/ fdtab' = [fdtab EXCEPT ![afd] = Free] /\ UNCHANGED queue
  BY DEF Enqueue, Close
<1> QED BY <1>3, <1>4, <1>5

(* Nothing else reorders those who wait.                                     *)
LEMMA InOrderElse ==
  ASSUME TypeOK, WorkerInv, QueueApart, OrderInv, InOrder, [QueueNext]_<<vars, order>>,
         ~CloseFailed, ~Enqueue, \A c \in Clients : ~Accept(c)
  PROVE  InOrder'
<1>0. /\ queue \in Seq(Fds) /\ DOMAIN queue = 1 .. Len(queue) /\ Len(queue) \in Nat
      /\ \A i \in DOMAIN queue : queue[i] \in Fds /\ fdtab[queue[i]] \in Clients /\ queue[i] # wfd
      /\ afd # NoFd => afd \in Fds /\ fdtab[afd] \in Clients /\ afd # wfd
  BY DEF TypeOK, QueueApart, Owner
<1>1. [Next]_vars
  BY DEF QueueNext
<1>2. order' = order
  BY <1>1, NotAccepting DEF QueueNext
<1>3. CASE Take
  <2>1. /\ queue # <<>> /\ queue' = Tail(queue) /\ UNCHANGED <<fdtab, afd>>
    BY <1>3 DEF Take
  <2>2. /\ DOMAIN queue' = 1 .. Len(queue) - 1
        /\ \A i \in DOMAIN queue' : i + 1 \in DOMAIN queue /\ queue'[i] = queue[i + 1]
    BY <1>0, <2>1
  <2> QED BY <1>0, <1>2, <2>1, <2>2 DEF InOrder, Owner
<1>4. CASE Finish
  <2>1. fdtab' = [fdtab EXCEPT ![wfd] = Free] /\ UNCHANGED <<queue, afd>>
    BY <1>4 DEF Finish, Close
  <2>2. /\ \A i \in DOMAIN queue : fdtab'[queue[i]] = fdtab[queue[i]]
        /\ afd # NoFd => fdtab'[afd] = fdtab[afd]
    BY <1>0, <2>1 DEF TypeOK
  <2> QED BY <1>2, <2>1, <2>2 DEF InOrder, Owner
<1>5. CASE ~Take /\ ~Finish
  <2>1. /\ UNCHANGED <<queue, afd, wfd>>
        /\ \A f \in Fds : fdtab[f] \in Clients \/ fdtab'[f] \in Clients => fdtab'[f] = fdtab[f]
    BY <1>1, <1>5, QuietStep
  <2>2. /\ \A i \in DOMAIN queue : fdtab'[queue[i]] = fdtab[queue[i]]
        /\ afd # NoFd => fdtab'[afd] = fdtab[afd]
    BY <1>0, <2>1
  <2> QED BY <1>2, <2>1, <2>2 DEF InOrder, Owner
<1> QED BY <1>3, <1>4, <1>5

(* The strengthened invariant holds in every reachable state.                *)
THEOREM QueueInvariance == QueueSpec => []QueueInv
<1>1. QueueInit => QueueInv
  <2> SUFFICES ASSUME QueueInit PROVE QueueInv
    OBVIOUS
  <2>1. IInv /\ EverySocketDue
    BY InitInv DEF QueueInit
  <2>2. OrderInv
    BY DEF QueueInit, Init, OrderInv, Range
  <2>3. InOrder
    BY DEF QueueInit, Init, InOrder
  <2> QED BY <2>1, <2>2, <2>3 DEF QueueInv
<1>2. QueueInv /\ [QueueNext]_<<vars, order>> => QueueInv'
  <2> SUFFICES ASSUME QueueInv, [QueueNext]_<<vars, order>> PROVE QueueInv'
    OBVIOUS
  <2>1. [Next]_vars
    BY DEF QueueNext
  <2>2. TypeOK /\ WorkerInv /\ ClientInv /\ WholeInv /\ OrderInv
    BY DEF QueueInv, IInv
  <2>3. IInv' /\ EverySocketDue'
    BY <2>1, <2>2, StepInv, DueStep DEF QueueInv
  <2>4. OrderInv'
    BY <2>2, OrderStep
  <2>5. ASSUME failed' = {} PROVE InOrder'
    <3>1. failed = {} /\ ~CloseFailed
      BY <2>1, <2>2, <2>5, StillNone
    <3>2. QueueApart /\ InOrder
      BY <2>2, <3>1 DEF WholeInv, QueueInv
    <3>3. CASE \E c \in Clients : Accept(c)
      <4>1. client' # client
        BY <3>3, <2>2 DEF Accept, TypeOK
      <4>2. QueueNext
        BY <4>1 DEF vars, clientVars
      <4> QED BY <2>2, <3>2, <3>3, <4>2, InOrderAccept
    <3>4. CASE Enqueue
      <4>1. QueueNext
        BY <3>4 DEF Enqueue, vars
      <4> QED BY <2>2, <3>2, <3>4, <4>1, InOrderEnqueue
    <3> QED BY <2>2, <3>1, <3>2, <3>3, <3>4, InOrderElse
  <2> QED BY <2>3, <2>4, <2>5 DEF QueueInv
<1> QED BY <1>1, <1>2, PTL DEF QueueSpec

-----------------------------------------------------------------------------
(* The steps up to the first early close start where the queue is a queue.    *)
Sound == QueueInv /\ QueueApart /\ OwnRequest /\ InOrder

LEMMA SoundWhileNoneFailed ==
  ASSUME QueueInv, failed = {}
  PROVE  Sound
BY DEF Sound, QueueInv, IInv, WholeInv

(* No more connections are accepted than there are clients.                  *)
LEMMA OrderFits ==
  ASSUME OrderInv
  PROVE  /\ Len(order) \in Nat /\ Cardinality(Clients) \in Nat
         /\ Len(order) <= Cardinality(Clients)
         /\ DOMAIN order = 1 .. Len(order)
         /\ \A k \in 1 .. Len(order) : order[k] \in Clients
<1>1. /\ order \in Seq(Clients) /\ Len(order) \in Nat /\ DOMAIN order = 1 .. Len(order)
      /\ order \in [1 .. Len(order) -> Clients]
  BY DEF OrderInv
<1>2. order \in Injection(1 .. Len(order), Clients)
  BY <1>1 DEF OrderInv, Injection, IsInjective
<1>3. Cardinality(1 .. Len(order)) <= Cardinality(Clients)
  BY <1>2, FiniteClients, FS_Injection
<1>4. Cardinality(1 .. Len(order)) = Len(order)
  BY <1>1, FS_Interval
<1>5. Cardinality(Clients) \in Nat
  BY FiniteClients, FS_CardinalityType
<1> QED BY <1>1, <1>3, <1>4, <1>5

(* Whoever still has a descriptor, and neither thread holds it, waits in the   *)
(* queue of HttpServer.                                                     *)
LEMMA QueuedIsWaiting ==
  ASSUME Sound, NEW k \in Nat \ {0}
  PROVE  StatusOf(k) = "queued" <=>
            k <= Len(order) /\ \E i \in 1 .. Len(queue) : fdtab[queue[i]] = order[k]
<1> USE DEF Sound, QueueInv, IInv
<1>1. /\ queue \in Seq(Fds) /\ Len(queue) \in Nat /\ Len(order) \in Nat
      /\ \A i \in 1 .. Len(queue) : queue[i] \in Fds /\ fdtab[queue[i]] \in Clients
                                    /\ queue[i] # afd /\ queue[i] # wfd
      /\ afd # NoFd => afd \in Fds /\ fdtab[afd] \in Clients
      /\ wfd # NoFd => wfd \in Fds /\ fdtab[wfd] \in Clients
  BY OrderFits DEF TypeOK, QueueApart, OwnRequest, Owner
<1>2. ASSUME k <= Len(order), NEW i \in 1 .. Len(queue), fdtab[queue[i]] = order[k]
      PROVE  StatusOf(k) = "queued"
  <2>1. order[k] \in Owners
    BY <1>1, <1>2 DEF Owners, Owner
  <2>2. ~(afd # NoFd /\ fdtab[afd] = order[k]) /\ ~(wfd # NoFd /\ fdtab[wfd] = order[k])
    BY <1>1, <1>2 DEF ClientInv, Owner
  <2> QED BY <1>1, <1>2, <2>1, <2>2 DEF StatusOf, Owner
<1>3. ASSUME StatusOf(k) = "queued"
      PROVE  k <= Len(order) /\ \E i \in 1 .. Len(queue) : fdtab[queue[i]] = order[k]
  <2>1. /\ k <= Len(order) /\ order[k] \in Owners
        /\ ~(afd # NoFd /\ fdtab[afd] = order[k]) /\ ~(wfd # NoFd /\ fdtab[wfd] = order[k])
    BY <1>1, <1>3 DEF StatusOf, Owner
  <2>2. PICK f \in Fds : fdtab[f] = order[k]
    BY <2>1 DEF Owners, Owner
  <2>4. order[k] \in Clients /\ f # afd /\ f # wfd
    BY <1>1, <2>1, <2>2, OrderFits, NoFdIsNone
  <2> QED BY <2>1, <2>2, <2>4 DEF EverySocketDue, Owner
<1> QED BY <1>2, <1>3

(* HandOff counts as this module does.                                      *)
LEMMA SameCardinality == \A S : Queue!Cardinality(S) = Cardinality(S)
  BY DEF Queue!Cardinality, Cardinality

(* The connections that wait are as many as the entries of the queue.        *)
LEMMA QueueLength ==
  ASSUME Sound
  PROVE  Cardinality(Queue!Are("queued")) = Len(queue)
<1> DEFINE N == Cardinality(Clients)
           Waiting == {k \in 1 .. N : StatusOf(k) = "queued"}
           Index == 1 .. Len(queue)
           f == [k \in Waiting |-> CHOOSE i \in Index : fdtab[queue[i]] = order[k]]
<1>0. IsFiniteSet(Index) /\ Cardinality(Index) = Len(queue)
  <2>1. Len(queue) \in Nat
    BY DEF Sound, QueueInv, IInv, TypeOK
  <2>2. 1 \in Int /\ Len(queue) \in Int
    BY <2>1
  <2>3. /\ IsFiniteSet(1 .. Len(queue))
        /\ Cardinality(1 .. Len(queue)) = IF 1 > Len(queue) THEN 0 ELSE Len(queue) - 1 + 1
    BY <2>2, FS_Interval
  <2> QED BY <2>1, <2>3
<1> USE DEF Sound, QueueInv, IInv
<1>1. Queue!Are("queued") = Waiting
  BY DEF Queue!Are, Queue!Connections
<1>2. /\ Len(queue) \in Nat /\ Len(order) \in Nat /\ N \in Nat /\ Len(order) <= N
      /\ \A i \in Index : queue[i] \in Fds /\ fdtab[queue[i]] \in Clients
                          /\ queue[i] # afd /\ queue[i] # wfd
  BY OrderFits DEF TypeOK, QueueApart, Owner
<1>3. \A k \in Waiting : k \in 1 .. Len(order) /\ f[k] \in Index /\ fdtab[queue[f[k]]] = order[k]
  <2> SUFFICES ASSUME NEW k \in Waiting
               PROVE  k \in 1 .. Len(order) /\ f[k] \in Index /\ fdtab[queue[f[k]]] = order[k]
    OBVIOUS
  <2>1. k \in Nat \ {0} /\ StatusOf(k) = "queued"
    BY <1>2
  <2>2. k <= Len(order) /\ \E i \in Index : fdtab[queue[i]] = order[k]
    BY <2>1, QueuedIsWaiting
  <2> QED BY <1>2, <2>1, <2>2
<1>4. \A k, l \in Waiting : f[k] = f[l] => k = l
  <2> SUFFICES ASSUME NEW k \in Waiting, NEW l \in Waiting, f[k] = f[l] PROVE k = l
    OBVIOUS
  <2>1. order[k] = order[l] /\ k \in DOMAIN order /\ l \in DOMAIN order
    BY <1>3, OrderFits
  <2> QED BY <2>1 DEF OrderInv
<1>5. \A i \in Index : \E k \in Waiting : f[k] = i
  <2> SUFFICES ASSUME NEW i \in Index PROVE \E k \in Waiting : f[k] = i
    OBVIOUS
  <2>1. PICK c \in Clients : c = fdtab[queue[i]]
    BY <1>2
  <2>2. c \in Range(order)
    <3>1. client[c] \notin {"idle", "backlog"}
      BY <1>2, <2>1 DEF ClientInv, Owners, Owner
    <3> QED BY <3>1 DEF OrderInv
  <2>3. PICK k \in 1 .. Len(order) : order[k] = c
    BY <2>2, OrderFits DEF Range
  <2>4. k \in Waiting
    <3>1. k \in Nat \ {0} /\ k <= Len(order) /\ k \in 1 .. N
      BY <1>2
    <3> QED BY <2>1, <2>3, <3>1, QueuedIsWaiting
  <2>5. f[k] \in Index /\ fdtab[queue[f[k]]] = fdtab[queue[i]]
    BY <1>3, <2>1, <2>3, <2>4
  <2>6. queue[f[k]] = queue[i]
    BY <1>2, <2>5 DEF ClientInv, Owner
  <2>7. f[k] = i
    BY <2>5, <2>6 DEF QueueApart
  <2> QED BY <2>4, <2>7
<1>6. f \in Bijection(Waiting, Index)
  <2> HIDE DEF Index, Waiting
  <2>1. f \in [Waiting -> Index]
    BY <1>3
  <2> QED BY <2>1, <1>4, <1>5 DEF Bijection, Injection, Surjection, IsInjective
<1>7. IsFiniteSet(Waiting) /\ Cardinality(Waiting) = Cardinality(Index)
  <2>1. IsFiniteSet(Index)
    BY <1>0
  <2>2. f \in Injection(Waiting, Index) /\ f \in Surjection(Waiting, Index)
    BY <1>6 DEF Bijection
  <2> QED BY <2>1, <2>2, FS_Injection
<1> QED BY <1>0, <1>1, <1>7

(* One connection moves on.                                                 *)
LEMMA StatusMoved ==
  ASSUME NEW k \in 1 .. Cardinality(Clients), NEW s, StatusOf(k)' = s,
         \A l \in 1 .. Cardinality(Clients) : l # k => StatusOf(l)' = StatusOf(l)
  PROVE  Queue!Move(k, s)
BY DEF Queue!Move

(* A connection whose descriptor stays with it, and in the same place, keeps   *)
(* its status.                                                              *)
LEMMA StatusSame ==
  ASSUME Sound, QueueInv', NEW k \in 1 .. Cardinality(Clients),
         k <= Len(order) <=> k <= Len(order'),
         k <= Len(order) => order'[k] = order[k],
         \A f \in Fds : fdtab[f] = order[k] <=> fdtab'[f] = order[k],
         order[k] \notin Owners => got'[order[k]] = got[order[k]],
         afd # NoFd /\ fdtab[afd] = order[k] <=> afd' # NoFd /\ fdtab'[afd'] = order[k],
         wfd # NoFd /\ fdtab[wfd] = order[k] <=> wfd' # NoFd /\ fdtab'[wfd'] = order[k]
  PROVE  StatusOf(k)' = StatusOf(k)
<1>1. Len(order) \in Nat /\ Len(order') \in Nat
  BY DEF Sound, QueueInv, OrderInv
<1>2. CASE k > Len(order)
  BY <1>1, <1>2 DEF StatusOf
<1>3. CASE k <= Len(order)
  <2>1. order[k] \in Owners <=> order'[k] \in Owners'
    BY <1>3 DEF Owners, Owner
  <2> QED BY <1>1, <1>3, <2>1 DEF StatusOf, Owner
<1> QED BY <1>1, <1>2, <1>3

(* There is room for one more when one more was accepted.                    *)
Fits == Len(order) <= Cardinality(Clients)

LEMMA OrderStillFits == OrderInv' => Fits'
<1>1. OrderInv => Fits
  BY OrderFits DEF Fits
<1> QED BY <1>1, PTL

(* accept() returns the next connection of the backlog.                      *)
LEMMA AcceptRefines ==
  ASSUME Sound, QueueInv', QueueNext, NEW c \in Clients, Accept(c)
  PROVE  Queue!Next
<1> DEFINE N == Cardinality(Clients)
<1> PICK k : k = Len(order) + 1
  OBVIOUS
<1>0. /\ order \in Seq(Clients) /\ Len(order) \in Nat /\ N \in Nat /\ DOMAIN order = 1 .. Len(order)
      /\ \A l \in 1 .. Len(order) : order[l] \in Clients
      /\ TypeOK /\ ClientInv /\ OrderInv
  BY OrderFits DEF Sound, QueueInv, IInv, OrderInv
<1>1. /\ afd = NoFd /\ FreeFds # {} /\ afd' = Lowest
      /\ fdtab' = [fdtab EXCEPT ![Lowest] = c]
      /\ client[c] = "backlog" /\ UNCHANGED <<got, wfd>>
  BY DEF Accept, workerVars
<1>2. Lowest \in Fds /\ fdtab[Lowest] = Free
  BY <1>1, LowestIsFree
<1>3. fdtab'[Lowest] = c /\ Lowest # NoFd
  BY <1>0, <1>1, <1>2, NoFdIsNone DEF TypeOK
<1>4. order' = Append(order, c)
  BY <1>1, <1>3 DEF QueueNext
<1>5. /\ Len(order') = Len(order) + 1 /\ order'[Len(order) + 1] = c
      /\ \A l \in 1 .. Len(order) : order'[l] = order[l]
  BY <1>0, <1>4, Appended
<1>6. k \in 1 .. N
  <2>1. Len(order') <= N
    BY OrderStillFits DEF QueueInv, Fits
  <2> QED BY <1>0, <1>5, <2>1
<1>7. \A f \in Fds : fdtab[f] # c
  BY <1>0, <1>1 DEF ClientInv, Owners, Owner
<1>8. \A l \in 1 .. Len(order) : order[l] # c
  BY <1>0, <1>1 DEF OrderInv, Range
<1> HIDE DEF Lowest
<1>9. ASSUME NEW l \in 1 .. N, l # k PROVE StatusOf(l)' = StatusOf(l)
  <2>1. CASE l > Len(order)
    BY <1>0, <1>5, <1>9, <2>1 DEF StatusOf
  <2>2. CASE l <= Len(order)
    <3>1. order[l] \in Clients /\ order[l] # c /\ order'[l] = order[l]
      BY <1>0, <1>5, <1>8, <2>2
    <3>2. \A f \in Fds : fdtab[f] = order[l] <=> fdtab'[f] = order[l]
      BY <1>0, <1>1, <1>2, <3>1, NotClient DEF TypeOK
    <3>3. wfd # NoFd /\ fdtab[wfd] = order[l] <=> wfd' # NoFd /\ fdtab'[wfd'] = order[l]
      BY <1>0, <1>1, <3>2, NoFdIsNone DEF TypeOK
    <3> QED BY <1>0, <1>1, <1>3, <1>5, <2>2, <3>1, <3>2, <3>3, StatusSame
  <2> QED BY <1>0, <2>1, <2>2
<1>10. StatusOf(k)' = "accepted"
  <2>1. c \in Owners'
    BY <1>2, <1>3 DEF Owners, Owner
  <2> QED BY <1>0, <1>1, <1>3, <1>5, <2>1 DEF StatusOf, Owner
<1>11. Queue!Move(k, "accepted")
  BY <1>6, <1>9, <1>10, StatusMoved
<1>12. \A l \in 1 .. N : StatusOf(l) = "backlog" <=> l > Len(order)
  BY <1>0 DEF StatusOf
<1>13. Queue!Arrive(k)
  <2>1. Queue!Are("accepted") = {}
    BY <1>1 DEF Queue!Are, Queue!Connections, StatusOf
  <2>2. StatusOf(k) = "backlog"
    BY <1>0, <1>6, <1>12
  <2>3. ASSUME NEW b \in 1 .. k - 1 PROVE b \in 1 .. N /\ StatusOf(b) # "backlog"
    BY <1>0, <1>6, <1>12
  <2> HIDE DEF N
  <2> QED BY <1>6, <1>11, <2>1, <2>2, <2>3 DEF Queue!Arrive, N
<1> QED BY <1>6, <1>13 DEF Queue!Next, Queue!Connections

(* try_accept_request queues the connection that came last, or closes it.     *)
LEMMA EnqueueRefines ==
  ASSUME Sound, QueueInv', QueueNext, Enqueue
  PROVE  Queue!Next
<1> DEFINE N == Cardinality(Clients)
<1> PICK k : k = Len(order)
  OBVIOUS
<1> PICK f : f = afd
  OBVIOUS
<1>0. /\ Len(order) \in Nat /\ N \in Nat /\ Len(order) <= N
      /\ \A l \in 1 .. Len(order) : order[l] \in Clients
      /\ DOMAIN order = 1 .. Len(order)
      /\ TypeOK /\ ClientInv /\ OrderInv /\ ReadInv
      /\ queue \in Seq(Fds) /\ Len(queue) \in Nat
      /\ Capacity \in Nat
  BY OrderFits, ServerAssumption DEF Sound, QueueInv, IInv, TypeOK
<1>1. /\ f \in Fds /\ f # NoFd /\ afd' = NoFd /\ fdtab[f] \in Clients /\ f # wfd
      /\ UNCHANGED <<got, wfd>>
  BY DEF Enqueue, TypeOK, Sound, QueueInv, IInv, QueueApart, Owner, clientVars, workerVars
<1>2. order' = order
  BY <1>1 DEF QueueNext
<1>3. k \in 1 .. Len(order) /\ order[k] = fdtab[f] /\ k \in 1 .. N
  <2>1. order # <<>> /\ order[Len(order)] = fdtab[f]
    BY <1>1 DEF Sound, InOrder, Owner
  <2>2. k \in 1 .. Len(order)
    BY <1>0, <2>1 DEF OrderInv
  <2> QED BY <1>0, <2>1, <2>2
<1>4. wfd # NoFd => wfd \in Fds /\ fdtab[wfd] # fdtab[f]
  BY <1>0, <1>1 DEF TypeOK, ClientInv, Owner
<1>5. StatusOf(k) = "accepted"
  <2>1. order[k] \in Owners
    BY <1>1, <1>3 DEF Owners, Owner
  <2> QED BY <1>0, <1>1, <1>3, <2>1 DEF StatusOf, Owner
<1>6. /\ got[order[k]] = 0
      /\ \A g \in Fds : fdtab[g] = order[k] => g = f
  <2>1. ~(got[order[k]] > 0)
    BY <1>1, <1>3 DEF Sound, QueueInv, IInv, ReadInv, Owner
  <2>2. got[order[k]] \in Nat
    BY <1>0, <1>1, <1>3 DEF TypeOK
  <2> QED BY <1>0, <1>1, <1>3, <2>1, <2>2 DEF ClientInv, Owner
<1>7. ASSUME NEW l \in 1 .. N, l # k, \A g \in Fds : fdtab'[g] = fdtab[g] \/ (g = f /\ fdtab'[g] = Free)
      PROVE  StatusOf(l)' = StatusOf(l)
  <2>1. CASE l > Len(order)
    BY <1>0, <1>2, <2>1 DEF StatusOf
  <2>2. CASE l <= Len(order)
    <3>1. order[l] \in Clients /\ order[l] # fdtab[f]
      BY <1>0, <1>3, <1>7, <2>2 DEF OrderInv
    <3>2. \A g \in Fds : fdtab[g] = order[l] <=> fdtab'[g] = order[l]
      BY <1>7, <3>1, NotClient
    <3>3. wfd # NoFd /\ fdtab[wfd] = order[l] <=> wfd' # NoFd /\ fdtab'[wfd'] = order[l]
      BY <1>1, <1>4, <3>2
    <3> QED BY <1>1, <1>2, <2>2, <3>1, <3>2, <3>3, StatusSame
  <2> QED BY <1>0, <2>1, <2>2
<1>8. CASE Len(queue) < Capacity
  <2>1. queue' = Append(queue, f) /\ UNCHANGED fdtab
    BY <1>8 DEF Enqueue
  <2>2. StatusOf(k)' = "queued"
    <3>1. order[k] \in Owners'
      BY <1>1, <1>3, <2>1 DEF Owners, Owner
    <3>2. ~(wfd' # NoFd /\ fdtab'[wfd'] = order[k])
      BY <1>1, <1>3, <1>4, <2>1
    <3> QED BY <1>0, <1>1, <1>2, <1>3, <3>1, <3>2 DEF StatusOf, Owner
  <2>3. Queue!Move(k, "queued")
    <3>1. \A g \in Fds : fdtab'[g] = fdtab[g] \/ (g = f /\ fdtab'[g] = Free)
      BY <2>1
    <3> QED BY <1>3, <1>7, <2>2, <3>1, StatusMoved
  <2>4. Queue!Cardinality(Queue!Are("queued")) < Capacity
    BY <1>8, QueueLength, SameCardinality
  <2>5. Queue!Enqueue(k)
    BY <1>3, <1>5, <2>3, <2>4 DEF Queue!Enqueue
  <2> QED BY <1>3, <2>5 DEF Queue!Next, Queue!Connections
<1>9. CASE ~(Len(queue) < Capacity)
  <2>1. fdtab' = [fdtab EXCEPT ![f] = Free] /\ UNCHANGED queue
    BY <1>9 DEF Enqueue, Close
  <2>2. \A g \in Fds : fdtab'[g] = fdtab[g] \/ (g = f /\ fdtab'[g] = Free)
    <3>1. fdtab \in [Fds -> Clients \union {Free, Listen, Picture}]
      BY <1>0 DEF TypeOK
    <3> QED BY <2>1, <3>1
  <2>3. StatusOf(k)' = "refused"
    <3>1. order[k] \notin Owners'
      BY <1>0, <1>1, <1>3, <1>6, <2>1, NotClient DEF Owners, Owner, TypeOK
    <3> QED BY <1>0, <1>1, <1>2, <1>3, <1>6, <3>1 DEF StatusOf
  <2>4. Queue!Move(k, "refused")
    BY <1>3, <1>7, <2>2, <2>3, StatusMoved
  <2>5. Queue!Cardinality(Queue!Are("queued")) = Capacity
    <3>1. Len(queue) = Capacity
      BY <1>0, <1>9 DEF TypeOK
    <3> QED BY <3>1, QueueLength, SameCardinality
  <2>6. Queue!Refuse(k)
    BY <1>3, <1>5, <2>4, <2>5 DEF Queue!Refuse
  <2> QED BY <1>3, <2>6 DEF Queue!Next, Queue!Connections
<1> QED BY <1>8, <1>9

(* The worker takes the connection that has waited longest.                  *)
LEMMA TakeRefines ==
  ASSUME Sound, QueueInv', QueueNext, Take
  PROVE  Queue!Next
<1> DEFINE N == Cardinality(Clients)
<1> PICK f : f = queue[1]
  OBVIOUS
<1>0. /\ Len(order) \in Nat /\ N \in Nat /\ Len(order) <= N
      /\ \A l \in 1 .. Len(order) : order[l] \in Clients
      /\ DOMAIN order = 1 .. Len(order)
      /\ TypeOK /\ ClientInv /\ OrderInv
      /\ queue \in Seq(Fds) /\ Len(queue) \in Nat /\ DOMAIN queue = 1 .. Len(queue)
  BY OrderFits DEF Sound, QueueInv, IInv, TypeOK
<1>1. /\ wfd = NoFd /\ 1 \in 1 .. Len(queue) /\ wfd' = f
      /\ UNCHANGED <<got, fdtab, afd>>
  <2>1. /\ wpc = "idle" /\ queue # <<>> /\ wfd' = Head(queue)
        /\ UNCHANGED <<got, fdtab, afd>>
    BY DEF Take, WorkerAt, clientVars
  <2> QED BY <1>0, <2>1 DEF Sound, QueueInv, IInv, WorkerInv
<1>2. order' = order
  BY <1>1 DEF QueueNext
<1>3. f \in Fds /\ f # NoFd /\ fdtab[f] \in Clients /\ f # afd
  BY <1>0, <1>1, NoFdIsNone DEF Sound, QueueApart, Owner
<1>4. PICK k \in 1 .. Len(order) : order[k] = fdtab[f]
  <2>1. client[fdtab[f]] \notin {"idle", "backlog"}
    BY <1>0, <1>3 DEF ClientInv, Owners, Owner
  <2> QED BY <1>0, <1>3, <2>1 DEF OrderInv, Range
<1>5. k \in 1 .. N /\ k \in Nat \ {0} /\ k <= Len(order)
  BY <1>0
<1>6. StatusOf(k) = "queued"
  BY <1>1, <1>4, <1>5, QueuedIsWaiting
<1>7. StatusOf(k)' = "serving"
  <2>1. order[k] \in Owners'
    BY <1>1, <1>3, <1>4 DEF Owners, Owner
  <2>2. ~(afd # NoFd /\ fdtab[afd] = order[k])
    BY <1>0, <1>3, <1>4 DEF ClientInv, TypeOK, Owner
  <2> QED BY <1>0, <1>1, <1>2, <1>3, <1>4, <1>5, <2>1, <2>2 DEF StatusOf, Owner
<1>8. ASSUME NEW l \in 1 .. N, l # k PROVE StatusOf(l)' = StatusOf(l)
  <2>1. CASE l > Len(order)
    BY <1>0, <1>2, <2>1 DEF StatusOf
  <2>2. CASE l <= Len(order)
    <3>1. order[l] # fdtab[f]
      BY <1>0, <1>4, <1>8, <2>2 DEF OrderInv
    <3> QED BY <1>1, <1>2, <2>2, <3>1, StatusSame
  <2> QED BY <1>0, <2>1, <2>2
<1>9. Queue!Move(k, "serving")
  BY <1>5, <1>7, <1>8, StatusMoved
<1>10. Queue!Are("serving") = {}
  BY <1>1 DEF Queue!Are, Queue!Connections, StatusOf
<1>11. ASSUME NEW d \in 1 .. N, StatusOf(d) = "queued" PROVE k <= d
  <2>1. d \in Nat \ {0}
    BY <1>0
  <2>2. d <= Len(order) /\ \E i \in 1 .. Len(queue) : fdtab[queue[i]] = order[d]
    BY <1>11, <2>1, QueuedIsWaiting
  <2> PICK i \in 1 .. Len(queue) : fdtab[queue[i]] = order[d]
    BY <2>2
  <2>3. d \in 1 .. Len(order)
    BY <2>1, <2>2
  <2>4. CASE i = 1
    BY <1>0, <1>4, <2>3, <2>4 DEF OrderInv
  <2>5. CASE i # 1
    <3>1. 1 < i
      BY <2>5
    <3>2. k < d
      BY <1>0, <1>1, <1>4, <2>3, <3>1 DEF Sound, InOrder, Owner
    <3> QED BY <1>0, <2>3, <3>2
  <2> QED BY <2>4, <2>5
<1>12. Queue!Serve(k)
  <2>1. \A d \in Queue!Are("queued") : k <= d
    BY <1>11 DEF Queue!Are, Queue!Connections
  <2> QED BY <1>5, <1>6, <1>9, <1>10, <2>1 DEF Queue!Serve
<1> QED BY <1>5, <1>12 DEF Queue!Next, Queue!Connections

(* The worker closes the connection whose request it has answered.           *)
LEMMA FinishRefines ==
  ASSUME Sound, QueueInv', QueueNext, Finish
  PROVE  Queue!Next
<1> DEFINE N == Cardinality(Clients)
<1> PICK f : f = wfd
  OBVIOUS
<1>0. /\ Len(order) \in Nat /\ N \in Nat /\ Len(order) <= N
      /\ \A l \in 1 .. Len(order) : order[l] \in Clients
      /\ DOMAIN order = 1 .. Len(order)
      /\ TypeOK /\ ClientInv /\ OrderInv
  BY OrderFits DEF Sound, QueueInv, IInv
<1>1. /\ wpc = "send" /\ fdtab' = [fdtab EXCEPT ![f] = Free] /\ wfd' = NoFd
      /\ UNCHANGED <<got, afd>>
  BY DEF Finish, WorkerAt, Close, clientVars
<1>2. order' = order
  BY <1>1 DEF QueueNext
<1>3. f \in Fds /\ f # NoFd /\ fdtab[f] \in Clients /\ from # {} /\ from \subseteq {fdtab[f]}
  BY <1>0, <1>1 DEF Sound, QueueInv, IInv, WorkerInv, TypeOK, OwnRequest, Owner
<1>4. got[fdtab[f]] > 0
  <2>1. fdtab[f] \in from
    BY <1>3
  <2> QED BY <1>0, <2>1, <1>3 DEF OrderInv
<1>5. PICK k \in 1 .. Len(order) : order[k] = fdtab[f]
  <2>1. client[fdtab[f]] \notin {"idle", "backlog"}
    BY <1>0, <1>3 DEF ClientInv, Owners, Owner
  <2> QED BY <1>0, <1>3, <2>1 DEF OrderInv, Range
<1>6. k \in 1 .. N /\ k <= Len(order)
  BY <1>0
<1>7. afd # NoFd => afd \in Fds /\ fdtab[afd] # fdtab[f] /\ fdtab'[afd] = fdtab[afd]
  BY <1>0, <1>1, <1>3 DEF Sound, QueueApart, TypeOK, ClientInv, Owner
<1>8. StatusOf(k) = "serving"
  <2>1. order[k] \in Owners
    BY <1>3, <1>5 DEF Owners, Owner
  <2> QED BY <1>0, <1>3, <1>5, <1>6, <1>7, <2>1 DEF StatusOf, Owner
<1>9. StatusOf(k)' = "served"
  <2>1. order[k] \notin Owners'
    BY <1>0, <1>1, <1>3, <1>5, NotClient DEF Owners, Owner, TypeOK, ClientInv
  <2>2. got'[order[k]] # 0
    BY <1>0, <1>1, <1>3, <1>4, <1>5 DEF TypeOK
  <2> QED BY <1>0, <1>2, <1>6, <2>1, <2>2 DEF StatusOf
<1>10. ASSUME NEW l \in 1 .. N, l # k PROVE StatusOf(l)' = StatusOf(l)
  <2>1. CASE l > Len(order)
    BY <1>0, <1>2, <2>1 DEF StatusOf
  <2>2. CASE l <= Len(order)
    <3>1. order[l] \in Clients /\ order[l] # fdtab[f]
      BY <1>0, <1>5, <1>10, <2>2 DEF OrderInv
    <3>2. \A g \in Fds : fdtab[g] = order[l] <=> fdtab'[g] = order[l]
      BY <1>0, <1>1, <3>1, NotClient DEF TypeOK
    <3>3. afd # NoFd /\ fdtab[afd] = order[l] <=> afd' # NoFd /\ fdtab'[afd'] = order[l]
      BY <1>1, <1>7
    <3> QED BY <1>1, <1>2, <1>3, <2>2, <3>1, <3>2, <3>3, StatusSame
  <2> QED BY <1>0, <2>1, <2>2
<1>11. Queue!Move(k, "served")
  BY <1>6, <1>9, <1>10, StatusMoved
<1>12. Queue!Finish(k)
  BY <1>6, <1>8, <1>11 DEF Queue!Finish
<1> QED BY <1>6, <1>12 DEF Queue!Next, Queue!Connections

(* No other step changes what has become of a connection.                    *)
LEMMA ElseStutters ==
  ASSUME Sound, QueueInv', [QueueNext]_<<vars, order>>, ~CloseFailed, ~Enqueue, ~Take, ~Finish,
         \A c \in Clients : ~Accept(c)
  PROVE  UNCHANGED Queue!vars
<1> DEFINE N == Cardinality(Clients)
<1>0. /\ Len(order) \in Nat /\ N \in Nat
      /\ \A l \in 1 .. Len(order) : order[l] \in Clients
      /\ TypeOK /\ WorkerInv
      /\ afd # NoFd => afd \in Fds /\ fdtab[afd] \in Clients
      /\ wfd # NoFd => wfd \in Fds /\ fdtab[wfd] \in Clients
  BY OrderFits DEF Sound, QueueInv, IInv, QueueApart, OwnRequest, TypeOK, Owner
<1>1. [Next]_vars
  BY DEF QueueNext
<1>2. order' = order
  BY <1>0, <1>1, NotAccepting DEF QueueNext
<1>3. /\ UNCHANGED <<afd, wfd>>
      /\ \A f \in Fds : fdtab[f] \in Clients \/ fdtab'[f] \in Clients => fdtab'[f] = fdtab[f]
      /\ \A c \in Clients : (\A f \in Fds : fdtab[f] # c) => got'[c] = got[c]
  BY <1>0, <1>1, QuietStep
<1>4. ASSUME NEW l \in 1 .. N PROVE StatusOf(l)' = StatusOf(l)
  <2>1. CASE l > Len(order)
    BY <1>0, <1>2, <2>1 DEF StatusOf
  <2>2. CASE l <= Len(order)
    <3>1. order[l] \in Clients
      BY <1>0, <2>2
    <3>2. \A f \in Fds : fdtab[f] = order[l] <=> fdtab'[f] = order[l]
      BY <1>3, <3>1
    <3>3. order[l] \notin Owners => got'[order[l]] = got[order[l]]
      BY <1>3, <3>1 DEF Owners, Owner
    <3>4. /\ afd # NoFd /\ fdtab[afd] = order[l] <=> afd' # NoFd /\ fdtab'[afd'] = order[l]
          /\ wfd # NoFd /\ fdtab[wfd] = order[l] <=> wfd' # NoFd /\ fdtab'[wfd'] = order[l]
      BY <1>0, <1>3, <3>2
    <3> QED BY <1>2, <2>2, <3>2, <3>3, <3>4, StatusSame
  <2> QED BY <1>0, <2>1, <2>2
<1> QED BY <1>4 DEF Queue!vars

(* What the accept loop and the worker do with the descriptors is a bounded   *)
(* queue: connections are queued in the order of their accept(), served in   *)
(* this order, one at a time, and refused only when the queue is full; in    *)
(* every step up to the one in which handle_request closes a descriptor, for *)
(* any number of clients, descriptors and places, and whatever numbers the   *)
(* kernel hands out again.                                                  *)
THEOREM IsQueueUntilEarlyClose == QueueSpec => QueueUntilEarlyClose
<1>1. QueueInit => Queue!Init
  BY DEF QueueInit, Queue!Init, Queue!Connections, StatusOf
<1>2. QueueInv /\ QueueInv' /\ [QueueNext]_<<vars, order>> =>
          (failed' = {} => UNCHANGED Queue!vars \/ Queue!Next)
  <2> SUFFICES ASSUME QueueInv, QueueInv', [QueueNext]_<<vars, order>>, failed' = {}
               PROVE  Queue!Next \/ UNCHANGED Queue!vars
    OBVIOUS
  <2>1. [Next]_vars /\ WorkerInv /\ WholeInv /\ TypeOK
    BY DEF QueueNext, QueueInv, IInv
  <2>2. failed = {} /\ ~CloseFailed
    BY <2>1, StillNone
  <2>3. Sound
    BY <2>2, SoundWhileNoneFailed
  <2>4. CASE UNCHANGED <<vars, order>>
    <3>1. \A k \in 1 .. Cardinality(Clients) : StatusOf(k)' = StatusOf(k)
      BY <2>4 DEF StatusOf, Owners, Owner, vars, clientVars, workerVars
    <3> QED BY <3>1 DEF Queue!vars
  <2>5. CASE QueueNext
    BY <2>2, <2>3, <2>5, AcceptRefines, EnqueueRefines, TakeRefines, FinishRefines, ElseStutters
  <2> QED BY <2>4, <2>5
<1>3. QueueSpec => []QueueInv
  BY QueueInvariance
<1> QED BY <1>1, <1>2, <1>3, PTL DEF QueueSpec, QueueUntilEarlyClose
=============================================================================
