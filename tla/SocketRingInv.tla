---------------------------- MODULE SocketRingInv ----------------------------
(***************************************************************************)
(* The inductive invariant behind the properties of SocketRing, in parts.   *)
(* SocketRingProofs proves that it is one.                                 *)
(***************************************************************************)
EXTENDS SocketRing

(* What the accept loop holds or a slot contains was never served nor closed. *)
Untouched ==
    \A d \in Descriptors :
        d > accepted \/ InHand(d) \/ InRing(d) =>
            serves[d] = 0 /\ closes[d] = 0 /\ d \notin early

(* The accept loop holds the newest connection, which nobody else has seen.  *)
Newest ==
    apc \in {"spawn", "check", "store"} =>
        /\ client_sock = accepted
        /\ accepted > 0
        /\ last < accepted
        /\ wsock < accepted
        /\ \A i \in Slots : sockets[i] < accepted

OneSlot == \A i, j \in Slots : sockets[i] > 0 /\ sockets[i] = sockets[j] => i = j

(* The worker's descriptor is in no slot any more once it has zeroed the     *)
(* slot it comes from, and it is closed by the worker alone, at most once    *)
(* before accept_request has returned.                                       *)
WorkerOwns ==
    wsock > 0 =>
        /\ wpc \in {"clear", "test"} =>
              serves[wsock] = 0 /\ closes[wsock] = 0 /\ wsock \notin early
        /\ wpc = "clear" => \A i \in Slots : sockets[i] = wsock => i = Slot(socket_tail)
        /\ wpc = "test" => ~InRing(wsock)
        /\ wpc = "serve" => serves[wsock] = 1 /\ closes[wsock] = Early(wsock)

(* A connection is in one place.                                             *)
Ownership == Untouched /\ Newest /\ OneSlot /\ WorkerOwns /\ OnceUnlessHungUp

(* The capacity test keeps the counters less than a ring apart, and each      *)
(* connection moves socket_head once at most.                               *)
Capacity ==
    /\ socket_head <= accepted
    /\ apc \in {"spawn", "check", "store"} => socket_head < accepted
    /\ socket_head <= socket_tail + SocketMax - 1
    /\ apc = "store" => socket_head < socket_tail + SocketMax - 1
    /\ accept_thread <=> wpc # "none"
    /\ wpc = "serve" => wsock # NoSocket

(* As long as the -1 is not taken, the descriptors in the ring are in the    *)
(* slots of socket_tail .. socket_head - 1, and what the worker has loaded  *)
(* comes from the first of them.                                            *)
Window ==
    /\ socket_tail <= socket_head
    /\ \A i \in Slots : sockets[i] > 0 =>
          \E p \in socket_tail .. socket_head - 1 : Slot(p) = i
    /\ \A i \in Slots : sockets[i] = Phantom => i = 0 /\ socket_head = 0
    /\ wpc \in {"clear", "test"} /\ wsock # NoSocket => socket_tail < socket_head
    /\ wpc = "clear" /\ wsock # NoSocket => sockets[Slot(socket_tail)] = wsock
    /\ wpc = "test" /\ wsock # NoSocket => sockets[Slot(socket_tail)] = NoSocket

(* And they are there in the order of accept(), behind what was served.      *)
Order ==
    /\ \A p, q \in socket_tail .. socket_head - 1 :
          /\ p < q
          /\ sockets[Slot(p)] > 0
          /\ sockets[Slot(q)] > 0
          => sockets[Slot(p)] < sockets[Slot(q)]
    /\ \A i \in Slots : sockets[i] > 0 => last < sockets[i]
    /\ wpc \in {"clear", "test"} /\ wsock > 0 =>
          /\ last < wsock
          /\ \A i \in Slots : sockets[i] > 0 => wsock <= sockets[i]

(* A queued descriptor outside the window: the worker comes to it a lap late. *)
StraySlot(i) ==
    /\ sockets[i] > 0
    /\ \A p \in socket_tail .. socket_head - 1 : Slot(p) # i

(* Once the -1 was taken the worker may run one ahead of the accept loop, or  *)
(* else leave one descriptor behind, never both and never more.              *)
OneStray ==
    /\ socket_tail <= socket_head + 1
    /\ \A i, j \in Slots : StraySlot(i) /\ StraySlot(j) => i = j
    /\ (\E i \in Slots : StraySlot(i)) => socket_tail <= socket_head
    /\ \A i \in Slots : sockets[i] = Phantom =>
          /\ i = 0 /\ socket_head = 0 /\ socket_tail = 0
          /\ wpc \in {"none", "load", "clear"}
          /\ \A j \in Slots : sockets[j] <= 0
    /\ wpc \in {"clear", "test"} /\ wsock # NoSocket => socket_tail <= socket_head
    /\ wpc = "clear" /\ wsock # NoSocket /\ socket_tail = socket_head =>
          \A i \in Slots : StraySlot(i) => i = Slot(socket_tail)
    /\ /\ wpc = "test"
       /\ wsock # NoSocket
       /\ socket_tail = socket_head \/ sockets[Slot(socket_tail)] # NoSocket
       => \A i \in Slots : ~StraySlot(i)

IInv ==
    /\ TypeOK
    /\ Ownership
    /\ Capacity
    /\ OneStray
    /\ PhantomTaken \/ (Window /\ Order)
    /\ LossWedges
=============================================================================
