--------------------------- MODULE SocketRingQueue ---------------------------
(***************************************************************************)
(* The refinement mapping from SocketRing to HandOff: the array and its two  *)
(* counters are a queue that holds one connection less than there are slots, *)
(* as long as neither the -1 nor the race on a slot breaks it; HandOff says   *)
(* what is left of it then.                                                 *)
(***************************************************************************)
EXTENDS SocketRingInv

(* What has become of connection c, read off the state of the two threads; it *)
(* is served until the worker has closed it, whether its client has hung up   *)
(* or not.                                                                  *)
StatusOf(c) ==
    IF c > accepted                       THEN "backlog"
    ELSE IF InHand(c)                     THEN "accepted"
    ELSE IF serves[c] > 0 /\ closes[c] = Early(c) THEN "serving"
    ELSE IF serves[c] > 0                 THEN "served"
    ELSE IF closes[c] > 0                 THEN "refused"
    ELSE IF Lost(c)                       THEN "lost"
    ELSE "queued"

Status == [c \in Descriptors |-> StatusOf(c)]
Mode   == IF Wedged THEN "wedged" ELSE IF PhantomTaken THEN "phantom" ELSE "sound"

Queue == INSTANCE HandOff WITH
    Capacity <- SocketMax - 1,
    status   <- Status,
    mode     <- Mode

ImplementsQueue == Queue!Spec

-----------------------------------------------------------------------------
(* What the refinement needs beyond IInv.  Behind the slot the worker is at,  *)
(* the ring has no holes up to socket_head.                                 *)
NoHoles ==
    \A p \in socket_tail + 1 .. socket_head - 1 : sockets[Slot(p)] > 0

(* Before there is a worker, nothing is taken from the first slot.           *)
Unworked == ~accept_thread => sockets[Slot(socket_tail)] # NoSocket

(* One connection at a time is being served.                                 *)
OneServed ==
    \A d \in Descriptors : serves[d] > 0 /\ closes[d] = Early(d) => wpc = "serve" /\ wsock = d

QueueInv == IInv /\ NoHoles /\ Unworked /\ OneServed
=============================================================================
