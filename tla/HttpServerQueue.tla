--------------------------- MODULE HttpServerQueue ---------------------------
(***************************************************************************)
(* The refinement mapping from HttpServer to HandOff: what the accept loop    *)
(* and the worker do with descriptors that the kernel hands out again is the *)
(* queue that SocketRing implements as well, until handle_request closes a   *)
(* descriptor its caller goes on using.                                     *)
(***************************************************************************)
EXTENDS HttpServerInv

ASSUME FiniteClients == IsFiniteSet(Clients)

VARIABLE order  \* history: the clients in the order in which accept() returned them

QueueInit == Init /\ order = <<>>

QueueNext ==
    /\ Next
    /\ order' = IF afd = NoFd /\ afd' # NoFd THEN Append(order, fdtab'[afd']) ELSE order

QueueSpec == QueueInit /\ [][QueueNext]_<<vars, order>>

-----------------------------------------------------------------------------
(* What has become of the k-th connection, read off the descriptors and the   *)
(* three places that hold one.                                              *)
StatusOf(k) ==
    IF k > Len(order)                                THEN "backlog"
    ELSE IF order[k] \notin Owners /\ got[order[k]] = 0 THEN "refused"
    ELSE IF order[k] \notin Owners                   THEN "served"
    ELSE IF afd # NoFd /\ Owner(afd) = order[k]      THEN "accepted"
    ELSE IF wfd # NoFd /\ Owner(wfd) = order[k]      THEN "serving"
    ELSE "queued"

Queue == INSTANCE HandOff WITH
    MaxAccepts <- Cardinality(Clients),
    status     <- [k \in 1 .. Cardinality(Clients) |-> StatusOf(k)],
    mode       <- "sound"

(* Connections are queued, refused and served as HandOff says in its mode      *)
(* "sound": in the order of their accept(), one at a time, and refused only  *)
(* when Capacity others wait; in every step up to the first early close.     *)
QueueUntilEarlyClose ==
    /\ Queue!Init
    /\ [][failed' = {} => UNCHANGED Queue!vars \/ Queue!Next]_<<vars, order>>

-----------------------------------------------------------------------------
(* What the refinement needs beyond IInv: who was accepted, ...               *)
OrderInv ==
    /\ order \in Seq(Clients)
    /\ \A k, l \in DOMAIN order : order[k] = order[l] => k = l
    /\ \A c \in Clients : c \in Range(order) <=> client[c] \notin {"idle", "backlog"}
    /\ \A c \in from : got[c] > 0

(* ... and that those who wait do so in that order, the one accept() has just  *)
(* returned being the last.                                                 *)
InOrder ==
    /\ \A i, j \in DOMAIN queue : \A k, l \in DOMAIN order :
          i < j /\ order[k] = Owner(queue[i]) /\ order[l] = Owner(queue[j]) => k < l
    /\ afd # NoFd => order # <<>> /\ order[Len(order)] = Owner(afd)

QueueInv == IInv /\ EverySocketDue /\ OrderInv /\ (failed = {} => InOrder)
=============================================================================
