------------------------------ MODULE SocketRing ------------------------------
(***************************************************************************)
(* The hand-off of accepted connections from the accept loop of the HTTP   *)
(* server (main.c, try_accept_request) to its only worker thread           *)
(* (thread_accept_request), through the global array sockets[socket_max]   *)
(* and the two counters socket_head and socket_tail.                       *)
(*                                                                         *)
(* The program has no lock: every access to the shared array and to        *)
(* socket_tail is a step of its own, so that the two threads interleave    *)
(* between any two of them.  socket_head is touched by the accept loop     *)
(* only, hence "sockets[..] = socket; socket_head++" is one step.          *)
(*                                                                         *)
(* A slot holds 0 (free), a descriptor, or -1: the initialiser {-1} sets   *)
(* the first element of the array and leaves 0 in the others.  Here the    *)
(* k-th accepted connection has the descriptor k; descriptors that the     *)
(* kernel hands out again are the subject of module HttpServer.            *)
(***************************************************************************)
EXTENDS Integers

CONSTANTS
    SocketMax,   \* socket_max, the number of slots (10 in the code)
    MaxAccepts   \* bound: how many connections arrive in a behaviour

ASSUME RingAssumption ==
    /\ SocketMax \in Nat /\ SocketMax >= 2
    /\ MaxAccepts \in Nat

VARIABLES
    sockets,        \* the slots
    socket_head,    \* number of stores done by the accept loop
    socket_tail,    \* number of descriptors taken by the worker
    accept_thread,  \* TRUE once pthread_create has succeeded
    apc,            \* where the accept loop is
    client_sock,    \* its local: the descriptor accept() returned last
    wpc,            \* where the worker thread is
    wsock,          \* its local: the value loaded from the slot
    accepted,       \* history: connections accepted so far
    serves,         \* history: accept_request() calls, per descriptor
    closes,         \* history: close() calls, per descriptor
    early,          \* history: the descriptors handle_request has closed
    last            \* history: the descriptor served last

acceptVars  == <<apc, client_sock, accepted>>
workerVars  == <<wpc, wsock>>
historyVars == <<serves, closes, early, last>>
vars == <<sockets, socket_head, socket_tail, accept_thread, acceptVars,
          workerVars, historyVars>>

NoSocket    == 0
Phantom     == -1
Slots       == 0 .. SocketMax - 1
Descriptors == 1 .. MaxAccepts
Counted     == Descriptors \union {Phantom}
Slot(n)     == n % SocketMax

Init ==
    /\ sockets = [i \in Slots |-> IF i = 0 THEN Phantom ELSE NoSocket]
    /\ socket_head = 0
    /\ socket_tail = 0
    /\ accept_thread = FALSE
    /\ apc = "accept"
    /\ client_sock = -1
    /\ wpc = "none"
    /\ wsock = NoSocket
    /\ accepted = 0
    /\ serves = [d \in Counted |-> 0]
    /\ closes = [d \in Counted |-> 0]
    /\ early = {}
    /\ last = NoSocket

(***************************************************************************)
(* The accept loop.  accept() returns descriptor d, or fails and error_die *)
(* ends the process, worker included.                                      *)
(***************************************************************************)
Accept(d) ==
    /\ apc = "accept"
    /\ accepted < MaxAccepts
    /\ accepted' = accepted + 1
    /\ client_sock' = d
    /\ apc' = "spawn"
    /\ UNCHANGED <<sockets, socket_head, socket_tail, accept_thread,
                   workerVars, historyVars>>

AcceptFails ==
    /\ apc = "accept"
    /\ client_sock' = -1
    /\ apc' = "exited"
    /\ UNCHANGED <<sockets, socket_head, socket_tail, accept_thread, accepted, workerVars, historyVars>>

(* try_accept_request creates the worker on the first call.  When            *)
(* pthread_create fails accept_thread stays 0, and the next call tries again. *)
Spawn ==
    /\ apc = "spawn"
    /\ apc' = "check"
    /\ \/ /\ ~accept_thread             \* pthread_create succeeds
          /\ accept_thread' = TRUE
          /\ wpc' = "load"
       \/ UNCHANGED <<accept_thread, wpc>>  \* it fails, or was done before
    /\ UNCHANGED <<sockets, socket_head, socket_tail, client_sock, accepted,
                   wsock, historyVars>>

(* Mutants of Full.                                                          *)
FullOffByOne == socket_tail + SocketMax = socket_head
FullEarly    == socket_tail + SocketMax - 2 = socket_head
NeverFull    == FALSE

(* The test of the ring's capacity reads the worker's counter once; what it  *)
(* decided still holds when the descriptor is stored later only because the *)
(* worker never decreases socket_tail.                                      *)
Full == socket_tail + SocketMax - 1 = socket_head

Refuse ==
    /\ apc = "check"
    /\ Full
    /\ closes' = [closes EXCEPT ![client_sock] = @ + 1]
    /\ apc' = "accept"
    /\ UNCHANGED <<sockets, socket_head, socket_tail, accept_thread,
                   client_sock, accepted, workerVars, serves, early, last>>

Admit ==
    /\ apc = "check"
    /\ ~Full
    /\ apc' = "store"
    /\ UNCHANGED <<sockets, socket_head, socket_tail, accept_thread,
                   client_sock, accepted, workerVars, historyVars>>

Store ==
    /\ apc = "store"
    /\ sockets' = [sockets EXCEPT ![Slot(socket_head)] = client_sock]
    /\ socket_head' = socket_head + 1
    /\ apc' = "accept"
    /\ UNCHANGED <<socket_tail, accept_thread, client_sock, accepted,
                   workerVars, historyVars>>

(***************************************************************************)
(* The worker thread.  Reading the slot and zeroing it are two accesses.   *)
(***************************************************************************)
WorkerAt(l) == wpc = l /\ apc # "exited"

Load ==
    /\ WorkerAt("load")
    /\ wsock' = sockets[Slot(socket_tail)]
    /\ wpc' = "clear"
    /\ UNCHANGED <<sockets, socket_head, socket_tail, accept_thread,
                   acceptVars, historyVars>>

(* Mutant of Clear.                                                          *)
ClearNothing == WorkerAt("clear") /\ wpc' = "test" /\ UNCHANGED
    <<sockets, socket_head, socket_tail, accept_thread, acceptVars, wsock, historyVars>>

Clear ==
    /\ WorkerAt("clear")
    /\ sockets' = [sockets EXCEPT ![Slot(socket_tail)] = NoSocket]
    /\ wpc' = "test"
    /\ UNCHANGED <<socket_head, socket_tail, accept_thread, acceptVars,
                   wsock, historyVars>>

(* socket != 0: advance the counter and call accept_request(socket).         *)
Take ==
    /\ WorkerAt("test")
    /\ wsock # NoSocket
    /\ socket_tail' = socket_tail + 1
    /\ serves' = [serves EXCEPT ![wsock] = @ + 1]
    /\ last' = wsock
    /\ wpc' = "serve"
    /\ UNCHANGED <<sockets, socket_head, accept_thread, acceptVars, wsock,
                   closes, early>>

(* Mutant of Idle.                                                           *)
IdleAdvances ==
    /\ WorkerAt("test")
    /\ wsock = NoSocket
    /\ socket_tail' = socket_tail + 1
    /\ wpc' = "load"
    /\ UNCHANGED <<sockets, socket_head, accept_thread, acceptVars, wsock, historyVars>>

(* socket == 0: sleep half a second and poll the same slot again.            *)
Idle ==
    /\ WorkerAt("test")
    /\ wsock = NoSocket
    /\ wpc' = "load"
    /\ UNCHANGED <<sockets, socket_head, socket_tail, accept_thread,
                   acceptVars, wsock, historyVars>>

(* handle_request: recv() fails or the client has hung up, so that it closes  *)
(* the descriptor; accept_request goes on with an empty request all the same, *)
(* and answers into the closed descriptor.                                   *)
HangUp ==
    /\ WorkerAt("serve")
    /\ wsock \notin early
    /\ closes' = [closes EXCEPT ![wsock] = @ + 1]
    /\ early' = early \union {wsock}
    /\ UNCHANGED <<sockets, socket_head, socket_tail, accept_thread,
                   acceptVars, workerVars, serves, last>>

(* Nothing is ever received from the descriptor -1.                          *)
Answered == wsock = Phantom => Phantom \in early

(* Mutant of Close.                                                          *)
CloseEndsWorker ==
    /\ WorkerAt("serve")
    /\ Answered
    /\ closes' = [closes EXCEPT ![wsock] = @ + 1]
    /\ wpc' = "none"
    /\ UNCHANGED <<sockets, socket_head, socket_tail, accept_thread,
                   acceptVars, wsock, serves, early, last>>

(* accept_request has returned: usleep, close(socket), next turn.  Whether    *)
(* handle_request has closed the descriptor before is not looked at.         *)
Close ==
    /\ WorkerAt("serve")
    /\ Answered
    /\ closes' = [closes EXCEPT ![wsock] = @ + 1]
    /\ wpc' = "load"
    /\ UNCHANGED <<sockets, socket_head, socket_tail, accept_thread,
                   acceptVars, wsock, serves, early, last>>

TryAccept == Spawn \/ Refuse \/ Admit \/ Store
Worker    == Load \/ Clear \/ Take \/ Idle \/ HangUp \/ Close
Next      == Accept(accepted + 1) \/ AcceptFails \/ TryAccept \/ Worker

Spec == Init /\ [][Next]_vars

(* Both threads are scheduled: a call of try_accept_request that has begun   *)
(* ends, and the worker goes round its loop.  Nothing makes a client connect *)
(* (Accept) nor accept() fail.                                              *)
Fairness == WF_vars(TryAccept) /\ WF_vars(Load \/ Clear \/ Take \/ Idle)

(* accept_request blocks in recv() until its client sends or hangs up; that  *)
(* it returns is an assumption about the clients, not about the code.       *)
ResponsiveClients == WF_vars(HangUp \/ Close)

FairSpec == Spec /\ Fairness /\ ResponsiveClients

-----------------------------------------------------------------------------
(* Where a connection d is.                                                 *)
InHand(d) == apc \in {"spawn", "check", "store"} /\ client_sock = d
InRing(d) == \E i \in Slots : sockets[i] = d
Held(d)   == wpc \in {"clear", "test"} /\ wsock = d
Lost(d)   == /\ d <= accepted /\ serves[d] = 0 /\ closes[d] = 0
             /\ ~InHand(d) /\ ~InRing(d) /\ ~Held(d)

(* The worker has taken, or is about to take, the -1 of the initialiser.     *)
PhantomTaken == serves[Phantom] > 0 \/ Held(Phantom)

(* The worker polls an empty slot although descriptors are queued behind it. *)
Wedged ==
    /\ accept_thread
    /\ socket_tail < socket_head
    /\ sockets[Slot(socket_tail)] = NoSocket
    /\ wpc \in {"load", "serve"} \/ wsock = NoSocket

TypeOK ==
    /\ accepted \in 0 .. MaxAccepts
    /\ sockets \in [Slots -> Phantom .. accepted]
    /\ socket_head \in Nat
    /\ socket_tail \in Nat
    /\ accept_thread \in BOOLEAN
    /\ apc \in {"accept", "spawn", "check", "store", "exited"}
    /\ client_sock \in Phantom .. accepted
    /\ wpc \in {"none", "load", "clear", "test", "serve"}
    /\ wsock \in Phantom .. accepted
    /\ serves \in [Counted -> Nat]
    /\ closes \in [Counted -> Nat]
    /\ early \subseteq Counted
    /\ last \in Phantom .. accepted

(* How often handle_request has closed the descriptor d.                     *)
Early(d) == IF d \in early THEN 1 ELSE 0

(* Whatever the interleaving, a descriptor is given to accept_request at     *)
(* most once, and the two threads never close it both, nor one of them twice: *)
(* a second close() would hit whatever the kernel has opened under that       *)
(* number since.  It comes in one way only: the client of a connection that   *)
(* is being served hangs up, handle_request closes, and then the worker does.  *)
OnceUnlessHungUp ==
    \A d \in Descriptors :
        /\ serves[d] <= 1
        /\ closes[d] <= 1 + Early(d)
        /\ d \in early => serves[d] = 1

(* The counters stay a ring's length apart.  The worker can be one ahead of  *)
(* the accept loop: the -1 it may take first was never stored.  Polling does *)
(* not move them: they grow with the connections only, so that the two ints  *)
(* need 2^31 - 1 of them to overflow.                                       *)
CountersInStep ==
    /\ socket_head - socket_tail \in -1 .. SocketMax - 1
    /\ socket_tail > socket_head => serves[Phantom] > 0
    /\ socket_head <= accepted /\ socket_tail <= accepted + 1

(* Unless the -1 was taken, a descriptor can vanish in one way only: the     *)
(* worker zeroes the slot just after the accept loop has filled it; and then *)
(* the worker is left polling an empty slot in front of its queue.          *)
LossWedges == (\E d \in Descriptors : Lost(d)) => PhantomTaken \/ Wedged

(* There is no way out of that state: the accept loop cannot reach the slot  *)
(* again before it considers the ring full, so nothing is served any more.  *)
WedgeIsPermanent == [][Wedged => Wedged' /\ serves' = serves]_vars

(* Unless the -1 was taken, connections are served in the order of accept(). *)
ServedInOrder == [][~PhantomTaken /\ last' # last => last' > last]_vars

(* Every connection that accept() returns is closed in the end, served or    *)
(* refused, and if handle_request closed it, by the worker as well: it never  *)
(* stops before an occupied slot, and the capacity test never leaves the     *)
(* accept loop with a descriptor.  What voids this is named: the -1 or the   *)
(* race on a slot, a failing accept(), and a pthread_create that never       *)
(* succeeds.                                                                *)
EventuallyClosed ==
    \A d \in Descriptors :
        (accepted >= d) ~>
            \/ closes[d] = 1 + Early(d)
            \/ PhantomTaken \/ Wedged
            \/ apc = "exited" \/ ~accept_thread

=============================================================================
