----------------------------- MODULE HttpServer -----------------------------
(***************************************************************************)
(* The whole HTTP server with its clients: the accept loop, the queue of    *)
(* accepted descriptors, the worker thread in accept_request, and the       *)
(* process's descriptor table, in which the kernel gives the lowest free    *)
(* number to whoever asks next.                                            *)
(*                                                                         *)
(* The queue is the one that module SocketRing implements as long as        *)
(* neither its -1 nor its race on a slot breaks it (HandOff, mode "sound").  *)
(* TCP delivers what a client sent in order, in pieces of any size.         *)
(***************************************************************************)
EXTENDS HttpRequest, FiniteSets

CONSTANTS
    Clients,
    NumFds,      \* bound: size of the descriptor table (RLIMIT_NOFILE)
    Capacity,    \* socket_max - 1
    BufSize,     \* size of the buffer of accept_request (2048 bytes in the code)
    Requests,    \* what a client may send
    Pieces,      \* bound: after how many tokens a client may pause
    PictureExists \* whether 1.jpg can be opened

(* What a descriptor is open on, unless it is a connection.                  *)
Free    == "free"
Listen  == "listen"
Picture == "1.jpg"

(* The bytes of requests, and the zero of an empty buffer.                    *)
Bytes == {Nul} \union UNION {Range(r) : r \in Requests}

ASSUME ServerAssumption ==
    /\ Clients \intersect {Free, Listen, Picture} = {}
    /\ NumFds \in Nat /\ NumFds >= 2
    /\ Capacity \in Nat \ {0}
    /\ BufSize \in Nat \ {0}
    /\ Pieces \subseteq Nat
    /\ PictureExists \in BOOLEAN
    /\ \A r \in Requests : r \in Seq(Bytes) /\ HeaderComplete(r) /\ Len(r) <= BufSize

Fds      == 1 .. NumFds
NoFd     == 0

VARIABLES
    (* clients and the connections to them *)
    request,     \* what each client wants to send
    client,      \* its state: "idle", "backlog", "open", "closed", "reset"
    sent,        \* number of tokens it has sent
    got,         \* number of them the server has read
    inbox,       \* history: the parts of responses that have reached it
    failed,      \* history: the first one whose connection handle_request closed
    (* the process *)
    process,     \* "starting", "running"; "failed" to start, "exited" or "killed"
    fdtab,       \* what each descriptor is open on
    queue,       \* accepted descriptors the worker has not taken
    afd,         \* client_sock: what accept() has just returned
    (* the worker thread in accept_request *)
    wpc, wfd,
    buf,         \* its buffer
    header,      \* request_header: everything read so far
    last,        \* bytes_received by the last successful recv()
    from,        \* history: whose bytes the header holds
    response,    \* the response being sent
    sending      \* the send() calls left

clientVars  == <<request, client, sent, got, inbox, failed>>
readVars    == <<buf, header, last, from>>
sendVars    == <<response, sending>>
workerVars  == <<wpc, wfd, readVars, sendVars>>
vars == <<clientVars, process, fdtab, queue, afd, workerVars>>

FreeFds     == {f \in Fds : fdtab[f] = Free}
Lowest      == Min(FreeFds)
Owner(f)    == fdtab[f]
Unread(c)   == sent[c] - got[c]
Close(f)    == fdtab' = [fdtab EXCEPT ![f] = Free]
ZeroBuf     == [i \in 1 .. BufSize |-> Nul]

Init ==
    /\ request = [c \in Clients |-> <<>>]
    /\ client = [c \in Clients |-> "idle"]
    /\ sent = [c \in Clients |-> 0]
    /\ got = [c \in Clients |-> 0]
    /\ inbox = [c \in Clients |-> {}]
    /\ failed = {}
    /\ process = "starting"
    /\ fdtab = [f \in Fds |-> Free]
    /\ queue = <<>>
    /\ afd = NoFd
    /\ wpc = "idle"
    /\ wfd = NoFd
    /\ buf = ZeroBuf /\ header = <<>> /\ last = 0 /\ from = {}
    /\ response = "none" /\ sending = <<>>

-----------------------------------------------------------------------------
(* startup: the listening socket takes the first descriptor; or one of the    *)
(* calls fails, the port being used by another process, and error_die exits. *)
Startup ==
    /\ process = "starting"
    /\ process' = "running"
    /\ fdtab' = [fdtab EXCEPT ![Lowest] = Listen]
    /\ UNCHANGED <<clientVars, queue, afd, workerVars>>

StartupFails ==
    /\ process = "starting"
    /\ process' = "failed"
    /\ UNCHANGED <<clientVars, fdtab, queue, afd, workerVars>>

-----------------------------------------------------------------------------
(* The clients.  The kernel completes a connection to the listening socket    *)
(* before it is accepted; what a client does with it before that, it may as   *)
(* well do just after.                                                      *)
Connect(c) ==
    /\ process = "running"
    /\ client[c] = "idle"
    /\ client' = [client EXCEPT ![c] = "backlog"]
    /\ \E r \in Requests : request' = [request EXCEPT ![c] = r]
    /\ UNCHANGED <<sent, got, inbox, failed, process, fdtab, queue, afd, workerVars>>

(* The client sends up to its next pause, or all the rest.                   *)
Send(c) ==
    /\ client[c] = "open"
    /\ \E n \in {p \in Pieces : p < Len(request[c])} \union {Len(request[c])} :
          /\ n > sent[c]
          /\ sent' = [sent EXCEPT ![c] = n]
    /\ UNCHANGED <<request, client, got, inbox, failed, process, fdtab, queue, afd, workerVars>>

(* The client closes, or its connection breaks and is reset.                 *)
HangUp(c) ==
    /\ client[c] = "open"
    /\ client' = [client EXCEPT ![c] = "closed"]
    /\ UNCHANGED <<request, sent, got, inbox, failed, process, fdtab, queue, afd, workerVars>>

Break(c) ==
    /\ client[c] \in {"open", "closed"}
    /\ client' = [client EXCEPT ![c] = "reset"]
    /\ UNCHANGED <<request, sent, got, inbox, failed, process, fdtab, queue, afd, workerVars>>

-----------------------------------------------------------------------------
(* The accept loop.                                                         *)
Accept(c) ==
    /\ process = "running" /\ afd = NoFd
    /\ client[c] = "backlog"
    /\ FreeFds # {}
    /\ client' = [client EXCEPT ![c] = "open"]
    /\ afd' = Lowest
    /\ fdtab' = [fdtab EXCEPT ![Lowest] = c]
    /\ UNCHANGED <<request, sent, got, inbox, failed, process, queue, workerVars>>

(* No descriptor is left: accept() returns -1 and error_die exits.           *)
AcceptFails ==
    /\ process = "running" /\ afd = NoFd
    /\ \E c \in Clients : client[c] = "backlog"
    /\ FreeFds = {}
    /\ process' = "exited"
    /\ UNCHANGED <<clientVars, fdtab, queue, afd, workerVars>>

(* Mutants of Enqueue: no capacity test; one slot less; a full queue drops the *)
(* descriptor and leaves it open.                                           *)
EnqueueAlways ==
    /\ process = "running" /\ afd # NoFd
    /\ queue' = Append(queue, afd)
    /\ afd' = NoFd
    /\ UNCHANGED <<clientVars, process, fdtab, workerVars>>

EnqueueOneLess ==
    /\ process = "running" /\ afd # NoFd
    /\ IF Len(queue) < Capacity - 1
         THEN queue' = Append(queue, afd) /\ UNCHANGED fdtab
         ELSE Close(afd) /\ UNCHANGED queue
    /\ afd' = NoFd
    /\ UNCHANGED <<clientVars, process, workerVars>>

EnqueueLeaks ==
    /\ process = "running" /\ afd # NoFd
    /\ queue' = IF Len(queue) < Capacity THEN Append(queue, afd) ELSE queue
    /\ afd' = NoFd
    /\ UNCHANGED <<clientVars, process, fdtab, workerVars>>

(* try_accept_request.                                                      *)
Enqueue ==
    /\ process = "running" /\ afd # NoFd
    /\ IF Len(queue) < Capacity
         THEN queue' = Append(queue, afd) /\ UNCHANGED fdtab
         ELSE Close(afd) /\ UNCHANGED queue
    /\ afd' = NoFd
    /\ UNCHANGED <<clientVars, process, workerVars>>

-----------------------------------------------------------------------------
(* The worker thread, in thread_accept_request and accept_request.           *)
WorkerAt(l) == process = "running" /\ wpc = l

Take ==
    /\ WorkerAt("idle")
    /\ queue # <<>>
    /\ wfd' = Head(queue)
    /\ queue' = Tail(queue)
    /\ wpc' = "recv"
    /\ UNCHANGED <<clientVars, process, fdtab, afd, readVars, sendVars>>

(* Mutant of HeaderCopy: one byte less.                                      *)
CopyOneLess(h, n) == SubSeq(h, 1, n - 1) \o SubSeq(ZeroBuf, n, BufSize)

(* The buffer at the end of handle_request: the first n bytes of the header. *)
HeaderCopy(h, n) == SubSeq(h, 1, n) \o SubSeq(ZeroBuf, n + 1, BufSize)

(* handle_request: recv() returns what has arrived.  The loop ends when the  *)
(* header is complete; then the buffer is cleared and bytes_received bytes  *)
(* of the header, as many as the last recv() returned, are copied to it.    *)
Recv ==
    /\ WorkerAt("recv")
    /\ Owner(wfd) \in Clients
    /\ LET c == Owner(wfd)
           n == Min({Unread(c), BufSize})
           piece == SubSeq(request[c], got[c] + 1, got[c] + n)
           h == header \o piece
       IN  /\ n > 0
           /\ got' = [got EXCEPT ![c] = @ + n]
           /\ header' = h
           /\ last' = n
           /\ from' = from \union {c}
           /\ IF HeaderComplete(h)
                THEN /\ buf' = HeaderCopy(h, n)
                     /\ wpc' = "parse"
                ELSE /\ buf' = piece \o SubSeq(buf, n + 1, BufSize)
                     /\ UNCHANGED wpc
    /\ UNCHANGED <<request, client, sent, inbox, failed, process, fdtab, queue, afd, wfd, sendVars>>

(* recv() <= 0: the client has closed, the connection is reset, or the       *)
(* descriptor is not a socket any more.                                     *)
RecvFails ==
    /\ WorkerAt("recv")
    /\ Owner(wfd) \in Clients =>
          \/ client[Owner(wfd)] = "reset"
          \/ client[Owner(wfd)] = "closed" /\ Unread(Owner(wfd)) = 0
    /\ wpc' = "close"
    /\ UNCHANGED <<clientVars, process, fdtab, queue, afd, wfd, readVars, sendVars>>

(* handle_request closes the socket and returns; its caller does not know.   *)
CloseFailed ==
    /\ WorkerAt("close")
    /\ Close(wfd)
    /\ failed' = IF failed = {} THEN {Owner(wfd)} \intersect Clients ELSE failed
    /\ wpc' = "parse"
    /\ UNCHANGED <<request, client, sent, got, inbox, process, queue, afd, wfd, readVars, sendVars>>

(* accept_request: choose the response.  fopen of the picture takes a        *)
(* descriptor; without one, or without the file, it returns NULL and the    *)
(* process dies in fseek.                                                   *)
Respond ==
    /\ WorkerAt("parse")
    /\ \E line \in {ParseRequestLine(buf, Min({Len(header), BufSize}))} :
          response' = Route(line)
    /\ sending' = Sends(response')
    /\ \/ response' # "jpeg" /\ UNCHANGED <<process, fdtab>>
       \/ /\ response' = "jpeg"
          /\ IF PictureExists /\ FreeFds # {}
               THEN fdtab' = [fdtab EXCEPT ![Lowest] = Picture] /\ UNCHANGED process
               ELSE process' = "killed" /\ UNCHANGED fdtab
    /\ wpc' = "send"
    /\ UNCHANGED <<clientVars, queue, afd, wfd, readVars>>

(* One send().  A client that has closed may answer with a reset.  On a reset *)
(* connection it fails, at the latest the second time with SIGPIPE.         *)
SendPart ==
    /\ WorkerAt("send")
    /\ sending # <<>>
    /\ sending' = Tail(sending)
    /\ IF Owner(wfd) \in Clients
         THEN LET c == Owner(wfd)
              IN  IF client[c] = "reset"
                    THEN /\ \/ Head(sending) /\ process' = "killed"
                            \/ UNCHANGED process
                         /\ UNCHANGED <<client, inbox>>
                    ELSE /\ inbox' = [inbox EXCEPT ![c] = @ \union
                                        {[kind |-> response, from |-> from, last |-> last,
                                          complete |-> HeaderComplete(header)]}]
                         /\ \/ UNCHANGED client
                            \/ client[c] = "closed" /\ client' = [client EXCEPT ![c] = "reset"]
                         /\ UNCHANGED process
         ELSE UNCHANGED <<process, client, inbox>>
    /\ UNCHANGED <<request, sent, got, failed, fdtab, queue, afd, wpc, wfd, readVars, response>>

(* Mutant of Finish: accept_request closes the descriptor as well, and hands  *)
(* it out for a moment, as its commented-out close() would.                 *)
FinishTwice ==
    /\ WorkerAt("send")
    /\ sending = <<>>
    /\ Close(wfd)
    /\ IF Owner(wfd) = Free
         THEN /\ wfd' = NoFd /\ wpc' = "idle"
              /\ buf' = ZeroBuf /\ header' = <<>> /\ last' = 0 /\ from' = {}
              /\ response' = "none" /\ sending' = <<>>
         ELSE UNCHANGED <<wfd, wpc, readVars, sendVars>>
    /\ UNCHANGED <<clientVars, process, queue, afd>>

(* Mutant of Finish: the connection is kept alive, as the response says.      *)
FinishKeepsOpen ==
    /\ WorkerAt("send")
    /\ sending = <<>>
    /\ wfd' = NoFd
    /\ wpc' = "idle"
    /\ buf' = ZeroBuf /\ header' = <<>> /\ last' = 0 /\ from' = {}
    /\ response' = "none" /\ sending' = <<>>
    /\ UNCHANGED <<clientVars, process, fdtab, queue, afd>>

(* The response is out: thread_accept_request closes the descriptor.  The    *)
(* locals of accept_request are gone; the next call has its own.            *)
Finish ==
    /\ WorkerAt("send")
    /\ sending = <<>>
    /\ Close(wfd)
    /\ wfd' = NoFd
    /\ wpc' = "idle"
    /\ buf' = ZeroBuf /\ header' = <<>> /\ last' = 0 /\ from' = {}
    /\ response' = "none" /\ sending' = <<>>
    /\ UNCHANGED <<clientVars, process, queue, afd>>

AcceptLoop == Startup \/ StartupFails \/ AcceptFails \/ Enqueue \/ \E c \in Clients : Accept(c)
Worker     == Take \/ Recv \/ RecvFails \/ CloseFailed \/ Respond \/ SendPart \/ Finish
ClientStep(c) == Connect(c) \/ Send(c) \/ HangUp(c) \/ Break(c)

Next == AcceptLoop \/ Worker \/ \E c \in Clients : ClientStep(c)

Spec == Init /\ [][Next]_vars

(* Both threads run; the clients that connect send their request in the end. *)
(* That they do is an assumption: recv() has no timeout, and a client that  *)
(* sends nothing keeps every other client waiting.                          *)
FairSpec ==
    /\ Spec
    /\ WF_vars(AcceptLoop) /\ WF_vars(Worker)
    /\ \A c \in Clients : WF_vars(Send(c))

-----------------------------------------------------------------------------
Responded == [kind : Responses, from : SUBSET Clients, last : 0 .. BufSize, complete : BOOLEAN]

TypeOK ==
    /\ request \in [Clients -> Requests \union {<<>>}]
    /\ client \in [Clients -> {"idle", "backlog", "open", "closed", "reset"}]
    /\ sent \in [Clients -> Nat] /\ got \in [Clients -> Nat]
    /\ \A c \in Clients : got[c] <= sent[c] /\ sent[c] <= Len(request[c])
    /\ inbox \in [Clients -> SUBSET Responded]
    /\ failed \subseteq Clients
    /\ process \in {"starting", "running", "failed", "exited", "killed"}
    /\ fdtab \in [Fds -> Clients \union {Free, Listen, Picture}]
    /\ queue \in Seq(Fds) /\ Len(queue) <= Capacity
    /\ afd \in Fds \union {NoFd}
    /\ wpc \in {"idle", "recv", "close", "parse", "send"}
    /\ wfd \in Fds \union {NoFd}
    /\ buf \in Seq(Bytes) /\ Len(buf) = BufSize
    /\ header \in Seq(Bytes) /\ last \in 0 .. BufSize
    /\ from \subseteq Clients
    /\ response \in Responses /\ sending \in Seq(BOOLEAN)

(* The client has gone before the server has read its whole header.          *)
EarlyHangUp(c) ==
    /\ client[c] \in {"closed", "reset"}
    /\ ~HeaderComplete(SubSeq(request[c], 1, got[c]))

(* Nothing in the code takes back an entry of the queue whose descriptor was *)
(* closed meanwhile; even so every open connection is still going to be     *)
(* handled by someone, whatever numbers the kernel hands out again.         *)
EverySocketDue ==
    \A f \in Fds : Owner(f) \in Clients =>
        f = afd \/ f = wfd \/ \E i \in 1 .. Len(queue) : queue[i] = f

(* handle_request has closed the descriptor of such a client; its caller goes *)
(* on using the number, and closes it again.                                *)
EarlyClose == \E c \in failed : EarlyHangUp(c)

(* Nothing else sets the queue and the descriptor table apart: until then     *)
(* they agree entry by entry, and the descriptors of the two threads differ  *)
(* from those in the queue and from each other.                             *)
QueueApart ==
    /\ \A i, j \in 1 .. Len(queue) : queue[i] = queue[j] => i = j
    /\ \A i \in 1 .. Len(queue) : Owner(queue[i]) \in Clients /\ queue[i] \notin {afd, wfd}
    /\ afd # NoFd => Owner(afd) \in Clients /\ afd # wfd

QueueMatchesTable == EarlyClose \/ QueueApart

(* What a client receives was computed from its own request, unless another  *)
(* client hung up early and left its response to the descriptor's heir.     *)
OwnUnlessHangUp ==
    \A c \in Clients : \A r \in inbox[c] : r.from # {c} => EarlyClose

(* The method and the url of a request take its tokens up to this one.       *)
LineEnd(r) == ParseRequestLine(r, Len(r)).length

Intended(r) == Route(ParseRequestLine(r, Len(r)))

(* A client whose last segment is at least as long as its request line up to  *)
(* the end of the url is answered as it asked, in whatever segments the     *)
(* rest came: the copy in handle_request is as long as the last segment.    *)
RightWhenLongEnough ==
    \A c \in Clients : \A r \in inbox[c] :
        r.from = {c} /\ r.complete /\ r.last >= LineEnd(request[c]) =>
            r.kind = Intended(request[c])

(* A connection that was accepted is closed by the server in the end, or the  *)
(* process has died, provided every client sends its request.               *)
EventuallyClosed ==
    \A c \in Clients :
        client[c] = "open" ~> (process # "running" \/ \A f \in Fds : Owner(f) # c)

-----------------------------------------------------------------------------
(* "以上将 request_line 解析完毕" (http_server.c:744): whatever pieces it came   *)
(* in, the request line of a complete header has been parsed, so that its    *)
(* client gets the response it asked for.                                   *)
RequestLineParsed ==
    \A c \in Clients : \A r \in inbox[c] :
        r.from = {c} /\ r.complete => r.kind = Intended(request[c])

(* The 501 tells a browser about the method of the HTTP request it sent       *)
(* (http_server.c:110).                                                     *)
NotImplementedIsOwn ==
    \A c \in Clients : \A r \in inbox[c] : r.kind = "501" => c \in r.from
=============================================================================
