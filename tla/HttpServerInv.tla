---------------------------- MODULE HttpServerInv ----------------------------
(***************************************************************************)
(* The inductive invariant behind the safety properties of HttpServer: the   *)
(* states MCHttpServer reaches satisfy it, and HttpServerProofs proves it.    *)
(***************************************************************************)
EXTENDS HttpServer

Owners == {Owner(f) : f \in Fds}

(* What belongs to each place in the worker's code.                          *)
WorkerInv ==
    /\ process = "starting" => \A f \in Fds : fdtab[f] = Free
    /\ wfd = NoFd <=> wpc = "idle"
    /\ wpc = "idle" => from = {}
    /\ from = {} => header = <<>>
    /\ wpc \in {"recv", "close"} => ~HeaderComplete(header)
    /\ last <= Len(header)

(* A connection has one descriptor, once it is accepted, and until then it    *)
(* has exchanged nothing.                                                   *)
ClientInv ==
    /\ \A f, g \in Fds : Owner(f) \in Clients /\ Owner(f) = Owner(g) => f = g
    /\ \A c \in Clients : client[c] \in {"idle", "backlog"} =>
          /\ c \notin Owners /\ c \notin from
          /\ sent[c] = 0 /\ inbox[c] = {}

(* A client is read in one call of accept_request only, and a header that is  *)
(* all its own is what was read from it.                                    *)
ReadInv ==
    /\ \A f \in Fds : Owner(f) \in Clients /\ got[Owner(f)] > 0 =>
          f = wfd /\ Owner(f) \in from
    /\ \A c \in Clients : from = {c} => header = SubSeq(request[c], 1, got[c])

(* The worker's descriptor is the one of the client whose request it reads    *)
(* and answers, and a client gets answers to its own request.               *)
OwnRequest ==
    /\ wfd # NoFd => Owner(wfd) \in Clients /\ from \subseteq {Owner(wfd)}
    /\ wpc \in {"parse", "send"} => from # {}
    /\ wpc = "close" => EarlyHangUp(Owner(wfd))
    /\ \A c \in Clients : \A r \in inbox[c] : r.from = {c}

(* So it is as long as handle_request has closed no descriptor, and the queue *)
(* is a queue of open connections.                                          *)
WholeInv == failed = {} => QueueApart /\ OwnRequest

(* Once it has, there is no way back to that: the first client that was gone  *)
(* stays so.                                                                *)
BrokenInv == failed # {} => \E c \in failed : EarlyHangUp(c) /\ c \notin Owners

(* What is parsed, and what it leads to.                                     *)
AnswerInv ==
    HeaderComplete(header) =>
        /\ buf = HeaderCopy(header, last)
        /\ wpc = "send" => response = Route(ParseRequestLine(buf, Min({Len(header), BufSize})))

IInv == TypeOK /\ WorkerInv /\ ClientInv /\ ReadInv /\ WholeInv /\ BrokenInv /\ AnswerInv
=============================================================================
