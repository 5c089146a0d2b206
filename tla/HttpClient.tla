----------------------------- MODULE HttpClient -----------------------------
(***************************************************************************)
(* The program http_client together with the HTTP server and with strangers, *)
(* the other clients of module HttpServer.  The program uses one connection  *)
(* after the other, the members of Mine in their order: it connects, sends a  *)
(* request, waits in select() for one second at most, and then receives, for *)
(* as long as it takes, until the server closes.                             *)
(*                                                                         *)
(* What it has sent is still delivered after it has closed, in segments as    *)
(* any client's; its connections break only when the server sends to one     *)
(* that it has closed.                                                      *)
(***************************************************************************)
EXTENDS HttpServer

CONSTANTS
    Mine,         \* the program's connections, in their order
    Wishes        \* what a stranger may ask for

(* The requests, in turn: a picture, and two settings.                       *)
Asks(n) ==
    CASE n % 3 = 0 -> Request(Get, <<"/", "1.jpg">>)
      [] n % 3 = 1 -> Request(Get, SetParams \o <<"?", "cover=0">>)
      [] n % 3 = 2 -> Request(Get, SetParams \o <<"?", "cover=1">>)

ASSUME ClientAssumption ==
    /\ Mine \in Seq(Clients)
    /\ \A i, j \in 1 .. Len(Mine) : Mine[i] = Mine[j] => i = j
    /\ {Asks(n) : n \in 0 .. 2} \subseteq Requests
    /\ Wishes \subseteq Requests

VARIABLES
    cpc,          \* "connect", "send", "select", "recv", "close", "exited"
    cnt,          \* number of requests sent
    gaveUp        \* history: connections on which select() timed out

programVars == <<cpc, cnt, gaveUp>>
allVars     == <<vars, programVars>>

Strangers == Clients \ Range(Mine)

ProgramInit == Init /\ cpc = "connect" /\ cnt = 0 /\ gaveUp = {}

(* While nobody listens, connect() fails, and the program waits and tries     *)
(* again: nothing changes.                                                  *)
ProgramConnects ==
    /\ cpc = "connect" /\ cnt < Len(Mine)
    /\ process = "running"
    /\ LET c == Mine[cnt + 1]
       IN  /\ client' = [client EXCEPT ![c] = "backlog"]
           /\ request' = [request EXCEPT ![c] = Asks(cnt)]
    /\ cpc' = "send"
    /\ UNCHANGED <<sent, got, inbox, failed, process, fdtab, queue, afd, workerVars, cnt, gaveUp>>

(* Mutant of ProgramSends: the program does not wait for an answer.          *)
SendsAndCloses ==
    /\ cpc = "send"
    /\ cnt' = cnt + 1
    /\ cpc' = "close"
    /\ UNCHANGED <<vars, gaveUp>>

ProgramSends ==
    /\ cpc = "send"
    /\ cnt' = cnt + 1
    /\ cpc' = "select"
    /\ UNCHANGED <<vars, gaveUp>>

(* With the server gone, send() fails or raises SIGPIPE: either way it ends.  *)
SendFails ==
    /\ cpc = "send"
    /\ process # "running"
    /\ cpc' = "exited"
    /\ UNCHANGED <<vars, cnt, gaveUp>>

(* The server has closed the connection, or is gone.                         *)
Ended(c) ==
    \/ client[c] \notin {"idle", "backlog"} /\ \A f \in Fds : Owner(f) # c
    \/ client[c] = "reset"
    \/ process # "running"

Readable(c) == inbox[c] # {} \/ Ended(c)

SelectReady ==
    /\ cpc = "select"
    /\ Readable(Mine[cnt])
    /\ cpc' = "recv"
    /\ UNCHANGED <<vars, cnt, gaveUp>>

Timeout ==
    /\ cpc = "select"
    /\ ~Readable(Mine[cnt])
    /\ cpc' = "close"
    /\ gaveUp' = gaveUp \union {Mine[cnt]}
    /\ UNCHANGED <<vars, cnt>>

(* The loop of recv() ends with the connection; it has no timeout.           *)
RecvLoop ==
    /\ cpc = "recv"
    /\ Ended(Mine[cnt])
    /\ cpc' = "close"
    /\ UNCHANGED <<vars, cnt, gaveUp>>

ProgramCloses ==
    /\ cpc = "close"
    /\ cpc' = "connect"
    /\ UNCHANGED <<vars, cnt, gaveUp>>

Program == ProgramConnects \/ ProgramSends \/ SendFails \/ SelectReady \/ Timeout
             \/ RecvLoop \/ ProgramCloses

(* The network: segments of requests, and what the server sees of a close.    *)
Closed(i) == i < cnt \/ (i = cnt /\ cpc \in {"connect", "send", "exited"})

Deliver(i) == Send(Mine[i]) /\ UNCHANGED programVars

CloseArrives(i) ==
    /\ Closed(i)
    /\ sent[Mine[i]] = Len(request[Mine[i]])
    /\ HangUp(Mine[i]) /\ UNCHANGED programVars

Delivery == \E i \in 1 .. cnt : Deliver(i) \/ CloseArrives(i)

Server == (AcceptLoop \/ Worker) /\ UNCHANGED programVars

Stranger ==
    \E c \in Strangers :
        ClientStep(c) /\ request'[c] \in Wishes /\ UNCHANGED programVars

ProgramNext == Program \/ Delivery \/ Server \/ Stranger

(* As in HttpServer, both threads run, and strangers send their requests; so   *)
(* does the network with the program's, and the program runs.               *)
ProgramSpec == ProgramInit /\ [][ProgramNext]_allVars

FairProgramSpec ==
    /\ ProgramSpec
    /\ WF_allVars(AcceptLoop /\ UNCHANGED programVars)
    /\ WF_allVars(Worker /\ UNCHANGED programVars)
    /\ WF_allVars(Program)
    /\ \A i \in 1 .. Len(Mine) : WF_allVars(i <= cnt /\ Deliver(i))
    /\ \A c \in Strangers : WF_allVars(Send(c) /\ UNCHANGED programVars)

-----------------------------------------------------------------------------
Alone   == \A s \in Strangers : client[s] = "idle"
Patient == gaveUp = {} /\ Alone

(* The program can end this server only by its impatience: as long as it      *)
(* waits for every answer and has the server for itself, nothing kills the    *)
(* server and no descriptor is lacking.  A connection that it has given up    *)
(* after a second is still answered, and the second send() kills.            *)
HarmlessIfPatient ==
    process \in {"exited", "killed"} => ~Patient

(* A patient program that has the server for itself has, when it closes, the  *)
(* answer to its own request: one for the picture, which this server knows    *)
(* by another name, and none for the settings.  Unless the last segment was   *)
(* too short for the request line (RequestLineParsed).                       *)
PatientIsAnswered ==
    \A i \in 1 .. cnt :
        LET c == Mine[i]
        IN  i = cnt /\ cpc = "close" /\ Patient =>
              IF Intended(request[c]) = "none"
                THEN \A r \in inbox[c] : r.last < LineEnd(request[c])
                ELSE /\ inbox[c] # {}
                     /\ \A r \in inbox[c] : \/ r.kind = Intended(request[c])
                                            \/ r.last < LineEnd(request[c])

(* The program always comes back to its next request or ends: this server     *)
(* closes every connection it has answered, though its responses say          *)
(* "Connection: keep-alive", so that the loop of recv() without a timeout     *)
(* ends, whatever the strangers do.                                         *)
ComesBack == cpc \notin {"connect", "exited"} ~> cpc \in {"connect", "exited"}
=============================================================================
