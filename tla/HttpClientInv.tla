---------------------------- MODULE HttpClientInv ----------------------------
(***************************************************************************)
(* The inductive invariants behind the safety properties of HttpClient,      *)
(* besides that of HttpServer, which the program and its server satisfy too. *)
(***************************************************************************)
EXTENDS HttpClient, HttpServerInv

(* The connections that the program has used, the latest last, and whether    *)
(* it uses this one still.                                                  *)
Used   == IF cpc \in {"send", "exited"} THEN cnt + 1 ELSE cnt
Busy   == cpc \in {"send", "select", "recv"}
Latest == Mine[Used]

ProgramInv ==
    /\ cpc \in {"connect", "send", "select", "recv", "close", "exited"}
    /\ cnt \in Nat /\ Used <= Len(Mine)
    /\ cpc \in {"select", "recv", "close"} => cnt > 0
    /\ process \in {"starting", "failed"} => cpc = "connect"
    /\ \A i \in 1 .. Len(Mine) :
          IF i <= Used THEN client[Mine[i]] # "idle" /\ request[Mine[i]] = Asks(i - 1)
                       ELSE client[Mine[i]] = "idle"

(* The server of a patient program: besides the listening socket it has one   *)
(* connection at most, to the program, which does not hang up on it.         *)
OneConnection ==
    /\ \A f, g \in Fds : Owner(f) = Listen /\ Owner(g) = Listen => f = g
    /\ \A f \in Fds : Owner(f) \in {Free, Listen} \/ (Busy /\ Owner(f) = Latest)
    /\ \A c \in Clients : client[c] = "backlog" => Busy /\ c = Latest
    /\ Busy => client[Latest] \in {"backlog", "open"}

(* So that it comes to no harm, and reads every header to its end.           *)
Unharmed ==
    /\ process \notin {"exited", "killed"}
    /\ failed = {} /\ wpc # "close" /\ response # "jpeg"
    /\ wpc \in {"parse", "send"} => HeaderComplete(header)

(* Unless there is nothing to be answered, part of the answer is there once    *)
(* the first part was sent, and when the connection has been closed.         *)
PartsSent ==
    /\ wpc = "send" => sending = Sends(response) \/ \A c \in from : inbox[c] # {}
    /\ response = "none" => sending = <<>>
    /\ \A c \in Clients : \A r \in inbox[c] : r.complete /\ r.kind # "none"
    /\ (Busy \/ cpc = "close") /\ client[Latest] # "backlog" /\ Latest \notin Owners =>
          inbox[Latest] # {} \/ Intended(request[Latest]) = "none"

PatientInv == Patient => OneConnection /\ Unharmed /\ PartsSent
=============================================================================
