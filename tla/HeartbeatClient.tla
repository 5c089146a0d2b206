--------------------------- MODULE HeartbeatClient ---------------------------
(***************************************************************************)
(* client_thread of the socket demo: it connects to a server that is no     *)
(* part of the repository, and answers each heartbeat it receives with one   *)
(* of its own, which carries cover_state; when the connection breaks, it     *)
(* connects again.                                                          *)
(*                                                                         *)
(* The server's packets are a head, with the type, and a tail; recv()       *)
(* returns any number of the pieces that have arrived, and the client looks  *)
(* at the first two bytes of what it got.  A server either sends packets of   *)
(* its own accord, or, like server_thread of this very demo, waits for a    *)
(* packet and answers it.                                                   *)
(***************************************************************************)
EXTENDS Integers, Sequences, FiniteSets

CONSTANTS
    MaxPackets,   \* bound: packets the server sends on a connection
    MaxLinks      \* bound: connections, one after the other

ASSUME ClientAssumption == MaxPackets \in Nat /\ MaxLinks \in Nat

VARIABLES
    answersOnly,  \* the kind of server
    link,         \* the connection: "none", "up", "ended" by the server, "reset"
    links,        \* number of connections so far
    requested,    \* history: heartbeats the server has sent on this connection
    written,      \* packets it has sent on this connection
    stream,       \* pieces sent and not read
    pc,           \* client: "connect", "prepare", "recv", "send", "close", "killed"
    timestamp,    \* its parity, which is all that is used
    cover_state,
    send_buffer,  \* the state in the heartbeat that was prepared
    beats,        \* history: the states sent on this connection
    regular       \* history: every recv() so far has returned one heartbeat

serverVars == <<answersOnly, link, links, requested, written, stream>>
vars == <<serverVars, pc, timestamp, cover_state, send_buffer, beats, regular>>

COVER_OFF == 0
COVER_ON  == 1
Nothing   == -1      \* a buffer of zeros

HeartbeatHead == "heartbeat"
OtherHead     == "other"
Rest          == "rest"

Init ==
    /\ answersOnly \in BOOLEAN
    /\ link = "none" /\ links = 0 /\ requested = 0 /\ written = 0 /\ stream = <<>>
    /\ pc = "connect"
    /\ timestamp = 0
    /\ cover_state = COVER_OFF
    /\ send_buffer = Nothing
    /\ beats = <<>>
    /\ regular = TRUE

-----------------------------------------------------------------------------
(* The server.                                                              *)
Write(head) ==
    /\ link = "up" /\ written < MaxPackets
    /\ answersOnly => written < Len(beats)
    /\ stream' = stream \o <<head, Rest>>
    /\ written' = written + 1
    /\ requested' = IF head = HeartbeatHead THEN requested + 1 ELSE requested
    /\ UNCHANGED <<answersOnly, link, links, pc, timestamp, cover_state, send_buffer, beats, regular>>

EndLink(how) ==
    /\ link = "up"
    /\ link' = how
    /\ UNCHANGED <<answersOnly, links, requested, written, stream, pc, timestamp, cover_state,
                   send_buffer, beats, regular>>

-----------------------------------------------------------------------------
(* The client.  connect() is tried until it succeeds.                        *)
Connect ==
    /\ pc = "connect" /\ links < MaxLinks
    /\ link' = "up" /\ links' = links + 1
    /\ requested' = 0 /\ written' = 0 /\ stream' = <<>>
    /\ timestamp' = 0
    /\ send_buffer' = Nothing
    /\ beats' = <<>> /\ regular' = TRUE
    /\ pc' = "prepare"
    /\ UNCHANGED <<answersOnly, cover_state>>

(* Mutants of Toggled: at every turn; a count instead of a state.            *)
ToggledAlways == 1 - cover_state
CountedUp     == IF timestamp = 1 THEN cover_state + 1 ELSE cover_state

(* The state changes at every second turn of the loop.                       *)
Toggled == IF timestamp = 1 THEN 1 - cover_state ELSE cover_state

(* Mutant of Prepare: the client sends first.                                *)
PrepareAndSend ==
    /\ pc = "prepare"
    /\ timestamp' = 1 - timestamp
    /\ cover_state' = Toggled
    /\ send_buffer' = cover_state'
    /\ pc' = IF beats = <<>> THEN "send" ELSE "recv"
    /\ UNCHANGED <<serverVars, beats, regular>>

(* The heartbeat is prepared, and then the client waits for the server's.    *)
Prepare ==
    /\ pc = "prepare"
    /\ timestamp' = 1 - timestamp
    /\ cover_state' = Toggled
    /\ send_buffer' = cover_state'
    /\ pc' = "recv"
    /\ UNCHANGED <<serverVars, beats, regular>>

(* Mutant of IsHeartbeat: the type is not looked at.                         *)
IsAnything(pieces) == pieces # <<>>

(* ExtractFromBigEndian(recv_buffer, 2) == PACK_TYPE_HERT; nothing received    *)
(* leaves zeros in the buffer.                                              *)
IsHeartbeat(pieces) == pieces # <<>> /\ pieces[1] = HeartbeatHead

(* recv() returns pieces, or 0 at the end of the stream: which is no error   *)
(* here.  Without a heartbeat the buffers are cleared for the next turn.    *)
Recv ==
    /\ pc = "recv"
    /\ \E n \in 0 .. Len(stream) :
          /\ n = 0 => link = "ended" /\ stream = <<>>
          /\ stream' = SubSeq(stream, n + 1, Len(stream))
          /\ regular' = (regular /\ n = 2 /\ stream[1] = HeartbeatHead)
          /\ IF IsHeartbeat(SubSeq(stream, 1, n))
               THEN pc' = "send" /\ UNCHANGED send_buffer
               ELSE pc' = "prepare" /\ send_buffer' = Nothing
    /\ UNCHANGED <<answersOnly, link, links, requested, written, timestamp, cover_state, beats>>

(* Mutants of RecvFails: the error is ignored; the end of the stream counts   *)
(* as one.                                                                  *)
ErrorIgnored ==
    /\ pc = "recv" /\ link = "reset"
    /\ pc' = "prepare"
    /\ send_buffer' = Nothing
    /\ UNCHANGED <<serverVars, timestamp, cover_state, beats, regular>>
EndIsError ==
    /\ pc = "recv" /\ link \in {"reset", "ended"}
    /\ pc' = "close"
    /\ UNCHANGED <<serverVars, timestamp, cover_state, send_buffer, beats, regular>>

(* recv() < 0: leave the loop.                                               *)
RecvFails ==
    /\ pc = "recv" /\ link = "reset"
    /\ pc' = "close"
    /\ UNCHANGED <<serverVars, timestamp, cover_state, send_buffer, beats, regular>>

Send ==
    /\ pc = "send"
    /\ beats' = Append(beats, send_buffer)
    /\ send_buffer' = Nothing
    /\ pc' = "prepare"
    /\ \/ UNCHANGED link
       \/ link = "ended" /\ link' = "reset"       \* the server answers with a reset
    /\ UNCHANGED <<answersOnly, links, requested, written, stream, timestamp, cover_state, regular>>

(* On a reset connection send() fails, or SIGPIPE ends the process.          *)
SendFails ==
    /\ pc = "send" /\ link = "reset"
    /\ pc' \in {"close", "killed"}
    /\ UNCHANGED <<serverVars, timestamp, cover_state, send_buffer, beats, regular>>

(* close(), and ten seconds of sleep.                                        *)
Close ==
    /\ pc = "close"
    /\ pc' = "connect"
    /\ link' = "none"
    /\ UNCHANGED <<answersOnly, links, requested, written, stream, timestamp, cover_state,
                   send_buffer, beats, regular>>

Server == Write(HeartbeatHead) \/ Write(OtherHead) \/ EndLink("ended") \/ EndLink("reset")
Client == Connect \/ Prepare \/ Recv \/ RecvFails \/ Send \/ SendFails \/ Close
Next   == Server \/ Client

Spec == Init /\ [][Next]_vars

(* The thread runs.  On a broken connection recv() reports the error at the   *)
(* latest when what had arrived is read.                                    *)
FairSpec == Spec /\ WF_vars(Client)

-----------------------------------------------------------------------------
TypeOK ==
    /\ answersOnly \in BOOLEAN
    /\ link \in {"none", "up", "ended", "reset"} /\ links \in 0 .. MaxLinks
    /\ requested \in 0 .. written /\ written \in 0 .. MaxPackets
    /\ stream \in Seq({HeartbeatHead, OtherHead, Rest})
    /\ pc \in {"connect", "prepare", "recv", "send", "close", "killed"}
    /\ timestamp \in {0, 1}
    /\ cover_state \in {COVER_OFF, COVER_ON}
    /\ send_buffer \in {Nothing, COVER_OFF, COVER_ON}
    /\ beats \in Seq({COVER_OFF, COVER_ON})
    /\ regular \in BOOLEAN

(* The client sends no heartbeat that the server has not asked for, and never *)
(* two for one, however the server's packets are cut or run together.       *)
OneBeatPerRequest == Len(beats) <= requested

(* The two threads of the demo have nothing to say to each other: each waits   *)
(* for the first packet of the other, on every connection, and a heartbeat   *)
(* is never sent.                                                           *)
NobodyBegins == answersOnly => written = 0 /\ beats = <<>>

(* While every turn of the loop receives one heartbeat, the state that is    *)
(* sent changes at every second one.                                        *)
StateAlternates == regular => \A i \in 1 .. Len(beats) - 2 : beats[i] # beats[i + 2]

(* Once the server has closed the connection in an orderly way and nothing is *)
(* left to read, the client goes round its loop for ever: recv() returns 0   *)
(* at once, which is not taken for an error, and it never connects again.    *)
Spinning == link = "ended" /\ stream = <<>> /\ pc \in {"prepare", "recv"}
SpinsForEver == [][Spinning => Spinning' /\ beats' = beats]_vars

(* From a connection that breaks with an error the client comes back, unless *)
(* SIGPIPE ends it.                                                         *)
ReconnectsAfterReset == (link = "reset") ~> (pc \in {"connect", "killed"})

-----------------------------------------------------------------------------
(* The inductive invariant behind these, which HeartbeatClientProofs proves.  *)
Prepared == pc \in {"recv", "send"} => send_buffer = cover_state

(* The heartbeats of the server that the client has not read.                *)
Unread == {i \in 1 .. Len(stream) : stream[i] = HeartbeatHead}

(* Each heartbeat of the server is unread, about to be answered, or answered. *)
Requests == Cardinality(Unread) + (IF pc = "send" THEN 1 ELSE 0) + Len(beats) <= requested

(* Two that wait for each other exchange nothing.                            *)
Silent == answersOnly => written = 0 /\ stream = <<>> /\ beats = <<>> /\ pc # "send"

(* How the state of this turn differs from those of the last two: it is that  *)
(* of the last turn when the parity of the time stamp is now odd.            *)
Alternation ==
    regular =>
        /\ pc = "prepare" =>
              /\ beats # <<>> => cover_state = beats[Len(beats)]
              /\ Len(beats) >= 2 => (timestamp = 1 <=> beats[Len(beats) - 1] = cover_state)
        /\ pc \in {"recv", "send"} =>
              /\ beats # <<>> => (timestamp = 1 <=> beats[Len(beats)] = cover_state)
              /\ Len(beats) >= 2 => beats[Len(beats) - 1] # cover_state

IInv == TypeOK /\ Prepared /\ Requests /\ Silent /\ Alternation /\ StateAlternates
=============================================================================
