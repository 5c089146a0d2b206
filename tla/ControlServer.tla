---------------------------- MODULE ControlServer ----------------------------
(***************************************************************************)
(* server_thread of the socket demo: it accepts one peer at a time, reads   *)
(* control packets from it and answers each of them.  The peer is no part   *)
(* of the repository: it sends any commands, without waiting for answers.   *)
(*                                                                         *)
(* TCP keeps the order of the bytes and nothing else.  A packet is two      *)
(* halves here, and a recv() returns any number of the halves that have     *)
(* been sent: part of a packet, one packet, or several.  The CRC (module    *)
(* Packets) tells a packet from two halves that do not belong together.  Of *)
(* an answer only its size counts, and the length it claims to have.        *)
(***************************************************************************)
EXTENDS Integers, Sequences

CONSTANTS
    MaxPackets,   \* bound: packets a peer sends
    MaxPeers,     \* bound: connections, one after the other
    MaxFds,       \* bound: descriptors the process may open (RLIMIT_NOFILE)
    StateAnswer   \* for each cover state, the message with it: size is what strlen
                  \* makes of its bytes, length what it says itself

COVER_OFF == 0
COVER_ON  == 1

(* The message with the state begins with the higher byte of its type, 1.    *)
ASSUME ServerAssumption ==
    /\ MaxPackets \in Nat /\ MaxPeers \in Nat /\ MaxFds \in Nat
    /\ StateAnswer \in [{COVER_OFF, COVER_ON} -> [size : Nat \ {0}, length : Nat]]

(* Well-formed commands, one the server does not know, and a damaged packet.  *)
Commands == {"ADD", "RMV", "GET", "UNKNOWN", "DAMAGED"}

VARIABLES
    port,         \* "busy": some other socket has it; "free"
    free,         \* number of descriptors that are left
    failures,     \* history: calls of create_server_socket that returned -1
    peers,        \* number of connections so far
    peer,         \* the peer: "none", "open", "closed"
    asked,        \* history: the commands of this peer, in order
    stream,       \* halves sent and not read
    pc,           \* server: "socket", "bind", "accept", "recv", "send", "resend",
                  \* "killed"
    recv_buffer,  \* the two halves at the head of the buffer
    cover_state,  \* uninitialised automatic variable
    send_buffer,  \* the answer that is about to be sent
    answers,      \* history: the answers sent to this peer
    merged        \* history: a recv() returned something else than one packet

setupVars   == <<port, failures>>
sessionVars == <<peers, peer, asked, stream, recv_buffer, cover_state, send_buffer, answers,
                 merged>>
vars == <<setupVars, free, pc, sessionVars>>

Zero     == <<0, 0>>                       \* half a buffer of zeros
Half(k, h) == <<k, h>>                     \* half h of the packet with index k
Known    == {"ADD", "RMV", "GET"}          \* the commands that are answered
Empty    == [of |-> 0, size |-> 0, length |-> 0]

Init ==
    /\ port \in {"busy", "free"} /\ free = MaxFds /\ failures = 0
    /\ peers = 0 /\ peer = "none"
    /\ asked = <<>> /\ stream = <<>>
    /\ pc = "socket"
    /\ recv_buffer = <<Zero, Zero>>
    /\ cover_state \in {COVER_OFF, COVER_ON, -1}
    /\ send_buffer = Empty
    /\ answers = <<>>
    /\ merged = FALSE

-----------------------------------------------------------------------------
(* create_server_socket, called until it succeeds.  Without a descriptor the   *)
(* call fails and is made again: nothing changes.                           *)
Socket ==
    /\ pc = "socket" /\ free > 0
    /\ free' = free - 1
    /\ pc' = "bind"
    /\ UNCHANGED <<setupVars, sessionVars>>

BindAndListen ==
    /\ pc = "bind" /\ port = "free"
    /\ pc' = "accept"
    /\ UNCHANGED <<setupVars, free, sessionVars>>

(* Mutant of BindFails: no second try.                                       *)
BindGivesUp ==
    /\ pc = "bind" /\ port = "busy"
    /\ failures' = failures + 1
    /\ pc' = "killed"
    /\ UNCHANGED <<port, free, sessionVars>>

(* bind or listen fails: the call returns -1 and leaves its socket open.      *)
BindFails ==
    /\ pc = "bind" /\ port = "busy"
    /\ failures' = failures + 1
    /\ pc' = "socket"
    /\ UNCHANGED <<port, free, sessionVars>>

(* Whoever had the port gives it up.                                         *)
PortFreed ==
    /\ port = "busy"
    /\ port' = "free"
    /\ UNCHANGED <<failures, free, pc, sessionVars>>

-----------------------------------------------------------------------------
(* The peer.                                                                *)
Connect ==
    /\ peer = "none" /\ pc = "accept" /\ peers < MaxPeers
    /\ peers' = peers + 1
    /\ peer' = "open"
    /\ asked' = <<>> /\ stream' = <<>> /\ answers' = <<>> /\ merged' = FALSE
    /\ UNCHANGED <<setupVars, free, pc, recv_buffer, cover_state, send_buffer>>

Ask(command) ==
    /\ peer = "open" /\ Len(asked) < MaxPackets
    /\ asked' = Append(asked, command)
    /\ stream' = stream \o <<Half(Len(asked) + 1, 1), Half(Len(asked) + 1, 2)>>
    /\ UNCHANGED <<setupVars, free, peers, peer, pc, recv_buffer, cover_state, send_buffer, answers, merged>>

HangUp ==
    /\ peer = "open"
    /\ peer' = "closed"
    /\ UNCHANGED <<setupVars, free, peers, asked, stream, pc, recv_buffer, cover_state, send_buffer,
                   answers, merged>>

-----------------------------------------------------------------------------
(* The server.  Without a descriptor accept() fails and is called again.      *)
Accept ==
    /\ pc = "accept" /\ peer # "none"
    /\ free > 0
    /\ free' = free - 1
    /\ pc' = "recv"
    /\ UNCHANGED <<setupVars, sessionVars>>

(* Mutant of PacketIn: the CRC is not checked.                               *)
PacketUnchecked(buffer) == buffer[1][1]

(* The packet at the head of the buffer, 0 if the CRC does not fit.          *)
PacketIn(buffer) ==
    IF /\ buffer[1] # Zero /\ buffer[1][2] = 1
       /\ buffer[2] = Half(buffer[1][1], 2)
       /\ asked[buffer[1][1]] # "DAMAGED"
      THEN buffer[1][1] ELSE 0

(* An answer to packet k, or to none; a text has no length but its size.     *)
Reply(k, message) == [of |-> k, size |-> message.size, length |-> message.length]
Text(n) == [size |-> n, length |-> n]

(* Mutants of Answer: the state is not answered; the answer is for another.   *)
AnswerNoState(k) ==
    IF asked[k] \in {"ADD", "RMV"} THEN Reply(k, Text(8)) ELSE Empty
AnswerNext(k) == Reply(k + 1, Text(8))

(* What the server puts in send_buffer for packet k: a text, the message with *)
(* the state, or nothing.  The message's state is that of the uninitialised *)
(* cover_state, left at 0 (COVER_OFF) for a value that is neither.          *)
Answer(k) ==
    CASE asked[k] = "ADD" -> Reply(k, Text(8))
      [] asked[k] = "RMV" -> Reply(k, Text(9))
      [] asked[k] = "GET" ->
           Reply(k, StateAnswer[IF cover_state = COVER_ON THEN COVER_ON ELSE COVER_OFF])
      [] OTHER -> Empty

(* The buffer is zeroed, then recv() fills it from the front.                *)
Fill(n) == IF n = 1 THEN <<stream[1], Zero>> ELSE <<stream[1], stream[2]>>

Recv ==
    /\ pc = "recv"
    /\ \E n \in 1 .. Len(stream) :
          /\ recv_buffer' = Fill(n)
          /\ stream' = SubSeq(stream, n + 1, Len(stream))
          /\ merged' = (merged \/ n # 2)
    /\ LET k == PacketIn(recv_buffer')
       IN  IF k = 0 THEN pc' = "resend" /\ UNCHANGED send_buffer
                    ELSE pc' = "send" /\ send_buffer' = Answer(k)
    /\ UNCHANGED <<setupVars, free, peers, peer, asked, cover_state, answers>>

(* close(client_socket): the next one is accepted.                            *)
CloseClient == free' = free + 1 /\ peer' = "none" /\ pc' = "accept"

(* Mutant of RecvEnds: only an error ends the loop, not the end of the stream. *)
EndUnnoticed == FALSE

(* recv() <= 0, at the end of the stream, or at once when the connection is    *)
(* reset: close it, whatever is still unread, and accept the next one.       *)
RecvEnds ==
    /\ pc = "recv" /\ peer = "closed"
    /\ CloseClient
    /\ stream' = <<>>
    /\ UNCHANGED <<setupVars, peers, asked, recv_buffer, cover_state, send_buffer, answers, merged>>

(* Mutant of Resend: the connection is not closed.                           *)
ResendLeaks ==
    /\ pc = "resend"
    /\ answers' = Append(answers, Reply(0, Text(6)))
    /\ peer' = "none" /\ pc' = "accept"
    /\ stream' = <<>>
    /\ UNCHANGED <<setupVars, free, peers, asked, recv_buffer, cover_state, send_buffer, merged>>

(* "RESEND" goes out and the connection is closed, whatever is still unread. *)
Resend ==
    /\ pc = "resend"
    /\ answers' = Append(answers, Reply(0, Text(6)))
    /\ CloseClient
    /\ stream' = <<>>
    /\ UNCHANGED <<setupVars, peers, asked, recv_buffer, cover_state, send_buffer, merged>>

(* send() of strlen(send_buffer) bytes: none for an unknown command.         *)
Send ==
    /\ pc = "send"
    /\ answers' = IF send_buffer.size = 0 THEN answers ELSE Append(answers, send_buffer)
    /\ send_buffer' = Empty
    /\ pc' = "recv"
    /\ UNCHANGED <<setupVars, free, peers, peer, asked, stream, recv_buffer, cover_state, merged>>

(* The peer has gone: send() fails, the connection is closed.                *)
SendFails ==
    /\ pc = "send" /\ peer = "closed"
    /\ CloseClient
    /\ stream' = <<>> /\ send_buffer' = Empty
    /\ UNCHANGED <<setupVars, peers, asked, recv_buffer, cover_state, answers, merged>>

(* Or, as the flags are 0, SIGPIPE ends the process.                         *)
SendKills ==
    /\ pc \in {"send", "resend"} /\ peer = "closed"
    /\ pc' = "killed"
    /\ UNCHANGED <<setupVars, free, sessionVars>>

Setup  == Socket \/ BindAndListen \/ BindFails
Server == Setup \/ Accept \/ Recv \/ RecvEnds \/ Resend \/ Send \/ SendFails \/ SendKills
Next == PortFreed \/ Connect \/ HangUp \/ (\E command \in Commands : Ask(command)) \/ Server

(* The thread runs; nothing makes a peer send, or whoever has the port end.   *)
Spec     == Init /\ [][Next]_vars
FairSpec == Spec /\ WF_vars(Server)

-----------------------------------------------------------------------------
TypeOK ==
    /\ port \in {"busy", "free"} /\ free \in 0 .. MaxFds /\ failures \in 0 .. MaxFds
    /\ peers \in 0 .. MaxPeers /\ peer \in {"none", "open", "closed"}
    /\ asked \in Seq(Commands) /\ Len(asked) <= MaxPackets
    /\ stream \in Seq((1 .. MaxPackets) \X {1, 2})
    /\ pc \in {"socket", "bind", "accept", "recv", "send", "resend", "killed"}
    /\ cover_state \in {COVER_OFF, COVER_ON, -1}
    /\ Len(recv_buffer) = 2
    /\ send_buffer \in [of : 0 .. MaxPackets, size : Nat, length : Nat]
    /\ answers \in Seq([of : 0 .. MaxPackets, size : Nat, length : Nat])
    /\ merged \in BOOLEAN

(* However the packets arrive, the server answers no command twice, none out *)
(* of order and none that was damaged: a recv() that does not start at a     *)
(* packet ends the connection before anything is taken for a command.       *)
AnswersFollowCommands ==
    \A j \in 1 .. Len(answers) : answers[j].of # 0 =>
        /\ answers[j].of \in 1 .. Len(asked)
        /\ asked[answers[j].of] # "DAMAGED"
        /\ \A i \in 1 .. j - 1 : answers[i].of < answers[j].of

(* Every command is answered as long as each recv() returns one packet; the  *)
(* server has no other way of keeping commands apart, and passes over those *)
(* that arrive together with another.                                       *)
NoneSkippedUnlessMerged ==
    ~merged /\ pc = "recv" /\ stream = <<>> =>
        {k \in 1 .. Len(asked) : asked[k] \in Known}
            = {answers[i].of : i \in 1 .. Len(answers)}

(* Descriptors are lost in create_server_socket only, one with each failure;  *)
(* whatever way a connection ends, its descriptor comes back before the next *)
(* one is accepted.                                                         *)
DescriptorsAccounted ==
    pc # "killed" =>
        free + failures + (IF pc = "socket" THEN 0 ELSE 1)
             + (IF pc \in {"recv", "send", "resend"} THEN 1 ELSE 0) = MaxFds

(* The server listens in the end, or its attempts have used up all the        *)
(* descriptors: the loop of attempts comes to an end even if the port is    *)
(* never free, as each of them leaves a socket open.                        *)
ListensOrLeaks ==
    (pc \in {"socket", "bind"}) ~> (pc = "accept" \/ (pc = "socket" /\ free = 0))

(* A peer that hangs up does not keep the server from the next one, unless it  *)
(* did so just before an answer and SIGPIPE has ended the process, or the   *)
(* attempts to listen have left no descriptor for accept().                 *)
AcceptsAgain ==
    (peer = "closed") ~> (peer = "none" \/ pc = "killed" \/ (pc = "accept" /\ free = 0))

-----------------------------------------------------------------------------
(* The inductive invariant.  A peer is there while the server works for one,  *)
(* and when it is gone nothing of it is left to read.                       *)
PeerInv ==
    /\ pc \in {"socket", "bind"} => peer = "none"
    /\ pc \in {"recv", "send", "resend"} => peer # "none"
    /\ peer = "none" => stream = <<>>

(* The halves in the stream are the last of all that were sent, in order:     *)
(* Passed of them have been read, or thrown away with the connection.       *)
Place(half) == 2 * half[1] + half[2] - 2
Passed == 2 * Len(asked) - Len(stream)
StreamInv ==
    /\ Passed >= 0
    /\ \A i \in 1 .. Len(stream) : Place(stream[i]) = Passed + i

(* What is answered, or about to be, is a known command that has been read.   *)
(* RESEND answers none, and is the last that its peer gets.                 *)
Due(k) == 2 * k <= Passed /\ asked[k] \in Known
AnswerInv ==
    /\ pc = "send" /\ send_buffer.of # 0 => Due(send_buffer.of) /\ send_buffer.size > 0
    /\ pc = "send" /\ send_buffer.of = 0 => send_buffer.size = 0
    /\ \A i \in 1 .. Len(answers) :
          /\ answers[i].of # 0 => Due(answers[i].of)
          /\ pc = "send" /\ send_buffer.of # 0 => answers[i].of < send_buffer.of
          /\ answers[i].of = 0 => peer = "none"

(* As long as each recv() returns one packet, a known command that has been   *)
(* read is answered, or its answer is in the buffer.                        *)
Answered(k) ==
    \/ \E i \in 1 .. Len(answers) : answers[i].of = k
    \/ pc = "send" /\ send_buffer.of = k
NothingSkipped ==
    ~merged /\ peer # "none" /\ pc \in {"accept", "recv", "send"} =>
        \A k \in 1 .. Len(asked) : Due(k) => Answered(k)

IInv ==
    /\ TypeOK /\ PeerInv /\ StreamInv /\ AnswerInv /\ NothingSkipped
    /\ AnswersFollowCommands /\ DescriptorsAccounted

-----------------------------------------------------------------------------
(* "Number of bytes in the whole package" (net_ctrl.h:50): that is what the   *)
(* length of an answer says.                                                *)
LengthIsWholePackage ==
    \A i \in 1 .. Len(answers) : answers[i].length = answers[i].size
=============================================================================
