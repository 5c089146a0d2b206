------------------------------ MODULE TimeSync ------------------------------
(***************************************************************************)
(* The NTP client: send a request over UDP, wait for the reply with a       *)
(* timeout, retry, and set the system's clock from what was received.       *)
(*                                                                         *)
(* Datagrams are lost, duplicated, delayed and reordered.  now is the time  *)
(* (of the server); the program's own steps take none of it, so that it     *)
(* passes only while the program waits in select().                         *)
(***************************************************************************)
EXTENDS Integers, FiniteSets

CONSTANTS
    MaxRetries,  \* MAX_RETRIES (5 in the code)
    Timeout,     \* TIMEOUT_SEC, in ticks
    MaxDelay,    \* bound: how long a reply travels
    MaxReplies,  \* bound: how many replies the server sends
    Offset,      \* NTP_UNIX_OFFSET, from the epoch of NTP to that of Unix
    Wrap,        \* 2^32: a time stamp of NTP is an unsigned 32-bit number
    StartTimes

ASSUME TimeAssumption ==
    /\ {MaxRetries, Timeout, MaxDelay, MaxReplies, Offset, Wrap} \subseteq Nat
    /\ 0 < Offset /\ Offset < Wrap
    /\ StartTimes \subseteq Nat

VARIABLES
    now,
    requests,   \* requests on their way: how many
    replies,    \* replies on their way, by the time they were sent
    replied,    \* history: number of replies sent
    inbuf,      \* datagrams in the receive buffer of the socket
    pc, retries, deadline,
    ntp_response,   \* the field of 4 bytes that is used: a number, or Garbage
    answered,   \* history: ntp_response comes from a datagram of full length
    clock       \* what the clock was set to

netVars == <<requests, replies, replied, inbuf>>
vars == <<now, netVars, pc, retries, deadline, ntp_response, answered, clock>>

Garbage == -1            \* an automatic variable that was never written
NotSet  == -1
Short   == -1            \* a datagram that ends before byte 40
Stamp(t) == (t + Offset) % Wrap

Init ==
    /\ now \in StartTimes
    /\ requests = 0 /\ replies = {} /\ replied = 0 /\ inbuf = {}
    /\ pc = "loop" /\ retries = 0 /\ deadline = 0
    /\ ntp_response = Garbage
    /\ answered = FALSE
    /\ clock = NotSet

-----------------------------------------------------------------------------
(* The network and the server.                                              *)
Answer ==
    /\ requests > 0 /\ replied < MaxReplies
    /\ \E n \in {requests - 1, requests} : requests' = n   \* n = requests: duplicated
    /\ replies' = replies \union {now}
    /\ replied' = replied + 1
    /\ UNCHANGED <<now, inbuf, pc, retries, deadline, ntp_response, answered, clock>>

Lose ==
    /\ \/ requests > 0 /\ requests' = requests - 1 /\ UNCHANGED replies
       \/ \E t \in replies : replies' = replies \ {t} /\ UNCHANGED requests
    /\ UNCHANGED <<now, replied, inbuf, pc, retries, deadline, ntp_response, answered, clock>>

Arrive(t) ==
    /\ t \in replies
    /\ \E d \in {[at |-> t, stamp |-> Stamp(t)], [at |-> t, stamp |-> Short]} :
          inbuf' = inbuf \union {d}
    /\ \E left \in {replies \ {t}, replies} : replies' = left
    /\ UNCHANGED <<now, requests, replied, pc, retries, deadline, ntp_response, answered, clock>>

Tick ==
    /\ pc = "select" /\ inbuf = {} /\ now < deadline
    /\ \A t \in replies : now - t < MaxDelay
    /\ now' = now + 1
    /\ UNCHANGED <<netVars, pc, retries, deadline, ntp_response, answered, clock>>

-----------------------------------------------------------------------------
(* The program.                                                             *)
(* Mutant of SendTo: one attempt too many.                                   *)
SendOnceMore ==
    /\ pc = "loop" /\ retries <= MaxRetries
    /\ requests' = requests + 1
    /\ deadline' = now + Timeout
    /\ pc' = "select"
    /\ UNCHANGED <<now, replies, replied, inbuf, retries, ntp_response, answered, clock>>

SendTo ==
    /\ pc = "loop" /\ retries < MaxRetries
    /\ requests' = requests + 1
    /\ deadline' = now + Timeout
    /\ pc' = "select"
    /\ UNCHANGED <<now, replies, replied, inbuf, retries, ntp_response, answered, clock>>

(* sendto fails: break.                                                     *)
SendFails ==
    /\ pc = "loop" /\ retries < MaxRetries
    /\ pc' = "close"
    /\ UNCHANGED <<now, netVars, retries, deadline, ntp_response, answered, clock>>

LoopEnds ==
    /\ pc = "loop" /\ retries = MaxRetries
    /\ pc' = "close"
    /\ UNCHANGED <<now, netVars, retries, deadline, ntp_response, answered, clock>>

(* Mutant of SelectTimeout: select() is called without a timeout.            *)
NoTimeout == FALSE

(* select() returns 0: the next request goes out; a reply to this one may    *)
(* still come.                                                              *)
SelectTimeout ==
    /\ pc = "select" /\ inbuf = {} /\ now = deadline
    /\ retries' = retries + 1
    /\ pc' = "loop"
    /\ UNCHANGED <<now, netVars, deadline, ntp_response, answered, clock>>

SelectFails ==
    /\ pc = "select"
    /\ pc' = "exit"
    /\ UNCHANGED <<now, netVars, retries, deadline, ntp_response, answered, clock>>

(* select() reports the socket readable; memset clears the response.         *)
SelectReady ==
    /\ pc = "select" /\ inbuf # {}
    /\ ntp_response' = 0
    /\ pc' = "recv"
    /\ UNCHANGED <<now, netVars, retries, deadline, answered, clock>>

(* Any datagram is taken for the answer to the last request.                 *)
Recv ==
    /\ pc = "recv"
    /\ \E d \in inbuf :
          /\ inbuf' = inbuf \ {d}
          /\ IF d.stamp = Short
               THEN UNCHANGED <<ntp_response, answered>>
               ELSE ntp_response' = d.stamp /\ answered' = TRUE
    /\ pc' = "close"
    /\ UNCHANGED <<now, requests, replies, replied, retries, deadline, clock>>

(* recvfrom is interrupted: retry.                                          *)
RecvInterrupted ==
    /\ pc = "recv"
    /\ retries' = retries + 1
    /\ pc' = "loop"
    /\ UNCHANGED <<now, netVars, deadline, ntp_response, answered, clock>>

(* The datagram was damaged, so that the readable socket has nothing to read: *)
(* recvfrom returns EAGAIN, break.                                          *)
RecvFails ==
    /\ pc = "recv"
    /\ \E d \in inbuf : inbuf' = inbuf \ {d}
    /\ pc' = "close"
    /\ UNCHANGED <<now, requests, replies, replied, retries, deadline, ntp_response,
                   answered, clock>>

GiveUp ==
    /\ pc = "close" /\ retries = MaxRetries
    /\ pc' = "exit"
    /\ UNCHANGED <<now, netVars, retries, deadline, ntp_response, answered, clock>>

(* Mutants of UnixTime: 32-bit arithmetic; the epochs are mixed up.          *)
UnixTime32(ntp)  == (ntp - Offset) % Wrap
UnixTimeRaw(ntp) == ntp

(* The difference is computed in 64 bits: it is negative for a stamp of 0,   *)
(* and for every stamp of the era that begins when 2^32 wraps round.        *)
UnixTime(ntp) == ntp - Offset

(* Mutant of SetTime: the number of retries is not looked at.                *)
SetTimeAnyway ==
    /\ pc = "close"
    /\ \E ntp \in IF ntp_response = Garbage THEN 0 .. Wrap - 1 ELSE {ntp_response} :
          clock' = IF UnixTime(ntp) >= 0 THEN UnixTime(ntp) ELSE clock
    /\ pc' = "exit"
    /\ UNCHANGED <<now, netVars, retries, deadline, ntp_response, answered>>

(* settimeofday refuses a negative time.  What garbage says is any number.   *)
SetTime ==
    /\ pc = "close" /\ retries < MaxRetries
    /\ \E ntp \in IF ntp_response = Garbage THEN 0 .. Wrap - 1 ELSE {ntp_response} :
          clock' = IF UnixTime(ntp) >= 0 THEN UnixTime(ntp) ELSE clock
    /\ pc' = "exit"
    /\ UNCHANGED <<now, netVars, retries, deadline, ntp_response, answered>>

Network == pc # "exit" /\ (Answer \/ Lose \/ \E t \in replies : Arrive(t))
Program == \/ SendTo \/ SendFails \/ LoopEnds \/ SelectTimeout \/ SelectFails
           \/ SelectReady \/ Recv \/ RecvInterrupted \/ RecvFails \/ GiveUp \/ SetTime
Next == Network \/ Tick \/ Program

Spec == Init /\ [][Next]_vars

(* The program runs, and time passes: a reply that has travelled for         *)
(* MaxDelay arrives or is lost.  No call has to fail.                       *)
Proceeds == SendTo \/ LoopEnds \/ SelectTimeout \/ SelectReady \/ Recv \/ GiveUp \/ SetTime
FairSpec == Spec /\ WF_vars(Proceeds) /\ WF_vars(Tick) /\ WF_vars(Network)

-----------------------------------------------------------------------------
TypeOK ==
    /\ now \in Nat /\ deadline \in Nat
    /\ requests \in 0 .. MaxRetries /\ replied \in 0 .. MaxReplies
    /\ replies \subseteq Nat
    /\ inbuf \subseteq [at : Nat, stamp : Short .. Wrap - 1]
    /\ pc \in {"loop", "select", "recv", "close", "exit"}
    /\ retries \in 0 .. MaxRetries
    /\ ntp_response \in Garbage .. Wrap - 1
    /\ answered \in BOOLEAN
    /\ clock \in NotSet .. Wrap - 1

(* When a reply was received, the clock is set to a time at most the delay   *)
(* of the network in the past, also by the late reply to an earlier request; *)
(* in the era after the time stamps wrap round it is not set at all.  Only   *)
(* when the time of Unix itself no longer fits in 32 bits are the two eras   *)
(* mistaken for each other, and the clock goes back by 2^32 seconds.        *)
CloseToServer ==
    answered /\ clock # NotSet /\ now < Wrap => clock <= now /\ now <= clock + MaxDelay

(* Without a reply the clock is touched on one path only: sendto failed when *)
(* the response had not even been cleared.                                  *)
UnansweredOnlyByGarbage == clock # NotSet /\ ~answered => ntp_response = Garbage

(* The program gives up only after it has waited through every timeout or    *)
(* was interrupted, and then it leaves the clock alone.                     *)
GivesUpUntouched == pc = "exit" /\ retries = MaxRetries => clock = NotSet /\ ~answered

(* The program ends, whatever becomes of its datagrams.                      *)
Terminates == <>(pc = "exit")

-----------------------------------------------------------------------------
(* The inductive invariant behind these, which TimeSyncProofs proves.        *)
(* A datagram is younger than the delay of the network when it arrives, and  *)
(* time does not pass while one waits to be read.                           *)
Recent(t) == t <= now /\ now <= t + MaxDelay

Fresh ==
    /\ \A t \in replies : Recent(t)
    /\ \A d \in inbuf : Recent(d.at) /\ d.stamp \in {Short, Stamp(d.at)}

(* Each attempt sends one request.                                           *)
Attempts ==
    /\ pc = "loop" => requests <= retries
    /\ pc \in {"select", "recv"} => retries < MaxRetries /\ requests <= retries + 1

(* What the response holds.  The first one received ends the loop.           *)
Response ==
    IF answered
      THEN /\ pc \in {"close", "exit"} /\ retries < MaxRetries
           /\ \E t \in 0 .. now : Recent(t) /\ ntp_response = Stamp(t)
      ELSE ntp_response \in {Garbage, 0}

(* How the clock came to be set.                                             *)
ClockSet ==
    clock # NotSet =>
        /\ pc = "exit" /\ retries < MaxRetries
        /\ IF answered THEN clock = UnixTime(ntp_response) ELSE ntp_response = Garbage

IInv == TypeOK /\ Fresh /\ Attempts /\ Response /\ ClockSet

-----------------------------------------------------------------------------
(* "use NTP to get network time from ntp1.aliyun.com" (README.md:13): the     *)
(* clock is set to a time that came from the server.                        *)
TimeFromServer == clock # NotSet => answered
=============================================================================
