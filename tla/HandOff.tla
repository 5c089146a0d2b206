------------------------------- MODULE HandOff -------------------------------
(***************************************************************************)
(* What the hand-off of connections promises, without the array and its     *)
(* counters: a bounded first-in first-out queue in front of one server.     *)
(*                                                                         *)
(* The promise has a breaking point, which mode makes explicit:             *)
(*   "sound"    the queue is a queue;                                       *)
(*   "phantom"  the server has taken the initialiser's -1: connections are  *)
(*              neither lost for good nor served in order any more, and the *)
(*              capacity is blurred;                                        *)
(*   "wedged"   a connection was lost to the race on its slot: nothing is   *)
(*              served any more.                                            *)
(* A mode is never left for an earlier one.                                 *)
(***************************************************************************)
EXTENDS Integers, FiniteSets

CONSTANTS
    Capacity,    \* how many connections may wait
    MaxAccepts   \* bound: how many connections arrive

VARIABLES
    status,      \* what has become of each connection
    mode

vars == <<status, mode>>

Connections == 1 .. MaxAccepts
Statuses    == {"backlog", "accepted", "queued", "serving", "served", "refused", "lost"}

Are(s)     == {c \in Connections : status[c] = s}
Move(c, s) == status' = [status EXCEPT ![c] = s]

Init == status = [c \in Connections |-> "backlog"] /\ mode = "sound"

(* The accept loop has one connection at a time, in the order of arrival.    *)
Arrive(c) ==
    /\ Are("accepted") = {}
    /\ status[c] = "backlog"
    /\ \A b \in 1 .. c - 1 : status[b] # "backlog"
    /\ Move(c, "accepted")
    /\ UNCHANGED mode

Enqueue(c) ==
    /\ status[c] = "accepted"
    /\ mode = "sound" => Cardinality(Are("queued")) < Capacity
    /\ Move(c, "queued")
    /\ UNCHANGED mode

(* Only a server that is off by one slot leaves a connection behind where    *)
(* the accept loop can overwrite it.                                        *)
EnqueueOver(c, victim) ==
    /\ status[c] = "accepted"
    /\ status[victim] = "queued"
    /\ mode # "sound"
    /\ status' = [status EXCEPT ![c] = "queued", ![victim] = "lost"]
    /\ mode' \in {mode, "wedged"}

(* A connection is turned away only when the queue is full.                  *)
Refuse(c) ==
    /\ status[c] = "accepted"
    /\ mode = "sound" => Cardinality(Are("queued")) = Capacity
    /\ Move(c, "refused")
    /\ UNCHANGED mode

(* First in, first out, one at a time.                                       *)
Serve(c) ==
    /\ status[c] = "queued"
    /\ Are("serving") = {}
    /\ mode # "wedged"
    /\ mode = "sound" => \A d \in Are("queued") : c <= d
    /\ Move(c, "serving")
    /\ UNCHANGED mode

Finish(c) ==
    /\ status[c] = "serving"
    /\ Move(c, "served")
    /\ UNCHANGED mode

(* The race on the slot.  In sound mode it is fatal.                         *)
Lose(c) ==
    /\ status[c] = "queued"
    /\ Move(c, "lost")
    /\ IF mode = "sound" THEN mode' = "wedged" ELSE mode' \in {mode, "wedged"}

TakePhantom == mode = "sound" /\ mode' = "phantom" /\ UNCHANGED status

Next ==
    \/ \E c \in Connections :
          \/ Arrive(c) \/ Enqueue(c) \/ Refuse(c) \/ Serve(c) \/ Finish(c) \/ Lose(c)
          \/ \E victim \in Connections : EnqueueOver(c, victim)
    \/ TakePhantom

Spec == Init /\ [][Next]_vars
=============================================================================
