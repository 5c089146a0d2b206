--------------------------- MODULE MCControlServer ---------------------------
(* ControlServer with the bytes of the packets: the answer with a cover state  *)
(* is serialized as in server_thread, and strlen counts it up to its first    *)
(* zero byte.                                                               *)
EXTENDS ControlServer

P == INSTANCE Packets

SerializedState ==
    [state \in {COVER_OFF, COVER_ON} |->
        LET message == P!StateMessage(state)
        IN  [size |-> P!Strlen(P!serialize_control_packet(message)), length |-> message.length]]
=============================================================================
