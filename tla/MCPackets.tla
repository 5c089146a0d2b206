------------------------------ MODULE MCPackets ------------------------------
(* Packets checked against reference definitions, for every sequence of     *)
(* bytes out of four.                                                       *)
EXTENDS MCInputs, Packets

(* The remainder of the division by x^8 + x^2 + x + 1, bit by bit.           *)
Shift(crc) == IF crc >= 128 THEN ((crc * 2) % 256) ^^ 7 ELSE crc * 2
ShiftByte(crc) == Shift(Shift(Shift(Shift(Shift(Shift(Shift(Shift(crc))))))))
Remainder(array) == FoldLeft(LAMBDA crc, byte : ShiftByte(crc ^^ byte), 0, array)

(* The table-driven CRC of the packets is the CRC-8 of the polynomial 0x07:  *)
(* a wrong entry of the table would let damaged packets through.            *)
CrcIsPolynomial == CalculateCRC8(bytes) = Remainder(bytes)

Flip(array, bit) ==
    [array EXCEPT ![bit \div 8 + 1] = @ ^^ (2 ^ (bit % 8))]

(* A packet with one flipped bit is refused, and so is one with two, except   *)
(* where the receiver does not look: at the higher byte of the checksum.    *)
DamageIsDetected ==
    Len(bytes) = 6 =>
        LET packet == bytes \o <<0, CalculateCRC8(bytes)>>
            looked == (0 .. 47) \union (56 .. 63)
        IN  /\ Valid(packet)
            /\ \A b \in looked : ~Valid(Flip(packet, b))
            /\ bytes[6] \in {0, 161} /\ bytes[1] = 1 /\ bytes[3] = 0 =>
                 \A b, c \in looked : b < c => ~Valid(Flip(Flip(packet, b), c))

(* What was serialized is what is deserialized, the stream helpers of        *)
(* common.c agree with the array helpers wherever the field lies, also behind  *)
(* a read that was refused, and a heartbeat is as long as it says.           *)
RoundTrip ==
    Len(bytes) = 6 =>
        LET p == [type |-> ExtractFromBigEndian(bytes, 2),
                  length |-> GetByteStream(bytes, 2, 2).value,
                  command |-> GetByteStream(bytes, 2, 4).value]
            buffer == serialize_control_packet(p)
            q == deserialize_control_packet(buffer)
            beat == Heartbeat(bytes[5])
            refused == GetByteStream(beat, 9, 2)
        IN  /\ SubSeq(buffer, 1, 6) = bytes
            /\ q.type = p.type /\ q.length = p.length /\ q.command = p.command
            /\ PutByteStream(buffer, p.command, 2, 4).stream = buffer
            /\ GetByteStream(beat, 2, 0).value = PACK_TYPE_HERT
            /\ refused.value = -1
            /\ GetByteStream(beat, 2, refused.offset).value = Len(beat)
            /\ CalculateCRC8(beat) = 0

(* A packet arrives as it was sent, or is refused.                           *)
PacketsIntact == CrcIsPolynomial /\ DamageIsDetected /\ RoundTrip
=============================================================================
