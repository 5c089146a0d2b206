------------------------------- MODULE Packets -------------------------------
(***************************************************************************)
(* The bytes of the socket demo's packets: the CRC, the control packet and    *)
(* the heartbeat, and the big-endian helpers of common.c.  A byte is a number *)
(* below 256; arrays are sequences, so that the element i of the code's array *)
(* is the element i + 1 here.                                               *)
(***************************************************************************)
EXTENDS Integers, Sequences, SequencesExt, Bitwise

Byte == 0 .. 255

crc8Table == <<
      0,   7,  14,   9,  28,  27,  18,  21,  56,  63,  54,  49,  36,  35,  42,  45,
    112, 119, 126, 121, 108, 107,  98, 101,  72,  79,  70,  65,  84,  83,  90,  93,
    224, 231, 238, 233, 252, 251, 242, 245, 216, 223, 214, 209, 196, 195, 202, 205,
    144, 151, 158, 153, 140, 139, 130, 133, 168, 175, 166, 161, 180, 179, 186, 189,
    199, 192, 201, 206, 219, 220, 213, 210, 255, 248, 241, 246, 227, 228, 237, 234,
    183, 176, 185, 190, 171, 172, 165, 162, 143, 136, 129, 134, 147, 148, 157, 154,
     39,  32,  41,  46,  59,  60,  53,  50,  31,  24,  17,  22,   3,   4,  13,  10,
     87,  80,  89,  94,  75,  76,  69,  66, 111, 104,  97, 102, 115, 116, 125, 122,
    137, 142, 135, 128, 149, 146, 155, 156, 177, 182, 191, 184, 173, 170, 163, 164,
    249, 254, 247, 240, 229, 226, 235, 236, 193, 198, 207, 200, 221, 218, 211, 212,
    105, 110, 103,  96, 117, 114, 123, 124,  81,  86,  95,  88,  77,  74,  67,  68,
     25,  30,  23,  16,   5,   2,  11,  12,  33,  38,  47,  40,  61,  58,  51,  52,
     78,  73,  64,  71,  82,  85,  92,  91, 118, 113, 120, 127, 106, 109, 100,  99,
     62,  57,  48,  55,  34,  37,  44,  43,   6,   1,   8,  15,  26,  29,  20,  19,
    174, 169, 160, 167, 178, 181, 188, 187, 150, 145, 152, 159, 138, 141, 132, 131,
    222, 217, 208, 215, 194, 197, 204, 203, 230, 225, 232, 239, 250, 253, 244, 243
    >>

(* Mutant of CalculateCRC8: the byte is not mixed into the state.            *)
CRC8WithoutState(data) == FoldLeft(LAMBDA crc, byte : crc8Table[byte + 1], 0, data)

CalculateCRC8(data) == FoldLeft(LAMBDA crc, byte : crc8Table[(crc ^^ byte) + 1], 0, data)

-----------------------------------------------------------------------------
(* common.c: the low n bytes of a value, the most significant one first, and *)
(* the value of n bytes.  PutByteStream and SaveInBigEndian write the same   *)
(* bytes, GetByteStream and ExtractFromBigEndian read the same value; the   *)
(* stream functions move an offset on, unless GetByteStream refuses more than *)
(* eight bytes or a NULL stream, for which <<>> stands: it returns -1, which  *)
(* is 2^64 - 1 in a uint64_t.  Mutant: the lowest byte first.                *)
SaveLowestFirst(value, n) == [i \in 1 .. n |-> (value \div 256 ^ (i - 1)) % 256]

SaveInBigEndian(value, n) == [i \in 1 .. n |-> (value \div 256 ^ (n - i)) % 256]

ExtractFromBigEndian(array, n) ==
    FoldLeft(LAMBDA result, byte : result * 256 + byte, 0, SubSeq(array, 1, n))

PutByteStream(stream, value, n, offset) ==
    [stream |-> [i \in DOMAIN stream |->
                   IF i \in offset + 1 .. offset + n
                     THEN SaveInBigEndian(value, n)[i - offset] ELSE stream[i]],
     offset |-> offset + n]

GetByteStream(stream, n, offset) ==
    IF stream = <<>> \/ n > 8 THEN [value |-> -1, offset |-> offset]
    ELSE [value  |-> ExtractFromBigEndian(SubSeq(stream, offset + 1, offset + n), n),
          offset |-> offset + n]

-----------------------------------------------------------------------------
(* A control packet: type, length and command of two bytes each, and the     *)
(* CRC of these six in two bytes of its own.  The field of the struct has    *)
(* one byte, so the higher one is sent as 0 and not looked at on receipt.   *)
Fields(p) == SaveInBigEndian(p.type, 2) \o SaveInBigEndian(p.length, 2)
                \o SaveInBigEndian(p.command, 2)

serialize_control_packet(p) == Fields(p) \o <<0, CalculateCRC8(Fields(p))>>

deserialize_control_packet(buffer) ==
    [type     |-> buffer[1] * 256 + buffer[2],
     length   |-> buffer[3] * 256 + buffer[4],
     command  |-> buffer[5] * 256 + buffer[6],
     checksum |-> (buffer[7] * 256 + buffer[8]) % 256]

(* What server_thread accepts.                                               *)
Valid(buffer) ==
    CalculateCRC8(SubSeq(buffer, 1, 6)) = deserialize_control_packet(buffer).checksum

PACK_TYPE_MESG == 256
PACK_TYPE_HERT == 258
COVER_OFF == 0
COVER_ON  == 1

(* The answer to CONTROL_GET_COVER_STATE.                                    *)
StateMessage(cover_state) ==
    [type |-> PACK_TYPE_MESG, length |-> 8 - 4, command |-> cover_state]

(* The heartbeat of client_thread, written piece by piece into send_buffer.  *)
Heartbeat(cover_state) ==
    LET a == PutByteStream([i \in 1 .. 6 |-> 0], PACK_TYPE_HERT, 2, 0)
        b == PutByteStream(a.stream, 6, 2, a.offset)
        c == PutByteStream(b.stream, cover_state, 1, b.offset)
        d == PutByteStream(c.stream, CalculateCRC8(SubSeq(c.stream, 1, 5)), 1, c.offset)
    IN  d.stream

(* strlen, by which server_thread measures its answers: the number of bytes    *)
(* before the first zero.                                                   *)
Strlen(bytes) ==
    LET z == SelectInSeq(bytes, LAMBDA byte : byte = 0)
    IN  IF z = 0 THEN Len(bytes) ELSE z - 1
=============================================================================
