----------------------------- MODULE MCChecksum -----------------------------
(* The checksum against a reference definition, on every sequence of bytes.   *)
EXTENDS MCInputs, Checksum

(* The sum of 16-bit words in ones' complement: each carry comes back in at   *)
(* the low end at once.                                                     *)
OnesSum(words) ==
    LET plus(a, b) == IF a + b > 65535 THEN a + b - 65535 ELSE a + b
        sum[k \in 0 .. Len(words)] == IF k = 0 THEN 0 ELSE plus(sum[k - 1], words[k])
    IN  sum[Len(words)]

(* For an even number of bytes calculate_checksum is the low byte of the       *)
(* Internet checksum, whatever lies behind them: folding the carries of the   *)
(* whole sum afterwards loses none.                                         *)
ChecksumByWords ==
    Len(bytes) % 2 = 0 =>
        \A next \in {0, 255} :
            calculate_checksum(bytes, next) = (65535 - OnesSum(Words(bytes))) % 256

(* "如果数据长度是奇数，则处理最后一个字节" (net_ctrl.c:63): the last one of an odd   *)
(* number of bytes is dealt with there, as the high byte of a word of its own: *)
(* it counts as if a zero were behind it, whatever is.                       *)
LastByteHandled ==
    Len(bytes) % 2 = 1 =>
        \A next \in {0, 255} :
            calculate_checksum(bytes, next) = calculate_checksum(Append(bytes, 0), next)
=============================================================================
