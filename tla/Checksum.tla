------------------------------ MODULE Checksum ------------------------------
(* The checksum of net_ctrl.c that the CRC has replaced.  A byte is a number   *)
(* below 256; the element i of the code's array is the element i + 1 here.    *)
EXTENDS Integers, Sequences

(* calculate_checksum, whose calls are commented out.  The loop takes two    *)
(* bytes at a time; with an odd length its last word has the byte next,      *)
(* which lies behind the data, and the last byte is then added once more.   *)
(* Two folds are enough for less than 65536 words.  Mutant of Fold16: the    *)
(* carry of the first fold is lost.                                         *)
FoldOnce(sum) == (sum % 65536) + (sum \div 65536)

Fold16(sum) == LET once == (sum % 65536) + (sum \div 65536)
               IN  (once % 65536) + (once \div 65536)

SumOf(words) ==
    LET sum[k \in 0 .. Len(words)] == IF k = 0 THEN 0 ELSE sum[k - 1] + words[k]
    IN  sum[Len(words)]

Words(data) == [i \in 1 .. Len(data) \div 2 |-> data[2 * i - 1] * 256 + data[2 * i]]

calculate_checksum(data, next) ==
    LET odd == Len(data) % 2 = 1
        sum == SumOf(Words(IF odd THEN Append(data, next) ELSE data))
                 + IF odd THEN data[Len(data)] * 256 ELSE 0
    IN  (65535 - Fold16(sum)) % 256
=============================================================================
