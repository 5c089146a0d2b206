------------------------------- MODULE MCInputs -------------------------------
(* Every sequence of up to MaxLen symbols out of four: the inputs on which    *)
(* the modules of pure functions are checked.  Each check reads the symbols   *)
(* as the bytes, characters, numbers or nodes that its function takes.       *)
EXTENDS Integers, Sequences, SequencesExt

CONSTANT MaxLen

ASSUME InputAssumption == MaxLen \in Nat

VARIABLE data

Init == data = <<>>
Next == Len(data) < MaxLen /\ \E symbol \in 1 .. 4 : data' = Append(data, symbol)
Spec == Init /\ [][Next]_data

(* The input, with alphabet[i] for the symbol i.                             *)
Read(alphabet) == [i \in DOMAIN data |-> alphabet[data[i]]]

bytes == Read(<<0, 1, 161, 255>>)

Cuts == 0 .. Len(data)
UpTo(s, cut)   == SubSeq(s, 1, cut)
Behind(s, cut) == SubSeq(s, cut + 1, Len(s))
=============================================================================
