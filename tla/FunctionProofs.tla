---------------------------- MODULE FunctionProofs ----------------------------
(***************************************************************************)
(* Proofs about the pure functions, on inputs of any length: the checksum,    *)
(* the exercises on linked lists and on searching, and the helpers on lines   *)
(* and query strings.                                                        *)
(*                                                                         *)
(* What a loop computes is proved by induction on its turns.  A set of        *)
(* natural numbers stands for the induction's formula: the turns after which  *)
(* the loop is in the state it should be in.                                 *)
(***************************************************************************)
EXTENDS MCAlgorithm, MCChecksum, MCHttpHelpers, FiniteSetTheorems, WellFoundedInduction, TLAPS

(* A set of natural numbers that is not empty has a least member.            *)
LEMMA Least ==
  ASSUME NEW S, S \subseteq Nat, S # {}
  PROVE  \E x \in S : \A y \in S : x <= y
<1> DEFINE Less == OpToRel(<, Nat)
<1>1. \A x, y \in Nat : y < x => <<y, x>> \in Less
  BY DEF OpToRel
<1>2. IsWellFoundedOn(Less, Nat)
  BY NatLessThanWellFounded
<1> HIDE DEF Less
<1>3. PICK x \in S : \A y \in S : ~(<<y, x>> \in Less)
  BY <1>2, WFMin
<1>4. \A y \in S : x <= y
  <2> SUFFICES ASSUME NEW y \in S PROVE x <= y
    OBVIOUS
  <2>1. x \in Nat /\ y \in Nat /\ ~(y < x)
    BY <1>1, <1>3
  <2> QED BY <2>1
<1> QED BY <1>4

(* Induction over the turns of a loop.                                       *)
LEMMA EveryTurn ==
  ASSUME NEW n \in Nat, NEW S, 0 \in S, \A k \in 1 .. n : k - 1 \in S => k \in S
  PROVE  0 .. n \subseteq S
<1> SUFFICES ASSUME 0 .. n \ S # {} PROVE FALSE
  OBVIOUS
<1>1. PICK x \in 0 .. n \ S : \A y \in 0 .. n \ S : x <= y
  <2>1. 0 .. n \ S \subseteq Nat
    OBVIOUS
  <2> QED BY <2>1, Least
<1>2. x \in 1 .. n /\ x - 1 \in 0 .. n /\ ~(x <= x - 1)
  BY <1>1
<1>3. x - 1 \in S
  BY <1>1, <1>2
<1> QED BY <1>1, <1>2, <1>3

(* The input is a sequence of the four symbols.                              *)
InputType == data \in Seq(1 .. 4) /\ Len(data) <= MaxLen

LEMMA InputTyped == Spec => []InputType
<1>1. Init => InputType
  BY InputAssumption DEF Init, InputType
<1>2. InputType /\ [Next]_data => InputType'
  <2> SUFFICES ASSUME InputType, [Next]_data PROVE InputType'
    OBVIOUS
  <2> USE DEF InputType
  <2>1. CASE data' = data
    BY <2>1
  <2>2. ASSUME NEW symbol \in 1 .. 4, Len(data) < MaxLen, data' = Append(data, symbol)
        PROVE  InputType'
    <3>1. Append(data, symbol) \in Seq(1 .. 4) /\ Len(Append(data, symbol)) <= MaxLen
      BY <2>2, InputAssumption
    <3> QED BY <2>2, <3>1
  <2> QED BY <2>1, <2>2 DEF Next
<1> QED BY <1>1, <1>2, PTL DEF Spec

-----------------------------------------------------------------------------
(* A loop has a state after each of its turns.                               *)
HasTurns(X, s, n, f) ==
    \E g \in [0 .. n -> X] : g[0] = s /\ \A k \in 1 .. n : g[k] = f[<<g[k - 1], k>>]

LEMMA Recursion ==
  ASSUME NEW X, NEW s \in X, NEW n \in Nat, NEW f \in [X \X (1 .. n) -> X]
  PROVE  HasTurns(X, s, n, f)
<1> DEFINE Upwards(k, g) == g[0] = s /\ \A j \in 1 .. k : g[j] = f[<<g[j - 1], j>>]
           S == {k \in 0 .. n : \E g \in [0 .. k -> X] : Upwards(k, g)}
<1>1. 0 \in S
  <2> DEFINE h == [j \in 0 .. 0 |-> s]
  <2>1. h[0] = s /\ h \in [0 .. 0 -> X]
    OBVIOUS
  <2>2. Upwards(0, h)
    BY <2>1
  <2> HIDE DEF h, Upwards
  <2> QED BY <2>1, <2>2
<1>2. ASSUME NEW k \in 1 .. n, k - 1 \in S PROVE k \in S
  <2>1. PICK g \in [0 .. k - 1 -> X] : Upwards(k - 1, g)
    BY <1>2
  <2> DEFINE x == f[<<g[k - 1], k>>]
             h == [j \in 0 .. k |-> IF j = k THEN x ELSE g[j]]
  <2>2. x \in X
    <3>1. g[k - 1] \in X
      OBVIOUS
    <3> HIDE DEF Upwards
    <3> QED BY <3>1
  <2> HIDE DEF x
  <2>3. h \in [0 .. k -> X]
    BY <2>2
  <2>4. ASSUME NEW j \in 1 .. k PROVE h[j] = f[<<h[j - 1], j>>]
    <3>1. CASE j = k
      <4>1. h[k] = x /\ h[k - 1] = g[k - 1]
        OBVIOUS
      <4> QED BY <3>1, <4>1 DEF x
    <3>2. CASE j # k
      BY <2>1, <3>2
    <3> QED BY <3>1, <3>2
  <2>5. h[0] = s
    BY <2>1
  <2>6. Upwards(k, h)
    BY <2>4, <2>5
  <2> HIDE DEF h, Upwards
  <2> QED BY <2>3, <2>6
<1> HIDE DEF S
<1>3. n \in S
  BY <1>1, <1>2, EveryTurn
<1> QED BY <1>3 DEF S, HasTurns

(* Two loops whose turns do the same end in the same state.                  *)
SameUpTo(n, f, g) == \A k \in 0 .. n : f[k] = g[k]

LEMMA SameTurns ==
  ASSUME NEW n \in Nat, NEW f, NEW g, f[0] = g[0],
         \A k \in 1 .. n : f[k - 1] = g[k - 1] => f[k] = g[k]
  PROVE  SameUpTo(n, f, g)
<1> DEFINE S == {k \in 0 .. n : f[k] = g[k]}
<1>1. 0 \in S
  OBVIOUS
<1>2. \A k \in 1 .. n : k - 1 \in S => k \in S
  OBVIOUS
<1> HIDE DEF S
<1>3. 0 .. n \subseteq S
  BY <1>1, <1>2, EveryTurn
<1> QED BY <1>3 DEF S, SameUpTo

-----------------------------------------------------------------------------
(* A word of two bytes.                                                      *)
Word == {x \in Nat : x <= 65535}

(* SumOf adds the words one after the other.                                 *)
LEMMA SumTurns ==
  ASSUME NEW w \in Seq(Nat)
  PROVE  \E g \in [0 .. Len(w) -> Nat] :
            /\ g[0] = 0
            /\ \A k \in 1 .. Len(w) : g[k] = g[k - 1] + w[k]
            /\ SumOf(w) = g[Len(w)]
<1>1. PICK n \in Nat : n = Len(w)
  OBVIOUS
<1> DEFINE Is(f) == f = [k \in 0 .. n |-> IF k = 0 THEN 0 ELSE f[k - 1] + w[k]]
           add == [p \in Nat \X (1 .. n) |-> p[1] + w[p[2]]]
<1>2. add \in [Nat \X (1 .. n) -> Nat]
  BY <1>1
<1>3. PICK g \in [0 .. n -> Nat] : g[0] = 0 /\ \A k \in 1 .. n : g[k] = add[<<g[k - 1], k>>]
  <2> HIDE DEF add
  <2>1. HasTurns(Nat, 0, n, add)
    BY <1>2, Recursion
  <2> QED BY <2>1 DEF HasTurns
<1>4. ASSUME NEW k \in 1 .. n PROVE g[k] = g[k - 1] + w[k]
  <2>1. g[k - 1] \in Nat
    OBVIOUS
  <2> QED BY <1>3, <2>1
<1>5. Is(g)
  BY <1>3, <1>4
<1>6. PICK f : f = CHOOSE h : Is(h)
  OBVIOUS
<1>7. Is(f)
  BY <1>5, <1>6
<1>8. SumOf(w) = f[n]
  BY <1>1, <1>6 DEF SumOf
<1>9. f[n] = g[n]
  <2>1. f[0] = g[0] /\ \A k \in 1 .. n : f[k] = f[k - 1] + w[k]
    BY <1>3, <1>7
  <2>2. \A k \in 1 .. n : f[k - 1] = g[k - 1] => f[k] = g[k]
    BY <1>4, <2>1
  <2> HIDE DEF Is
  <2>3. SameUpTo(n, f, g)
    BY <2>1, <2>2, SameTurns
  <2> QED BY <2>3 DEF SameUpTo
<1> QED BY <1>1, <1>3, <1>4, <1>8, <1>9

(* OnesSum adds them with the carry coming back at once.                     *)
Plus(a, b) == IF a + b > 65535 THEN a + b - 65535 ELSE a + b

LEMMA OnesTurns ==
  ASSUME NEW w \in Seq(Word)
  PROVE  \E g \in [0 .. Len(w) -> Word] :
            /\ g[0] = 0
            /\ \A k \in 1 .. Len(w) : g[k] = Plus(g[k - 1], w[k])
            /\ OnesSum(w) = g[Len(w)]
<1>1. PICK n \in Nat : n = Len(w)
  OBVIOUS
<1>2. \A a, b \in Word : Plus(a, b) \in Word
  BY DEF Word, Plus
<1>3. 0 \in Word
  BY DEF Word
<1> DEFINE Is(f) == f = [k \in 0 .. n |-> IF k = 0 THEN 0 ELSE Plus(f[k - 1], w[k])]
           add == [p \in Word \X (1 .. n) |-> Plus(p[1], w[p[2]])]
<1>4. add \in [Word \X (1 .. n) -> Word]
  BY <1>1, <1>2
<1>5. PICK g \in [0 .. n -> Word] : g[0] = 0 /\ \A k \in 1 .. n : g[k] = add[<<g[k - 1], k>>]
  <2> HIDE DEF add
  <2>1. HasTurns(Word, 0, n, add)
    BY <1>3, <1>4, Recursion
  <2> QED BY <2>1 DEF HasTurns
<1>6. ASSUME NEW k \in 1 .. n PROVE g[k] = Plus(g[k - 1], w[k])
  <2>1. g[k - 1] \in Word
    OBVIOUS
  <2> QED BY <1>5, <2>1
<1>7. Is(g)
  BY <1>5, <1>6
<1>8. PICK f : f = CHOOSE h : Is(h)
  OBVIOUS
<1>9. Is(f)
  BY <1>7, <1>8
<1>10. OnesSum(w) = f[n]
  BY <1>1, <1>8 DEF OnesSum, Plus
<1>11. f[n] = g[n]
  <2>1. f[0] = g[0] /\ \A k \in 1 .. n : f[k] = Plus(f[k - 1], w[k])
    BY <1>5, <1>9
  <2>2. \A k \in 1 .. n : f[k - 1] = g[k - 1] => f[k] = g[k]
    BY <1>6, <2>1
  <2> HIDE DEF Is
  <2>3. SameUpTo(n, f, g)
    BY <2>1, <2>2, SameTurns
  <2> QED BY <2>3 DEF SameUpTo
<1> QED BY <1>1, <1>5, <1>6, <1>10, <1>11


(* What folding leaves of a sum: less by a multiple of 65535, ...             *)
Folds(sum, x) == \E m \in Nat : sum = x + 65535 * m
Fits32(sum)   == sum < 4294967296

LEMMA FoldsLess ==
  ASSUME NEW sum \in Nat, NEW x \in Nat, Folds(sum, x)
  PROVE  x <= sum
<1>1. PICK m \in Nat : sum = x + 65535 * m
  BY SMT DEF Folds
<1> QED BY <1>1, SMT

LEMMA FoldsPlus ==
  ASSUME NEW sum \in Nat, NEW x \in Nat, NEW y \in Nat, Folds(sum, x)
  PROVE  Folds(sum + y, x + y)
<1>1. PICK m \in Nat : sum = x + 65535 * m
  BY SMT DEF Folds
<1>2. \E l \in Nat : sum + y = (x + y) + 65535 * l
  <2> WITNESS m \in Nat
  <2> QED BY <1>1, SMT
<1> QED BY <1>2, SMT DEF Folds

LEMMA FoldsOnce ==
  ASSUME NEW sum \in Nat, NEW x \in Nat, NEW y \in Nat, Folds(sum, x), x = y + 65535
  PROVE  Folds(sum, y)
<1>1. PICK m \in Nat : sum = x + 65535 * m
  BY SMT DEF Folds
<1>2. m + 1 \in Nat /\ sum = y + 65535 * (m + 1)
  BY <1>1, SMT
<1>3. \E l \in Nat : sum = y + 65535 * l
  <2> WITNESS m + 1 \in Nat
  <2> QED BY <1>2, SMT
<1> QED BY <1>3, SMT DEF Folds

(* ... which leaves one word only, as nothing is left of nothing alone.        *)
LEMMA FoldsToOne ==
  ASSUME NEW sum \in Nat, NEW x \in Word, NEW y \in Word,
         Folds(sum, x), Folds(sum, y), x = 0 <=> y = 0
  PROVE  x = y
<1>1. PICK m \in Nat, l \in Nat : sum = x + 65535 * m /\ sum = y + 65535 * l
  BY SMT DEF Folds
<1>2. x \in Nat /\ y \in Nat /\ x <= 65535 /\ y <= 65535
  BY SMT DEF Word
<1>3. x - y = 65535 * (l - m)
  BY <1>1, <1>2, SMT
<1>4. l - m = -1 \/ l - m = 0 \/ l - m = 1
  BY <1>2, <1>3, SMT
<1> QED BY <1>2, <1>3, <1>4, SMT

(* Folding twice takes a sum of 32 bits to one of 16.                        *)
LEMMA FoldedTwice ==
  ASSUME NEW sum \in Nat, Fits32(sum)
  PROVE  Fold16(sum) \in Word /\ (Fold16(sum) = 0 <=> sum = 0) /\ Folds(sum, Fold16(sum))
<1>1. PICK high \in Nat, low \in Nat :
         /\ high = sum \div 65536 /\ low = sum % 65536
         /\ high <= 65535 /\ low <= 65535 /\ sum = 65536 * high + low
  <2>1. /\ sum \div 65536 \in Nat /\ sum % 65536 \in Nat
        /\ sum \div 65536 <= 65535 /\ sum % 65536 <= 65535
        /\ sum = 65536 * (sum \div 65536) + (sum % 65536)
    BY SMT DEF Fits32
  <2> QED BY <2>1, SMT
<1>2. PICK once \in Nat : /\ once = low + high /\ once <= 131070
                          /\ sum = once + 65535 * high /\ (once = 0 <=> sum = 0)
  BY <1>1, SMT
<1>3. PICK carry \in Nat, rest \in Nat :
         /\ carry = once \div 65536 /\ rest = once % 65536
         /\ carry <= 1 /\ rest <= 65535 /\ once = 65536 * carry + rest
  <2>1. /\ once \div 65536 \in Nat /\ once % 65536 \in Nat
        /\ once \div 65536 <= 1 /\ once % 65536 <= 65535
        /\ once = 65536 * (once \div 65536) + (once % 65536)
    BY <1>2, SMT
  <2> QED BY <2>1, SMT
<1>4. Fold16(sum) = rest + carry
  BY <1>1, <1>2, <1>3, SMT DEF Fold16
<1>5. rest + carry \in Nat /\ rest + carry <= 65535 /\ (rest + carry = 0 <=> sum = 0)
  BY <1>2, <1>3, SMT
<1>6. high + carry \in Nat /\ sum = (rest + carry) + 65535 * (high + carry)
  BY <1>1, <1>2, <1>3, SMT
<1> QED BY <1>4, <1>5, <1>6, SMT DEF Word, Folds

(* The sum in ones' complement is what folding can leave of the sum.          *)
LEMMA OnesSumOfSum ==
  ASSUME NEW w \in Seq(Word)
  PROVE  /\ SumOf(w) \in Nat /\ SumOf(w) <= 65535 * Len(w)
         /\ OnesSum(w) \in Word
         /\ OnesSum(w) = 0 <=> SumOf(w) = 0
         /\ Folds(SumOf(w), OnesSum(w))
<1>1. PICK n \in Nat : n = Len(w)
  OBVIOUS
<1>2. w \in Seq(Nat) /\ \A k \in 1 .. n : w[k] \in Nat /\ w[k] <= 65535
  BY <1>1, SMT DEF Word
<1>3. PICK f \in [0 .. n -> Nat] :
         /\ f[0] = 0 /\ SumOf(w) = f[n]
         /\ \A k \in 1 .. n : f[k] = f[k - 1] + w[k]
  BY <1>1, <1>2, SumTurns, SMT
<1>4. PICK g \in [0 .. n -> Word] :
         /\ g[0] = 0 /\ OnesSum(w) = g[n]
         /\ \A k \in 1 .. n : g[k] = Plus(g[k - 1], w[k])
  BY <1>1, OnesTurns, SMT
<1>5. \A k \in 0 .. n : f[k] \in Nat /\ g[k] \in Nat /\ g[k] <= 65535
  BY SMT DEF Word
<1> DEFINE Same(k) == f[k] <= 65535 * k /\ (g[k] = 0 <=> f[k] = 0) /\ Folds(f[k], g[k])
           S == {k \in 0 .. n : Same(k)}
<1>6. 0 \in S
  <2>1. Folds(0, 0)
    BY SMT DEF Folds
  <2>2. f[0] <= 65535 * 0
    BY <1>3, SMT
  <2> QED BY <1>1, <1>3, <1>4, <2>1, <2>2, SMT
<1>7. ASSUME NEW k \in 1 .. n, k - 1 \in S PROVE k \in S
  <2>1. k - 1 \in 0 .. n /\ k \in 0 .. n /\ Same(k - 1)
    BY <1>7, SMT
  <2>2. PICK a \in Nat : a = f[k - 1]
    BY <1>5, <2>1, SMT
  <2>3. PICK b \in Nat : b = g[k - 1] /\ b <= 65535
    BY <1>5, <2>1, SMT
  <2>4. PICK x \in Nat : x = w[k] /\ x <= 65535
    BY <1>2, SMT
  <2>5. a <= 65535 * (k - 1) /\ (b = 0 <=> a = 0) /\ Folds(a, b)
    BY <2>1, <2>2, <2>3
  <2>6. f[k] = a + x /\ g[k] = Plus(b, x)
    BY <1>3, <1>4, <2>2, <2>3, <2>4, SMT
  <2>7. a + x <= 65535 * k
    BY <2>4, <2>5, SMT
  <2>8. b <= a /\ Folds(a + x, b + x)
    <3>1. Folds(a, b)
      BY <2>5
    <3> QED BY <3>1, FoldsLess, FoldsPlus
  <2>9. CASE b + x > 65535
    <3>1. PICK y \in Nat : b + x = y + 65535 /\ y = b + x - 65535 /\ y # 0
      BY <2>9, SMT
    <3>2. Plus(b, x) = y /\ a + x # 0
      BY <2>8, <2>9, <3>1, SMT DEF Plus
    <3>3. Folds(a + x, y)
      <4>1. a + x \in Nat /\ b + x \in Nat
        BY SMT
      <4> QED BY <2>8, <3>1, <4>1, FoldsOnce, SMT
    <3> QED BY <2>1, <2>6, <2>7, <3>1, <3>2, <3>3, SMT
  <2>10. CASE ~(b + x > 65535)
    <3>1. Plus(b, x) = b + x
      BY <2>10, SMT DEF Plus
    <3>2. b + x = 0 <=> a + x = 0
      BY <2>5, SMT
    <3> QED BY <2>1, <2>6, <2>7, <2>8, <3>1, <3>2, SMT
  <2> QED BY <2>9, <2>10
<1> HIDE DEF S
<1>8. \A k \in 1 .. n : k - 1 \in S => k \in S
  BY <1>7
<1>9. 0 .. n \subseteq S
  BY <1>6, <1>8, EveryTurn
<1>10. Same(n)
  BY <1>9, SMT DEF S
<1> QED BY <1>1, <1>3, <1>4, <1>10, SMT

(* Carries that are folded back at the end are as good as carries that come    *)
(* back at once: the sum of calculate_checksum is that of the Internet        *)
(* checksum, as long as it fits its 32 bits.                                *)
THEOREM FoldingLosesNoCarry ==
  ASSUME NEW w \in Seq(Word), Fits32(SumOf(w))
  PROVE  Fold16(SumOf(w)) = OnesSum(w)
<1>1. SumOf(w) \in Nat /\ OnesSum(w) \in Word /\ (OnesSum(w) = 0 <=> SumOf(w) = 0)
      /\ Folds(SumOf(w), OnesSum(w))
  BY OnesSumOfSum, SMT
<1>2. /\ Fold16(SumOf(w)) \in Word /\ (Fold16(SumOf(w)) = 0 <=> SumOf(w) = 0)
      /\ Folds(SumOf(w), Fold16(SumOf(w)))
  BY <1>1, FoldedTwice, SMT
<1> QED BY <1>1, <1>2, FoldsToOne, SMT

LEMMA SumAppend ==
  ASSUME NEW w \in Seq(Nat), NEW x \in Nat
  PROVE  SumOf(Append(w, x)) = SumOf(w) + x
<1>1. PICK n \in Nat : n = Len(w)
  OBVIOUS
<1>2. PICK v \in Seq(Nat) : v = Append(w, x)
  <2>1. Append(w, x) \in Seq(Nat)
    OBVIOUS
  <2> QED BY <2>1
<1>3. Len(v) = n + 1 /\ v[n + 1] = x /\ \A k \in 1 .. n : v[k] = w[k]
  BY <1>1, <1>2
<1>4. PICK f \in [0 .. n -> Nat] :
         f[0] = 0 /\ SumOf(w) = f[n] /\ \A k \in 1 .. n : f[k] = f[k - 1] + w[k]
  BY <1>1, SumTurns
<1>5. PICK g \in [0 .. n + 1 -> Nat] :
         g[0] = 0 /\ SumOf(v) = g[n + 1] /\ \A k \in 1 .. n + 1 : g[k] = g[k - 1] + v[k]
  <2>1. Len(v) = n + 1
    BY <1>3
  <2>2. \E g \in [0 .. Len(v) -> Nat] :
           /\ g[0] = 0
           /\ \A k \in 1 .. Len(v) : g[k] = g[k - 1] + v[k]
           /\ SumOf(v) = g[Len(v)]
    BY SumTurns
  <2> QED BY <2>1, <2>2
<1>6. \A k \in 1 .. n : f[k - 1] = g[k - 1] => f[k] = g[k]
  BY <1>3, <1>4, <1>5
<1>7. SameUpTo(n, f, g)
  BY <1>4, <1>5, <1>6, SameTurns
<1>8. f[n] = g[n]
  BY <1>7 DEF SameUpTo
<1>9. g[n + 1] = g[n] + x
  BY <1>3, <1>5
<1> QED BY <1>2, <1>4, <1>5, <1>8, <1>9

(* The words of the data.                                                    *)
Octet == {x \in Nat : x <= 255}

LEMMA WordsType ==
  ASSUME NEW b \in Seq(Octet)
  PROVE  Words(b) \in Seq(Word) /\ Len(Words(b)) = Len(b) \div 2
<1>1. PICK n \in Nat : n = Len(b) \div 2 /\ 2 * n <= Len(b)
  BY SMT
<1>2. ASSUME NEW i \in 1 .. n PROVE b[2 * i - 1] * 256 + b[2 * i] \in Word
  <2>1. 2 * i - 1 \in 1 .. Len(b) /\ 2 * i \in 1 .. Len(b)
    BY <1>1, SMT
  <2>2. b[2 * i - 1] \in Octet /\ b[2 * i] \in Octet
    BY <2>1, SMT
  <2> QED BY <2>2, SMT DEF Octet, Word
<1>3. Words(b) = [i \in 1 .. n |-> b[2 * i - 1] * 256 + b[2 * i]]
  BY <1>1, SMT DEF Words
<1> QED BY <1>1, <1>2, <1>3, SMT

(* calculate_checksum of any bytes, and of the one behind them.               *)
Short(b) == Len(b) <= 131072

LEMMA AppendIs ==
  ASSUME NEW S, NEW w \in Seq(S), NEW x \in S
  PROVE  Append(w, x) = [i \in 1 .. Len(w) + 1 |-> IF i = Len(w) + 1 THEN x ELSE w[i]]
<1>1. PICK v \in Seq(S) : v = Append(w, x)
  <2>1. Append(w, x) \in Seq(S)
    OBVIOUS
  <2> QED BY <2>1
<1>2. Len(v) = Len(w) + 1 /\ v[Len(w) + 1] = x /\ \A i \in 1 .. Len(w) : v[i] = w[i]
  BY <1>1
<1>3. v = [i \in 1 .. Len(v) |-> v[i]]
  OBVIOUS
<1>4. v = [i \in 1 .. Len(w) + 1 |-> IF i = Len(w) + 1 THEN x ELSE w[i]]
  BY <1>2, <1>3
<1> QED BY <1>1, <1>4

LEMMA EvenChecksum ==
  ASSUME NEW b \in Seq(Octet), Short(b), NEW next, Len(b) % 2 = 0
  PROVE  calculate_checksum(b, next) = (65535 - OnesSum(Words(b))) % 256
<1>1. PICK w \in Seq(Word) : w = Words(b) /\ Len(w) <= 65536
  <2>1. Words(b) \in Seq(Word) /\ Len(Words(b)) = Len(b) \div 2
    BY WordsType
  <2> QED BY <2>1, SMT DEF Short
<1>2. SumOf(w) \in Nat /\ SumOf(w) <= 65535 * Len(w)
  BY OnesSumOfSum, SMT
<1>3. Fits32(SumOf(w))
  BY <1>1, <1>2, SMT DEF Fits32
<1>4. Fold16(SumOf(w)) = OnesSum(w)
  BY <1>3, FoldingLosesNoCarry
<1>5. SumOf(w) + 0 = SumOf(w)
  BY <1>2, SMT
<1>6. calculate_checksum(b, next) = (65535 - Fold16(SumOf(w))) % 256
  BY <1>1, <1>5, SMT DEF calculate_checksum
<1> QED BY <1>1, <1>4, <1>6, SMT

LEMMA OddWords ==
  ASSUME NEW b \in Seq(Octet), NEW next \in Octet, NEW last \in Octet, Len(b) % 2 = 1
  PROVE  Words(b \o <<next, last, 0>>) = Append(Words(Append(b, next)), last * 256)
<1>1. 0 \in Octet /\ last \in Nat
  BY DEF Octet
<1>2. PICK n \in Nat : Len(b) = 2 * n + 1
  OBVIOUS
<1> DEFINE c == Append(b, next)
           d == b \o <<next, last, 0>>
           w == Words(c)
<1>3. c \in Seq(Octet) /\ Len(c) = 2 * n + 2
  BY <1>2
<1>4. d \in Seq(Octet) /\ Len(d) = 2 * n + 4
  BY <1>1, <1>2
<1>5. \A i \in 1 .. 2 * n + 2 : d[i] = c[i]
  BY <1>1, <1>2
<1>6. d[2 * n + 3] = last /\ d[2 * n + 4] = 0
  BY <1>1, <1>2
<1> HIDE DEF c, d
<1>7. Words(d) = [i \in 1 .. n + 2 |-> d[2 * i - 1] * 256 + d[2 * i]]
  <2>1. Len(d) \div 2 = n + 2
    BY <1>4
  <2> QED BY <2>1 DEF Words
<1>8. w = [i \in 1 .. n + 1 |-> c[2 * i - 1] * 256 + c[2 * i]]
  <2>1. Len(c) \div 2 = n + 1
    BY <1>3
  <2> QED BY <2>1 DEF Words
<1>9. w \in Seq(Nat) /\ Len(w) = n + 1 /\ last * 256 \in Nat
  <2>1. w \in Seq(Word) /\ Len(w) = Len(c) \div 2
    BY <1>3, WordsType
  <2>2. Len(c) \div 2 = n + 1
    BY <1>3
  <2> HIDE DEF w
  <2>3. w \in Seq(Nat)
    BY <2>1, SMT DEF Word
  <2> QED BY <1>1, <2>1, <2>2, <2>3
<1>10. ASSUME NEW i \in 1 .. n + 2
       PROVE  d[2 * i - 1] * 256 + d[2 * i] = IF i = n + 2 THEN last * 256 ELSE w[i]
  <2>1. CASE i = n + 2
    <3>1. 2 * i - 1 = 2 * n + 3 /\ 2 * i = 2 * n + 4
      BY <2>1
    <3> QED BY <1>1, <1>6, <2>1, <3>1
  <2>2. CASE i # n + 2
    <3>1. i \in 1 .. n + 1 /\ 2 * i - 1 \in 1 .. 2 * n + 2 /\ 2 * i \in 1 .. 2 * n + 2
      BY <2>2
    <3>2. w[i] = c[2 * i - 1] * 256 + c[2 * i]
      BY <1>8, <3>1
    <3>3. d[2 * i - 1] = c[2 * i - 1] /\ d[2 * i] = c[2 * i]
      BY <1>5, <3>1
    <3> HIDE DEF w
    <3> QED BY <2>2, <3>2, <3>3
  <2> QED BY <2>1, <2>2
<1> HIDE DEF w
<1>11. Append(w, last * 256) = [i \in 1 .. n + 2 |-> IF i = n + 2 THEN last * 256 ELSE w[i]]
  <2>1. Len(w) + 1 = n + 2
    BY <1>9
  <2>2. Append(w, last * 256) = [i \in 1 .. Len(w) + 1 |-> IF i = Len(w) + 1 THEN last * 256 ELSE w[i]]
    BY <1>9, AppendIs
  <2> QED BY <2>1, <2>2
<1>12. Words(d) = Append(w, last * 256)
  <2> DEFINE Left(i) == d[2 * i - 1] * 256 + d[2 * i]
             Right(i) == IF i = n + 2 THEN last * 256 ELSE w[i]
  <2>1. \A i \in 1 .. n + 2 : Left(i) = Right(i)
    BY <1>10
  <2>2. Words(d) = [i \in 1 .. n + 2 |-> Left(i)]
    BY <1>7
  <2>3. Append(w, last * 256) = [i \in 1 .. n + 2 |-> Right(i)]
    BY <1>11
  <2> HIDE DEF Left, Right
  <2> QED BY <2>1, <2>2, <2>3
<1> QED BY <1>12 DEF c, d, w

LEMMA OddChecksum ==
  ASSUME NEW b \in Seq(Octet), Short(b), NEW next \in Octet, Len(b) % 2 = 1
  PROVE  calculate_checksum(b, next)
           = (65535 - OnesSum(Words(b \o <<next, b[Len(b)], 0>>))) % 256
<1>1. PICK last \in Octet : last = b[Len(b)]
  <2>1. Len(b) # 0
    BY SMT
  <2>2. Len(b) \in 1 .. Len(b)
    BY <2>1, SMT
  <2>3. b[Len(b)] \in Octet
    BY <2>2, SMT
  <2> QED BY <2>3, SMT
<1>2. PICK c \in Seq(Octet) : c = Append(b, next)
  <2>1. Append(b, next) \in Seq(Octet)
    BY SMT
  <2> QED BY <2>1
<1>3. PICK w \in Seq(Word) : w = Words(c) /\ Len(w) <= 65536
  <2>1. Words(c) \in Seq(Word) /\ Len(Words(c)) = Len(c) \div 2
    BY WordsType
  <2>2. Len(c) = Len(b) + 1
    BY <1>2, SMT
  <2> QED BY <2>1, <2>2, SMT DEF Short
<1>4. PICK x \in Word : x = last * 256
  BY SMT DEF Octet, Word
<1>5. PICK v \in Seq(Word) : v = Append(w, x) /\ Len(v) = Len(w) + 1
  <2>1. Append(w, x) \in Seq(Word) /\ Len(Append(w, x)) = Len(w) + 1
    BY SMT
  <2> QED BY <2>1
<1>6. v = Words(b \o <<next, last, 0>>)
  BY <1>2, <1>3, <1>4, <1>5, OddWords
<1>7. SumOf(v) = SumOf(w) + x
  <2>1. w \in Seq(Nat) /\ x \in Nat
    BY SMT DEF Word
  <2> QED BY <1>5, <2>1, SumAppend
<1>8. SumOf(v) \in Nat /\ SumOf(v) <= 65535 * Len(v)
  BY OnesSumOfSum, SMT
<1>9. Fits32(SumOf(v))
  BY <1>3, <1>5, <1>8, SMT DEF Fits32
<1>10. Fold16(SumOf(v)) = OnesSum(v)
  BY <1>9, FoldingLosesNoCarry
<1>11. calculate_checksum(b, next) = (65535 - Fold16(SumOf(w) + x)) % 256
  BY <1>1, <1>2, <1>3, <1>4, SMT DEF calculate_checksum
<1> QED BY <1>1, <1>6, <1>7, <1>10, <1>11, SMT

(* calculate_checksum, of any bytes up to 2^17 of them: the low byte of the    *)
(* Internet checksum, which for an odd number of bytes has the byte behind    *)
(* the data in its last word, and the last byte once more.                   *)
THEOREM ChecksumOfBytes ==
  ASSUME NEW b \in Seq(Octet), Short(b), NEW next \in Octet
  PROVE  calculate_checksum(b, next)
           = (65535 - OnesSum(Words(IF Len(b) % 2 = 0 THEN b
                                    ELSE b \o <<next, b[Len(b)], 0>>))) % 256
<1>1. CASE Len(b) % 2 = 0
  BY <1>1, EvenChecksum, SMT
<1>2. CASE Len(b) % 2 # 0
  <2>1. Len(b) % 2 = 1
    BY <1>2, SMT
  <2> QED BY <1>2, <2>1, OddChecksum, SMT
<1> QED BY <1>1, <1>2, SMT

(* The symbols of the run, read as bytes.                                    *)
LEMMA BytesRead ==
  ASSUME InputType
  PROVE  bytes \in Seq(Octet) /\ Len(bytes) = Len(data)
<1>1. data \in Seq(1 .. 4) /\ DOMAIN data = 1 .. Len(data)
  BY DEF InputType
<1>2. \A symbol \in 1 .. 4 : <<0, 1, 161, 255>>[symbol] \in Octet
  BY SMT DEF Octet
<1>3. [i \in 1 .. Len(data) |-> <<0, 1, 161, 255>>[data[i]]] \in Seq(Octet)
  BY <1>1, <1>2
<1>4. Len([i \in 1 .. Len(data) |-> <<0, 1, 161, 255>>[data[i]]]) = Len(data)
  BY <1>1
<1> QED BY <1>1, <1>3, <1>4 DEF bytes, Read

(* The checksum of an even number of bytes, up to 2^17 of them, is that of the *)
(* Internet, whatever lies behind them.                                      *)
THEOREM ChecksumIsInternetChecksum ==
  ASSUME MaxLen <= 131072
  PROVE  Spec => []ChecksumByWords
<1>1. InputType => ChecksumByWords
  <2> SUFFICES ASSUME InputType, Len(bytes) % 2 = 0, NEW next \in {0, 255}
               PROVE  calculate_checksum(bytes, next) = (65535 - OnesSum(Words(bytes))) % 256
    BY DEF ChecksumByWords
  <2>1. data \in Seq(1 .. 4) /\ Len(data) <= 131072
    BY InputAssumption, SMT DEF InputType
  <2>2. bytes \in Seq(Octet) /\ Len(bytes) = Len(data)
    BY BytesRead
  <2>3. next \in Octet
    BY SMT DEF Octet
  <2>4. Short(bytes)
    BY <2>1, <2>2, SMT DEF Short
  <2> QED BY <2>2, <2>3, <2>4, EvenChecksum, SMT
<1> QED BY <1>1, InputTyped, PTL

-----------------------------------------------------------------------------
(* The path from a node to the end of its list, as it is followed by Chain.    *)
First(path) == IF path = <<>> THEN Null ELSE path[1]
IsPath(next, size, path) ==
    /\ path \in Seq(1 .. size) /\ Len(path) <= size
    /\ \A i \in 1 .. Len(path) :
          next[path[i]] = IF i = Len(path) THEN Null ELSE path[i + 1]

LEMMA ChainIs ==
  ASSUME NEW size \in Nat, NEW next, DOMAIN next = 1 .. size,
         NEW path, IsPath(next, size, path)
  PROVE  Chain(next, First(path)) = path
<1> USE DEF IsPath
<1>1. PICK n \in Nat : n = Len(path)
  OBVIOUS
<1>0. PICK m \in Nat : m = size + 1
  OBVIOUS
<1> DEFINE head == First(path)
           Walk(s) == IF s.at = Null THEN s
                      ELSE [at |-> next[s.at], nodes |-> Append(s.nodes, s.at)]
           s0 == [at |-> head, nodes |-> <<>>]
           Turns(k) == IF k < n THEN k ELSE n
           Passed(k) == [i \in 1 .. Turns(k) |-> path[i]]
           Reached(k) == IF k < n THEN path[k + 1] ELSE Null
           State(k) == [at |-> Reached(k), nodes |-> Passed(k)]
           Is(f) == f = [k \in 0 .. m |-> IF k = 0 THEN s0 ELSE Walk(f[k - 1])]
<1>2. Cardinality(1 .. size) = size
  BY FS_Interval
<1>3. Chain(next, head) = While(Walk, s0, m).nodes
  BY <1>0, <1>2 DEF Chain
<1>4. s0 = State(0)
  <2>1. head = Reached(0)
    BY <1>1 DEF First
  <2>2. <<>> = Passed(0)
    OBVIOUS
  <2> QED BY <2>1, <2>2
<1>5. ASSUME NEW k \in 1 .. m PROVE Walk(State(k - 1)) = State(k)
  <2>1. CASE k <= n
    <3>1. Reached(k - 1) = path[k] /\ path[k] # Null /\ path[k] \in 1 .. size
      BY <1>1, <2>1 DEF Null
    <3>2. next[path[k]] = Reached(k)
      BY <1>1, <2>1
    <3>3. Append(Passed(k - 1), path[k]) = Passed(k)
      <4>1. PICK w \in Seq(1 .. size) : w = Passed(k - 1) /\ Len(w) = k - 1
        <5>1. Passed(k - 1) = [i \in 1 .. k - 1 |-> path[i]]
          BY <2>1
        <5>2. \A i \in 1 .. k - 1 : path[i] \in 1 .. size
          BY <1>1, <2>1
        <5> HIDE DEF Passed
        <5>3. Passed(k - 1) \in Seq(1 .. size) /\ Len(Passed(k - 1)) = k - 1
          BY <5>1, <5>2
        <5> QED BY <5>3
      <4>2. Append(w, path[k]) = [i \in 1 .. k |-> IF i = k THEN path[k] ELSE w[i]]
        BY <3>1, <4>1, AppendIs
      <4>3. \A i \in 1 .. k : i # k => w[i] = path[i]
        BY <2>1, <4>1
      <4>4. Passed(k) = [i \in 1 .. k |-> path[i]]
        BY <2>1
      <4> HIDE DEF Passed
      <4> QED BY <4>1, <4>2, <4>3, <4>4
    <3> HIDE DEF Reached, Passed
    <3> QED BY <3>1, <3>2, <3>3
  <2>2. CASE n < k
    <3>1. Reached(k - 1) = Null /\ Reached(k) = Null /\ Passed(k) = Passed(k - 1)
      BY <2>2
    <3> HIDE DEF Reached, Passed
    <3> QED BY <3>1
  <2> QED BY <2>1, <2>2
<1>6. State(m).nodes = path
  <2>1. Passed(m) = [i \in 1 .. n |-> path[i]]
    BY <1>0, <1>1
  <2>2. path = [i \in 1 .. n |-> path[i]]
    BY <1>1
  <2> HIDE DEF Passed
  <2> QED BY <2>1, <2>2
<1> HIDE DEF State, s0, Walk
<1>7. \E f : Is(f)
  <2>1. Is([k \in 0 .. m |-> State(k)])
    BY <1>4, <1>5
  <2> QED BY <2>1
<1>8. PICK f : f = CHOOSE g : Is(g)
  OBVIOUS
<1>9. Is(f)
  BY <1>7, <1>8
<1>10. While(Walk, s0, m) = f[m]
  BY <1>8 DEF While
<1>11. f[m] = State(m)
  <2> DEFINE S == {k \in 0 .. m : f[k] = State(k)}
  <2>1. 0 \in S
    BY <1>4, <1>9
  <2>2. \A k \in 1 .. m : k - 1 \in S => k \in S
    BY <1>5, <1>9
  <2> HIDE DEF S
  <2>3. 0 .. m \subseteq S
    BY <2>1, <2>2, EveryTurn
  <2> QED BY <2>3 DEF S
<1> QED BY <1>3, <1>6, <1>10, <1>11

(* A heap, and what a pointer that is set leaves of it.                       *)
IsHeap(next, size) == next = [i \in 1 .. size |-> next[i]]

LEMMA SameHeap ==
  ASSUME NEW size, NEW f, NEW g, IsHeap(f, size), IsHeap(g, size),
         \A i \in 1 .. size : f[i] = g[i]
  PROVE  f = g
BY DEF IsHeap

LEMMA PointIs ==
  ASSUME NEW size, NEW next, IsHeap(next, size), NEW node, NEW to
  PROVE  /\ IsHeap(Point(next, node, to), size)
         /\ \A i \in 1 .. size : Point(next, node, to)[i] = IF i = node THEN to ELSE next[i]
BY DEF IsHeap, Point

LEMMA PointTwice ==
  ASSUME NEW size, NEW next, IsHeap(next, size), NEW x, NEW y, NEW z, NEW w
  PROVE  LET after == Point(Point(next, x, y), z, w)
         IN  /\ IsHeap(after, size)
             /\ \A i \in 1 .. size :
                   after[i] = IF i = z THEN w ELSE IF i = x THEN y ELSE next[i]
BY PointIs

-----------------------------------------------------------------------------
(* reverseList after k turns: the first k nodes point back.                  *)
TurnedNext(size, k) ==
    [i \in 1 .. size |-> IF i <= k THEN i - 1 ELSE IF i = size THEN Null ELSE i + 1]
AfterReversing(size, k) ==
    [next |-> TurnedNext(size, k), pre |-> k, cur |-> IF k = size THEN Null ELSE k + 1]

LEMMA ReverseLoop ==
  ASSUME NEW size \in Nat, NEW n \in 0 .. size
  PROVE  While(ReverseTurn, AfterReversing(size, 0), n) = AfterReversing(size, n)
<1> DEFINE Is(f) == f = [k \in 0 .. n |-> IF k = 0 THEN AfterReversing(size, 0)
                                          ELSE ReverseTurn(f[k - 1])]
<1>1. ASSUME NEW k \in 1 .. n
      PROVE  ReverseTurn(AfterReversing(size, k - 1)) = AfterReversing(size, k)
  <2>1. PICK next : next = TurnedNext(size, k - 1)
    OBVIOUS
  <2>2. PICK s : s = AfterReversing(size, k - 1)
    OBVIOUS
  <2>3. s = [next |-> next, pre |-> k - 1, cur |-> k] /\ k # Null
    BY <2>1, <2>2 DEF AfterReversing, Null
  <2>4. ReverseTurn(s) = [next |-> Point(next, k, k - 1), pre |-> k, cur |-> next[k]]
    BY <2>3 DEF ReverseTurn
  <2>5. Point(next, k, k - 1) = TurnedNext(size, k)
    <3>1. IsHeap(next, size) /\ IsHeap(TurnedNext(size, k), size)
      BY <2>1 DEF IsHeap, TurnedNext
    <3>2. \A i \in 1 .. size :
             TurnedNext(size, k)[i] = IF i = k THEN k - 1 ELSE next[i]
      <4> SUFFICES ASSUME NEW i \in 1 .. size
                   PROVE  TurnedNext(size, k)[i] = IF i = k THEN k - 1 ELSE next[i]
        OBVIOUS
      <4>1. /\ next[i] = IF i <= k - 1 THEN i - 1 ELSE IF i = size THEN Null ELSE i + 1
            /\ TurnedNext(size, k)[i] =
                 IF i <= k THEN i - 1 ELSE IF i = size THEN Null ELSE i + 1
        BY <2>1 DEF TurnedNext
      <4> QED BY <4>1 DEF Null
    <3> QED BY <3>1, <3>2, PointIs, SameHeap
  <2>6. next[k] = IF k = size THEN Null ELSE k + 1
    BY <2>1 DEF TurnedNext
  <2> QED BY <2>2, <2>4, <2>5, <2>6 DEF AfterReversing
<1>2. \E f : Is(f)
  <2>1. Is([k \in 0 .. n |-> AfterReversing(size, k)])
    BY <1>1
  <2> QED BY <2>1
<1>3. PICK f : f = CHOOSE g : Is(g)
  OBVIOUS
<1>4. Is(f)
  BY <1>2, <1>3
<1>5. While(ReverseTurn, AfterReversing(size, 0), n) = f[n]
  BY <1>3 DEF While
<1>6. f[n] = AfterReversing(size, n)
  <2> DEFINE S == {k \in 0 .. n : f[k] = AfterReversing(size, k)}
  <2>1. 0 \in S
    BY <1>4
  <2>2. \A k \in 1 .. n : k - 1 \in S => k \in S
    BY <1>1, <1>4
  <2> HIDE DEF S
  <2>3. 0 .. n \subseteq S
    BY <2>1, <2>2, EveryTurn
  <2> QED BY <2>3 DEF S
<1> QED BY <1>5, <1>6

LEMMA ConcatIs ==
  ASSUME NEW S, NEW s \in Seq(S), NEW t \in Seq(S)
  PROVE  s \o t = [i \in 1 .. Len(s) + Len(t) |-> IF i <= Len(s) THEN s[i] ELSE t[i - Len(s)]]
<1>1. PICK u \in Seq(S) : u = s \o t
  <2>1. s \o t \in Seq(S)
    OBVIOUS
  <2> QED BY <2>1
<1>2. Len(u) = Len(s) + Len(t)
      /\ \A i \in 1 .. Len(s) + Len(t) : u[i] = IF i <= Len(s) THEN s[i] ELSE t[i - Len(s)]
  BY <1>1
<1>3. u = [i \in 1 .. Len(u) |-> u[i]]
  OBVIOUS
<1> DEFINE Both(i) == IF i <= Len(s) THEN s[i] ELSE t[i - Len(s)]
<1>4. u = [i \in 1 .. Len(s) + Len(t) |-> Both(i)]
  <2> HIDE DEF Both
  <2>1. \A i \in 1 .. Len(s) + Len(t) : u[i] = Both(i)
    BY <1>2 DEF Both
  <2> QED BY <1>2, <1>3, <2>1
<1> QED BY <1>1, <1>4

(* The two chains after k turns of reverseList.                              *)
LEMMA TurnedChain ==
  ASSUME NEW size \in Nat, NEW k \in 0 .. size
  PROVE  Chain(TurnedNext(size, k), k) = [i \in 1 .. k |-> k + 1 - i]
<1>1. PICK next : next = TurnedNext(size, k)
  OBVIOUS
<1>2. PICK path \in Seq(1 .. size) : path = [i \in 1 .. k |-> k + 1 - i]
  <2>1. [i \in 1 .. k |-> k + 1 - i] \in Seq(1 .. size)
    OBVIOUS
  <2> QED BY <2>1
<1>3. Len(path) = k /\ \A i \in 1 .. k : path[i] = k + 1 - i
  BY <1>2
<1>4. DOMAIN next = 1 .. size /\ \A i \in 1 .. size :
         next[i] = IF i <= k THEN i - 1 ELSE IF i = size THEN Null ELSE i + 1
  BY <1>1 DEF TurnedNext
<1>5. IsPath(next, size, path)
  <2> SUFFICES ASSUME NEW i \in 1 .. k
               PROVE  next[path[i]] = IF i = k THEN Null ELSE path[i + 1]
    BY <1>3 DEF IsPath
  <2>1. path[i] = k + 1 - i /\ path[i] \in 1 .. size /\ path[i] <= k
    BY <1>3
  <2>2. next[path[i]] = k - i
    BY <1>4, <2>1
  <2>3. CASE i = k
    BY <2>2, <2>3 DEF Null
  <2>4. CASE i # k
    <3>1. i + 1 \in 1 .. k
      BY <2>4
    <3>2. path[i + 1] = k + 1 - (i + 1)
      BY <1>3, <3>1
    <3> QED BY <2>2, <2>4, <3>2
  <2> QED BY <2>3, <2>4
<1>6. k = First(path)
  <2>1. CASE k = 0
    BY <1>3, <2>1 DEF First, Null
  <2>2. CASE k # 0
    BY <1>3, <2>2 DEF First
  <2> QED BY <2>1, <2>2
<1>7. Chain(next, First(path)) = path
  BY <1>4, <1>5, ChainIs
<1> QED BY <1>1, <1>2, <1>6, <1>7

LEMMA UnturnedChain ==
  ASSUME NEW size \in Nat, NEW k \in 0 .. size
  PROVE  Chain(TurnedNext(size, k), IF k = size THEN Null ELSE k + 1)
           = [i \in 1 .. size - k |-> k + i]
<1>1. PICK next : next = TurnedNext(size, k)
  OBVIOUS
<1>2. PICK path \in Seq(1 .. size) : path = [i \in 1 .. size - k |-> k + i]
  <2>1. [i \in 1 .. size - k |-> k + i] \in Seq(1 .. size)
    OBVIOUS
  <2> QED BY <2>1
<1>3. Len(path) = size - k /\ \A i \in 1 .. size - k : path[i] = k + i
  BY <1>2
<1>4. DOMAIN next = 1 .. size /\ \A i \in 1 .. size :
         next[i] = IF i <= k THEN i - 1 ELSE IF i = size THEN Null ELSE i + 1
  BY <1>1 DEF TurnedNext
<1>5. IsPath(next, size, path)
  <2> SUFFICES ASSUME NEW i \in 1 .. size - k
               PROVE  next[path[i]] = IF i = size - k THEN Null ELSE path[i + 1]
    BY <1>3 DEF IsPath
  <2>1. path[i] = k + i /\ path[i] \in 1 .. size /\ ~(path[i] <= k)
    BY <1>3
  <2>2. next[path[i]] = IF k + i = size THEN Null ELSE k + i + 1
    BY <1>4, <2>1
  <2> QED BY <1>3, <2>2
<1>6. (IF k = size THEN Null ELSE k + 1) = First(path)
  <2>1. CASE k = size
    BY <1>3, <2>1 DEF First
  <2>2. CASE k # size
    BY <1>3, <2>2 DEF First
  <2> QED BY <2>1, <2>2
<1>7. Chain(next, First(path)) = path
  BY <1>4, <1>5, ChainIs
<1> QED BY <1>1, <1>2, <1>6, <1>7

LEMMA ReversedInPlace ==
  ASSUME NEW size \in Nat, NEW k \in 0 .. size
  PROVE  LET s == While(ReverseTurn, AfterReversing(size, 0), k)
         IN  Reverse(Chain(s.next, s.pre)) \o Chain(s.next, s.cur) = Upto(1, size + 1)
<1>1. PICK s : s = While(ReverseTurn, AfterReversing(size, 0), k)
  OBVIOUS
<1>2. s.next = TurnedNext(size, k) /\ s.pre = k /\ s.cur = IF k = size THEN Null ELSE k + 1
  <2>1. s = AfterReversing(size, k)
    BY <1>1, ReverseLoop
  <2> QED BY <2>1 DEF AfterReversing
<1>3. PICK back \in Seq(Nat) : back = [i \in 1 .. k |-> k + 1 - i]
  <2>1. [i \in 1 .. k |-> k + 1 - i] \in Seq(Nat)
    OBVIOUS
  <2> QED BY <2>1
<1>4. PICK on \in Seq(Nat) : on = [i \in 1 .. size - k |-> k + i]
  <2>1. [i \in 1 .. size - k |-> k + i] \in Seq(Nat)
    OBVIOUS
  <2> QED BY <2>1
<1>5. PICK front \in Seq(Nat) : front = [i \in 1 .. k |-> i]
  <2>1. [i \in 1 .. k |-> i] \in Seq(Nat)
    OBVIOUS
  <2> QED BY <2>1
<1>6. Reverse(back) = front
  BY <1>3, <1>5 DEF Reverse
<1>7. front \o on = Upto(1, size + 1)
  <2>1. Len(front) = k /\ Len(on) = size - k
    BY <1>4, <1>5
  <2>2. front \o on = [i \in 1 .. size |-> IF i <= k THEN front[i] ELSE on[i - k]]
    <3>1. front \o on = [i \in 1 .. Len(front) + Len(on) |->
                            IF i <= Len(front) THEN front[i] ELSE on[i - Len(front)]]
      BY ConcatIs
    <3> QED BY <2>1, <3>1
  <2>3. \A i \in 1 .. size : (IF i <= k THEN front[i] ELSE on[i - k]) = i
    BY <1>4, <1>5
  <2>4. Upto(1, size + 1) = [i \in 1 .. size |-> i]
    BY DEF Upto
  <2> QED BY <2>2, <2>3, <2>4
<1> QED BY <1>1, <1>2, <1>3, <1>4, <1>6, <1>7, TurnedChain, UnturnedChain

-----------------------------------------------------------------------------
(* reverseBetween after k turns.  Nothing is lost before the turn n, in which  *)
(* the ends of the range are linked to the nodes around it.                  *)
Follows(size, i) == IF i = size THEN Null ELSE i + 1
Marked(m) == IF m = 1 THEN 1 ELSE m - 1
BetweenAt(size, m, n, k, i) ==
    CASE k < n /\ i \in m .. k -> i - 1
      [] k >= n /\ i = m - 1 -> n
      [] k >= n /\ i = m -> Follows(size, n)
      [] k >= n /\ i \in m + 1 .. n -> i - 1
      [] OTHER -> Follows(size, i)
BetweenNext(size, m, n, k) == [i \in 1 .. size |-> BetweenAt(size, m, n, k, i)]
AfterBetween(size, m, n, k) ==
    [next |-> BetweenNext(size, m, n, k), index |-> k, pre |-> k,
     cur |-> IF k = size THEN Null ELSE k + 1,
     mp  |-> IF k >= Marked(m) THEN Marked(m) ELSE Null,
     mpn |-> IF k >= Marked(m) THEN Marked(m) + 1 ELSE Null,
     np  |-> IF k >= n THEN n ELSE Null]

LEMMA BetweenStep ==
  ASSUME NEW size \in Nat, NEW m \in 1 .. size, NEW n \in 1 .. size, m < n, NEW k \in 1 .. size
  PROVE  BetweenTurn(m, n, AfterBetween(size, m, n, k - 1)) = AfterBetween(size, m, n, k)
<1>1. PICK s : s = AfterBetween(size, m, n, k - 1)
  OBVIOUS
<1>2. PICK next : next = BetweenNext(size, m, n, k - 1)
  OBVIOUS
<1>3. PICK p \in 1 .. size : p = Marked(m) /\ p < n /\ p <= m /\ (p = m <=> m = 1) /\ p >= m - 1
  BY DEF Marked
<1> DEFINE mp(j)  == IF j >= p THEN p ELSE Null
           mpn(j) == IF j >= p THEN p + 1 ELSE Null
           np(j)  == IF j >= n THEN n ELSE Null
           turned == IF k \in m .. n THEN Point(next, k, k - 1) ELSE next
           after  == CASE k # n -> turned
                       [] k = n /\ m = 1 -> Point(Point(turned, mp(k), next[k]), mpn(k), mp(k))
                       [] OTHER -> Point(Point(turned, mp(k), np(k)), mpn(k), next[k])
<1>4. s = [next |-> next, index |-> k - 1, pre |-> k - 1, cur |-> k,
           mp |-> mp(k - 1), mpn |-> mpn(k - 1), np |-> np(k - 1)]
  BY <1>1, <1>2, <1>3 DEF AfterBetween
<1>5. k # Null /\ k - 1 + 1 = k
  BY DEF Null
<1>6. IsHeap(next, size) /\ \A i \in 1 .. size : next[i] = BetweenAt(size, m, n, k - 1, i)
  BY <1>2 DEF IsHeap, BetweenNext
<1>7. next[k] = IF k = size THEN Null ELSE k + 1
  BY <1>6 DEF BetweenAt, Follows
<1>8. (IF Marks(m, k) THEN k ELSE mp(k - 1)) = mp(k)
  BY <1>3 DEF Marks, Marked, Null
<1>9. (IF Marks(m, k) THEN next[k] ELSE mpn(k - 1)) = mpn(k)
  BY <1>3, <1>7 DEF Marks, Marked
<1>10. (IF k = n THEN k ELSE np(k - 1)) = np(k)
  BY DEF Null
<1> HIDE DEF mp, mpn, np
<1>11. BetweenTurn(m, n, s) = [next |-> after, index |-> k, pre |-> k, cur |-> next[k],
                               mp |-> mp(k), mpn |-> mpn(k), np |-> np(k)]
  BY <1>4, <1>5, <1>8, <1>9, <1>10 DEF BetweenTurn
<1>12. after = BetweenNext(size, m, n, k)
  <2>1. IsHeap(BetweenNext(size, m, n, k), size)
        /\ \A i \in 1 .. size : BetweenNext(size, m, n, k)[i] = BetweenAt(size, m, n, k, i)
    BY DEF IsHeap, BetweenNext
  <2>2. IsHeap(turned, size)
        /\ \A i \in 1 .. size : turned[i] = IF i = k /\ k \in m .. n THEN k - 1 ELSE next[i]
    BY <1>6, PointIs
  <2>3. CASE k # n
    <3>1. \A i \in 1 .. size : turned[i] = BetweenAt(size, m, n, k, i)
      <4> SUFFICES ASSUME NEW i \in 1 .. size PROVE turned[i] = BetweenAt(size, m, n, k, i)
        OBVIOUS
      <4>1. turned[i] = IF i = k /\ k \in m .. n THEN k - 1 ELSE BetweenAt(size, m, n, k - 1, i)
        BY <1>6, <2>2
      <4> HIDE DEF turned
      <4> QED BY <2>3, <4>1 DEF BetweenAt, Follows
    <3> HIDE DEF turned
    <3> QED BY <2>1, <2>2, <2>3, <3>1, SameHeap
  <2>4. CASE k = n /\ m = 1
    <3>1. mp(k) = 1 /\ mpn(k) = 2
      BY <1>3, <2>4 DEF mp, mpn, Marked
    <3>2. after = Point(Point(turned, 1, next[k]), 2, 1)
      BY <2>4, <3>1
    <3> HIDE DEF after
    <3>3. IsHeap(after, size)
          /\ \A i \in 1 .. size :
                after[i] = IF i = 2 THEN 1 ELSE IF i = 1 THEN next[k] ELSE turned[i]
      BY <2>2, <3>2, PointTwice
    <3>4. \A i \in 1 .. size : after[i] = BetweenAt(size, m, n, k, i)
      <4> SUFFICES ASSUME NEW i \in 1 .. size PROVE after[i] = BetweenAt(size, m, n, k, i)
        OBVIOUS
      <4>1. turned[i] = IF i = k THEN k - 1 ELSE BetweenAt(size, m, n, k - 1, i)
        BY <1>6, <2>2, <2>4
      <4>2. after[i] = IF i = 2 THEN 1 ELSE IF i = 1 THEN next[k] ELSE turned[i]
        BY <3>3
      <4> HIDE DEF turned
      <4> QED BY <1>7, <2>4, <4>1, <4>2 DEF BetweenAt, Follows
    <3> QED BY <2>1, <3>3, <3>4, SameHeap
  <2>5. CASE k = n /\ m # 1
    <3>1. mp(k) = m - 1 /\ mpn(k) = m /\ np(k) = n
      <4>1. p = m - 1 /\ p + 1 = m /\ k >= p /\ k >= n
        BY <1>3, <2>5 DEF Marked
      <4> QED BY <4>1 DEF mp, mpn, np
    <3>2. after = Point(Point(turned, m - 1, n), m, next[k])
      BY <2>5, <3>1
    <3> HIDE DEF after
    <3>3. IsHeap(after, size)
          /\ \A i \in 1 .. size :
                after[i] = IF i = m THEN next[k] ELSE IF i = m - 1 THEN n ELSE turned[i]
      BY <2>2, <3>2, PointTwice
    <3>4. \A i \in 1 .. size : after[i] = BetweenAt(size, m, n, k, i)
      <4> SUFFICES ASSUME NEW i \in 1 .. size PROVE after[i] = BetweenAt(size, m, n, k, i)
        OBVIOUS
      <4>1. turned[i] = IF i = k THEN k - 1 ELSE BetweenAt(size, m, n, k - 1, i)
        BY <1>6, <2>2, <2>5
      <4>2. after[i] = IF i = m THEN next[k] ELSE IF i = m - 1 THEN n ELSE turned[i]
        BY <3>3
      <4> HIDE DEF turned
      <4> QED BY <1>7, <2>5, <4>1, <4>2 DEF BetweenAt, Follows
    <3> QED BY <2>1, <3>3, <3>4, SameHeap
  <2> QED BY <2>3, <2>4, <2>5
<1> QED BY <1>1, <1>3, <1>7, <1>11, <1>12 DEF AfterBetween, mp, mpn, np

LEMMA BetweenLoop ==
  ASSUME NEW size \in Nat, NEW m \in 1 .. size, NEW n \in 1 .. size, m < n
  PROVE  While(LAMBDA t : BetweenTurn(m, n, t), AfterBetween(size, m, n, 0), size)
           = AfterBetween(size, m, n, size)
<1> DEFINE Turn(t) == BetweenTurn(m, n, t)
           After(k) == AfterBetween(size, m, n, k)
           Is(f) == f = [k \in 0 .. size |-> IF k = 0 THEN After(0) ELSE Turn(f[k - 1])]
<1>1. \A k \in 1 .. size : Turn(After(k - 1)) = After(k)
  BY BetweenStep
<1> HIDE DEF After
<1>2. \E f : Is(f)
  <2> HIDE DEF Turn
  <2>1. Is([k \in 0 .. size |-> After(k)])
    BY <1>1
  <2> QED BY <2>1
<1>3. PICK f : f = CHOOSE g : Is(g)
  OBVIOUS
<1>4. Is(f)
  BY <1>2, <1>3
<1>5. While(LAMBDA t : BetweenTurn(m, n, t), After(0), size) = f[size]
  BY <1>3 DEF While
<1>6. f[size] = After(size)
  <2> DEFINE S == {k \in 0 .. size : f[k] = After(k)}
  <2> HIDE DEF Turn
  <2>1. 0 \in S
    BY <1>4
  <2>2. \A k \in 1 .. size : k - 1 \in S => k \in S
    BY <1>1, <1>4
  <2> HIDE DEF S
  <2>3. 0 .. size \subseteq S
    BY <2>1, <2>2, EveryTurn
  <2> QED BY <2>3 DEF S
<1> QED BY <1>5, <1>6 DEF After

LEMMA BetweenChain ==
  ASSUME NEW size \in Nat, NEW m \in 1 .. size, NEW n \in 1 .. size, m < n
  PROVE  Chain(BetweenNext(size, m, n, size), IF m = 1 THEN n ELSE 1)
           = [i \in 1 .. size |-> IF i \in m .. n THEN m + n - i ELSE i]
<1>1. PICK next : next = BetweenNext(size, m, n, size)
  OBVIOUS
<1>2. DOMAIN next = 1 .. size
      /\ \A i \in 1 .. size : next[i] = CASE i = m - 1 -> n
                                         [] i = m -> Follows(size, n)
                                         [] i \in m + 1 .. n -> i - 1
                                         [] OTHER -> Follows(size, i)
  BY <1>1 DEF BetweenNext, BetweenAt
<1>3. PICK path \in Seq(1 .. size) :
         path = [i \in 1 .. size |-> IF i \in m .. n THEN m + n - i ELSE i]
  <2>1. \A i \in 1 .. size : (IF i \in m .. n THEN m + n - i ELSE i) \in 1 .. size
    OBVIOUS
  <2>2. [i \in 1 .. size |-> IF i \in m .. n THEN m + n - i ELSE i] \in Seq(1 .. size)
    BY <2>1
  <2> QED BY <2>2
<1>4. Len(path) = size /\ \A i \in 1 .. size : path[i] = IF i \in m .. n THEN m + n - i ELSE i
  BY <1>3
<1>5. ASSUME NEW i \in 1 .. size
      PROVE  next[path[i]] = IF i = size THEN Null ELSE path[i + 1]
  <2>1. path[i] \in 1 .. size /\ path[i] = IF i \in m .. n THEN m + n - i ELSE i
    BY <1>4
  <2>2. i # size => path[i + 1] = IF i + 1 \in m .. n THEN m + n - (i + 1) ELSE i + 1
    BY <1>4
  <2>3. CASE i < m - 1 \/ i > n
    BY <1>2, <2>1, <2>2, <2>3 DEF Follows
  <2>4. CASE i = m - 1
    <3>1. path[i] = i /\ path[i + 1] = n
      BY <2>1, <2>2, <2>4
    <3> QED BY <1>2, <2>4, <3>1
  <2>5. CASE i \in m .. n - 1
    <3>1. path[i] = m + n - i /\ path[i + 1] = m + n - i - 1
      BY <2>1, <2>2, <2>5
    <3>2. m + n - i \in 1 .. size /\ m + n - i \in m + 1 .. n
      BY <2>5
    <3>3. next[m + n - i] = m + n - i - 1
      BY <1>2, <3>2
    <3> QED BY <2>5, <3>1, <3>3
  <2>6. CASE i = n
    BY <1>2, <2>1, <2>2, <2>6 DEF Follows
  <2> QED BY <2>3, <2>4, <2>5, <2>6
<1>6. IsPath(next, size, path)
  BY <1>4, <1>5 DEF IsPath
<1>7. First(path) = IF m = 1 THEN n ELSE 1
  <2>1. path # <<>> /\ path[1] = IF 1 \in m .. n THEN m + n - 1 ELSE 1
    BY <1>4
  <2> QED BY <2>1 DEF First
<1>8. Chain(next, First(path)) = path
  BY <1>2, <1>6, ChainIs
<1> QED BY <1>1, <1>3, <1>7, <1>8

LEMMA ReversedBetween ==
  ASSUME NEW size \in Nat, NEW m \in 1 .. size, NEW n \in 1 .. size, m <= n
  PROVE  LET r == reverseBetween(TurnedNext(size, 0), 1, m, n)
         IN  Chain(r.next, r.head) = [i \in 1 .. size |-> IF i \in m .. n THEN m + n - i ELSE i]
<1>1. PICK next : next = TurnedNext(size, 0)
  OBVIOUS
<1>2. PICK r : r = reverseBetween(next, 1, m, n)
  OBVIOUS
<1>3. CASE m = n
  <2>1. r.next = next /\ r.head = 1
    BY <1>2, <1>3 DEF reverseBetween
  <2>2. Chain(next, IF 0 = size THEN Null ELSE 0 + 1) = [i \in 1 .. size - 0 |-> 0 + i]
    BY <1>1, UnturnedChain
  <2>3. [i \in 1 .. size |-> IF i \in m .. n THEN m + n - i ELSE i] = [i \in 1 .. size - 0 |-> 0 + i]
    BY <1>3
  <2> QED BY <1>1, <1>2, <2>1, <2>2, <2>3
<1>4. CASE m < n
  <2>1. Cardinality(DOMAIN next) = size
    BY <1>1, FS_Interval DEF TurnedNext
  <2>2. [next |-> next, index |-> 0, pre |-> Null, cur |-> 1, mp |-> Null, mpn |-> Null, np |-> Null]
          = AfterBetween(size, m, n, 0)
    <3>1. next = BetweenNext(size, m, n, 0)
      BY <1>1, <1>4 DEF TurnedNext, BetweenNext, BetweenAt, Follows
    <3> QED BY <3>1 DEF AfterBetween, Marked, Null
  <2> DEFINE Turn(t) == BetweenTurn(m, n, t)
             s0 == [next |-> next, index |-> 0, pre |-> Null, cur |-> 1,
                    mp |-> Null, mpn |-> Null, np |-> Null]
  <2>3. PICK s : s = While(Turn, s0, size)
    OBVIOUS
  <2>4. r = [next |-> s.next, head |-> IF m = 1 THEN s.np ELSE 1]
    <3>1. r = [next |-> While(Turn, s0, Cardinality(DOMAIN next)).next,
               head |-> IF m = 1 THEN While(Turn, s0, Cardinality(DOMAIN next)).np ELSE 1]
      <4>1. m # n
        BY <1>4
      <4> QED BY <1>2, <4>1 DEF reverseBetween
    <3> QED BY <2>1, <2>3, <3>1
  <2>6. s = AfterBetween(size, m, n, size)
    BY <1>4, <2>2, <2>3, BetweenLoop
  <2>5. s.next = BetweenNext(size, m, n, size) /\ s.np = n
    BY <2>6 DEF AfterBetween
  <2> QED BY <1>1, <1>2, <1>4, <2>4, <2>5, BetweenChain
<1> QED BY <1>3, <1>4

(* The list of all nodes, numbered in their order.                           *)
LEMMA WholeList ==
  ASSUME InputType
  PROVE  /\ Len(data) \in Nat /\ Nodes = 1 .. Len(data)
         /\ One = TurnedNext(Len(data), 0)
         /\ NodeAt(1) = IF Len(data) = 0 THEN Null ELSE 1
<1>1. PICK size \in Nat : size = Len(data) /\ Nodes = 1 .. size
  BY DEF InputType, Nodes
<1>2. One = TurnedNext(size, 0)
  <2>1. \A i \in 1 .. size : (IF i \in {0, size} THEN Null ELSE i + 1)
           = IF i <= 0 THEN i - 1 ELSE IF i = size THEN Null ELSE i + 1
    OBVIOUS
  <2>2. One = [i \in 1 .. size |-> IF i \in {0, size} THEN Null ELSE i + 1]
    BY <1>1 DEF One, Linked
  <2> QED BY <2>1, <2>2 DEF TurnedNext
<1>3. NodeAt(1) = IF size = 0 THEN Null ELSE 1
  BY <1>1 DEF NodeAt
<1> QED BY <1>1, <1>2, <1>3

(* Sequences of n numbers, up from the first or down from the last.           *)
Ascends(s, n, first) == s \in Seq(Int) /\ Len(s) = n /\ \A i \in 1 .. n : s[i] = first + i - 1
Descends(s, n, last) == s \in Seq(Int) /\ Len(s) = n /\ \A i \in 1 .. n : s[i] = last - i + 1
Joined(s, m, t, n, u) ==
    /\ u \in Seq(Int) /\ Len(u) = m + n
    /\ \A i \in 1 .. m : u[i] = s[i]
    /\ \A i \in 1 .. n : u[m + i] = t[i]

LEMMA UptoAscends ==
  ASSUME NEW from \in Nat, NEW to \in Nat, NEW n \in Nat, from + n = to
  PROVE  Ascends(Upto(from, to), n, from)
<1>1. Upto(from, to) = [i \in 1 .. n |-> from + i - 1]
  BY DEF Upto
<1>2. [i \in 1 .. n |-> from + i - 1] \in Seq(Int)
  OBVIOUS
<1> QED BY <1>1, <1>2 DEF Ascends

LEMMA ReverseDescends ==
  ASSUME NEW n \in Nat, NEW first \in Int, NEW s, Ascends(s, n, first)
  PROVE  Descends(Reverse(s), n, first + n - 1)
<1>1. Reverse(s) = [i \in 1 .. n |-> s[n - i + 1]]
  BY DEF Ascends, Reverse
<1>2. \A i \in 1 .. n : s[n - i + 1] = first + n - 1 - i + 1
  BY DEF Ascends
<1>3. Reverse(s) = [i \in 1 .. n |-> first + n - 1 - i + 1]
  BY <1>1, <1>2
<1>4. [i \in 1 .. n |-> first + n - 1 - i + 1] \in Seq(Int)
  OBVIOUS
<1> QED BY <1>3, <1>4 DEF Descends

LEMMA ConcatJoins ==
  ASSUME NEW s \in Seq(Int), NEW t \in Seq(Int)
  PROVE  Joined(s, Len(s), t, Len(t), s \o t)
<1>1. s \o t \in Seq(Int) /\ Len(s \o t) = Len(s) + Len(t)
  OBVIOUS
<1>2. \A i \in 1 .. Len(s) : (s \o t)[i] = s[i]
  OBVIOUS
<1>3. \A i \in 1 .. Len(t) : (s \o t)[Len(s) + i] = t[i]
  OBVIOUS
<1> QED BY <1>1, <1>2, <1>3 DEF Joined

LEMMA RangeTurned ==
  ASSUME NEW size \in Nat, NEW m \in 1 .. size, NEW n \in 1 .. size, m <= n
  PROVE  Upto(1, m) \o Reverse(Upto(m, n + 1)) \o Upto(n + 1, size + 1)
           = [i \in 1 .. size |-> IF i \in m .. n THEN m + n - i ELSE i]
<1>1. PICK x \in Nat, y \in Nat, z \in Nat, up \in Nat, end \in Nat :
         1 + x = m /\ m + y = up /\ up = n + 1 /\ up + z = end /\ end = size + 1
  <2> DEFINE Sums(x, y, z, up, end) ==
               1 + x = m /\ m + y = up /\ up = n + 1 /\ up + z = end /\ end = size + 1
  <2>1. Sums(m - 1, n + 1 - m, size - n, n + 1, size + 1)
    OBVIOUS
  <2>2. m - 1 \in Nat /\ n + 1 - m \in Nat /\ size - n \in Nat /\ n + 1 \in Nat /\ size + 1 \in Nat
    OBVIOUS
  <2> HIDE DEF Sums
  <2>3. \E x \in Nat, y \in Nat, z \in Nat, up1 \in Nat, end \in Nat : Sums(x, y, z, up1, end)
    BY <2>1, <2>2
  <2> QED BY <2>3 DEF Sums
<1>2. PICK a, u, c : a = Upto(1, m) /\ u = Upto(m, up) /\ c = Upto(up, end)
  OBVIOUS
<1>3. Ascends(a, x, 1) /\ Ascends(u, y, m) /\ Ascends(c, z, up)
  <2>1. m \in Nat /\ 1 \in Nat
    OBVIOUS
  <2> QED BY <1>1, <1>2, <2>1, UptoAscends
<1>4. PICK b : b = Reverse(u)
  OBVIOUS
<1>5. Descends(b, y, m + y - 1)
  <2>1. m \in Int
    OBVIOUS
  <2> QED BY <1>3, <1>4, <2>1, ReverseDescends
<1>6. PICK ab : ab = a \o b
  OBVIOUS
<1>7. Joined(a, x, b, y, ab)
  BY <1>3, <1>5, <1>6, ConcatJoins DEF Ascends, Descends
<1>8. PICK abc : abc = ab \o c
  OBVIOUS
<1>9. Joined(ab, x + y, c, z, abc)
  <2>1. ab \in Seq(Int) /\ Len(ab) = x + y
    BY <1>7 DEF Joined
  <2>2. c \in Seq(Int) /\ Len(c) = z
    BY <1>3 DEF Ascends
  <2>3. Joined(ab, Len(ab), c, Len(c), abc)
    BY <1>8, <2>1, <2>2, ConcatJoins
  <2> QED BY <2>1, <2>2, <2>3
<1>10. \A i \in 1 .. size : abc[i] = IF i \in m .. n THEN m + n - i ELSE i
  <2> SUFFICES ASSUME NEW i \in 1 .. size
               PROVE  abc[i] = IF i \in m .. n THEN m + n - i ELSE i
    OBVIOUS
  <2>1. CASE i < m
    <3>1. i \in 1 .. x /\ i \in 1 .. x + y
      BY <1>1, <2>1
    <3>2. abc[i] = ab[i]
      BY <1>9, <3>1 DEF Joined
    <3>3. ab[i] = a[i]
      BY <1>7, <3>1 DEF Joined
    <3>4. a[i] = i
      BY <1>3, <3>1 DEF Ascends
    <3> QED BY <2>1, <3>2, <3>3, <3>4
  <2>2. CASE i \in m .. n
    <3>1. PICK j \in 1 .. y : i = x + j
      <4>1. i - x \in 1 .. y /\ i = x + (i - x)
        BY <1>1, <2>2
      <4> QED BY <4>1
    <3>2. i \in 1 .. x + y
      BY <1>1, <2>2
    <3>3. abc[i] = ab[i]
      BY <1>9, <3>2 DEF Joined
    <3>4. ab[x + j] = b[j]
      BY <1>7 DEF Joined
    <3>5. b[j] = m + y - 1 - j + 1
      BY <1>5 DEF Descends
    <3> QED BY <1>1, <2>2, <3>1, <3>3, <3>4, <3>5
  <2>3. CASE i > n
    <3>1. PICK j \in 1 .. z : i = x + y + j
      <4>1. i - (x + y) \in 1 .. z /\ i = x + y + (i - (x + y))
        BY <1>1, <2>3
      <4> QED BY <4>1
    <3>2. abc[x + y + j] = c[j]
      BY <1>9 DEF Joined
    <3>3. c[j] = up + j - 1
      BY <1>3 DEF Ascends
    <3> QED BY <1>1, <2>3, <3>1, <3>2, <3>3
  <2> QED BY <2>1, <2>2, <2>3
<1>11. abc = [i \in 1 .. size |-> abc[i]]
  <2>1. abc \in Seq(Int) /\ Len(abc) = size
    BY <1>1, <1>9 DEF Joined
  <2> QED BY <2>1
<1>12. abc = [i \in 1 .. size |-> IF i \in m .. n THEN m + n - i ELSE i]
  BY <1>10, <1>11
<1> QED BY <1>1, <1>2, <1>4, <1>6, <1>8, <1>12

LEMMA ListReversed == InputType => ReversesInPlace
<1> SUFFICES ASSUME InputType PROVE ReversesInPlace
  OBVIOUS
<1>1. PICK size \in Nat : size = Len(data)
  BY WholeList
<1>2. One = TurnedNext(size, 0) /\ NodeAt(1) = IF size = 0 THEN Null ELSE 1
  BY <1>1, WholeList
<1>3. [next |-> One, pre |-> Null, cur |-> NodeAt(1)] = AfterReversing(size, 0)
  BY <1>2 DEF AfterReversing, Null
<1>4. LET reversed == reverseList(One, NodeAt(1))
      IN  Chain(reversed.next, reversed.head) = Reverse(Upto(1, size + 1))
  <2>1. Cardinality(DOMAIN One) = size
    BY <1>2, FS_Interval DEF TurnedNext
  <2>2. While(ReverseTurn, [next |-> One, pre |-> Null, cur |-> NodeAt(1)], size)
          = AfterReversing(size, size)
    BY <1>3, ReverseLoop
  <2>3. reverseList(One, NodeAt(1)) = [next |-> TurnedNext(size, size), head |-> size]
    BY <2>1, <2>2 DEF reverseList, AfterReversing
  <2>4. Chain(TurnedNext(size, size), size) = [i \in 1 .. size |-> size + 1 - i]
    BY TurnedChain
  <2>5. PICK u \in Seq(Nat) : u = Upto(1, size + 1) /\ u = [i \in 1 .. size |-> i]
    <3>1. [i \in 1 .. size |-> i] \in Seq(Nat)
      OBVIOUS
    <3>2. Upto(1, size + 1) = [i \in 1 .. size |-> i]
      BY DEF Upto
    <3> QED BY <3>1, <3>2
  <2>6. Reverse(u) = [i \in 1 .. size |-> size + 1 - i]
    BY <2>5 DEF Reverse
  <2> QED BY <2>3, <2>4, <2>5, <2>6
<1>5. \A k \in 0 .. size :
         LET s == While(ReverseTurn, [next |-> One, pre |-> Null, cur |-> NodeAt(1)], k)
         IN  Reverse(Chain(s.next, s.pre)) \o Chain(s.next, s.cur) = Upto(1, size + 1)
  BY <1>3, ReversedInPlace
<1>6. \A m, n \in 1 .. size :
         LET r == reverseBetween(One, 1, m, n)
         IN  m <= n => Chain(r.next, r.head) =
               Upto(1, m) \o Reverse(Upto(m, n + 1)) \o Upto(n + 1, size + 1)
  <2> SUFFICES ASSUME NEW m \in 1 .. size, NEW n \in 1 .. size, m <= n
               PROVE  LET r == reverseBetween(One, 1, m, n)
                      IN  Chain(r.next, r.head) =
                            Upto(1, m) \o Reverse(Upto(m, n + 1)) \o Upto(n + 1, size + 1)
    OBVIOUS
  <2>1. PICK r : r = reverseBetween(One, 1, m, n)
    OBVIOUS
  <2>2. Chain(r.next, r.head) = [i \in 1 .. size |-> IF i \in m .. n THEN m + n - i ELSE i]
    BY <1>2, <2>1, ReversedBetween
  <2>3. Upto(1, m) \o Reverse(Upto(m, n + 1)) \o Upto(n + 1, size + 1)
          = [i \in 1 .. size |-> IF i \in m .. n THEN m + n - i ELSE i]
    BY RangeTurned
  <2> QED BY <2>1, <2>2, <2>3
<1> QED BY <1>1, <1>4, <1>5, <1>6 DEF ReversesInPlace

-----------------------------------------------------------------------------
(* swapPairs after k turns, of which the one numbered h, for the last pair,    *)
(* is the last that does anything.                                          *)
SwapAt(size, h, k, i) ==
    CASE k >= h /\ i = 2 * h - 1 -> Follows(size, 2 * h)
      [] i <= 2 * (IF k < h THEN k ELSE h) /\ ~(k >= h /\ i = 2 * h - 1) ->
             IF i % 2 = 1 THEN i + 3 ELSE i - 1
      [] OTHER -> Follows(size, i)
SwapNext(size, h, k) == [i \in 1 .. size |-> SwapAt(size, h, k, i)]
Pair(h, k) == IF k < h THEN k ELSE h - 1
AfterSwap(size, h, k) ==
    [next |-> SwapNext(size, h, k), pre |-> 2 * Pair(h, k) + 1, cur |-> 2 * Pair(h, k) + 2,
     ahead |-> Follows(size, 2 * Pair(h, k) + 2), link |-> 2 * Pair(h, k) + 1, done |-> (k >= h)]

LEMMA SwapStep ==
  ASSUME NEW size \in Nat, NEW h \in Nat, size = 2 * h \/ size = 2 * h + 1, h > 0,
         NEW k \in 1 .. size
  PROVE  SwapTurn(AfterSwap(size, h, k - 1)) = AfterSwap(size, h, k)
<1>1. PICK s : s = AfterSwap(size, h, k - 1)
  OBVIOUS
<1>2. PICK next : next = SwapNext(size, h, k - 1)
  OBVIOUS
<1>3. IsHeap(next, size) /\ \A i \in 1 .. size : next[i] = SwapAt(size, h, k - 1, i)
  BY <1>2 DEF IsHeap, SwapNext
<1>4. IsHeap(SwapNext(size, h, k), size)
      /\ \A i \in 1 .. size : SwapNext(size, h, k)[i] = SwapAt(size, h, k, i)
  BY DEF IsHeap, SwapNext
<1>5. CASE k > h
  <2>1. Pair(h, k) = h - 1 /\ Pair(h, k - 1) = h - 1 /\ (k >= h) = TRUE /\ (k - 1 >= h) = TRUE
    BY <1>5 DEF Pair
  <2>2. \A i \in 1 .. size : SwapAt(size, h, k, i) = SwapAt(size, h, k - 1, i)
    BY <1>5 DEF SwapAt
  <2>3. SwapNext(size, h, k) = next
    BY <1>3, <1>4, <2>2, SameHeap
  <2>4. s = AfterSwap(size, h, k)
    BY <1>1, <1>2, <2>1, <2>3 DEF AfterSwap
  <2>5. s.done
    BY <1>1, <2>1 DEF AfterSwap
  <2> QED BY <1>1, <2>4, <2>5 DEF SwapTurn
<1>6. CASE k <= h
  <2>1. PICK pre \in 1 .. size : pre = 2 * k - 1
    <3>1. 2 * k - 1 \in 1 .. size
      BY <1>6
    <3> QED BY <3>1
  <2>2. PICK cur \in 1 .. size : cur = 2 * k
    <3>1. 2 * k \in 1 .. size
      BY <1>6
    <3> QED BY <3>1
  <2>3. PICK ahead : ahead = Follows(size, cur)
    OBVIOUS
  <2>4. s = [next |-> next, pre |-> pre, cur |-> cur, ahead |-> ahead, link |-> pre, done |-> FALSE]
    <3>1. 2 * Pair(h, k - 1) + 1 = pre /\ 2 * Pair(h, k - 1) + 2 = cur /\ (k - 1 >= h) = FALSE
      BY <1>6, <2>1, <2>2 DEF Pair
    <3> QED BY <1>1, <1>2, <2>3, <3>1 DEF AfterSwap
  <2>5. \A i \in 1 .. size : next[i] = IF i < pre THEN IF i % 2 = 1 THEN i + 3 ELSE i - 1
                                       ELSE Follows(size, i)
    BY <1>3, <1>6, <2>1 DEF SwapAt
  <2>6. PICK swapped : swapped = Point(Point(next, pre, ahead), cur, pre)
    OBVIOUS
  <2>7. IsHeap(swapped, size)
        /\ \A i \in 1 .. size :
              swapped[i] = IF i = cur THEN pre ELSE IF i = pre THEN ahead ELSE next[i]
    BY <1>3, <2>6, PointTwice
  <2>8. CASE k = h
    <3>1. ahead = Null \/ (ahead \in 1 .. size /\ next[ahead] = Null)
      BY <2>2, <2>1, <2>3, <2>5, <2>8 DEF Follows
    <3>2. SwapTurn(s) = [s EXCEPT !.next = swapped, !.done = TRUE]
      BY <2>4, <2>6, <3>1 DEF SwapTurn
    <3>3. \A i \in 1 .. size : swapped[i] = SwapAt(size, h, k, i)
      BY <2>1, <2>2, <2>3, <2>5, <2>7, <2>8 DEF SwapAt, Follows
    <3>4. swapped = SwapNext(size, h, k)
      BY <1>4, <2>7, <3>3, SameHeap
    <3>5. 2 * Pair(h, k) + 1 = pre /\ 2 * Pair(h, k) + 2 = cur /\ (k >= h) = TRUE
      BY <2>1, <2>2, <2>8 DEF Pair
    <3>6. SwapTurn(s) = [next |-> swapped, pre |-> pre, cur |-> cur, ahead |-> ahead,
                         link |-> pre, done |-> TRUE]
      BY <2>4, <3>2
    <3> QED BY <1>1, <2>3, <3>4, <3>5, <3>6 DEF AfterSwap
  <2>9. CASE k < h
    <3>1. ahead = cur + 1 /\ ahead # Null /\ ahead \in 1 .. size /\ ahead + 1 \in 1 .. size
      BY <2>2, <2>3, <2>9 DEF Follows, Null
    <3>2. next[ahead] = ahead + 1 /\ ahead + 1 # Null /\ swapped[ahead] = ahead + 1
      BY <2>1, <2>2, <2>5, <2>7, <3>1 DEF Follows, Null
    <3>3. PICK to \in 1 .. size : to = ahead + 1
      BY <3>1
    <3>4. swapped[to] = Follows(size, to)
      BY <2>1, <2>2, <2>5, <2>7, <3>1, <3>3
    <3>5. SwapTurn(s) = [next |-> Point(swapped, pre, to), pre |-> ahead, cur |-> to,
                         ahead |-> Follows(size, to), link |-> ahead, done |-> FALSE]
      BY <2>4, <2>6, <3>1, <3>2, <3>3, <3>4 DEF SwapTurn, Relink
    <3>6. IsHeap(Point(swapped, pre, to), size)
          /\ \A i \in 1 .. size :
                Point(swapped, pre, to)[i] = IF i = pre THEN to ELSE swapped[i]
      BY <2>7, PointIs
    <3>7. \A i \in 1 .. size : Point(swapped, pre, to)[i] = SwapAt(size, h, k, i)
      <4> SUFFICES ASSUME NEW i \in 1 .. size
                   PROVE  Point(swapped, pre, to)[i] = SwapAt(size, h, k, i)
        OBVIOUS
      <4>1. SwapAt(size, h, k, i) = IF i <= 2 * k THEN IF i % 2 = 1 THEN i + 3 ELSE i - 1
                                    ELSE Follows(size, i)
        BY <2>9 DEF SwapAt
      <4>2. Point(swapped, pre, to)[i] = IF i = pre THEN to ELSE swapped[i]
        BY <3>6
      <4>3. CASE i = pre
        <5>1. pre % 2 = 1 /\ to = pre + 3 /\ pre <= 2 * k
          BY <2>1, <2>2, <3>1, <3>3
        <5> QED BY <4>1, <4>2, <4>3, <5>1
      <4>4. CASE i = cur
        <5>1. cur % 2 = 0 /\ pre = cur - 1 /\ cur # pre
          BY <2>1, <2>2
        <5>2. swapped[i] = pre
          BY <2>7, <4>4
        <5> QED BY <2>2, <4>1, <4>2, <4>4, <5>1, <5>2
      <4>5. CASE i # pre /\ i # cur
        <5>1. swapped[i] = IF i < pre THEN IF i % 2 = 1 THEN i + 3 ELSE i - 1 ELSE Follows(size, i)
          BY <2>5, <2>7, <4>5
        <5>2. i < pre <=> i <= 2 * k
          BY <2>1, <2>2, <4>5
        <5> QED BY <4>1, <4>2, <4>5, <5>1, <5>2
      <4> QED BY <4>3, <4>4, <4>5
    <3>8. Point(swapped, pre, to) = SwapNext(size, h, k)
      BY <1>4, <3>6, <3>7, SameHeap
    <3>9. 2 * Pair(h, k) + 1 = ahead /\ 2 * Pair(h, k) + 2 = to /\ (k >= h) = FALSE
      BY <2>2, <2>9, <3>1, <3>3 DEF Pair
    <3> QED BY <1>1, <3>5, <3>8, <3>9 DEF AfterSwap
  <2> QED BY <1>6, <2>8, <2>9
<1> QED BY <1>5, <1>6

LEMMA SwapLoop ==
  ASSUME NEW size \in Nat, NEW h \in Nat, size = 2 * h \/ size = 2 * h + 1, h > 0
  PROVE  While(SwapTurn, AfterSwap(size, h, 0), size) = AfterSwap(size, h, size)
<1> DEFINE After(k) == AfterSwap(size, h, k)
           Is(f) == f = [k \in 0 .. size |-> IF k = 0 THEN After(0) ELSE SwapTurn(f[k - 1])]
<1>1. \A k \in 1 .. size : SwapTurn(After(k - 1)) = After(k)
  BY SwapStep
<1> HIDE DEF After
<1>2. \E f : Is(f)
  <2>1. Is([k \in 0 .. size |-> After(k)])
    BY <1>1
  <2> QED BY <2>1
<1>3. PICK f : f = CHOOSE g : Is(g)
  OBVIOUS
<1>4. Is(f)
  BY <1>2, <1>3
<1>5. While(SwapTurn, After(0), size) = f[size]
  BY <1>3 DEF While
<1>6. f[size] = After(size)
  <2> DEFINE S == {k \in 0 .. size : f[k] = After(k)}
  <2>1. 0 \in S
    BY <1>4
  <2>2. \A k \in 1 .. size : k - 1 \in S => k \in S
    BY <1>1, <1>4
  <2> HIDE DEF S
  <2>3. 0 .. size \subseteq S
    BY <2>1, <2>2, EveryTurn
  <2> QED BY <2>3 DEF S
<1> QED BY <1>5, <1>6 DEF After

LEMMA SwappedChain ==
  ASSUME NEW size \in Nat, NEW h \in Nat, size = 2 * h \/ size = 2 * h + 1, h > 0
  PROVE  Chain(SwapNext(size, h, size), 2)
           = [i \in 1 .. size |-> IF i % 2 = 0 THEN i - 1 ELSE IF i < size THEN i + 1 ELSE i]
<1>1. PICK next : next = SwapNext(size, h, size)
  OBVIOUS
<1>2. DOMAIN next = 1 .. size
      /\ \A i \in 1 .. size : next[i] = IF i = 2 * h - 1 THEN Follows(size, 2 * h)
                                        ELSE IF i <= 2 * h
                                          THEN IF i % 2 = 1 THEN i + 3 ELSE i - 1
                                        ELSE Follows(size, i)
  BY <1>1 DEF SwapNext, SwapAt
<1>3. PICK path \in Seq(1 .. size) :
         path = [i \in 1 .. size |-> IF i % 2 = 0 THEN i - 1 ELSE IF i < size THEN i + 1 ELSE i]
  <2>1. \A i \in 1 .. size :
           (IF i % 2 = 0 THEN i - 1 ELSE IF i < size THEN i + 1 ELSE i) \in 1 .. size
    OBVIOUS
  <2>2. [i \in 1 .. size |-> IF i % 2 = 0 THEN i - 1 ELSE IF i < size THEN i + 1 ELSE i]
           \in Seq(1 .. size)
    BY <2>1
  <2> QED BY <2>2
<1>4. Len(path) = size
      /\ \A i \in 1 .. size : path[i] = IF i % 2 = 0 THEN i - 1 ELSE IF i < size THEN i + 1 ELSE i
  BY <1>3
<1>5. ASSUME NEW i \in 1 .. size
      PROVE  next[path[i]] = IF i = size THEN Null ELSE path[i + 1]
  <2>1. i # size => i + 1 \in 1 .. size
    OBVIOUS
  <2>2. CASE i % 2 = 0 /\ i = size
    <3>1. path[i] = 2 * h - 1 /\ 2 * h - 1 \in 1 .. size /\ size = 2 * h
      BY <1>4, <2>2
    <3> QED BY <1>2, <2>2, <3>1 DEF Follows
  <2>3. CASE i % 2 = 0 /\ i = size - 1
    <3>1. path[i] = 2 * h - 1 /\ 2 * h - 1 \in 1 .. size /\ size = 2 * h + 1
      BY <1>4, <2>3
    <3>2. path[i + 1] = i + 1
      BY <1>4, <2>1, <2>3
    <3> QED BY <1>2, <2>3, <3>1, <3>2 DEF Follows
  <2>4. CASE i % 2 = 0 /\ i < size - 1
    <3>1. path[i] = i - 1 /\ i - 1 \in 1 .. size /\ i - 1 <= 2 * h /\ i - 1 # 2 * h - 1
          /\ (i - 1) % 2 = 1
      BY <1>4, <2>4
    <3>2. path[i + 1] = i + 2
      <4>1. (i + 1) % 2 # 0 /\ i + 1 \in 1 .. size /\ i + 1 < size
        BY <2>4
      <4> QED BY <1>4, <4>1
    <3>3. next[i - 1] = i - 1 + 3
      BY <1>2, <3>1
    <3> QED BY <2>4, <3>1, <3>2, <3>3
  <2>5. CASE i % 2 # 0 /\ i = size
    <3>1. path[i] = i /\ i > 2 * h
      BY <1>4, <2>5
    <3>2. next[i] = Follows(size, i)
      BY <1>2, <3>1
    <3> QED BY <2>5, <3>1, <3>2 DEF Follows
  <2>6. CASE i % 2 # 0 /\ i < size
    <3>1. path[i] = i + 1 /\ i + 1 \in 1 .. size /\ i + 1 <= 2 * h /\ i + 1 # 2 * h - 1
          /\ (i + 1) % 2 = 0
      BY <1>4, <2>6
    <3>2. path[i + 1] = i
      BY <1>4, <3>1
    <3>3. next[i + 1] = i + 1 - 1
      BY <1>2, <3>1
    <3> QED BY <2>6, <3>1, <3>2, <3>3
  <2> QED BY <2>2, <2>3, <2>4, <2>5, <2>6
<1>6. IsPath(next, size, path)
  BY <1>4, <1>5 DEF IsPath
<1>7. First(path) = 2
  <2>1. path # <<>> /\ path[1] = 2
    BY <1>4
  <2> QED BY <2>1 DEF First
<1>8. Chain(next, First(path)) = path
  BY <1>2, <1>6, ChainIs
<1> QED BY <1>1, <1>3, <1>7, <1>8

LEMMA PairsAreSwapped == InputType => PairsSwapped
<1> SUFFICES ASSUME InputType PROVE PairsSwapped
  OBVIOUS
<1>1. PICK size \in Nat : size = Len(data)
  BY WholeList
<1>2. PICK next : next = One /\ next = TurnedNext(size, 0)
  BY <1>1, WholeList
<1>3. PICK head : head = NodeAt(1) /\ head = IF size = 0 THEN Null ELSE 1
  BY <1>1, WholeList
<1> DEFINE Swapped == [i \in 1 .. size |-> IF i % 2 = 0 THEN i - 1 ELSE IF i < size THEN i + 1 ELSE i]
<1>4. PICK r : r = swapPairs(next, head)
  OBVIOUS
<1>5. Chain(r.next, r.head) = Swapped
  <2>1. CASE size < 2
    <3>1. r.next = next /\ r.head = head
      <4>1. head = Null \/ next[head] = Null
        BY <1>2, <1>3, <2>1 DEF TurnedNext
      <4> QED BY <1>4, <4>1 DEF swapPairs
    <3>2. Chain(next, IF 0 = size THEN Null ELSE 0 + 1) = [i \in 1 .. size - 0 |-> 0 + i]
      BY <1>2, UnturnedChain
    <3>3. Swapped = [i \in 1 .. size - 0 |-> 0 + i]
      BY <2>1
    <3> QED BY <1>3, <3>1, <3>2, <3>3
  <2>2. CASE size >= 2
    <3>1. PICK h \in Nat : (size = 2 * h \/ size = 2 * h + 1) /\ h > 0
      <4>1. size \div 2 \in Nat /\ size \div 2 > 0
            /\ (size = 2 * (size \div 2) \/ size = 2 * (size \div 2) + 1)
        BY <2>2
      <4> QED BY <4>1
    <3>2. head = 1 /\ next[1] = 2 /\ next[2] = Follows(size, 2) /\ head # Null /\ next[1] # Null
      BY <1>2, <1>3, <2>2 DEF TurnedNext, Follows, Null
    <3>3. Cardinality(DOMAIN next) = size
      BY <1>2, FS_Interval DEF TurnedNext
    <3>4. [next |-> next, pre |-> 1, cur |-> 2, ahead |-> next[2], link |-> 1, done |-> FALSE]
            = AfterSwap(size, h, 0)
      <4>1. next = SwapNext(size, h, 0)
        BY <1>2, <3>1 DEF TurnedNext, SwapNext, SwapAt, Follows
      <4>2. Pair(h, 0) = 0 /\ (0 >= h) = FALSE
        BY <3>1 DEF Pair
      <4>3. 2 * Pair(h, 0) + 1 = 1 /\ 2 * Pair(h, 0) + 2 = 2
        BY <4>2
      <4> QED BY <3>2, <4>1, <4>2, <4>3 DEF AfterSwap
    <3>5. r = [next |-> While(SwapTurn, AfterSwap(size, h, 0), size).next, head |-> 2]
      BY <1>4, <3>2, <3>3, <3>4 DEF swapPairs
    <3>6. r.next = SwapNext(size, h, size) /\ r.head = 2
      <4>1. While(SwapTurn, AfterSwap(size, h, 0), size) = AfterSwap(size, h, size)
        BY <3>1, SwapLoop
      <4>2. r = [next |-> AfterSwap(size, h, size).next, head |-> 2]
        BY <3>5, <4>1
      <4>3. AfterSwap(size, h, size).next = SwapNext(size, h, size)
        BY DEF AfterSwap
      <4> QED BY <4>2, <4>3
    <3> QED BY <3>1, <3>6, SwappedChain
  <2> QED BY <2>1, <2>2
<1> QED BY <1>1, <1>2, <1>3, <1>4, <1>5 DEF PairsSwapped

-----------------------------------------------------------------------------
(* Two lists, of which the first has the nodes 1 .. a, the second the nodes    *)
(* a + 1 .. b, and both have the ones behind b.                              *)
LEMMA MeetNodes ==
  ASSUME InputType, NEW a \in Cuts, NEW b \in Cuts, a <= b
  PROVE  LET next == [i \in Nodes |-> IF i = a THEN NodeAt(b + 1) ELSE NodeAt(i + 1)]
         IN  getIntersectionNode(data, next, IF a = 0 THEN NodeAt(b + 1) ELSE 1, NodeAt(a + 1))
               = NodeAt(b + 1)
<1>1. PICK size \in Nat : size = Len(data) /\ Nodes = 1 .. size
  BY WholeList
<1>2. a \in 0 .. size /\ b \in 0 .. size
  BY <1>1 DEF Cuts
<1>3. \A i \in Nat : NodeAt(i + 1) = IF i < size THEN i + 1 ELSE Null
  BY <1>1 DEF NodeAt
<1> DEFINE next == [i \in Nodes |-> IF i = a THEN NodeAt(b + 1) ELSE NodeAt(i + 1)]
           headA == IF a = 0 THEN NodeAt(b + 1) ELSE 1
           headB == NodeAt(a + 1)
<1>4. DOMAIN next = 1 .. size
      /\ \A i \in 1 .. size : next[i] = IF i = a THEN IF b < size THEN b + 1 ELSE Null
                                        ELSE IF i < size THEN i + 1 ELSE Null
  BY <1>1, <1>2, <1>3
<1> HIDE DEF next
<1>5. PICK pathA \in Seq(1 .. size) : Len(pathA) = a + size - b
         /\ \A i \in 1 .. a + size - b : pathA[i] = IF i <= a THEN i ELSE i + b - a
  <2> DEFINE p == [i \in 1 .. a + size - b |-> IF i <= a THEN i ELSE i + b - a]
  <2>1. a + size - b \in Nat
        /\ \A i \in 1 .. a + size - b : (IF i <= a THEN i ELSE i + b - a) \in 1 .. size
    BY <1>2
  <2>2. p \in Seq(1 .. size) /\ Len(p) = a + size - b
    BY <2>1
  <2>3. \A i \in 1 .. a + size - b : p[i] = IF i <= a THEN i ELSE i + b - a
    OBVIOUS
  <2> HIDE DEF p
  <2> QED BY <2>2, <2>3
<1>6. PICK pathB \in Seq(1 .. size) : Len(pathB) = size - a
         /\ \A i \in 1 .. size - a : pathB[i] = a + i
  <2> DEFINE p == [i \in 1 .. size - a |-> a + i]
  <2>1. size - a \in Nat /\ \A i \in 1 .. size - a : a + i \in 1 .. size
    BY <1>2
  <2>2. p \in Seq(1 .. size) /\ Len(p) = size - a
    BY <2>1
  <2>3. \A i \in 1 .. size - a : p[i] = a + i
    OBVIOUS
  <2> HIDE DEF p
  <2> QED BY <2>2, <2>3
<1>7. Chain(next, headA) = pathA
  <2>1. ASSUME NEW i \in 1 .. Len(pathA)
        PROVE  next[pathA[i]] = IF i = Len(pathA) THEN Null ELSE pathA[i + 1]
    <3>1. i \in 1 .. a + size - b /\ pathA[i] \in 1 .. size
      BY <1>5
    <3>2. CASE i < a
      <4>1. pathA[i] = i /\ i < size
        BY <1>2, <1>5, <3>1, <3>2
      <4>2. i + 1 \in 1 .. a + size - b /\ pathA[i + 1] = i + 1
        BY <1>2, <1>5, <3>1, <3>2
      <4> QED BY <1>4, <1>5, <3>1, <3>2, <4>1, <4>2
    <3>3. CASE i = a
      <4>1. pathA[i] = a
        BY <1>5, <3>1, <3>3
      <4>2. next[a] = IF b < size THEN b + 1 ELSE Null
        BY <1>4, <3>1, <4>1
      <4>3. b < size => pathA[i + 1] = b + 1
        BY <1>2, <1>5, <3>1, <3>3
      <4> QED BY <1>2, <1>5, <3>3, <4>1, <4>2, <4>3
    <3>4. CASE i > a
      <4>1. pathA[i] = i + b - a /\ i + b - a \in 1 .. size /\ i + b - a # a
        BY <1>2, <1>5, <3>1, <3>4
      <4>2. next[i + b - a] = IF i + b - a < size THEN i + b - a + 1 ELSE Null
        BY <1>4, <4>1
      <4>3. i + b - a < size => pathA[i + 1] = i + b - a + 1
        BY <1>2, <1>5, <3>1, <3>4
      <4> QED BY <1>2, <1>5, <3>1, <4>1, <4>2, <4>3
    <3> QED BY <1>2, <3>1, <3>2, <3>3, <3>4
  <2>2. IsPath(next, size, pathA)
    BY <1>2, <1>5, <2>1 DEF IsPath
  <2>3. headA = First(pathA)
    <3>1. CASE a + size - b = 0
      BY <1>2, <1>3, <1>5, <3>1 DEF First
    <3>2. CASE a + size - b # 0
      <4>1. pathA # <<>> /\ pathA[1] = IF 1 <= a THEN 1 ELSE 1 + b - a
        BY <1>2, <1>5, <3>2
      <4>2. a = 0 => b < size
        BY <1>2, <3>2
      <4> QED BY <1>2, <1>3, <4>1, <4>2 DEF First
    <3> QED BY <3>1, <3>2
  <2> HIDE DEF headA
  <2> QED BY <1>4, <2>2, <2>3, ChainIs
<1>8. Chain(next, headB) = pathB
  <2>1. ASSUME NEW i \in 1 .. Len(pathB)
        PROVE  next[pathB[i]] = IF i = Len(pathB) THEN Null ELSE pathB[i + 1]
    <3>1. i \in 1 .. size - a /\ pathB[i] = a + i /\ a + i \in 1 .. size
      BY <1>2, <1>6
    <3>2. next[a + i] = IF a + i < size THEN a + i + 1 ELSE Null
      BY <1>2, <1>4, <3>1
    <3>3. i # size - a => pathB[i + 1] = a + i + 1
      BY <1>2, <1>6, <3>1
    <3> QED BY <1>2, <1>6, <3>1, <3>2, <3>3
  <2>2. IsPath(next, size, pathB)
    BY <1>2, <1>6, <2>1 DEF IsPath
  <2>3. headB = First(pathB)
    <3>1. CASE size = a
      BY <1>2, <1>3, <1>6, <3>1 DEF First
    <3>2. CASE size # a
      <4>1. pathB # <<>> /\ pathB[1] = a + 1
        BY <1>2, <1>6, <3>2
      <4> QED BY <1>2, <1>3, <3>2, <4>1 DEF First
    <3> QED BY <3>1, <3>2
  <2> HIDE DEF headB
  <2> QED BY <1>4, <2>2, <2>3, ChainIs
<1> DEFINE Common == {i \in 1 .. Len(pathA) : \E j \in DOMAIN pathB :
                         pathB[j] = pathA[i] /\ data[pathB[j]] = data[pathA[i]]}
           first == IF Common # {} THEN CHOOSE x \in Common : \A y \in Common : x <= y ELSE 0
<1>9. getIntersectionNode(data, next, headA, headB) = IF first = 0 THEN Null ELSE pathA[first]
  <2> DEFINE Test(x) == \E j \in DOMAIN Chain(next, headB) :
                           Chain(next, headB)[j] = x /\ data[Chain(next, headB)[j]] = data[x]
             found == SelectInSeq(Chain(next, headA), Test)
  <2>1. getIntersectionNode(data, next, headA, headB)
          = IF found = 0 THEN Null ELSE Chain(next, headA)[found]
    BY DEF getIntersectionNode
  <2> DEFINE Found == {i \in 1 .. Len(Chain(next, headA)) : Test(Chain(next, headA)[i])}
  <2>2. Found = Common
    <3> HIDE DEF headA, headB
    <3> QED BY <1>7, <1>8
  <2>3. found = IF Found # {} THEN CHOOSE x \in Found : \A y \in Found : x <= y ELSE 0
    BY DEF SelectInSeq, Min
  <2> HIDE DEF Found, found, Common
  <2>4. found = first
    BY <2>2, <2>3
  <2> HIDE DEF headA, headB
  <2> QED BY <1>7, <2>1, <2>4
<1>10. Common = a + 1 .. a + size - b
  <2>1. \A i \in 1 .. Len(pathA) : i \in Common <=> i > a
    <3> SUFFICES ASSUME NEW i \in 1 .. Len(pathA) PROVE i \in Common <=> i > a
      OBVIOUS
    <3>1. DOMAIN pathB = 1 .. size - a /\ i \in 1 .. a + size - b
      BY <1>5, <1>6
    <3>2. CASE i > a
      <4>1. i + b - a - a \in 1 .. size - a /\ pathB[i + b - a - a] = pathA[i]
        BY <1>2, <1>5, <1>6, <3>1, <3>2
      <4> QED BY <3>1, <3>2, <4>1
    <3>3. CASE ~(i > a)
      <4>1. pathA[i] <= a
        BY <1>2, <1>5, <3>1, <3>3
      <4>2. ASSUME NEW j \in 1 .. size - a PROVE pathB[j] > a
        <5>1. pathB[j] = a + j
          BY <1>6
        <5>2. a + j > a
          BY <1>2
        <5> QED BY <5>1, <5>2
      <4> QED BY <1>2, <3>1, <3>3, <4>1, <4>2
    <3> QED BY <3>2, <3>3
  <2>2. Common \subseteq 1 .. Len(pathA)
    OBVIOUS
  <2> HIDE DEF Common
  <2>3. PICK n \in Nat : n = a + size - b
    <3>1. a + size - b \in Nat
      BY <1>2
    <3> QED BY <3>1
  <2>4. ASSUME NEW i \in Common PROVE i \in a + 1 .. n
    <3>1. i \in 1 .. n /\ i > a
      BY <1>5, <2>1, <2>2, <2>3
    <3> QED BY <1>2, <3>1
  <2>5. ASSUME NEW i \in a + 1 .. n PROVE i \in Common
    <3>1. i \in 1 .. Len(pathA) /\ i > a
      BY <1>2, <1>5, <2>3
    <3> QED BY <2>1, <3>1
  <2> QED BY <2>3, <2>4, <2>5
<1> HIDE DEF Common
<1>11. CASE b < size
  <2>1. a + 1 \in Common /\ \A y \in Common : a + 1 <= y /\ y \in Int
    BY <1>2, <1>10, <1>11
  <2>2. first = a + 1
    BY <1>2, <2>1
  <2>3. pathA[a + 1] = b + 1
    BY <1>2, <1>5, <1>11
  <2>4. NodeAt(b + 1) = b + 1
    BY <1>2, <1>3, <1>11
  <2>5. first # 0
    <3> HIDE DEF first
    <3> QED BY <1>2, <2>2
  <2>6. getIntersectionNode(data, next, headA, headB) = NodeAt(b + 1)
    <3> HIDE DEF first, headA, headB
    <3> QED BY <1>9, <2>2, <2>3, <2>4, <2>5
  <2> QED BY <2>6 DEF next
<1>12. CASE b = size
  <2>1. first = 0
    BY <1>2, <1>10, <1>12
  <2>2. NodeAt(b + 1) = Null
    BY <1>2, <1>3, <1>12
  <2>3. getIntersectionNode(data, next, headA, headB) = NodeAt(b + 1)
    <3> HIDE DEF first, headA, headB
    <3> QED BY <1>9, <2>1, <2>2
  <2> QED BY <2>3 DEF next
<1> QED BY <1>2, <1>11, <1>12

LEMMA ListsMeet == InputType => MeetWhereTheyJoin
BY MeetNodes DEF MeetWhereTheyJoin

-----------------------------------------------------------------------------
(* Merging: path has the nodes that are linked so far, left are the others.    *)
(* A node may only precede another with no smaller value, and in a list of    *)
(* its own, which is that of the nodes up to cut or that of those behind it,  *)
(* only one that followed it.                                               *)
Before(val, cut, a, b) == val[a] <= val[b] /\ ((a <= cut <=> b <= cut) => a < b)
LinkedAt(size, cut, n) == IF n \in {cut, size} THEN Null ELSE n + 1

Woven(val, size, cut, next, left, path) ==
    /\ path \in Seq(1 .. size) /\ left \subseteq 1 .. size
    /\ \A i \in 1 .. Len(path) - 1 : next[path[i]] = path[i + 1]
    /\ \A n \in left : next[n] = LinkedAt(size, cut, n)
    /\ \A i \in 1 .. Len(path) : path[i] \notin left
    /\ \A n \in 1 .. size : n \in left \/ \E i \in 1 .. Len(path) : path[i] = n
    /\ \A i, j \in 1 .. Len(path) : i < j => Before(val, cut, path[i], path[j])
    /\ \A i \in 1 .. Len(path) : \A n \in left : Before(val, cut, path[i], n)

LEMMA WeaveOne ==
  ASSUME NEW val, NEW size \in Nat, NEW cut \in Nat, NEW next, IsHeap(next, size), NEW left,
         NEW path, Woven(val, size, cut, next, left, path), Len(path) > 0,
         NEW node \in left, \A n \in left \ {node} : Before(val, cut, node, n)
  PROVE  Woven(val, size, cut, Point(next, path[Len(path)], node), left \ {node},
               Append(path, node))
<1>1. PICK l \in Nat : l = Len(path) /\ l > 0
  BY DEF Woven
<1>2. PICK tail \in 1 .. size : tail = path[l]
  BY <1>1 DEF Woven
<1>3. PICK more \in Seq(1 .. size) : more = Append(path, node)
  <2>1. Append(path, node) \in Seq(1 .. size)
    BY DEF Woven
  <2> QED BY <2>1
<1>4. Len(more) = l + 1 /\ more[l + 1] = node /\ \A i \in 1 .. l : more[i] = path[i]
  BY <1>1, <1>3 DEF Woven
<1>5. PICK after : after = Point(next, tail, node)
  OBVIOUS
<1>6. \A i \in 1 .. size : after[i] = IF i = tail THEN node ELSE next[i]
  BY <1>5, PointIs
<1>7. node \in 1 .. size /\ tail \notin left
  BY <1>1, <1>2 DEF Woven
<1>8. \A i \in 1 .. l - 1 : path[i] # tail
  <2> SUFFICES ASSUME NEW i \in 1 .. l - 1 PROVE path[i] # tail
    OBVIOUS
  <2>1. i \in 1 .. l /\ l \in 1 .. l /\ i < l /\ path[i] \in 1 .. size
    BY <1>1 DEF Woven
  <2>2. Before(val, cut, path[i], tail)
    BY <1>1, <1>2, <2>1 DEF Woven
  <2> QED BY <2>1, <2>2 DEF Before
<1>9. \A i \in 1 .. l + 1 - 1 : after[more[i]] = more[i + 1]
  <2> SUFFICES ASSUME NEW i \in 1 .. l PROVE after[more[i]] = more[i + 1]
    BY <1>1
  <2>1. more[i] = path[i] /\ path[i] \in 1 .. size
    BY <1>1, <1>4 DEF Woven
  <2>2. CASE i = l
    BY <1>2, <1>4, <1>6, <2>1, <2>2
  <2>3. CASE i # l
    <3>1. i \in 1 .. l - 1 /\ i + 1 \in 1 .. l
      BY <2>3
    <3>2. next[path[i]] = path[i + 1]
      BY <1>1, <3>1 DEF Woven
    <3>3. path[i] # tail /\ more[i + 1] = path[i + 1]
      BY <1>4, <1>8, <3>1
    <3> QED BY <1>6, <2>1, <3>2, <3>3
  <2> QED BY <2>2, <2>3
<1>10. \A n \in left \ {node} : after[n] = LinkedAt(size, cut, n)
  BY <1>6, <1>7 DEF Woven
<1>11. \A i \in 1 .. l + 1 : more[i] \notin left \ {node}
  <2> SUFFICES ASSUME NEW i \in 1 .. l + 1 PROVE more[i] \notin left \ {node}
    OBVIOUS
  <2>1. CASE i = l + 1
    BY <1>4, <2>1
  <2>2. CASE i # l + 1
    <3>1. i \in 1 .. l
      BY <2>2
    <3> QED BY <1>1, <1>4, <3>1 DEF Woven
  <2> QED BY <2>1, <2>2
<1>12. \A n \in 1 .. size : n \in left \ {node} \/ \E i \in 1 .. l + 1 : more[i] = n
  <2> SUFFICES ASSUME NEW n \in 1 .. size, n \notin left \ {node}
               PROVE  \E i \in 1 .. l + 1 : more[i] = n
    OBVIOUS
  <2>1. CASE n = node
    <3>1. l + 1 \in 1 .. l + 1
      OBVIOUS
    <3> QED BY <1>4, <2>1, <3>1
  <2>2. CASE n # node
    <3>1. PICK i \in 1 .. l : path[i] = n
      BY <1>1, <2>2 DEF Woven
    <3>2. i \in 1 .. l + 1
      OBVIOUS
    <3> QED BY <1>4, <3>1, <3>2
  <2> QED BY <2>1, <2>2
<1>13. \A i, j \in 1 .. l + 1 : i < j => Before(val, cut, more[i], more[j])
  <2> SUFFICES ASSUME NEW i \in 1 .. l + 1, NEW j \in 1 .. l + 1, i < j
               PROVE  Before(val, cut, more[i], more[j])
    OBVIOUS
  <2>1. i \in 1 .. l /\ more[i] = path[i]
    BY <1>4
  <2>2. CASE j = l + 1
    BY <1>1, <1>4, <2>1, <2>2 DEF Woven
  <2>3. CASE j # l + 1
    <3>1. j \in 1 .. l
      BY <2>3
    <3> QED BY <1>1, <1>4, <2>1, <3>1 DEF Woven
  <2> QED BY <2>2, <2>3
<1>14. \A i \in 1 .. l + 1 : \A n \in left \ {node} : Before(val, cut, more[i], n)
  <2> SUFFICES ASSUME NEW i \in 1 .. l + 1, NEW n \in left \ {node}
               PROVE  Before(val, cut, more[i], n)
    OBVIOUS
  <2>1. CASE i = l + 1
    BY <1>4, <2>1
  <2>2. CASE i # l + 1
    <3>1. i \in 1 .. l
      BY <2>2
    <3> QED BY <1>1, <1>4, <3>1 DEF Woven
  <2> QED BY <2>1, <2>2
<1>15. left \ {node} \subseteq 1 .. size
  BY DEF Woven
<1> HIDE DEF Woven
<1>16. Woven(val, size, cut, after, left \ {node}, more)
  BY <1>4, <1>9, <1>10, <1>11, <1>12, <1>13, <1>14, <1>15 DEF Woven
<1> QED BY <1>1, <1>2, <1>3, <1>5, <1>16

(* What is left when one list has ended is a run of nodes that are linked to   *)
(* each other, and all nodes are in the list when that run is linked behind   *)
(* the others.                                                              *)
RunLeft(val, size, cut, left, l, d) ==
    /\ left = {n \in 1 .. size : l - d < n /\ n <= size - d} /\ d <= l
    /\ \A n \in left : LinkedAt(size, cut, n) = IF n = size - d THEN Null ELSE n + 1
    /\ \A m, n \in left : m < n => Before(val, cut, m, n)

AllLinked(val, size, cut, next, head) ==
    \E all \in Seq(1 .. size) :
        /\ Len(all) = size /\ First(all) = head /\ IsPath(next, size, all)
        /\ \A n \in 1 .. size : \E i \in 1 .. size : all[i] = n
        /\ \A i, j \in 1 .. size : i < j => Before(val, cut, all[i], all[j])

LEMMA WeaveRest ==
  ASSUME NEW val, NEW size \in Nat, NEW cut \in Nat, NEW next, IsHeap(next, size), NEW left,
         NEW path, Woven(val, size, cut, next, left, path),
         NEW l \in 1 .. size, l = Len(path), NEW d \in Nat,
         RunLeft(val, size, cut, left, l, d),
         NEW to, to = IF l < size THEN l + 1 - d ELSE Null
  PROVE  AllLinked(val, size, cut, Point(next, path[l], to), path[1])
<1>0. /\ left = {n \in 1 .. size : l - d < n /\ n <= size - d} /\ d <= l
      /\ \A n \in left : LinkedAt(size, cut, n) = IF n = size - d THEN Null ELSE n + 1
      /\ \A m, n \in left : m < n => Before(val, cut, m, n)
  BY DEF RunLeft
<1> USE <1>0
<1>1. PICK tail \in 1 .. size : tail = path[l]
  BY DEF Woven
<1>2. PICK after : after = Point(next, tail, to)
  OBVIOUS
<1>3. \A i \in 1 .. size : after[i] = IF i = tail THEN to ELSE next[i]
  BY <1>2, PointIs
<1>4. \A i \in 1 .. l : path[i] \in 1 .. size
  BY DEF Woven
<1>5. \A i \in 1 .. size : i > l => i - d \in left
  OBVIOUS
<1>6. PICK all \in Seq(1 .. size) :
         Len(all) = size /\ \A i \in 1 .. size : all[i] = IF i <= l THEN path[i] ELSE i - d
  <2> DEFINE p == [i \in 1 .. size |-> IF i <= l THEN path[i] ELSE i - d]
  <2>1. \A i \in 1 .. size : (IF i <= l THEN path[i] ELSE i - d) \in 1 .. size
    BY <1>4, <1>5
  <2>2. p \in Seq(1 .. size) /\ Len(p) = size
    BY <2>1
  <2>3. \A i \in 1 .. size : p[i] = IF i <= l THEN path[i] ELSE i - d
    OBVIOUS
  <2> HIDE DEF p
  <2> QED BY <2>2, <2>3
<1>7. tail \notin left /\ \A i \in 1 .. l - 1 : path[i] # tail
  <2>1. tail \notin left
    BY <1>1 DEF Woven
  <2>2. ASSUME NEW i \in 1 .. l - 1 PROVE path[i] # tail
    <3>1. i \in 1 .. l /\ l \in 1 .. l /\ i < l /\ path[i] \in 1 .. size
      BY <1>4
    <3>2. Before(val, cut, path[i], tail)
      BY <1>1, <3>1 DEF Woven
    <3> QED BY <3>1, <3>2 DEF Before
  <2> QED BY <2>1, <2>2
<1>8. ASSUME NEW i \in 1 .. size
      PROVE  after[all[i]] = IF i = size THEN Null ELSE all[i + 1]
  <2>1. i # size => i + 1 \in 1 .. size
    OBVIOUS
  <2>2. CASE i < l
    <3>1. i \in 1 .. l - 1 /\ i + 1 \in 1 .. l /\ all[i] = path[i] /\ all[i + 1] = path[i + 1]
      BY <1>6, <2>1, <2>2
    <3>2. next[path[i]] = path[i + 1]
      BY <3>1 DEF Woven
    <3>3. path[i] # tail /\ path[i] \in 1 .. size
      BY <1>4, <1>7, <3>1
    <3>4. after[path[i]] = next[path[i]]
      BY <1>3, <3>3
    <3> HIDE <1>0
    <3> QED BY <2>2, <3>1, <3>2, <3>4
  <2>3. CASE i = l
    <3>1. all[i] = tail
      BY <1>1, <1>6, <2>3
    <3>2. l < size => all[i + 1] = l + 1 - d
      BY <1>6, <2>1, <2>3
    <3> QED BY <1>3, <2>3, <3>1, <3>2
  <2>4. CASE i > l
    <3>1. all[i] = i - d /\ i - d \in left /\ i - d \in 1 .. size /\ i - d # tail
      BY <1>5, <1>6, <1>7, <2>4
    <3>2. after[i - d] = IF i - d = size - d THEN Null ELSE i - d + 1
      BY <1>3, <3>1 DEF Woven
    <3>3. i # size => all[i + 1] = i + 1 - d
      BY <1>6, <2>1, <2>4
    <3> QED BY <2>4, <3>1, <3>2, <3>3
  <2> QED BY <2>2, <2>3, <2>4
<1>9. IsPath(after, size, all)
  BY <1>6, <1>8 DEF IsPath
<1>10. First(all) = path[1]
  BY <1>6 DEF First
<1>11. ASSUME NEW n \in 1 .. size PROVE \E i \in 1 .. size : all[i] = n
  <2>1. CASE n \in left
    <3>1. n + d \in 1 .. size /\ n + d > l
      BY <2>1
    <3>2. all[n + d] = n
      BY <1>6, <3>1
    <3> QED BY <3>1, <3>2
  <2>2. CASE n \notin left
    <3>1. PICK i \in 1 .. l : path[i] = n
      BY <2>2 DEF Woven
    <3>2. i \in 1 .. size /\ all[i] = n
      BY <1>6, <3>1
    <3> QED BY <3>2
  <2> QED BY <2>1, <2>2
<1>12. ASSUME NEW i \in 1 .. size, NEW j \in 1 .. size, i < j
       PROVE  Before(val, cut, all[i], all[j])
  <2>1. CASE j <= l
    <3>1. i \in 1 .. l /\ j \in 1 .. l /\ all[i] = path[i] /\ all[j] = path[j]
      BY <1>6, <1>12, <2>1
    <3> QED BY <1>12, <3>1 DEF Woven
  <2>2. CASE i <= l /\ j > l
    <3>1. i \in 1 .. l /\ j - d \in left /\ all[i] = path[i] /\ all[j] = j - d
      BY <1>5, <1>6, <2>2
    <3> QED BY <3>1 DEF Woven
  <2>3. CASE i > l
    <3>1. i - d < j - d /\ j > l
      BY <1>12, <2>3
    <3>2. i - d \in left /\ j - d \in left
      BY <1>5, <2>3, <3>1
    <3>3. all[i] = i - d /\ all[j] = j - d
      BY <1>6, <2>3, <3>1
    <3> QED BY <3>1, <3>2, <3>3
  <2> QED BY <2>1, <2>2, <2>3
<1> QED BY <1>1, <1>2, <1>6, <1>9, <1>10, <1>11, <1>12 DEF AllLinked

(* The loop of mergeTwoLists: x nodes of the first list and y of the second    *)
(* are linked, and in every turn one more, until one list has ended.         *)
TwoLists(val, size, cut) ==
    /\ 0 < cut /\ cut < size
    /\ \A i \in 1 .. size : val[i] \in Int
    /\ \A i, j \in 1 .. size : i < j /\ (i <= cut <=> j <= cut) => val[i] <= val[j]

MergeStates(size) == [next : [1 .. size -> 0 .. size], tail : 1 .. size,
                      list1 : 0 .. size, list2 : 0 .. size]

LeftOf(size, cut, x, y) == {n \in 1 .. size : (x < n /\ n <= cut) \/ cut + y < n}

Merging(val, size, cut, s, x, y, path) ==
    /\ x <= cut /\ cut + y <= size /\ x + y > 0 /\ Len(path) = x + y
    /\ Woven(val, size, cut, s.next, LeftOf(size, cut, x, y), path)
    /\ s.tail = path[x + y]
    /\ s.list1 = IF x = cut THEN Null ELSE x + 1
    /\ s.list2 = IF cut + y = size THEN Null ELSE cut + y + 1

MergedAfter(val, size, cut, head, k, s) ==
    \E x \in Nat, y \in Nat, path \in Seq(1 .. size) :
        /\ Merging(val, size, cut, s, x, y, path) /\ path[1] = head
        /\ x + y = k + 1 \/ x = cut \/ cut + y = size

LEMMA MergeTyped ==
  ASSUME NEW val, NEW size \in Nat, NEW s \in MergeStates(size)
  PROVE  MergeTurn(val, s) \in MergeStates(size)
<1>1. CASE s.list1 = Null \/ s.list2 = Null
  BY <1>1 DEF MergeTurn
<1>2. CASE ~(s.list1 = Null \/ s.list2 = Null)
  <2> DEFINE first == val[s.list1] < val[s.list2]
  <2>1. PICK node : node = IF first THEN s.list1 ELSE s.list2
    OBVIOUS
  <2>2. node \in 1 .. size
    <3>1. s.list1 \in 1 .. size /\ s.list2 \in 1 .. size
      BY <1>2 DEF MergeStates, Null
    <3> HIDE DEF first
    <3> QED BY <2>1, <3>1
  <2>3. PICK after : after = Point(s.next, s.tail, node)
    OBVIOUS
  <2>4. after \in [1 .. size -> 0 .. size]
    BY <2>2, <2>3 DEF MergeStates, Point
  <2>5. MergeTurn(val, s) = [s EXCEPT !.next = after, !.tail = node,
                                      !.list1 = IF first THEN after[node] ELSE @,
                                      !.list2 = IF first THEN @ ELSE after[node]]
    BY <1>2, <2>1, <2>3 DEF MergeTurn
  <2>6. after[node] \in 0 .. size
    BY <2>2, <2>4
  <2> HIDE DEF first
  <2> QED BY <2>2, <2>4, <2>5, <2>6 DEF MergeStates
<1> QED BY <1>1, <1>2

LEMMA MergeStep ==
  ASSUME NEW val, NEW size \in Nat, NEW cut \in Nat, TwoLists(val, size, cut), NEW head, NEW k \in 1 .. size,
         NEW s \in MergeStates(size), MergedAfter(val, size, cut, head, k - 1, s)
  PROVE  MergedAfter(val, size, cut, head, k, MergeTurn(val, s))
<1>1. cut < size /\ cut > 0
  BY DEF TwoLists
<1>2. PICK x \in Nat, y \in Nat, path \in Seq(1 .. size) :
         /\ Merging(val, size, cut, s, x, y, path) /\ path[1] = head
         /\ x + y = k \/ x = cut \/ cut + y = size
  BY DEF MergedAfter
<1>3. CASE x = cut \/ cut + y = size
  <2>1. s.list1 = Null \/ s.list2 = Null
    BY <1>2, <1>3 DEF Merging
  <2>2. MergeTurn(val, s) = s
    BY <2>1 DEF MergeTurn
  <2> QED BY <1>2, <1>3, <2>2 DEF MergedAfter
<1>4. CASE x < cut /\ cut + y < size
  <2>1. PICK a \in 1 .. size : a = x + 1
    BY <1>1, <1>4
  <2>2. PICK b \in 1 .. size : b = cut + y + 1
    BY <1>1, <1>4
  <2>3. s.list1 = a /\ s.list2 = b /\ a # Null /\ b # Null
    BY <1>2, <1>4, <2>1, <2>2 DEF Merging, Null
  <2>4. PICK left : left = LeftOf(size, cut, x, y)
    OBVIOUS
  <2>5. PICK l \in Nat : l = x + y /\ l = Len(path) /\ l > 0
    BY <1>2 DEF Merging
  <2>6. Woven(val, size, cut, s.next, left, path) /\ s.tail = path[Len(path)]
    BY <1>2, <2>4, <2>5 DEF Merging
  <2>7. IsHeap(s.next, size)
    BY DEF MergeStates, IsHeap
  <2>8. \A node \in left :
           /\ Point(s.next, s.tail, node)[node] = LinkedAt(size, cut, node)
           /\ Append(path, node) \in Seq(1 .. size) /\ Len(Append(path, node)) = l + 1
           /\ Append(path, node)[l + 1] = node /\ Append(path, node)[1] = head
    <3> SUFFICES ASSUME NEW node \in left
                 PROVE  /\ Point(s.next, s.tail, node)[node] = LinkedAt(size, cut, node)
                        /\ Append(path, node) \in Seq(1 .. size) /\ Len(Append(path, node)) = l + 1
                        /\ Append(path, node)[l + 1] = node /\ Append(path, node)[1] = head
      OBVIOUS
    <3>1. l \in 1 .. Len(path) /\ node \in 1 .. size
      BY <2>4, <2>5 DEF LeftOf
    <3>2. node # s.tail
      BY <2>5, <2>6, <3>1 DEF Woven
    <3>3. Point(s.next, s.tail, node)[node] = s.next[node]
      BY <2>7, <3>1, <3>2, PointIs
    <3>4. s.next[node] = LinkedAt(size, cut, node)
      BY <2>6 DEF Woven
    <3>5. Append(path, node) \in Seq(1 .. size) /\ Len(Append(path, node)) = l + 1
          /\ Append(path, node)[l + 1] = node /\ Append(path, node)[1] = head
      BY <1>2, <2>5, <3>1
    <3> QED BY <3>3, <3>4, <3>5
  <2>9. s = [next |-> s.next, tail |-> s.tail, list1 |-> a, list2 |-> b]
    BY <2>3 DEF MergeStates
  <2>10. CASE val[a] < val[b]
    <3>1. PICK t : t = MergeTurn(val, s)
      OBVIOUS
    <3>0. PICK x2 \in Nat : x2 = x + 1
      OBVIOUS
    <3>2. a \in left
      BY <1>4, <2>1, <2>4 DEF LeftOf
    <3>3. t = [next |-> Point(s.next, s.tail, a), tail |-> a,
               list1 |-> Point(s.next, s.tail, a)[a], list2 |-> b]
      BY <2>3, <2>9, <2>10, <3>1 DEF MergeTurn
    <3>4. left \ {a} = LeftOf(size, cut, x2, y)
      BY <1>4, <2>1, <2>4, <3>0 DEF LeftOf
    <3>5. ASSUME NEW n \in left \ {a} PROVE Before(val, cut, a, n)
      <4>1. n \in 1 .. size /\ a < n /\ (n > cut => n = b \/ b < n)
        BY <1>1, <1>4, <2>1, <2>2, <2>4 DEF LeftOf
      <4>2. val[a] \in Int /\ val[b] \in Int /\ val[n] \in Int
        BY <4>1 DEF TwoLists
      <4>3. CASE n <= cut
        BY <1>4, <2>1, <4>1, <4>2, <4>3 DEF TwoLists, Before
      <4>4. CASE n > cut
        <5>1. val[b] <= val[n]
          <6>1. CASE n = b
            BY <4>2, <6>1
          <6>2. CASE b < n
            <7>1. b > cut
              BY <2>2
            <7> QED BY <4>1, <4>4, <6>2, <7>1 DEF TwoLists
          <6> QED BY <4>1, <4>4, <6>1, <6>2
        <5> QED BY <1>4, <2>1, <2>10, <4>1, <4>2, <5>1 DEF Before
      <4> QED BY <1>1, <4>1, <4>3, <4>4
    <3>6. Woven(val, size, cut, t.next, left \ {a}, Append(path, a))
      BY <1>1, <2>5, <2>6, <2>7, <3>2, <3>3, <3>5, WeaveOne
    <3>7. Point(s.next, s.tail, a)[a] = IF x2 = cut THEN Null ELSE x2 + 1
      <4>1. Point(s.next, s.tail, a)[a] = LinkedAt(size, cut, a)
        BY <2>8, <3>2
      <4> QED BY <1>1, <1>4, <2>1, <3>0, <4>1 DEF LinkedAt
    <3>8. PICK more \in Seq(1 .. size) : more = Append(path, a) /\ Len(more) = l + 1
                                         /\ more[l + 1] = a /\ more[1] = head
      BY <2>8, <3>2
    <3>9. Merging(val, size, cut, t, x2, y, more)
      <4>1. t.tail = a /\ t.list1 = Point(s.next, s.tail, a)[a] /\ t.list2 = b
        BY <3>3
      <4>2. x2 + y = l + 1 /\ x2 <= cut /\ x2 + y > 0
        BY <1>4, <2>5, <3>0
      <4>3. Woven(val, size, cut, t.next, LeftOf(size, cut, x2, y), more)
        BY <3>4, <3>6, <3>8
      <4>4. Len(more) = x2 + y /\ t.tail = more[x2 + y]
        BY <3>8, <4>1, <4>2
      <4>5. t.list1 = IF x2 = cut THEN Null ELSE x2 + 1
        BY <3>7, <4>1
      <4>6. t.list2 = IF cut + y = size THEN Null ELSE cut + y + 1
        BY <1>4, <2>2, <4>1
      <4> QED BY <1>4, <4>2, <4>3, <4>4, <4>5, <4>6 DEF Merging
    <3>10. x2 + y = k + 1
      BY <1>2, <1>4, <3>0
    <3> QED BY <3>1, <3>8, <3>9, <3>10 DEF MergedAfter
  <2>11. CASE ~(val[a] < val[b])
    <3>1. PICK t : t = MergeTurn(val, s)
      OBVIOUS
    <3>0. PICK y2 \in Nat : y2 = y + 1
      OBVIOUS
    <3>2. b \in left
      BY <1>4, <2>2, <2>4 DEF LeftOf
    <3>3. t = [next |-> Point(s.next, s.tail, b), tail |-> b,
               list1 |-> a, list2 |-> Point(s.next, s.tail, b)[b]]
      BY <2>3, <2>9, <2>11, <3>1 DEF MergeTurn
    <3>4. left \ {b} = LeftOf(size, cut, x, y2)
      BY <1>1, <1>4, <2>2, <2>4, <3>0 DEF LeftOf
    <3>5. ASSUME NEW n \in left \ {b} PROVE Before(val, cut, b, n)
      <4>1. n \in 1 .. size /\ (n > cut => b < n) /\ (n <= cut => n = a \/ a < n) /\ b > cut
        BY <1>1, <1>4, <2>1, <2>2, <2>4 DEF LeftOf
      <4>2. val[a] \in Int /\ val[b] \in Int /\ val[n] \in Int
        BY <4>1 DEF TwoLists
      <4>3. CASE n > cut
        BY <1>1, <4>1, <4>2, <4>3 DEF TwoLists, Before
      <4>4. CASE n <= cut
        <5>1. val[a] <= val[n]
          BY <1>1, <1>4, <2>1, <4>1, <4>2, <4>4 DEF TwoLists
        <5> QED BY <1>1, <2>11, <4>1, <4>2, <4>4, <5>1 DEF Before
      <4> QED BY <1>1, <4>1, <4>3, <4>4
    <3>6. Woven(val, size, cut, t.next, left \ {b}, Append(path, b))
      BY <1>1, <2>5, <2>6, <2>7, <3>2, <3>3, <3>5, WeaveOne
    <3>7. Point(s.next, s.tail, b)[b] = IF cut + y2 = size THEN Null ELSE cut + y2 + 1
      <4>1. Point(s.next, s.tail, b)[b] = LinkedAt(size, cut, b)
        BY <2>8, <3>2
      <4> QED BY <1>1, <1>4, <2>2, <3>0, <4>1 DEF LinkedAt
    <3>8. PICK more \in Seq(1 .. size) : more = Append(path, b) /\ Len(more) = l + 1
                                         /\ more[l + 1] = b /\ more[1] = head
      BY <2>8, <3>2
    <3>9. Merging(val, size, cut, t, x, y2, more)
      <4>1. t.tail = b /\ t.list1 = a /\ t.list2 = Point(s.next, s.tail, b)[b]
        BY <3>3
      <4>2. x + y2 = l + 1 /\ cut + y2 <= size /\ x + y2 > 0
        BY <1>1, <1>4, <2>5, <3>0
      <4>3. Woven(val, size, cut, t.next, LeftOf(size, cut, x, y2), more)
        BY <3>4, <3>6, <3>8
      <4>4. Len(more) = x + y2 /\ t.tail = more[x + y2]
        BY <3>8, <4>1, <4>2
      <4>5. t.list1 = IF x = cut THEN Null ELSE x + 1
        BY <1>4, <2>1, <4>1
      <4>6. t.list2 = IF cut + y2 = size THEN Null ELSE cut + y2 + 1
        BY <3>7, <4>1
      <4> QED BY <1>4, <4>2, <4>3, <4>4, <4>5, <4>6 DEF Merging
    <3>10. x + y2 = k + 1
      BY <1>2, <1>4, <3>0
    <3> QED BY <3>1, <3>8, <3>9, <3>10 DEF MergedAfter
  <2> QED BY <2>10, <2>11
<1> QED
  <2>1. x <= cut /\ cut + y <= size
    BY <1>2 DEF Merging
  <2> QED BY <1>3, <1>4, <2>1

AfterMerging(val, s0, n) == While(LAMBDA t : MergeTurn(val, t), s0, n)

LEMMA MergeLoop ==
  ASSUME NEW val, NEW size \in Nat, NEW cut \in Nat, TwoLists(val, size, cut), NEW head,
         NEW s0 \in MergeStates(size), MergedAfter(val, size, cut, head, 0, s0)
  PROVE  LET s == AfterMerging(val, s0, size)
         IN  s \in MergeStates(size) /\ MergedAfter(val, size, cut, head, size, s)
<1> DEFINE Turn(t) == MergeTurn(val, t)
           Is(f) == f = [k \in 0 .. size |-> IF k = 0 THEN s0 ELSE Turn(f[k - 1])]
<1>1. PICK X : X = MergeStates(size)
  OBVIOUS
<1>2. \A t \in X : Turn(t) \in X
  BY <1>1, MergeTyped
<1>3. \E f : Is(f) /\ f \in [0 .. size -> X]
  <2> HIDE DEF Turn
  <2>1. PICK step \in [X \X (1 .. size) -> X] : step = [p \in X \X (1 .. size) |-> Turn(p[1])]
    <3>1. [p \in X \X (1 .. size) |-> Turn(p[1])] \in [X \X (1 .. size) -> X]
      BY <1>2
    <3> QED BY <3>1
  <2>2. HasTurns(X, s0, size, step)
    BY <1>1, Recursion
  <2>3. PICK g \in [0 .. size -> X] :
           g[0] = s0 /\ \A k \in 1 .. size : g[k] = step[<<g[k - 1], k>>]
    BY <2>2 DEF HasTurns
  <2>4. ASSUME NEW k \in 1 .. size PROVE g[k] = Turn(g[k - 1])
    <3>1. PICK t \in X : t = g[k - 1]
      <4>1. k - 1 \in 0 .. size
        OBVIOUS
      <4> QED BY <4>1
    <3>2. <<t, k>> \in X \X (1 .. size) /\ <<t, k>>[1] = t
      OBVIOUS
    <3>3. step[<<t, k>>] = Turn(t)
      BY <2>1, <3>2
    <3> QED BY <2>3, <3>1, <3>3
  <2>5. Is(g)
    BY <2>3, <2>4
  <2> QED BY <2>5
<1>4. PICK f : f = CHOOSE g : Is(g)
  OBVIOUS
<1>5. Is(f)
  BY <1>3, <1>4
<1>6. AfterMerging(val, s0, size) = f[size]
  BY <1>4 DEF AfterMerging, While
<1>7. \A k \in 1 .. size : f[k] = MergeTurn(val, f[k - 1])
  BY <1>5
<1>8. f[0] = s0
  BY <1>5
<1>9. f[size] \in X /\ MergedAfter(val, size, cut, head, size, f[size])
  <2> DEFINE S == {k \in 0 .. size : f[k] \in X /\ MergedAfter(val, size, cut, head, k, f[k])}
  <2>1. 0 \in S
    BY <1>1, <1>8
  <2>2. ASSUME NEW k \in 1 .. size, k - 1 \in S PROVE k \in S
    <3>1. f[k - 1] \in MergeStates(size) /\ MergedAfter(val, size, cut, head, k - 1, f[k - 1])
      BY <1>1, <2>2
    <3>2. f[k] \in X
      BY <1>1, <1>7, <3>1, MergeTyped
    <3>3. MergedAfter(val, size, cut, head, k, f[k])
      BY <1>7, <3>1, MergeStep
    <3> QED BY <3>2, <3>3
  <2> HIDE DEF S
  <2>3. 0 .. size \subseteq S
    BY <2>1, <2>2, EveryTurn
  <2>4. size \in S
    BY <2>3
  <2> QED BY <2>4 DEF S
<1> QED BY <1>1, <1>6, <1>9

(* The list that is returned has all nodes, each in its place.                *)
AllInOrder(val, size, cut, next, head) ==
    \E all \in Seq(1 .. size) :
        /\ Len(all) = size /\ Chain(next, head) = all
        /\ \A n \in 1 .. size : \E i \in 1 .. size : all[i] = n
        /\ \A i, j \in 1 .. size : i < j => Before(val, cut, all[i], all[j])

LEMMA MergeEnds ==
  ASSUME NEW val, NEW size \in Nat, NEW cut \in Nat, TwoLists(val, size, cut), NEW head,
         NEW s \in MergeStates(size), MergedAfter(val, size, cut, head, size, s)
  PROVE  AllInOrder(val, size, cut, Point(s.next, s.tail, Remaining(s.list1, s.list2)), head)
<1>1. PICK x \in Nat, y \in Nat, path \in Seq(1 .. size) :
         /\ Merging(val, size, cut, s, x, y, path) /\ path[1] = head
         /\ x + y = size + 1 \/ x = cut \/ cut + y = size
  BY DEF MergedAfter
<1>2. 0 < cut /\ cut < size /\ x <= cut /\ cut + y <= size /\ x + y > 0
      /\ (x = cut \/ cut + y = size)
  BY <1>1 DEF Merging, TwoLists
<1>3. PICK l \in 1 .. size : l = x + y /\ l = Len(path)
  <2>1. x + y \in 1 .. size /\ x + y = Len(path)
    BY <1>1, <1>2 DEF Merging
  <2> QED BY <2>1
<1>4. PICK d \in Nat : d = IF x = cut THEN 0 ELSE size - cut
  <2>1. (IF x = cut THEN 0 ELSE size - cut) \in Nat
    BY <1>2
  <2> QED BY <2>1
<1>5. PICK left : left = LeftOf(size, cut, x, y)
  OBVIOUS
<1>6. left = {n \in 1 .. size : l - d < n /\ n <= size - d}
  <2>1. ASSUME NEW n \in 1 .. size
        PROVE  ((x < n /\ n <= cut) \/ cut + y < n) <=> (l - d < n /\ n <= size - d)
    BY <1>2, <1>3, <1>4
  <2> QED BY <1>5, <2>1 DEF LeftOf
<1>7. d <= l
  BY <1>2, <1>3, <1>4
<1>8. \A n \in left : LinkedAt(size, cut, n) = IF n = size - d THEN Null ELSE n + 1
  <2>1. \A n \in left : n \in {cut, size} <=> n = size - d
    BY <1>2, <1>3, <1>4, <1>6
  <2> QED BY <2>1 DEF LinkedAt
<1>9. \A m, n \in left : m < n => Before(val, cut, m, n)
  <2>1. \A m, n \in left : m \in 1 .. size /\ n \in 1 .. size /\ (m <= cut <=> n <= cut)
    BY <1>2, <1>3, <1>4, <1>6
  <2>2. \A m, n \in 1 .. size : m < n /\ (m <= cut <=> n <= cut) => val[m] <= val[n]
    BY DEF TwoLists
  <2> QED BY <2>1, <2>2 DEF Before
<1>10. PICK to : to = Remaining(s.list1, s.list2)
  OBVIOUS
<1>11. to = IF l < size THEN l + 1 - d ELSE Null
  <2>1. s.list1 = (IF x = cut THEN Null ELSE x + 1)
        /\ s.list2 = (IF cut + y = size THEN Null ELSE cut + y + 1)
    BY <1>1 DEF Merging
  <2>2. CASE x = cut
    BY <1>2, <1>3, <1>4, <1>10, <2>1, <2>2 DEF Remaining
  <2>3. CASE x # cut
    <3>1. cut + y = size /\ s.list1 = x + 1 /\ x + 1 # Null /\ l < size /\ l + 1 - d = x + 1
      BY <1>2, <1>3, <1>4, <2>1, <2>3 DEF Null
    <3> QED BY <1>10, <3>1 DEF Remaining
  <2> QED BY <2>2, <2>3
<1>12. IsHeap(s.next, size)
  BY DEF MergeStates, IsHeap
<1>13. Woven(val, size, cut, s.next, left, path) /\ s.tail = path[l]
  BY <1>1, <1>3, <1>5 DEF Merging
<1>14. PICK all \in Seq(1 .. size) :
          /\ Len(all) = size /\ First(all) = path[1]
          /\ IsPath(Point(s.next, path[l], to), size, all)
          /\ \A n \in 1 .. size : \E i \in 1 .. size : all[i] = n
          /\ \A i, j \in 1 .. size : i < j => Before(val, cut, all[i], all[j])
  <2>1. RunLeft(val, size, cut, left, l, d)
    BY <1>6, <1>7, <1>8, <1>9 DEF RunLeft
  <2>2. AllLinked(val, size, cut, Point(s.next, path[l], to), path[1])
    BY <1>3, <1>11, <1>12, <1>13, <2>1, WeaveRest
  <2> QED BY <2>2 DEF AllLinked
<1>15. PICK next : next = Point(s.next, s.tail, to)
  OBVIOUS
<1>16. DOMAIN next = 1 .. size
  BY <1>15 DEF MergeStates, Point
<1>17. Chain(next, First(all)) = all
  BY <1>13, <1>14, <1>15, <1>16, ChainIs
<1> QED BY <1>1, <1>10, <1>14, <1>15, <1>17 DEF AllInOrder

(* What is linked before the loop: the smaller of the two first nodes.         *)
MergeFirst(val, cut) == IF val[1] < val[cut + 1] THEN 1 ELSE cut + 1

MergeBegun(val, size, cut, next) ==
    [next |-> next, tail |-> MergeFirst(val, cut),
     list1 |-> IF val[1] < val[cut + 1] THEN next[1] ELSE 1,
     list2 |-> IF val[1] < val[cut + 1] THEN cut + 1 ELSE next[cut + 1]]

TwoListsNext(size, cut) == [n \in 1 .. size |-> LinkedAt(size, cut, n)]

LEMMA MergeStart ==
  ASSUME NEW val, NEW size \in Nat, NEW cut \in Nat, TwoLists(val, size, cut),
         NEW s, s = MergeBegun(val, size, cut, TwoListsNext(size, cut))
  PROVE  s \in MergeStates(size) /\ MergedAfter(val, size, cut, MergeFirst(val, cut), 0, s)
<1>1. 0 < cut /\ cut < size /\ 1 \in 1 .. size /\ cut + 1 \in 1 .. size
  BY DEF TwoLists
<1>2. PICK next : next = TwoListsNext(size, cut)
  OBVIOUS
<1>3. \A n \in 1 .. size : next[n] = LinkedAt(size, cut, n) /\ next[n] \in 0 .. size
  <2> SUFFICES ASSUME NEW n \in 1 .. size
               PROVE  next[n] = LinkedAt(size, cut, n) /\ next[n] \in 0 .. size
    OBVIOUS
  <2>1. next[n] = LinkedAt(size, cut, n)
    BY <1>2 DEF TwoListsNext
  <2>2. LinkedAt(size, cut, n) \in 0 .. size
    BY DEF LinkedAt, Null
  <2> QED BY <2>1, <2>2
<1>4. next \in [1 .. size -> 0 .. size]
  <2>1. next = [n \in 1 .. size |-> next[n]]
    BY <1>2 DEF TwoListsNext
  <2> QED BY <1>3, <2>1
<1>5. \A i \in 1 .. size : val[i] \in Int
  BY DEF TwoLists
<1>6. PICK head \in 1 .. size : head = MergeFirst(val, cut)
  BY <1>1 DEF MergeFirst
<1>7. PICK path \in Seq(1 .. size) : path = <<head>>
  <2>1. <<head>> \in Seq(1 .. size)
    OBVIOUS
  <2> QED BY <2>1
<1>8. Len(path) = 1 /\ path[1] = head
  BY <1>7
<1>9. PICK left : left = 1 .. size \ {head}
  OBVIOUS
<1>10. \A n \in left : Before(val, cut, head, n)
  <2> SUFFICES ASSUME NEW n \in left PROVE Before(val, cut, head, n)
    OBVIOUS
  <2>1. n \in 1 .. size /\ n # head
    BY <1>9
  <2>2. n # 1 /\ n <= cut => val[1] <= val[n]
    BY <1>1, <2>1 DEF TwoLists
  <2>3. n # cut + 1 /\ n > cut => val[cut + 1] <= val[n]
    BY <1>1, <2>1 DEF TwoLists
  <2>4. val[1] \in Int /\ val[cut + 1] \in Int /\ val[n] \in Int
    BY <1>1, <1>5, <2>1
  <2>5. CASE val[1] < val[cut + 1]
    <3>1. head = 1
      BY <1>6, <2>5 DEF MergeFirst
    <3>2. val[1] <= val[n]
      BY <2>1, <2>2, <2>3, <2>4, <2>5
    <3> QED BY <1>1, <2>1, <3>1, <3>2 DEF Before
  <2>6. CASE ~(val[1] < val[cut + 1])
    <3>1. head = cut + 1
      BY <1>6, <2>6 DEF MergeFirst
    <3>2. val[cut + 1] <= val[n]
      BY <1>1, <2>1, <2>2, <2>3, <2>4, <2>6
    <3> QED BY <1>1, <2>1, <3>1, <3>2 DEF Before
  <2> QED BY <2>5, <2>6
<1>11. Woven(val, size, cut, next, left, path)
  <2>1. \A n \in 1 .. size : n \in left \/ \E i \in 1 .. Len(path) : path[i] = n
    BY <1>8, <1>9
  <2>2. \A n \in left : next[n] = LinkedAt(size, cut, n)
    BY <1>3, <1>9
  <2> QED BY <1>8, <1>9, <1>10, <2>1, <2>2 DEF Woven
<1>12. s \in MergeStates(size)
  <2>1. s = [next |-> next, tail |-> head, list1 |-> s.list1, list2 |-> s.list2]
    BY <1>2, <1>6 DEF MergeBegun
  <2>2. s.list1 \in 0 .. size /\ s.list2 \in 0 .. size
    <3>1. s.list1 = (IF val[1] < val[cut + 1] THEN next[1] ELSE 1)
          /\ s.list2 = (IF val[1] < val[cut + 1] THEN cut + 1 ELSE next[cut + 1])
      BY <1>2 DEF MergeBegun
    <3>2. next[1] \in 0 .. size /\ next[cut + 1] \in 0 .. size
      BY <1>1, <1>3
    <3> QED BY <1>1, <3>1, <3>2
  <2> QED BY <1>4, <2>1, <2>2 DEF MergeStates
<1>13. s.next = next /\ s.tail = head
  BY <1>2, <1>6 DEF MergeBegun
<1>14. CASE val[1] < val[cut + 1]
  <2>1. head = 1
    BY <1>6, <1>14 DEF MergeFirst
  <2>2. s.list1 = next[1] /\ s.list2 = cut + 1
    BY <1>2, <1>14 DEF MergeBegun
  <2>3. next[1] = IF 1 = cut THEN Null ELSE 1 + 1
    BY <1>1, <1>3 DEF LinkedAt
  <2>4. left = LeftOf(size, cut, 1, 0)
    BY <1>1, <1>9, <2>1 DEF LeftOf
  <2>5. Merging(val, size, cut, s, 1, 0, path)
    BY <1>1, <1>8, <1>11, <1>13, <2>2, <2>3, <2>4 DEF Merging
  <2>6. path[1] = MergeFirst(val, cut) /\ 1 \in Nat /\ 0 \in Nat /\ 1 + 0 = 0 + 1
    BY <1>6, <1>8
  <2> QED BY <1>12, <2>5, <2>6 DEF MergedAfter
<1>15. CASE ~(val[1] < val[cut + 1])
  <2>1. head = cut + 1
    BY <1>6, <1>15 DEF MergeFirst
  <2>2. s.list1 = 1 /\ s.list2 = next[cut + 1]
    BY <1>2, <1>15 DEF MergeBegun
  <2>3. next[cut + 1] = IF cut + 1 = size THEN Null ELSE cut + 1 + 1
    BY <1>1, <1>3 DEF LinkedAt
  <2>4. left = LeftOf(size, cut, 0, 1)
    BY <1>1, <1>9, <2>1 DEF LeftOf
  <2>5. Merging(val, size, cut, s, 0, 1, path)
    BY <1>1, <1>8, <1>11, <1>13, <2>2, <2>3, <2>4 DEF Merging
  <2>6. path[1] = MergeFirst(val, cut) /\ 1 \in Nat /\ 0 \in Nat /\ 0 + 1 = 0 + 1
    BY <1>6, <1>8
  <2> QED BY <1>12, <2>5, <2>6 DEF MergedAfter
<1> QED BY <1>14, <1>15

(* mergeTwoLists, of two ascending lists with any values and lengths: all      *)
(* nodes come once, in the order of their values and of their lists.          *)
THEOREM BothMerged ==
  ASSUME NEW val, NEW size \in Nat, NEW cut \in Nat, TwoLists(val, size, cut),
         NEW next, next = TwoListsNext(size, cut)
  PROVE  LET r == mergeTwoLists(val, next, 1, cut + 1)
         IN  AllInOrder(val, size, cut, r.next, r.head)
<1>1. PICK s0 : s0 = MergeBegun(val, size, cut, next)
  OBVIOUS
<1>2. s0 \in MergeStates(size) /\ MergedAfter(val, size, cut, MergeFirst(val, cut), 0, s0)
  BY <1>1, MergeStart
<1>3. PICK s : s = AfterMerging(val, s0, size)
  OBVIOUS
<1>4. s \in MergeStates(size) /\ MergedAfter(val, size, cut, MergeFirst(val, cut), size, s)
  BY <1>2, <1>3, MergeLoop
<1>5. Cardinality(DOMAIN next) = size
  BY FS_Interval DEF TwoListsNext
<1>6. 1 # Null /\ cut + 1 # Null
  BY DEF TwoLists, Null
<1>7. mergeTwoLists(val, next, 1, cut + 1)
        = [next |-> Point(s.next, s.tail, Remaining(s.list1, s.list2)),
           head |-> MergeFirst(val, cut)]
  BY <1>1, <1>3, <1>5, <1>6 DEF mergeTwoLists, MergeBegun, MergeFirst, AfterMerging
<1> QED BY <1>4, <1>7, MergeEnds

LEMMA ListsMerged == InputType => MergeKeepsAll
<1> SUFFICES ASSUME InputType, NEW cut \in Cuts,
                    Ascending(UpTo(data, cut)), Ascending(Behind(data, cut))
             PROVE  LET r == mergeTwoLists(data, Linked(cut), IF cut = 0 THEN Null ELSE 1,
                                           NodeAt(cut + 1))
                        merged == Chain(r.next, r.head)
                    IN  /\ Len(merged) = Len(data) /\ ToSet(merged) = Nodes
                        /\ \A i, j \in DOMAIN merged : i < j =>
                              /\ data[merged[i]] <= data[merged[j]]
                              /\ (merged[i] <= cut <=> merged[j] <= cut) => merged[i] < merged[j]
  BY DEF MergeKeepsAll
<1>1. PICK size \in Nat : size = Len(data) /\ data \in Seq(1 .. 4) /\ Nodes = 1 .. size
  <2>1. data \in Seq(1 .. 4) /\ Len(data) \in Nat /\ Nodes = 1 .. Len(data)
    BY DEF InputType, Nodes
  <2> QED BY <2>1
<1>2. cut \in 0 .. size
  BY <1>1 DEF Cuts
<1>3. \A i \in 1 .. size : data[i] \in 1 .. 4
  BY <1>1
<1>4. PICK r : r = mergeTwoLists(data, Linked(cut), IF cut = 0 THEN Null ELSE 1,
                                 NodeAt(cut + 1))
  OBVIOUS
<1>5. NodeAt(cut + 1) = IF cut = size THEN Null ELSE cut + 1
  BY <1>1, <1>2 DEF NodeAt
<1>6. Linked(cut) = TwoListsNext(size, cut)
  BY <1>1 DEF Linked, TwoListsNext, LinkedAt
<1>7. \A i, j \in 1 .. size : i < j /\ (i <= cut <=> j <= cut) => data[i] <= data[j]
  <2> SUFFICES ASSUME NEW i \in 1 .. size, NEW j \in 1 .. size, i < j, i <= cut <=> j <= cut
               PROVE  data[i] <= data[j]
    OBVIOUS
  <2>1. CASE j <= cut
    <3>1. PICK front : front = UpTo(data, cut)
      OBVIOUS
    <3>2. DOMAIN front = 1 .. cut /\ \A n \in 1 .. cut : front[n] = data[n]
      BY <1>1, <1>2, <3>1 DEF UpTo
    <3>3. i \in 1 .. cut /\ j \in 1 .. cut
      BY <1>2, <2>1
    <3>4. front[i] <= front[j]
      BY <3>1, <3>2, <3>3 DEF Ascending
    <3> QED BY <3>2, <3>3, <3>4
  <2>2. CASE ~(j <= cut)
    <3>1. PICK back : back = Behind(data, cut)
      OBVIOUS
    <3>2. DOMAIN back = 1 .. size - cut /\ \A n \in 1 .. size - cut : back[n] = data[cut + n]
      BY <1>1, <1>2, <3>1 DEF Behind
    <3>3. i - cut \in 1 .. size - cut /\ j - cut \in 1 .. size - cut
          /\ cut + (i - cut) = i /\ cut + (j - cut) = j /\ i - cut < j - cut
      BY <1>2, <2>2
    <3>4. back[i - cut] <= back[j - cut]
      BY <3>1, <3>2, <3>3 DEF Ascending
    <3>5. back[i - cut] = data[i] /\ back[j - cut] = data[j]
      BY <3>2, <3>3
    <3> QED BY <3>4, <3>5
  <2> QED BY <2>1, <2>2
<1>8. AllInOrder(data, size, cut, r.next, r.head)
  <2>1. CASE cut = 0 \/ cut = size
    <3>1. PICK all \in Seq(1 .. size) : all = [i \in 1 .. size |-> i]
      <4>1. [i \in 1 .. size |-> i] \in Seq(1 .. size)
        OBVIOUS
      <4> QED BY <4>1
    <3>2. Linked(cut) = TurnedNext(size, 0)
      <4>1. \A i \in 1 .. size :
               LinkedAt(size, cut, i) = IF i <= 0 THEN i - 1 ELSE IF i = size THEN Null ELSE i + 1
        BY <1>2, <2>1 DEF LinkedAt
      <4> QED BY <1>6, <4>1 DEF TwoListsNext, TurnedNext
    <3>3. r.next = TurnedNext(size, 0) /\ r.head = IF size = 0 THEN Null ELSE 1
      <4>1. CASE cut = 0
        <5>1. r = [next |-> Linked(cut), head |-> NodeAt(cut + 1)]
          BY <1>4, <4>1 DEF mergeTwoLists
        <5> QED BY <1>5, <3>2, <4>1, <5>1
      <4>2. CASE cut # 0
        <5>1. cut = size /\ NodeAt(cut + 1) = Null /\ 1 # Null
          BY <1>5, <2>1, <4>2 DEF Null
        <5>2. r = [next |-> Linked(cut), head |-> 1]
          BY <1>4, <4>2, <5>1 DEF mergeTwoLists
        <5> QED BY <3>2, <4>2, <5>1, <5>2
      <4> QED BY <4>1, <4>2
    <3>4. Chain(r.next, r.head) = all
      <4>1. Chain(TurnedNext(size, 0), IF 0 = size THEN Null ELSE 0 + 1)
              = [i \in 1 .. size - 0 |-> 0 + i]
        BY UnturnedChain
      <4>2. all = [i \in 1 .. size - 0 |-> 0 + i]
        BY <3>1
      <4> QED BY <3>3, <4>1, <4>2
    <3>5. Len(all) = size /\ \A i \in 1 .. size : all[i] = i
      BY <3>1
    <3>6. \A i, j \in 1 .. size : i < j => Before(data, cut, i, j)
      <4>1. \A i, j \in 1 .. size : i < j => (i <= cut <=> j <= cut)
        BY <1>2, <2>1
      <4> QED BY <1>7, <4>1 DEF Before
    <3> QED BY <3>4, <3>5, <3>6 DEF AllInOrder
  <2>2. CASE cut # 0 /\ cut # size
    <3>1. TwoLists(data, size, cut)
      BY <1>2, <1>3, <1>7, <2>2 DEF TwoLists
    <3>2. r = mergeTwoLists(data, Linked(cut), 1, cut + 1)
      BY <1>4, <1>5, <2>2
    <3>3. PICK next : next = Linked(cut)
      OBVIOUS
    <3> QED BY <1>2, <1>6, <3>1, <3>2, <3>3, BothMerged
  <2> QED BY <2>1, <2>2
<1>9. PICK all \in Seq(1 .. size) :
         /\ Len(all) = size /\ Chain(r.next, r.head) = all
         /\ \A n \in 1 .. size : \E i \in 1 .. size : all[i] = n
         /\ \A i, j \in 1 .. size : i < j => Before(data, cut, all[i], all[j])
  BY <1>8 DEF AllInOrder
<1>10. DOMAIN all = 1 .. size /\ \A i \in 1 .. size : all[i] \in 1 .. size
  <2>1. Len(all) = size
    BY <1>9
  <2> QED BY <2>1
<1>11. ToSet(all) = 1 .. size
  <2>1. ToSet(all) = {all[i] : i \in 1 .. size}
    BY <1>10 DEF ToSet
  <2>2. \A n \in 1 .. size : \E i \in 1 .. size : all[i] = n
    BY <1>9
  <2> QED BY <1>10, <2>1, <2>2
<1>12. \A i, j \in DOMAIN all : i < j =>
          /\ data[all[i]] <= data[all[j]]
          /\ (all[i] <= cut <=> all[j] <= cut) => all[i] < all[j]
  <2>1. \A i, j \in 1 .. size : i < j => Before(data, cut, all[i], all[j])
    BY <1>9
  <2> QED BY <1>10, <2>1 DEF Before
<1>13. Len(all) = Len(data) /\ ToSet(all) = Nodes
  BY <1>1, <1>9, <1>11
<1>14. Chain(r.next, r.head) = all
  BY <1>9
<1> QED BY <1>4, <1>12, <1>13, <1>14

(* The exercises on lists rearrange lists of any length as they should:        *)
(* merging keeps all nodes in order, two lists meet where they join, and      *)
(* reversing, reversing a range and swapping pairs lose nothing.             *)
THEOREM ListsAreRearranged == Spec => []ListsRearranged
<1>1. InputType => ListsRearranged
  BY ListsMerged, ListsMeet, ListReversed, PairsAreSwapped DEF ListsRearranged
<1> QED BY <1>1, InputTyped, PTL

-----------------------------------------------------------------------------
(* What is left of a text behind its first q characters.                     *)
LEMMA BehindIs ==
  ASSUME NEW X, NEW text \in Seq(X), NEW q \in 0 .. Len(text)
  PROVE  /\ Behind(text, q) \in Seq(X) /\ Len(Behind(text, q)) = Len(text) - q
         /\ \A i \in 1 .. Len(text) - q : Behind(text, q)[i] = text[q + i]
         /\ q = 0 => Behind(text, q) = text
         /\ Behind(text, q) = <<>> <=> q = Len(text)
         /\ q < Len(text) => Head(Behind(text, q)) = text[q + 1]
                             /\ Tail(Behind(text, q)) = Behind(text, q + 1)
<1>1. PICK n \in Nat : n = Len(text)
  OBVIOUS
<1>2. PICK rest : rest = Behind(text, q)
  OBVIOUS
<1>3. rest \in Seq(X) /\ Len(rest) = n - q /\ \A i \in 1 .. n - q : rest[i] = text[q + i]
  BY <1>1, <1>2 DEF Behind
<1>4. q = 0 => rest = text
  BY <1>1, <1>2, <1>3 DEF Behind
<1>5. rest = <<>> <=> q = n
  BY <1>1, <1>3
<1>6. ASSUME q < n PROVE Head(rest) = text[q + 1] /\ Tail(rest) = Behind(text, q + 1)
  <2>1. rest # <<>> /\ Head(rest) = rest[1]
    BY <1>1, <1>3, <1>6
  <2>2. PICK r \in Seq(X) : r = Behind(text, q + 1)
    <3>1. Behind(text, q + 1) \in Seq(X)
      BY <1>1, <1>6 DEF Behind
    <3> QED BY <3>1
  <2>3. Len(r) = n - q - 1 /\ \A i \in 1 .. n - q - 1 : r[i] = text[q + 1 + i]
    BY <1>1, <1>6, <2>2 DEF Behind
  <2>4. PICK t \in Seq(X) : t = Tail(rest) /\ Len(t) = Len(rest) - 1
                            /\ \A i \in 1 .. Len(rest) - 1 : t[i] = rest[i + 1]
    <3>1. Tail(rest) \in Seq(X)
      BY <1>3, <2>1
    <3>2. Len(Tail(rest)) = Len(rest) - 1
      BY <1>3, <2>1
    <3>3. \A i \in 1 .. Len(rest) - 1 : Tail(rest)[i] = rest[i + 1]
      BY <1>3, <2>1
    <3> QED BY <3>1, <3>2, <3>3
  <2>5. Len(t) = n - q - 1 /\ \A i \in 1 .. n - q - 1 : t[i] = rest[i + 1]
    BY <1>1, <1>3, <2>4
  <2>6. \A i \in 1 .. n - q - 1 : i + 1 \in 1 .. n - q /\ q + (i + 1) = q + 1 + i
    BY <1>1, <1>6
  <2>7. \A i \in 1 .. n - q - 1 : t[i] = r[i]
    BY <1>3, <2>3, <2>5, <2>6
  <2>8. t = r
    BY <2>3, <2>5, <2>7
  <2> QED BY <1>1, <1>3, <1>6, <2>1, <2>2, <2>4, <2>8
<1> QED BY <1>1, <1>2, <1>3, <1>4, <1>5, <1>6

(* The function read of OneLineEnd: the text up to each place, with its line    *)
(* ends as line feeds.                                                      *)
Reads(X, text, read) ==
    /\ read \in [0 .. Len(text) -> Seq(X)] /\ read[0] = <<>>
    /\ \A n \in 1 .. Len(text) :
          read[n] = IF text[n] = LF /\ n > 1 /\ text[n - 1] = CR THEN read[n - 1]
                    ELSE Append(read[n - 1], IF text[n] = CR THEN LF ELSE text[n])

LEMMA TextRead ==
  ASSUME NEW X, LF \in X, NEW text \in Seq(X)
  PROVE  \E read : Reads(X, text, read) /\ OneLineEnd(text) = read[Len(text)]
<1>1. PICK size \in Nat : size = Len(text)
  OBVIOUS
<1>2. PICK S : S = Seq(X)
  OBVIOUS
<1> DEFINE More(s, n) == IF text[n] = LF /\ n > 1 /\ text[n - 1] = CR THEN s
                         ELSE Append(s, IF text[n] = CR THEN LF ELSE text[n])
           Is(f) == f = [n \in 0 .. size |-> IF n = 0 THEN <<>> ELSE More(f[n - 1], n)]
<1>3. \A s \in S, n \in 1 .. size : More(s, n) \in S
  <2>1. \A n \in 1 .. size : (IF text[n] = CR THEN LF ELSE text[n]) \in X
    BY <1>1
  <2> QED BY <1>2, <2>1
<1>4. \E f : Is(f) /\ f \in [0 .. size -> S]
  <2> HIDE DEF More
  <2>1. PICK step \in [S \X (1 .. size) -> S] :
           step = [p \in S \X (1 .. size) |-> More(p[1], p[2])]
    <3>1. [p \in S \X (1 .. size) |-> More(p[1], p[2])] \in [S \X (1 .. size) -> S]
      BY <1>3
    <3> QED BY <3>1
  <2>2. <<>> \in S
    BY <1>2
  <2>3. HasTurns(S, <<>>, size, step)
    BY <2>2, Recursion
  <2>4. PICK g \in [0 .. size -> S] :
           g[0] = <<>> /\ \A k \in 1 .. size : g[k] = step[<<g[k - 1], k>>]
    BY <2>3 DEF HasTurns
  <2>5. ASSUME NEW k \in 1 .. size PROVE g[k] = More(g[k - 1], k)
    <3>1. PICK t \in S : t = g[k - 1]
      <4>1. k - 1 \in 0 .. size
        OBVIOUS
      <4> QED BY <4>1
    <3>2. <<t, k>> \in S \X (1 .. size) /\ <<t, k>>[1] = t /\ <<t, k>>[2] = k
      OBVIOUS
    <3>3. step[<<t, k>>] = More(t, k)
      BY <2>1, <3>2
    <3> QED BY <2>4, <3>1, <3>3
  <2>6. Is(g)
    BY <2>4, <2>5
  <2> QED BY <2>6
<1>5. PICK f : f = CHOOSE g : Is(g)
  OBVIOUS
<1>6. Is(f)
  BY <1>4, <1>5
<1>7. f \in [0 .. size -> S]
  <2>1. PICK g \in [0 .. size -> S] : Is(g)
    BY <1>4
  <2> DEFINE T == {k \in 0 .. size : f[k] \in S}
  <2>2. 0 \in T
    BY <1>2, <1>6
  <2>3. ASSUME NEW k \in 1 .. size, k - 1 \in T PROVE k \in T
    <3> HIDE DEF More
    <3>1. f[k] = More(f[k - 1], k)
      BY <1>6
    <3> HIDE DEF Is
    <3> QED BY <1>3, <2>3, <3>1
  <2> HIDE DEF T
  <2>4. 0 .. size \subseteq T
    BY <2>2, <2>3, EveryTurn
  <2>5. \A k \in 0 .. size : f[k] \in S
    BY <2>4 DEF T
  <2>6. f = [k \in 0 .. size |-> f[k]]
    BY <1>6
  <2> HIDE DEF Is
  <2> QED BY <2>5, <2>6
<1>8. OneLineEnd(text) = f[size]
  BY <1>1, <1>5 DEF OneLineEnd
<1>9. f[0] = <<>> /\ \A k \in 1 .. size : f[k] = More(f[k - 1], k)
  <2> HIDE DEF More
  <2> QED BY <1>6
<1>10. Reads(X, text, f)
  BY <1>1, <1>2, <1>7, <1>9 DEF Reads
<1> QED BY <1>1, <1>8, <1>10

LEMMA ReadOneMore ==
  ASSUME NEW X, NEW text \in Seq(X), NEW read, Reads(X, text, read), NEW n \in 1 .. Len(text)
  PROVE  read[n] = IF text[n] = LF /\ n > 1 /\ text[n - 1] = CR THEN read[n - 1]
                   ELSE Append(read[n - 1], IF text[n] = CR THEN LF ELSE text[n])
BY DEF Reads

LEMMA ConcatAppended ==
  ASSUME NEW X, NEW a \in Seq(X), NEW b \in Seq(X), NEW c \in X
  PROVE  a \o Append(b, c) = Append(a \o b, c)
<1>1. PICK m \in Nat : m = Len(a)
  OBVIOUS
<1>2. PICK n \in Nat : n = Len(b)
  OBVIOUS
<1>3. PICK l \in Seq(X) : /\ l = a \o Append(b, c) /\ Len(l) = m + n + 1
                          /\ \A i \in 1 .. m : l[i] = a[i]
                          /\ \A i \in 1 .. n + 1 : l[m + i] = Append(b, c)[i]
  <2>1. a \o Append(b, c) \in Seq(X) /\ Len(a \o Append(b, c)) = m + n + 1
    BY <1>1, <1>2
  <2>2. \A i \in 1 .. m : (a \o Append(b, c))[i] = a[i]
    BY <1>1, <1>2
  <2>3. \A i \in 1 .. n + 1 : (a \o Append(b, c))[m + i] = Append(b, c)[i]
    BY <1>1, <1>2
  <2> QED BY <2>1, <2>2, <2>3
<1>4. PICK r \in Seq(X) : /\ r = Append(a \o b, c) /\ Len(r) = m + n + 1
                          /\ \A i \in 1 .. m : r[i] = a[i]
                          /\ \A i \in 1 .. n : r[m + i] = b[i]
                          /\ r[m + n + 1] = c
  <2>1. PICK w \in Seq(X) : w = a \o b /\ Len(w) = m + n /\ (\A i \in 1 .. m : w[i] = a[i])
                            /\ \A i \in 1 .. n : w[m + i] = b[i]
    <3>1. a \o b \in Seq(X) /\ Len(a \o b) = m + n /\ (\A i \in 1 .. m : (a \o b)[i] = a[i])
      BY <1>1, <1>2
    <3>2. \A i \in 1 .. n : (a \o b)[m + i] = b[i]
      BY <1>1, <1>2
    <3> QED BY <3>1, <3>2
  <2>2. Append(w, c) \in Seq(X) /\ Len(Append(w, c)) = m + n + 1 /\ Append(w, c)[m + n + 1] = c
        /\ \A i \in 1 .. m + n : Append(w, c)[i] = w[i]
    BY <2>1
  <2>3. \A i \in 1 .. m : i \in 1 .. m + n
    OBVIOUS
  <2>4. \A i \in 1 .. n : m + i \in 1 .. m + n
    OBVIOUS
  <2> QED BY <2>1, <2>2, <2>3, <2>4
<1>5. \A i \in 1 .. n : Append(b, c)[i] = b[i]
  BY <1>2
<1>6. Append(b, c)[n + 1] = c
  BY <1>2
<1>7. \A i \in 1 .. m + n + 1 : l[i] = r[i]
  <2> SUFFICES ASSUME NEW i \in 1 .. m + n + 1 PROVE l[i] = r[i]
    OBVIOUS
  <2>1. CASE i <= m
    BY <1>3, <1>4, <2>1
  <2>2. CASE i > m
    <3>1. PICK j \in 1 .. n + 1 : i = m + j
      <4>1. i - m \in 1 .. n + 1 /\ i = m + (i - m)
        BY <2>2
      <4> QED BY <4>1
    <3>2. CASE j = n + 1
      BY <1>3, <1>4, <1>6, <3>1, <3>2
    <3>3. CASE j # n + 1
      <4>1. j \in 1 .. n
        BY <3>3
      <4> QED BY <1>3, <1>4, <1>5, <3>1, <4>1
    <3> QED BY <3>2, <3>3
  <2> QED BY <2>1, <2>2
<1> QED BY <1>3, <1>4, <1>7

-----------------------------------------------------------------------------
(* get_request_line, character by character: p is the place where the line     *)
(* begins and q how far it was read, never between a CR and its LF.          *)
Whole(text, q) == q \in {0, Len(text)} \/ text[q] # CR \/ text[q + 1] # LF

LineStates(X) == [stream : Seq(X), line : Seq(X), ended : BOOLEAN]

ReadTo(text, read, size, p, k, s, q) ==
    /\ s.stream = Behind(text, q) /\ Whole(text, q)
    /\ read[p] \o s.line = read[q] /\ Len(s.line) < size
    /\ \A i \in 1 .. Len(s.line) : s.line[i] = LF => s.ended /\ i = Len(s.line)
    /\ q = p => s.line = <<>> /\ (s.ended \/ k > 0 => p = Len(text))

LineRead(text, read, size, p, k, s) ==
    \E q \in Nat : p <= q /\ q <= Len(text) /\ ReadTo(text, read, size, p, k, s, q)

(* One character is taken, or a CR with its LF.                              *)
Taking(text, size, s, q, r, c, t) ==
    /\ ~s.ended /\ Len(s.line) < size - 1
    /\ c = IF text[q + 1] = CR THEN LF ELSE text[q + 1]
    /\ r \in {q + 1, q + 2} /\ r <= Len(text) /\ Whole(text, r)
    /\ r = q + 2 => text[q + 1] = CR /\ text[q + 2] = LF
    /\ t = [stream |-> Behind(text, r), line |-> Append(s.line, c), ended |-> (c = LF)]

LEMMA LineTaken ==
  ASSUME NEW X, LF \in X, NEW text \in Seq(X), NEW read, Reads(X, text, read),
         NEW size \in Nat, NEW p \in 0 .. Len(text), NEW k \in Nat, NEW s \in LineStates(X),
         NEW q \in p .. Len(text) - 1, ReadTo(text, read, size, p, k, s, q),
         NEW r, NEW c, NEW t, Taking(text, size, s, q, r, c, t)
  PROVE  t \in LineStates(X) /\ LineRead(text, read, size, p, k + 1, t)
<1>0. /\ ~s.ended /\ Len(s.line) < size - 1
      /\ c = IF text[q + 1] = CR THEN LF ELSE text[q + 1]
      /\ r \in {q + 1, q + 2} /\ r <= Len(text) /\ Whole(text, r)
      /\ r = q + 2 => text[q + 1] = CR /\ text[q + 2] = LF
      /\ t = [stream |-> Behind(text, r), line |-> Append(s.line, c), ended |-> (c = LF)]
  BY DEF Taking
<1> USE <1>0
<1>1. PICK n \in Nat : n = Len(text) /\ q < n /\ q \in Nat /\ r \in 0 .. n
  OBVIOUS
<1>2. c \in X /\ s.line \in Seq(X)
  BY <1>1 DEF LineStates
<1>3. t \in LineStates(X)
  <2>1. Behind(text, r) \in Seq(X)
    BY <1>1, BehindIs
  <2>2. Append(s.line, c) \in Seq(X)
    BY <1>2
  <2> QED BY <2>1, <2>2 DEF LineStates
<1>4. read[p] \in Seq(X) /\ read[q] \in Seq(X)
  <2>1. read \in [0 .. Len(text) -> Seq(X)]
    BY DEF Reads
  <2>2. q \in 0 .. Len(text)
    BY <1>1
  <2> HIDE <1>0
  <2> QED BY <2>1, <2>2
<1>5. read[q + 1] = Append(read[q], c)
  <2>1. ~(text[q + 1] = LF /\ q + 1 > 1 /\ text[q + 1 - 1] = CR)
    BY <1>1 DEF ReadTo, Whole
  <2>2. PICK m \in 1 .. Len(text) : m = q + 1 /\ m - 1 = q
    <3>1. q + 1 \in 1 .. Len(text) /\ q + 1 - 1 = q
      BY <1>1
    <3> QED BY <3>1
  <2>3. read[m] = IF text[m] = LF /\ m > 1 /\ text[m - 1] = CR THEN read[m - 1]
                  ELSE Append(read[m - 1], IF text[m] = CR THEN LF ELSE text[m])
    BY ReadOneMore
  <2> QED BY <2>1, <2>2, <2>3
<1>6. read[r] = read[q + 1]
  <2>1. CASE r = q + 2
    <3>1. text[r] = LF /\ r > 1 /\ text[r - 1] = CR /\ r \in 1 .. Len(text) /\ r - 1 = q + 1
      BY <1>1, <2>1
    <3> QED BY <3>1, ReadOneMore
  <2> QED BY <2>1
<1>7. read[p] \o Append(s.line, c) = read[r]
  <2>1. read[p] \o s.line = read[q]
    BY DEF ReadTo
  <2>2. read[p] \o Append(s.line, c) = Append(read[p] \o s.line, c)
    <3> HIDE <1>0
    <3>1. PICK a \in Seq(X) : a = read[p]
      BY <1>4
    <3>2. PICK b \in Seq(X) : b = s.line
      BY <1>2
    <3>3. a \o Append(b, c) = Append(a \o b, c)
      BY <1>2, ConcatAppended
    <3> QED BY <3>1, <3>2, <3>3
  <2> QED BY <1>5, <1>6, <2>1, <2>2
<1>8. PICK l \in Nat : l = Len(s.line)
  BY <1>2
<1>9. PICK line \in Seq(X) : line = Append(s.line, c) /\ Len(line) = l + 1
  <2>1. Append(s.line, c) \in Seq(X) /\ Len(Append(s.line, c)) = l + 1
    BY <1>2, <1>8
  <2> QED BY <2>1
<1>10. line[l + 1] = c /\ \A i \in 1 .. l : line[i] = s.line[i]
  BY <1>2, <1>8, <1>9
<1>11. \A i \in 1 .. l : s.line[i] # LF
  BY <1>8 DEF ReadTo
<1>12. ASSUME NEW i \in 1 .. l + 1, line[i] = LF PROVE c = LF /\ i = l + 1
  <2>1. i \notin 1 .. l
    BY <1>10, <1>11, <1>12
  <2>2. i = l + 1
    BY <2>1
  <2> QED BY <1>10, <1>12, <2>2
<1>13. t.stream = Behind(text, r) /\ t.line = line /\ t.ended = (c = LF)
  BY <1>9
<1>14. r # p /\ p <= r
  BY <1>1
<1>15. ReadTo(text, read, size, p, k + 1, t, r)
  <2>1. read[p] \o line = read[r]
    BY <1>7, <1>9
  <2>2. Len(line) < size
    BY <1>8, <1>9
  <2>3. \A i \in 1 .. Len(line) : line[i] = LF => (c = LF) /\ i = Len(line)
    BY <1>9, <1>12
  <2> QED BY <1>13, <1>14, <2>1, <2>2, <2>3 DEF ReadTo
<1>16. PICK w \in Nat : w = r /\ w <= Len(text)
  <2>1. r \in Nat /\ r <= Len(text)
    BY <1>1
  <2> QED BY <2>1
<1> HIDE <1>0
<1>17. LineRead(text, read, size, p, k + 1, t)
  BY <1>14, <1>15, <1>16 DEF LineRead
<1> QED BY <1>3, <1>17

LEMMA LineStep ==
  ASSUME NEW X, LF \in X, NEW text \in Seq(X), NEW read, Reads(X, text, read),
         NEW size \in Nat, size >= 2, NEW p \in 0 .. Len(text), NEW k \in Nat,
         NEW s \in LineStates(X), LineRead(text, read, size, p, k, s)
  PROVE  LineTurn(size, s) \in LineStates(X)
         /\ LineRead(text, read, size, p, k + 1, LineTurn(size, s))
<1>1. PICK q \in Nat : p <= q /\ q <= Len(text) /\ ReadTo(text, read, size, p, k, s, q)
  BY DEF LineRead
<1>2. PICK n \in Nat : n = Len(text)
  OBVIOUS
<1>3. s = [stream |-> s.stream, line |-> s.line, ended |-> s.ended]
      /\ s.stream \in Seq(X) /\ s.line \in Seq(X) /\ s.ended \in BOOLEAN
  BY DEF LineStates
<1>4. s.stream = Behind(text, q) /\ (s.stream = <<>> <=> q = n)
  <2>1. s.stream = Behind(text, q)
    BY <1>1 DEF ReadTo
  <2> QED BY <1>1, <1>2, <2>1, BehindIs
<1>5. CASE s.ended \/ Len(s.line) >= size - 1
  <2>1. LineTurn(size, s) = s
    BY <1>5 DEF LineTurn
  <2>2. q = p => s.line = <<>> /\ p = Len(text)
    <3>1. Len(<<>>) = 0
      OBVIOUS
    <3> QED BY <1>1, <1>5, <3>1 DEF ReadTo
  <2>3. ReadTo(text, read, size, p, k + 1, s, q)
    BY <1>1, <2>2 DEF ReadTo
  <2> QED BY <1>1, <2>1, <2>3 DEF LineRead
<1>6. CASE ~(s.ended \/ Len(s.line) >= size - 1) /\ s.stream = <<>>
  <2>1. PICK t : t = LineTurn(size, s)
    OBVIOUS
  <2>2. t = [stream |-> s.stream, line |-> s.line, ended |-> TRUE]
    BY <1>3, <1>6, <2>1 DEF LineTurn
  <2>3. t \in LineStates(X)
    BY <1>3, <2>2 DEF LineStates
  <2>4. t.stream = s.stream /\ t.line = s.line /\ t.ended = TRUE
    BY <2>2
  <2>5. ReadTo(text, read, size, p, k + 1, t, q)
    BY <1>1, <1>2, <1>4, <1>6, <2>4 DEF ReadTo
  <2> QED BY <1>1, <2>1, <2>3, <2>5 DEF LineRead
<1>7. CASE ~(s.ended \/ Len(s.line) >= size - 1) /\ s.stream # <<>>
  <2>1. q \in p .. n - 1 /\ Head(s.stream) = text[q + 1] /\ Tail(s.stream) = Behind(text, q + 1)
    <3>1. q < n
      BY <1>1, <1>2, <1>4, <1>7
    <3>2. Head(s.stream) = text[q + 1] /\ Tail(s.stream) = Behind(text, q + 1)
      BY <1>2, <1>4, <3>1, BehindIs
    <3> QED BY <1>1, <3>1, <3>2
  <2>2. CASE text[q + 1] = CR
    <3>1. PICK rest : rest = Behind(text, q + 1)
      OBVIOUS
    <3>2. rest \in Seq(X) /\ Len(rest) = n - q - 1 /\ (q + 1 < n => rest[1] = text[q + 2])
      <4>1. q + 1 \in 0 .. Len(text)
        BY <1>2, <2>1
      <4>2. rest \in Seq(X) /\ Len(rest) = Len(text) - (q + 1)
            /\ \A i \in 1 .. Len(text) - (q + 1) : rest[i] = text[q + 1 + i]
        BY <3>1, <4>1, BehindIs
      <4>3. q + 1 < n => 1 \in 1 .. Len(text) - (q + 1) /\ q + 1 + 1 = q + 2
        BY <1>2, <2>1
      <4> QED BY <1>2, <2>1, <4>2, <4>3
    <3>3. IsPrefix(<<LF>>, rest) <=> q + 1 < n /\ text[q + 2] = LF
      <4>1. CASE q + 1 = n
        <5>1. Len(rest) = 0 /\ Len(<<LF>>) = 1
          BY <3>2, <4>1
        <5> QED BY <4>1, <5>1 DEF IsPrefix
      <4>2. CASE q + 1 < n
        <5>1. Len(rest) >= 1 /\ Len(<<LF>>) = 1
          BY <2>1, <3>2, <4>2
        <5>2. ASSUME NEW w \in Seq(X), Len(w) >= 1
              PROVE  SubSeq(w, 1, 1) = [i \in 1 .. 1 |-> w[1]]
          BY <5>2
        <5>3. <<LF>> \in Seq(X) /\ <<LF>>[1] = LF
          OBVIOUS
        <5>4. IsPrefix(<<LF>>, rest) <=> [i \in 1 .. 1 |-> LF] = [i \in 1 .. 1 |-> rest[1]]
          BY <3>2, <5>1, <5>2, <5>3 DEF IsPrefix
        <5>5. [i \in 1 .. 1 |-> LF] = [i \in 1 .. 1 |-> rest[1]] <=> LF = rest[1]
          <6>1. \A x : [i \in 1 .. 1 |-> x][1] = x
            OBVIOUS
          <6> QED BY <6>1
        <5> QED BY <3>2, <4>2, <5>4, <5>5
      <4> QED BY <2>1, <4>1, <4>2
    <3>4. CASE IsPrefix(<<LF>>, rest)
      <4>1. PICK r \in {q + 1, q + 2} : r = q + 2
        OBVIOUS
      <4>2. r <= Len(text) /\ text[q + 2] = LF
        BY <1>2, <2>1, <3>3, <3>4, <4>1
      <4>3. Whole(text, r)
        BY <4>1, <4>2 DEF Whole, LF, CR
      <4>4. Tail(rest) = Behind(text, r)
        <5>1. q + 1 \in 0 .. Len(text) /\ q + 1 < Len(text) /\ q + 1 + 1 = r
          BY <1>2, <2>1, <3>3, <3>4, <4>1
        <5> QED BY <3>1, <5>1, BehindIs
      <4>5. LineTurn(size, s) = [stream |-> Behind(text, r), line |-> Append(s.line, LF), ended |-> (LF = LF)]
        BY <1>7, <2>1, <2>2, <3>1, <3>4, <4>4 DEF LineTurn, BehindCR
      <4>6. q \in p .. Len(text) - 1 /\ LF = IF text[q + 1] = CR THEN LF ELSE text[q + 1]
        BY <1>2, <2>1, <2>2
      <4>7. Taking(text, size, s, q, r, LF, LineTurn(size, s))
        BY <1>3, <1>7, <4>1, <4>2, <4>3, <4>5, <4>6, <2>2 DEF Taking
      <4> QED BY <1>1, <1>2, <2>1, <4>7, LineTaken
    <3>5. CASE ~IsPrefix(<<LF>>, rest)
      <4>1. PICK r \in {q + 1, q + 2} : r = q + 1
        OBVIOUS
      <4>2. r <= Len(text) /\ r # q + 2
        BY <1>2, <2>1, <4>1
      <4>3. Whole(text, r)
        BY <1>2, <2>1, <3>3, <3>5, <4>1 DEF Whole
      <4>4. LineTurn(size, s) = [stream |-> Behind(text, r), line |-> Append(s.line, LF), ended |-> (LF = LF)]
        BY <1>7, <2>1, <2>2, <3>1, <3>5, <4>1 DEF LineTurn, BehindCR
      <4>5. q \in p .. Len(text) - 1 /\ LF = IF text[q + 1] = CR THEN LF ELSE text[q + 1]
        BY <1>2, <2>1, <2>2
      <4>6. Taking(text, size, s, q, r, LF, LineTurn(size, s))
        BY <1>3, <1>7, <4>1, <4>2, <4>3, <4>4, <4>5, <2>2 DEF Taking
      <4> QED BY <1>1, <1>2, <2>1, <4>6, LineTaken
    <3> QED BY <3>4, <3>5
  <2>3. CASE text[q + 1] # CR
    <3>1. PICK r \in {q + 1, q + 2} : r = q + 1
      OBVIOUS
    <3>2. r <= Len(text) /\ r # q + 2
      BY <1>2, <2>1, <3>1
    <3>3. Whole(text, r)
      BY <2>3, <3>1 DEF Whole
    <3>4. PICK c : c = text[q + 1]
      OBVIOUS
    <3>5. LineTurn(size, s) = [stream |-> Behind(text, r), line |-> Append(s.line, c), ended |-> (c = LF)]
      BY <1>7, <2>1, <2>3, <3>1, <3>4 DEF LineTurn
    <3>6. q \in p .. Len(text) - 1 /\ c = IF text[q + 1] = CR THEN LF ELSE text[q + 1]
      BY <1>2, <2>1, <2>3, <3>4
    <3>7. Taking(text, size, s, q, r, c, LineTurn(size, s))
      BY <1>3, <1>7, <3>1, <3>2, <3>3, <3>5, <3>6 DEF Taking
    <3> QED BY <1>1, <1>2, <2>1, <3>7, LineTaken
  <2> QED BY <2>2, <2>3
<1> QED BY <1>5, <1>6, <1>7

(* The line r that begins at p ends at some q.                                 *)
LineEnds(text, read, size, p, r) ==
    \E q \in 0 .. Len(text) :
       /\ p <= q /\ r.stream = Behind(text, q) /\ Whole(text, q)
       /\ read[p] \o r.line = read[q] /\ Len(r.line) < size
       /\ \A i \in 1 .. Len(r.line) - 1 : r.line[i] # LF
       /\ q = p => p = Len(text)

LEMMA LineLoop ==
  ASSUME NEW X, LF \in X, NEW text \in Seq(X), NEW read, Reads(X, text, read),
         NEW size \in Nat, size >= 2, NEW p \in 0 .. Len(text), Whole(text, p)
  PROVE  LineEnds(text, read, size, p, get_request_line(Behind(text, p), size))
<1>1. PICK s0 : s0 = [stream |-> Behind(text, p), line |-> <<>>, ended |-> FALSE]
  OBVIOUS
<1>2. s0 \in LineStates(X) /\ LineRead(text, read, size, p, 0, s0)
  <2>1. s0.stream = Behind(text, p) /\ s0.line = <<>> /\ s0.ended = FALSE
    BY <1>1
  <2>2. Behind(text, p) \in Seq(X) /\ <<>> \in Seq(X)
    BY BehindIs
  <2>3. read[p] \in Seq(X)
    BY DEF Reads
  <2>4. read[p] \o <<>> = read[p]
    BY <2>3
  <2>5. Len(<<>>) = 0
    OBVIOUS
  <2>6. ReadTo(text, read, size, p, 0, s0, p)
    BY <2>1, <2>4, <2>5 DEF ReadTo
  <2>7. p \in Nat /\ p <= p /\ p <= Len(text)
    OBVIOUS
  <2> QED BY <1>1, <2>2, <2>6, <2>7 DEF LineStates, LineRead
<1> DEFINE Turn(t) == LineTurn(size, t)
           Is(f) == f = [k \in 0 .. size |-> IF k = 0 THEN s0 ELSE Turn(f[k - 1])]
           Good == {t \in LineStates(X) : \E k \in Nat : LineRead(text, read, size, p, k, t)}
<1>3. \A t \in Good : Turn(t) \in Good
  <2> SUFFICES ASSUME NEW t \in LineStates(X), NEW k \in Nat, LineRead(text, read, size, p, k, t)
               PROVE  Turn(t) \in LineStates(X) /\ \E l \in Nat : LineRead(text, read, size, p, l, Turn(t))
    OBVIOUS
  <2>1. Turn(t) \in LineStates(X) /\ LineRead(text, read, size, p, k + 1, Turn(t))
    BY LineStep
  <2> QED BY <2>1
<1>4. s0 \in Good
  BY <1>2
<1>5. \E f : Is(f) /\ f \in [0 .. size -> Good]
  <2> HIDE DEF Turn, Good
  <2>1. PICK step \in [Good \X (1 .. size) -> Good] :
           step = [c \in Good \X (1 .. size) |-> Turn(c[1])]
    <3>1. [c \in Good \X (1 .. size) |-> Turn(c[1])] \in [Good \X (1 .. size) -> Good]
      BY <1>3
    <3> QED BY <3>1
  <2>2. HasTurns(Good, s0, size, step)
    BY <1>4, Recursion
  <2>3. PICK g \in [0 .. size -> Good] :
           g[0] = s0 /\ \A k \in 1 .. size : g[k] = step[<<g[k - 1], k>>]
    BY <2>2 DEF HasTurns
  <2>4. ASSUME NEW k \in 1 .. size PROVE g[k] = Turn(g[k - 1])
    <3>1. PICK t \in Good : t = g[k - 1]
      <4>1. k - 1 \in 0 .. size
        OBVIOUS
      <4> QED BY <4>1
    <3>2. <<t, k>> \in Good \X (1 .. size) /\ <<t, k>>[1] = t
      OBVIOUS
    <3>3. step[<<t, k>>] = Turn(t)
      BY <2>1, <3>2
    <3> QED BY <2>3, <3>1, <3>3
  <2>5. Is(g)
    BY <2>3, <2>4
  <2> QED BY <2>5
<1>6. PICK f : f = CHOOSE g : Is(g)
  OBVIOUS
<1>7. Is(f)
  BY <1>5, <1>6
<1>8. f[0] = s0 /\ \A k \in 1 .. size : f[k] = LineTurn(size, f[k - 1])
  <2> HIDE DEF Turn
  <2>1. f[0] = s0 /\ \A k \in 1 .. size : f[k] = Turn(f[k - 1])
    BY <1>7
  <2> QED BY <2>1 DEF Turn
<1>9. get_request_line(Behind(text, p), size) = [line |-> f[size].line, stream |-> f[size].stream]
  BY <1>1, <1>6 DEF get_request_line, While
<1>10. f[size] \in LineStates(X) /\ LineRead(text, read, size, p, size, f[size])
  <2> HIDE DEF Is, Turn, Good
  <2> DEFINE S == {k \in 0 .. size : f[k] \in LineStates(X) /\ LineRead(text, read, size, p, k, f[k])}
  <2>1. 0 \in S
    BY <1>2, <1>8
  <2>2. ASSUME NEW k \in 1 .. size, k - 1 \in S PROVE k \in S
    <3>1. PICK j \in Nat : j = k - 1 /\ j + 1 = k
      <4>1. k - 1 \in Nat /\ k - 1 + 1 = k
        OBVIOUS
      <4> QED BY <4>1
    <3>2. PICK s \in LineStates(X) : s = f[j] /\ LineRead(text, read, size, p, j, s)
      BY <2>2, <3>1
    <3>3. LineTurn(size, s) \in LineStates(X) /\ LineRead(text, read, size, p, j + 1, LineTurn(size, s))
      BY <3>2, LineStep
    <3>4. f[k] = LineTurn(size, s)
      BY <1>8, <3>1, <3>2
    <3> QED BY <3>1, <3>3, <3>4
  <2> HIDE DEF S
  <2>3. 0 .. size \subseteq S
    BY <2>1, <2>2, EveryTurn
  <2>4. size \in S
    BY <2>3
  <2> QED BY <2>4 DEF S
<1>11. PICK s : s = f[size]
  OBVIOUS
<1>12. PICK q \in Nat : p <= q /\ q <= Len(text) /\ ReadTo(text, read, size, p, size, s, q)
  BY <1>10, <1>11 DEF LineRead
<1>13. PICK r : r = get_request_line(Behind(text, p), size)
  OBVIOUS
<1>14. r.line = s.line /\ r.stream = s.stream /\ s.line \in Seq(X)
  BY <1>9, <1>10, <1>11, <1>13 DEF LineStates
<1>15. \A i \in 1 .. Len(s.line) - 1 : s.line[i] # LF
  <2> SUFFICES ASSUME NEW i \in 1 .. Len(s.line) - 1 PROVE s.line[i] # LF
    OBVIOUS
  <2>1. i \in 1 .. Len(s.line) /\ i # Len(s.line)
    BY <1>14
  <2> QED BY <1>12, <2>1 DEF ReadTo
<1>16. /\ s.stream = Behind(text, q) /\ Whole(text, q) /\ read[p] \o s.line = read[q]
       /\ Len(s.line) < size /\ (q = p => p = Len(text))
  BY <1>12 DEF ReadTo
<1>17. LineEnds(text, read, size, p, r)
  <2>1. q \in 0 .. Len(text)
    BY <1>12
  <2> QED BY <1>12, <1>14, <1>15, <1>16, <2>1 DEF LineEnds
<1> QED BY <1>13, <1>17

(* The lines up to the place q were read.                                    *)
LinesAt(text, read, q) == [stream |-> Behind(text, q), read |-> read[q], fits |-> TRUE]

LinesGoOn(text, read, size, p) ==
    \E q \in 0 .. Len(text) :
       /\ ReadLine(size, LinesAt(text, read, p)) = LinesAt(text, read, q)
       /\ Whole(text, q) /\ p <= q /\ (q = p => p = Len(text))

LEMMA OneLineMore ==
  ASSUME NEW X, LF \in X, NEW text \in Seq(X), NEW read, Reads(X, text, read),
         NEW size \in Nat, size >= 2, NEW p \in 0 .. Len(text), Whole(text, p)
  PROVE  LinesGoOn(text, read, size, p)
<1>1. PICK r : r = get_request_line(Behind(text, p), size)
  OBVIOUS
<1>2. PICK q \in 0 .. Len(text) :
         /\ p <= q /\ r.stream = Behind(text, q) /\ Whole(text, q)
         /\ read[p] \o r.line = read[q] /\ Len(r.line) < size
         /\ \A i \in 1 .. Len(r.line) - 1 : r.line[i] # LF
         /\ q = p => p = Len(text)
  <2>1. LineEnds(text, read, size, p, r)
    BY <1>1, LineLoop
  <2> QED BY <2>1 DEF LineEnds
<1>3. PICK s : s = LinesAt(text, read, p)
  OBVIOUS
<1>4. s.stream = Behind(text, p) /\ s.read = read[p] /\ s.fits = TRUE
  BY <1>3 DEF LinesAt
<1>5. PICK fits : fits = /\ s.fits /\ Len(r.line) < size
                         /\ \A i \in 1 .. Len(r.line) - 1 : r.line[i] # LF
  OBVIOUS
<1>6. fits = TRUE
  BY <1>2, <1>4, <1>5
<1>7. ReadLine(size, s) = [stream |-> r.stream, read |-> s.read \o r.line, fits |-> fits]
  BY <1>1, <1>4, <1>5 DEF ReadLine
<1>8. ReadLine(size, s) = LinesAt(text, read, q)
  BY <1>2, <1>4, <1>6, <1>7 DEF LinesAt
<1> QED BY <1>2, <1>3, <1>8 DEF LinesGoOn

(* get_request_line, of any text and with any buffer of two bytes or more:     *)
(* called once for each character at most, it returns the whole text.         *)
THEOREM AllLinesRead ==
  ASSUME NEW X, LF \in X, NEW text \in Seq(X), NEW size \in Nat, size >= 2
  PROVE  While(LAMBDA t : ReadLine(size, t),
               [stream |-> text, read |-> <<>>, fits |-> TRUE], Len(text))
           = [stream |-> <<>>, read |-> OneLineEnd(text), fits |-> TRUE]
<1>1. PICK n \in Nat : n = Len(text)
  OBVIOUS
<1>2. PICK read : Reads(X, text, read) /\ OneLineEnd(text) = read[n]
  BY <1>1, TextRead
<1>3. PICK s0 : s0 = [stream |-> text, read |-> <<>>, fits |-> TRUE]
  OBVIOUS
<1>4. s0 = LinesAt(text, read, 0) /\ Whole(text, 0)
  <2>1. Behind(text, 0) = text
    BY BehindIs
  <2>2. read[0] = <<>>
    BY <1>2 DEF Reads
  <2> QED BY <1>3, <2>1, <2>2 DEF LinesAt, Whole
<1> DEFINE Turn(t) == ReadLine(size, t)
           Is(f) == f = [k \in 0 .. n |-> IF k = 0 THEN s0 ELSE Turn(f[k - 1])]
           Got(k, s) == \E q \in 0 .. n : /\ s = LinesAt(text, read, q) /\ Whole(text, q)
                                          /\ k <= q \/ q = n
           Good == {LinesAt(text, read, q) : q \in {p \in 0 .. n : Whole(text, p)}}
<1>5. ASSUME NEW t \in Good PROVE Turn(t) \in Good
  <2>1. PICK p \in 0 .. Len(text) : t = LinesAt(text, read, p) /\ Whole(text, p)
    BY <1>1
  <2>2. PICK q \in 0 .. Len(text) :
           ReadLine(size, LinesAt(text, read, p)) = LinesAt(text, read, q) /\ Whole(text, q)
    <3>1. LinesGoOn(text, read, size, p)
      BY <1>2, <2>1, OneLineMore
    <3> QED BY <3>1 DEF LinesGoOn
  <2> QED BY <1>1, <2>1, <2>2
<1>6. s0 \in Good
  BY <1>4
<1>7. \E f : Is(f) /\ f \in [0 .. n -> Good]
  <2> HIDE DEF Turn, Good
  <2>1. PICK step \in [Good \X (1 .. n) -> Good] :
           step = [c \in Good \X (1 .. n) |-> Turn(c[1])]
    <3>1. [c \in Good \X (1 .. n) |-> Turn(c[1])] \in [Good \X (1 .. n) -> Good]
      BY <1>5
    <3> QED BY <3>1
  <2>2. HasTurns(Good, s0, n, step)
    BY <1>6, Recursion
  <2>3. PICK g \in [0 .. n -> Good] :
           g[0] = s0 /\ \A k \in 1 .. n : g[k] = step[<<g[k - 1], k>>]
    BY <2>2 DEF HasTurns
  <2>4. ASSUME NEW k \in 1 .. n PROVE g[k] = Turn(g[k - 1])
    <3>1. PICK t \in Good : t = g[k - 1]
      <4>1. k - 1 \in 0 .. n
        OBVIOUS
      <4> QED BY <4>1
    <3>2. <<t, k>> \in Good \X (1 .. n) /\ <<t, k>>[1] = t
      OBVIOUS
    <3>3. step[<<t, k>>] = Turn(t)
      BY <2>1, <3>2
    <3> QED BY <2>3, <3>1, <3>3
  <2>5. Is(g)
    BY <2>3, <2>4
  <2> QED BY <2>5
<1>8. PICK f : f = CHOOSE g : Is(g)
  OBVIOUS
<1>9. Is(f)
  BY <1>7, <1>8
<1>10. f[0] = s0 /\ \A k \in 1 .. n : f[k] = ReadLine(size, f[k - 1])
  <2> HIDE DEF Turn
  <2>1. f[0] = s0 /\ \A k \in 1 .. n : f[k] = Turn(f[k - 1])
    BY <1>9
  <2> QED BY <2>1 DEF Turn
<1>11. While(LAMBDA t : ReadLine(size, t),
             [stream |-> text, read |-> <<>>, fits |-> TRUE], Len(text)) = f[n]
  BY <1>1, <1>3, <1>8 DEF While
<1>12. \E q \in 0 .. n : f[n] = LinesAt(text, read, q) /\ (n <= q \/ q = n)
  <2> HIDE DEF Is, Turn, Good
  <2> DEFINE S == {k \in 0 .. n : Got(k, f[k])}
  <2>1. 0 \in S
    BY <1>4, <1>10
  <2>2. ASSUME NEW k \in 1 .. n, k - 1 \in S PROVE k \in S
    <3>1. PICK p \in 0 .. Len(text) : /\ f[k - 1] = LinesAt(text, read, p) /\ Whole(text, p)
                                      /\ k - 1 <= p \/ p = n
      BY <1>1, <2>2
    <3>2. PICK q \in 0 .. Len(text) :
             /\ ReadLine(size, LinesAt(text, read, p)) = LinesAt(text, read, q)
             /\ Whole(text, q) /\ p <= q /\ (q = p => p = Len(text))
      <4>1. LinesGoOn(text, read, size, p)
        BY <1>2, <3>1, OneLineMore
      <4> QED BY <4>1 DEF LinesGoOn
    <3>3. k <= q \/ q = n
      BY <1>1, <3>1, <3>2
    <3>4. f[k] = LinesAt(text, read, q)
      BY <1>10, <3>1, <3>2
    <3> QED BY <1>1, <3>2, <3>3, <3>4
  <2> HIDE DEF S
  <2>3. 0 .. n \subseteq S
    BY <2>1, <2>2, EveryTurn
  <2>4. n \in S
    BY <2>3
  <2> QED BY <2>4 DEF S
<1>13. f[n] = LinesAt(text, read, n)
  BY <1>12
<1>14. Behind(text, n) = <<>>
  BY <1>1, BehindIs
<1> QED BY <1>2, <1>11, <1>13, <1>14 DEF LinesAt

LEMMA LinesKept == InputType => LinesKeepText
<1> SUFFICES ASSUME InputType PROVE LinesKeepText
  OBVIOUS
<1>1. PICK X : X = {CR, LF, "a", "b"}
  OBVIOUS
<1>2. PICK text \in Seq(X) : text = Read(<<CR, LF, "a", "b">>)
  <2>1. data \in Seq(1 .. 4) /\ DOMAIN data = 1 .. Len(data)
    BY DEF InputType
  <2>2. \A symbol \in 1 .. 4 : <<CR, LF, "a", "b">>[symbol] \in X
    BY <1>1
  <2>3. [i \in 1 .. Len(data) |-> <<CR, LF, "a", "b">>[data[i]]] \in Seq(X)
    BY <2>1, <2>2
  <2> QED BY <2>1, <2>3 DEF Read
<1>3. \A size \in 2 .. 5 :
        While(LAMBDA t : ReadLine(size, t),
              [stream |-> text, read |-> <<>>, fits |-> TRUE], Len(text))
          = [stream |-> <<>>, read |-> OneLineEnd(text), fits |-> TRUE]
  <2>1. \A size \in 2 .. 5 : size \in Nat /\ size >= 2
    OBVIOUS
  <2> QED BY <1>1, <2>1, AllLinesRead
<1> QED BY <1>2, <1>3 DEF LinesKeepText

-----------------------------------------------------------------------------
(* The first and the last place of a character in a part of a text.          *)
FirstPlace(text, from, to, c, e) ==
    \/ e = 0 /\ \A i \in from .. to : text[i] # c
    \/ e \in from .. to /\ text[e] = c /\ \A i \in from .. e - 1 : text[i] # c

FirstIn(text, from, to, c) == SelectInSubSeq(text, from, to, LAMBDA x : x = c)

LEMMA FirstFound ==
  ASSUME NEW text, NEW from \in Nat, NEW to \in Nat, from >= 1, NEW c
  PROVE  FirstPlace(text, from, to, c, FirstIn(text, from, to, c))
<1>1. PICK I : I = {i \in from .. to : text[i] = c}
  OBVIOUS
<1>2. PICK e : e = FirstIn(text, from, to, c)
  OBVIOUS
<1>3. e = IF I # {} THEN CHOOSE x \in I : \A y \in I : x <= y ELSE 0
  BY <1>1, <1>2 DEF FirstIn, SelectInSubSeq, Min
<1>4. CASE I = {}
  BY <1>1, <1>2, <1>3, <1>4 DEF FirstPlace
<1>5. CASE I # {}
  <2>1. \E x \in I : \A y \in I : x <= y
    <3>1. I \subseteq Nat
      BY <1>1
    <3> QED BY <1>5, <3>1, Least
  <2>2. e \in I /\ \A y \in I : e <= y
    BY <1>3, <1>5, <2>1
  <2>3. \A i \in from .. e - 1 : i \in from .. to /\ ~(e <= i)
    BY <1>1, <2>2
  <2> QED BY <1>1, <1>2, <2>2, <2>3 DEF FirstPlace
<1> QED BY <1>4, <1>5

LEMMA FirstIs ==
  ASSUME NEW text, NEW from \in Nat, NEW to \in Nat, from >= 1, NEW c, NEW e,
         FirstPlace(text, from, to, c, e)
  PROVE  FirstIn(text, from, to, c) = e
<1>1. PICK d : d = FirstIn(text, from, to, c)
  OBVIOUS
<1>2. FirstPlace(text, from, to, c, d)
  BY <1>1, FirstFound
<1>3. CASE d = 0 \/ e = 0
  BY <1>1, <1>2, <1>3 DEF FirstPlace
<1>4. CASE d # 0 /\ e # 0
  <2>1. d \in from .. to /\ e \in from .. to /\ text[d] = c /\ text[e] = c
        /\ d \notin from .. e - 1 /\ e \notin from .. d - 1
    BY <1>2, <1>4 DEF FirstPlace
  <2> QED BY <1>1, <2>1
<1> QED BY <1>1, <1>3, <1>4

LEMMA FirstInSeq ==
  ASSUME NEW X, NEW text \in Seq(X), NEW c
  PROVE  SelectInSeq(text, LAMBDA x : x = c) = FirstIn(text, 1, Len(text), c)
BY DEF SelectInSeq, FirstIn, SelectInSubSeq, Min

LastPlace(text, to, c, e) ==
    \/ e = 0 /\ \A i \in 1 .. to : text[i] # c
    \/ e \in 1 .. to /\ text[e] = c /\ \A i \in e + 1 .. to : text[i] # c

LastIn(text, to, c) == SelectLastInSubSeq(text, 1, to, LAMBDA x : x = c)

LEMMA LastFound ==
  ASSUME NEW text, NEW to \in Nat, NEW c
  PROVE  LastPlace(text, to, c, LastIn(text, to, c))
<1>1. PICK I : I = {i \in 1 .. to : text[i] = c}
  OBVIOUS
<1>2. PICK e : e = LastIn(text, to, c)
  OBVIOUS
<1>3. e = IF I # {} THEN CHOOSE x \in I : \A y \in I : x >= y ELSE 0
  BY <1>1, <1>2 DEF LastIn, SelectLastInSubSeq, Max
<1>4. CASE I = {}
  BY <1>1, <1>2, <1>3, <1>4 DEF LastPlace
<1>5. CASE I # {}
  <2>1. PICK J : J = {j \in 0 .. to : to - j \in I}
    OBVIOUS
  <2>2. \A i \in I : i \in 1 .. to /\ to - i \in J /\ to - (to - i) = i
    <3>1. \A i \in I : i \in 1 .. to
      BY <1>1
    <3>2. \A i \in I : to - i \in 0 .. to /\ to - (to - i) = i
      BY <3>1
    <3> QED BY <2>1, <3>1, <3>2
  <2>3. PICK j \in J : \A k \in J : j <= k
    <3>1. J \subseteq Nat /\ J # {}
      BY <1>5, <2>1, <2>2
    <3> QED BY <3>1, Least
  <2>4. PICK x : x = to - j
    OBVIOUS
  <2>5. x \in I /\ \A y \in I : x >= y
    <3>1. x \in I /\ j \in 0 .. to
      BY <2>1, <2>4
    <3>2. ASSUME NEW y \in I PROVE x >= y
      <4>1. y \in 1 .. to /\ j <= to - y
        BY <2>2, <2>3
      <4> QED BY <2>4, <3>1, <4>1
    <3> QED BY <3>1, <3>2
  <2>6. e \in I /\ \A y \in I : e >= y
    BY <1>3, <1>5, <2>5
  <2>7. \A i \in e + 1 .. to : i \in 1 .. to /\ ~(e >= i)
    BY <1>1, <2>6
  <2> QED BY <1>1, <1>2, <2>6, <2>7 DEF LastPlace
<1> QED BY <1>4, <1>5

LEMMA LastIs ==
  ASSUME NEW text, NEW to \in Nat, NEW c, NEW e, LastPlace(text, to, c, e)
  PROVE  LastIn(text, to, c) = e
<1>1. PICK d : d = LastIn(text, to, c)
  OBVIOUS
<1>2. LastPlace(text, to, c, d)
  BY <1>1, LastFound
<1>3. CASE d = 0 \/ e = 0
  BY <1>1, <1>2, <1>3 DEF LastPlace
<1>4. CASE d # 0 /\ e # 0
  <2>1. d \in 1 .. to /\ e \in 1 .. to /\ text[d] = c /\ text[e] = c
        /\ d \notin e + 1 .. to /\ e \notin d + 1 .. to
    BY <1>2, <1>4 DEF LastPlace
  <2> QED BY <1>1, <2>1
<1> QED BY <1>1, <1>3, <1>4

-----------------------------------------------------------------------------
(* The operators of PairsOf: a substring ends at n, where it begins, and its    *)
(* first equals sign; and its pair.                                         *)
EndsAt(query, n) == n = Len(query) \/ query[n + 1] = "&"

BeginOf(query, n) == LastIn(query, n, "&") + 1

EqualsOf(query, n) == FirstIn(query, BeginOf(query, n), n, "=")

IsPairAt(query, n) == EndsAt(query, n) /\ EqualsOf(query, n) \notin {0, n}

PairAt(query, n) == [key   |-> SubSeq(query, BeginOf(query, n), EqualsOf(query, n) - 1),
                     value |-> SubSeq(query, EqualsOf(query, n) + 1, n)]

KeysAndValues(X) == [key : Seq(X), value : Seq(X)]

(* The function pairs of PairsOf.                                            *)
PairsUpTo(X, query, pairs) ==
    /\ pairs \in [0 .. Len(query) -> Seq(KeysAndValues(X))] /\ pairs[0] = <<>>
    /\ \A n \in 1 .. Len(query) :
          pairs[n] = IF IsPairAt(query, n) THEN Append(pairs[n - 1], PairAt(query, n))
                     ELSE pairs[n - 1]

LEMMA PairPlaces ==
  ASSUME NEW X, NEW query \in Seq(X), NEW n \in 1 .. Len(query)
  PROVE  /\ BeginOf(query, n) \in 1 .. n + 1
         /\ LastPlace(query, n, "&", BeginOf(query, n) - 1)
         /\ FirstPlace(query, BeginOf(query, n), n, "=", EqualsOf(query, n))
         /\ IsPairAt(query, n) => /\ query[n] # "&" /\ EqualsOf(query, n) \in BeginOf(query, n) .. n - 1
                                  /\ PairAt(query, n) \in KeysAndValues(X)
<1>1. PICK a \in 0 .. n : a = LastIn(query, n, "&")
  <2>1. LastPlace(query, n, "&", LastIn(query, n, "&"))
    BY LastFound
  <2>2. LastIn(query, n, "&") \in 0 .. n
    BY <2>1 DEF LastPlace
  <2> QED BY <2>2
<1>2. LastPlace(query, n, "&", a)
  BY <1>1, LastFound
<1>3. BeginOf(query, n) = a + 1 /\ a + 1 \in 1 .. n + 1 /\ a + 1 - 1 = a
  BY <1>1 DEF BeginOf
<1>4. PICK e : e = EqualsOf(query, n)
  OBVIOUS
<1>5. FirstPlace(query, a + 1, n, "=", e)
  <2>1. a + 1 \in Nat /\ a + 1 >= 1 /\ n \in Nat
    OBVIOUS
  <2> QED BY <1>3, <1>4, <2>1, FirstFound DEF EqualsOf
<1>6. ASSUME IsPairAt(query, n)
      PROVE  query[n] # "&" /\ e \in a + 1 .. n - 1 /\ PairAt(query, n) \in KeysAndValues(X)
  <2>1. e \in a + 1 .. n - 1
    BY <1>4, <1>5, <1>6 DEF IsPairAt, FirstPlace
  <2>2. query[n] # "&"
    <3>1. n \in a + 1 .. n
      BY <2>1
    <3> QED BY <1>2, <2>1, <3>1 DEF LastPlace
  <2>3. PICK size \in Nat : size = Len(query)
    OBVIOUS
  <2>4. SubSeq(query, a + 1, e - 1) \in Seq(X) /\ SubSeq(query, e + 1, n) \in Seq(X)
    BY <2>1, <2>3
  <2>5. PairAt(query, n) \in KeysAndValues(X)
    BY <1>3, <1>4, <2>4 DEF PairAt, KeysAndValues
  <2> QED BY <2>1, <2>2, <2>5
<1> QED BY <1>2, <1>3, <1>4, <1>5, <1>6

LEMMA PairsListed ==
  ASSUME NEW X, NEW query \in Seq(X)
  PROVE  \E pairs : PairsUpTo(X, query, pairs) /\ PairsOf(query) = pairs[Len(query)]
<1>1. PICK size \in Nat : size = Len(query)
  OBVIOUS
<1>2. PICK S : S = Seq(KeysAndValues(X))
  OBVIOUS
<1> DEFINE More(s, n) == IF IsPairAt(query, n) THEN Append(s, PairAt(query, n)) ELSE s
           Is(f) == f = [n \in 0 .. size |-> IF n = 0 THEN <<>> ELSE More(f[n - 1], n)]
<1>3. \A s \in S, n \in 1 .. size : More(s, n) \in S
  <2>1. \A n \in 1 .. size : IsPairAt(query, n) => PairAt(query, n) \in KeysAndValues(X)
    BY <1>1, PairPlaces
  <2> QED BY <1>2, <2>1
<1>4. \E f : Is(f) /\ f \in [0 .. size -> S]
  <2> HIDE DEF More
  <2>1. PICK step \in [S \X (1 .. size) -> S] :
           step = [p \in S \X (1 .. size) |-> More(p[1], p[2])]
    <3>1. [p \in S \X (1 .. size) |-> More(p[1], p[2])] \in [S \X (1 .. size) -> S]
      BY <1>3
    <3> QED BY <3>1
  <2>2. <<>> \in S
    BY <1>2
  <2>3. HasTurns(S, <<>>, size, step)
    BY <2>2, Recursion
  <2>4. PICK g \in [0 .. size -> S] :
           g[0] = <<>> /\ \A k \in 1 .. size : g[k] = step[<<g[k - 1], k>>]
    BY <2>3 DEF HasTurns
  <2>5. ASSUME NEW k \in 1 .. size PROVE g[k] = More(g[k - 1], k)
    <3>1. PICK t \in S : t = g[k - 1]
      <4>1. k - 1 \in 0 .. size
        OBVIOUS
      <4> QED BY <4>1
    <3>2. <<t, k>> \in S \X (1 .. size) /\ <<t, k>>[1] = t /\ <<t, k>>[2] = k
      OBVIOUS
    <3>3. step[<<t, k>>] = More(t, k)
      BY <2>1, <3>2
    <3> QED BY <2>4, <3>1, <3>3
  <2>6. Is(g)
    BY <2>4, <2>5
  <2> QED BY <2>6
<1>5. PICK f : f = CHOOSE g : Is(g)
  OBVIOUS
<1>6. Is(f)
  BY <1>4, <1>5
<1>7. f \in [0 .. size -> S]
  <2> DEFINE T == {k \in 0 .. size : f[k] \in S}
  <2>1. 0 \in T
    BY <1>2, <1>6
  <2>2. ASSUME NEW k \in 1 .. size, k - 1 \in T PROVE k \in T
    <3> HIDE DEF More
    <3>1. f[k] = More(f[k - 1], k)
      BY <1>6
    <3> HIDE DEF Is
    <3> QED BY <1>3, <2>2, <3>1
  <2> HIDE DEF T
  <2>3. 0 .. size \subseteq T
    BY <2>1, <2>2, EveryTurn
  <2>4. \A k \in 0 .. size : f[k] \in S
    BY <2>3 DEF T
  <2>5. f = [k \in 0 .. size |-> f[k]]
    BY <1>6
  <2> HIDE DEF Is
  <2> QED BY <2>4, <2>5
<1>8. PairsOf(query) = f[size]
  BY <1>1, <1>5 DEF PairsOf, IsPairAt, EndsAt, PairAt, EqualsOf, BeginOf, FirstIn, LastIn
<1>9. f[0] = <<>> /\ \A k \in 1 .. size : f[k] = More(f[k - 1], k)
  <2> HIDE DEF More
  <2> QED BY <1>6
<1>10. PairsUpTo(X, query, f)
  BY <1>1, <1>2, <1>7, <1>9 DEF PairsUpTo
<1> QED BY <1>1, <1>8, <1>10

LEMMA OnePairMore ==
  ASSUME NEW X, NEW query \in Seq(X), NEW pairs, PairsUpTo(X, query, pairs),
         NEW n \in 1 .. Len(query)
  PROVE  pairs[n] = IF IsPairAt(query, n) THEN Append(pairs[n - 1], PairAt(query, n))
                    ELSE pairs[n - 1]
BY DEF PairsUpTo

LEMMA PairsTyped ==
  ASSUME NEW X, NEW query \in Seq(X), NEW pairs, PairsUpTo(X, query, pairs),
         NEW n \in 0 .. Len(query)
  PROVE  pairs[n] \in Seq(KeysAndValues(X))
BY DEF PairsUpTo

-----------------------------------------------------------------------------
(* A token: from an ampersand, or the begin, up to the next, or the end.       *)
PartOf(text, p, q, part) == Len(part) = q - p /\ \A i \in 1 .. q - p : part[i] = text[p + i]

TokenOf(query, p, q, token) ==
    /\ p = 0 \/ query[p] = "&"
    /\ EndsAt(query, q) /\ \A i \in p + 1 .. q : query[i] # "&"
    /\ PartOf(query, p, q, token)

LEMMA PartOfPart ==
  ASSUME NEW X, NEW text \in Seq(X), NEW part \in Seq(X), NEW p \in 0 .. Len(text),
         NEW q \in p .. Len(text), PartOf(text, p, q, part),
         NEW a \in Nat, NEW b \in Nat, a >= 1, b <= q - p
  PROVE  SubSeq(part, a, b) = SubSeq(text, p + a, p + b)
<1>1. PICK n \in Nat : n = Len(text)
  OBVIOUS
<1>2. Len(part) = q - p /\ \A i \in 1 .. q - p : part[i] = text[p + i]
  BY DEF PartOf
<1>3. PICK s \in Seq(X) : s = SubSeq(part, a, b) /\ Len(s) = (IF a <= b THEN b - a + 1 ELSE 0)
                          /\ \A i \in 1 .. b - a + 1 : s[i] = part[a + i - 1]
  <2>1. \A i \in a .. b : i \in 1 .. Len(part)
    BY <1>2
  <2>2. SubSeq(part, a, b) \in Seq(X)
    BY <2>1
  <2>3. Len(SubSeq(part, a, b)) = (IF a <= b THEN b - a + 1 ELSE 0)
    BY <2>1
  <2>4. \A i \in 1 .. b - a + 1 : SubSeq(part, a, b)[i] = part[a + i - 1]
    BY <2>1
  <2> QED BY <2>2, <2>3, <2>4
<1>4. PICK t \in Seq(X) : t = SubSeq(text, p + a, p + b)
                          /\ Len(t) = (IF a <= b THEN b - a + 1 ELSE 0)
                          /\ \A i \in 1 .. b - a + 1 : t[i] = text[p + a + i - 1]
  <2>1. \A i \in p + a .. p + b : i \in 1 .. Len(text)
    OBVIOUS
  <2>2. SubSeq(text, p + a, p + b) \in Seq(X)
    BY <2>1
  <2>3. Len(SubSeq(text, p + a, p + b)) = (IF a <= b THEN b - a + 1 ELSE 0)
    BY <2>1
  <2>4. \A i \in 1 .. b - a + 1 : SubSeq(text, p + a, p + b)[i] = text[p + a + i - 1]
    BY <2>1
  <2> QED BY <2>2, <2>3, <2>4
<1>5. ASSUME NEW i \in 1 .. b - a + 1 PROVE s[i] = t[i]
  <2>1. PICK j \in 1 .. q - p : j = a + i - 1
    <3>1. a + i - 1 \in 1 .. q - p
      OBVIOUS
    <3> QED BY <3>1
  <2>2. s[i] = text[p + j]
    BY <1>2, <1>3, <2>1
  <2>3. t[i] = text[p + j]
    <3>1. p + a + i - 1 = p + j
      BY <2>1
    <3> QED BY <1>4, <3>1
  <2> QED BY <2>2, <2>3
<1>6. s = t
  <2>1. PICK m \in Nat : m = Len(s)
    OBVIOUS
  <2>2. Len(t) = m
    BY <1>3, <1>4, <2>1
  <2>3. \A i \in 1 .. m : i \in 1 .. b - a + 1
    BY <1>3, <2>1
  <2>4. \A i \in 1 .. m : s[i] = t[i]
    BY <1>5, <2>3
  <2> QED BY <2>1, <2>2, <2>4
<1> QED BY <1>3, <1>4, <1>6

LEMMA PairOfToken ==
  ASSUME NEW X, NEW query \in Seq(X), NEW pairs, PairsUpTo(X, query, pairs),
         NEW p \in 0 .. Len(query), NEW q \in p .. Len(query),
         NEW token \in Seq(X), TokenOf(query, p, q, token)
  PROVE  KeepPair(token, pairs[p]) = pairs[q]
<1>1. PICK n \in Nat : n = Len(query) /\ p \in Nat /\ q \in Nat /\ q <= n /\ p <= q
  OBVIOUS
<1>2. /\ p = 0 \/ query[p] = "&"
      /\ EndsAt(query, q) /\ \A i \in p + 1 .. q : query[i] # "&"
      /\ PartOf(query, p, q, token) /\ Len(token) = q - p
      /\ \A i \in 1 .. q - p : token[i] = query[p + i]
  BY DEF TokenOf, PartOf
<1>3. PICK e : e = SelectInSeq(token, LAMBDA c : c = "=")
  OBVIOUS
<1>4. e = FirstIn(token, 1, q - p, "=")
  BY <1>2, <1>3, FirstInSeq
<1>5. FirstPlace(token, 1, q - p, "=", e)
  <2>1. q - p \in Nat /\ 1 \in Nat /\ 1 >= 1
    BY <1>1
  <2> QED BY <1>4, <2>1, FirstFound
<1>6. PICK w : w = pairs[p]
  OBVIOUS
<1>7. KeepPair(token, w) = IF e # 0 /\ e # q - p
                             THEN Append(w, [key |-> SubSeq(token, 1, e - 1),
                                             value |-> SubSeq(token, e + 1, q - p)])
                             ELSE w
  BY <1>2, <1>3 DEF KeepPair, IsPair
<1>8. CASE q = p
  <2>1. e = 0
    BY <1>1, <1>5, <1>8 DEF FirstPlace
  <2> QED BY <1>6, <1>7, <1>8, <2>1
<1>9. CASE q # p
  <2>1. q \in 1 .. Len(query) /\ q - 1 \in p .. n
    BY <1>1, <1>9
  <2>2. pairs[q - 1] = w
    <3> DEFINE S == {k \in 0 .. n : p <= k /\ k < q => pairs[k] = w}
    <3>1. 0 \in S
      BY <1>1, <1>6
    <3>2. ASSUME NEW k \in 1 .. n, k - 1 \in S PROVE k \in S
      <4> SUFFICES ASSUME p <= k, k < q PROVE pairs[k] = w
        OBVIOUS
      <4>1. CASE p = k
        BY <1>6, <4>1
      <4>2. CASE p # k
        <5>1. pairs[k - 1] = w
          BY <1>1, <3>2, <4>2
        <5>2. ~EndsAt(query, k)
          <6>1. k # Len(query) /\ k + 1 \in p + 1 .. q
            BY <1>1, <4>2
          <6> QED BY <1>2, <6>1 DEF EndsAt
        <5> HIDE DEF S
        <5>3. k \in 1 .. Len(query)
          BY <1>1
        <5>4. pairs[k] = pairs[k - 1]
          BY <5>2, <5>3, OnePairMore DEF IsPairAt
        <5> QED BY <5>1, <5>4
      <4> QED BY <4>1, <4>2
    <3> HIDE DEF S
    <3>3. 0 .. n \subseteq S
      BY <3>1, <3>2, EveryTurn
    <3>4. q - 1 \in S
      BY <2>1, <3>3
    <3> QED BY <1>1, <2>1, <3>4 DEF S
  <2>3. BeginOf(query, q) = p + 1
    <3>1. p = 0 \/ p \in 1 .. q
      BY <1>1
    <3>2. \A i \in 1 .. q : p = 0 => i \in p + 1 .. q
      BY <1>1
    <3>3. LastPlace(query, q, "&", p)
      BY <1>2, <3>1, <3>2 DEF LastPlace
    <3>4. LastIn(query, q, "&") = p
      BY <1>1, <3>3, LastIs
    <3> QED BY <3>4 DEF BeginOf
  <2>4. PICK g \in Nat : g = IF e = 0 THEN 0 ELSE p + e
    <3>1. e \in Nat
      BY <1>1, <1>5 DEF FirstPlace
    <3>2. (IF e = 0 THEN 0 ELSE p + e) \in Nat
      BY <1>1, <3>1
    <3> QED BY <3>2
  <2>5. EqualsOf(query, q) = g
    <3>1. FirstPlace(query, p + 1, q, "=", g)
      <4>1. CASE e = 0
        <5>1. ASSUME NEW i \in p + 1 .. q PROVE query[i] # "="
          <6>1. i - p \in 1 .. q - p /\ p + (i - p) = i
            BY <1>1
          <6>2. token[i - p] # "="
            BY <1>5, <4>1, <6>1 DEF FirstPlace
          <6> QED BY <1>2, <6>1, <6>2
        <5> QED BY <2>4, <4>1, <5>1 DEF FirstPlace
      <4>2. CASE e # 0
        <5>1. e \in 1 .. q - p /\ token[e] = "=" /\ \A i \in 1 .. e - 1 : token[i] # "="
          BY <1>5, <4>2 DEF FirstPlace
        <5>2. g \in p + 1 .. q /\ query[g] = "="
          BY <1>1, <1>2, <2>4, <4>2, <5>1
        <5>3. ASSUME NEW i \in p + 1 .. g - 1 PROVE query[i] # "="
          <6>1. i - p \in 1 .. e - 1 /\ i - p \in 1 .. q - p /\ p + (i - p) = i
            BY <1>1, <2>4, <4>2, <5>1
          <6> QED BY <1>2, <5>1, <6>1
        <5> QED BY <5>2, <5>3 DEF FirstPlace
      <4> QED BY <4>1, <4>2
    <3>2. p + 1 \in Nat /\ p + 1 >= 1
      BY <1>1
    <3>3. FirstIn(query, p + 1, q, "=") = g
      BY <1>1, <3>1, <3>2, FirstIs
    <3> QED BY <2>3, <3>3 DEF EqualsOf
  <2>6. IsPairAt(query, q) <=> e # 0 /\ e # q - p
    <3>1. e = 0 \/ e \in 1 .. q - p
      BY <1>5 DEF FirstPlace
    <3> QED BY <1>1, <1>2, <1>9, <2>4, <2>5, <3>1 DEF IsPairAt
  <2>7. ASSUME e # 0, e # q - p
        PROVE  PairAt(query, q) = [key |-> SubSeq(token, 1, e - 1),
                                   value |-> SubSeq(token, e + 1, q - p)]
    <3>1. e \in 1 .. q - p - 1
      BY <1>1, <1>5, <2>7 DEF FirstPlace
    <3>2. ASSUME NEW a \in Nat, NEW b \in Nat, a >= 1, b <= q - p
          PROVE  SubSeq(token, a, b) = SubSeq(query, p + a, p + b)
      BY <1>2, <3>2, PartOfPart
    <3>3. /\ SubSeq(token, 1, e - 1) = SubSeq(query, p + 1, p + (e - 1))
          /\ SubSeq(token, e + 1, q - p) = SubSeq(query, p + (e + 1), p + (q - p))
      <4>1. 1 \in Nat /\ e - 1 \in Nat /\ 1 >= 1 /\ e - 1 <= q - p
        BY <1>1, <3>1
      <4>2. e + 1 \in Nat /\ q - p \in Nat /\ e + 1 >= 1 /\ q - p <= q - p
        BY <1>1, <3>1
      <4>3. SubSeq(token, 1, e - 1) = SubSeq(query, p + 1, p + (e - 1))
        BY <3>2, <4>1
      <4>4. SubSeq(token, e + 1, q - p) = SubSeq(query, p + (e + 1), p + (q - p))
        BY <3>2, <4>2
      <4> QED BY <4>3, <4>4
    <3>4. p + (e - 1) = g - 1 /\ p + (e + 1) = g + 1 /\ p + (q - p) = q
      BY <1>1, <2>4, <2>7, <3>1
    <3> QED BY <2>3, <2>5, <3>3, <3>4 DEF PairAt
  <2>8. pairs[q] = IF IsPairAt(query, q) THEN Append(pairs[q - 1], PairAt(query, q))
                   ELSE pairs[q - 1]
    BY <2>1, OnePairMore
  <2> QED BY <1>6, <1>7, <2>2, <2>6, <2>7, <2>8
<1> QED BY <1>8, <1>9

-----------------------------------------------------------------------------
(* The ends that max_pairs counts.                                           *)
CountedEnds(query) ==
    {i \in 1 .. Len(query) : /\ query[i] # "&"
                             /\ (IF i < Len(query) THEN query[i + 1] ELSE "NUL") \in {"&", "NUL"}}

(* When max_pairs pairs were found, the last was.                             *)
LEMMA PairsBounded ==
  ASSUME NEW X, NEW query \in Seq(X), NEW pairs, PairsUpTo(X, query, pairs),
         NEW p \in 0 .. Len(query), Len(pairs[p]) >= max_pairs(query)
  PROVE  pairs[Len(query)] = pairs[p]
<1>1. PICK n \in Nat : n = Len(query)
  OBVIOUS
<1>2. PICK C : C = CountedEnds(query)
  OBVIOUS
<1>3. max_pairs(query) = Cardinality(C)
  BY <1>2 DEF max_pairs, CountedEnds
<1>4. ASSUME NEW k \in 0 .. n
      PROVE  /\ IsFiniteSet(C \cap (1 .. k)) /\ Cardinality(C \cap (1 .. k)) \in Nat
             /\ IsFiniteSet(C) /\ Cardinality(C) \in Nat
             /\ Cardinality(C \cap (1 .. k)) <= Cardinality(C)
  <2>1. IsFiniteSet(1 .. n)
    BY FS_Interval
  <2>2. C \in SUBSET (1 .. n)
    BY <1>1, <1>2 DEF CountedEnds
  <2>3. IsFiniteSet(C)
    BY <2>1, <2>2, FS_Subset
  <2>4. C \cap (1 .. k) \in SUBSET C
    OBVIOUS
  <2>5. IsFiniteSet(C \cap (1 .. k)) /\ Cardinality(C \cap (1 .. k)) <= Cardinality(C)
    BY <2>3, <2>4, FS_Subset
  <2> QED BY <2>3, <2>5, FS_CardinalityType
<1>5. ASSUME NEW k \in 1 .. n, IsPairAt(query, k) PROVE k \in C
  <2>1. query[k] # "&" /\ EndsAt(query, k)
    BY <1>1, <1>5, PairPlaces DEF IsPairAt
  <2> QED BY <1>1, <1>2, <2>1 DEF CountedEnds, EndsAt
<1>6. ASSUME NEW k \in 0 .. n PROVE Len(pairs[k]) \in Nat /\ pairs[k] \in Seq(KeysAndValues(X))
  <2>1. pairs[k] \in Seq(KeysAndValues(X))
    BY <1>1, PairsTyped
  <2> QED BY <2>1
<1>7. ASSUME NEW k \in 1 .. n
      PROVE  \/ IsPairAt(query, k) /\ Len(pairs[k]) = Len(pairs[k - 1]) + 1
             \/ ~IsPairAt(query, k) /\ pairs[k] = pairs[k - 1]
  <2>1. pairs[k] = IF IsPairAt(query, k) THEN Append(pairs[k - 1], PairAt(query, k))
                   ELSE pairs[k - 1]
    BY <1>1, OnePairMore
  <2>2. PICK w \in Seq(KeysAndValues(X)) : w = pairs[k - 1]
    <3>1. k - 1 \in 0 .. n
      OBVIOUS
    <3> QED BY <1>6, <3>1
  <2>3. CASE IsPairAt(query, k)
    <3>1. PairAt(query, k) \in KeysAndValues(X)
      BY <1>1, <2>3, PairPlaces
    <3>2. Len(Append(w, PairAt(query, k))) = Len(w) + 1
      BY <3>1
    <3> QED BY <2>1, <2>2, <2>3, <3>2
  <2> QED BY <2>1, <2>3
<1>8. \A k \in 0 .. n : Len(pairs[k]) <= Cardinality(C \cap (1 .. k))
  <2> DEFINE S == {k \in 0 .. n : Len(pairs[k]) <= Cardinality(C \cap (1 .. k))}
  <2>1. 0 \in S
    <3>1. pairs[0] = <<>>
      BY DEF PairsUpTo
    <3>2. Len(pairs[0]) = 0
      BY <3>1
    <3>3. PICK k \in 0 .. n : k = 0
      OBVIOUS
    <3>4. Cardinality(C \cap (1 .. k)) \in Nat
      BY <1>4
    <3> QED BY <3>2, <3>3, <3>4
  <2>2. ASSUME NEW k \in 1 .. n, k - 1 \in S PROVE k \in S
    <3>1. k - 1 \in 0 .. n /\ k \in 0 .. n
      OBVIOUS
    <3>2. PICK A : A = C \cap (1 .. k - 1)
      OBVIOUS
    <3>3. IsFiniteSet(A) /\ Cardinality(A) \in Nat /\ k \notin A
      BY <1>4, <3>1, <3>2
    <3>4. Len(pairs[k - 1]) <= Cardinality(A) /\ Len(pairs[k - 1]) \in Nat
      BY <1>6, <2>2, <3>1, <3>2
    <3>5. CASE k \in C
      <4>1. C \cap (1 .. k) = A \cup {k}
        BY <3>2, <3>5
      <4>2. Cardinality(A \cup {k}) = Cardinality(A) + 1
        BY <3>3, FS_AddElement
      <4>3. Len(pairs[k]) <= Cardinality(A) + 1
        BY <1>7, <3>3, <3>4
      <4> QED BY <3>1, <4>1, <4>2, <4>3
    <3>6. CASE k \notin C
      <4>1. C \cap (1 .. k) = A
        BY <3>2, <3>6
      <4>2. pairs[k] = pairs[k - 1]
        BY <1>5, <1>7, <3>6
      <4> QED BY <3>1, <3>4, <4>1, <4>2
    <3> QED BY <3>5, <3>6
  <2> HIDE DEF S
  <2>3. 0 .. n \subseteq S
    BY <2>1, <2>2, EveryTurn
  <2> QED BY <2>3 DEF S
<1>9. \A k \in 0 .. n : p <= k => pairs[k] = pairs[p]
  <2> DEFINE S == {k \in 0 .. n : p <= k => pairs[k] = pairs[p]}
  <2>1. 0 \in S
    BY <1>1
  <2>2. ASSUME NEW k \in 1 .. n, k - 1 \in S PROVE k \in S
    <3> SUFFICES ASSUME p <= k, p # k PROVE pairs[k] = pairs[p]
      OBVIOUS
    <3>1. k - 1 \in 0 .. n /\ p <= k - 1
      BY <1>1
    <3>2. pairs[k - 1] = pairs[p]
      BY <2>2, <3>1
    <3> HIDE DEF S
    <3>3. Len(pairs[k]) <= Cardinality(C)
      <4>1. k \in 0 .. n
        OBVIOUS
      <4>2. Len(pairs[k]) <= Cardinality(C \cap (1 .. k)) /\ Len(pairs[k]) \in Nat
        BY <1>6, <1>8, <4>1
      <4>3. Cardinality(C \cap (1 .. k)) \in Nat /\ Cardinality(C) \in Nat
            /\ Cardinality(C \cap (1 .. k)) <= Cardinality(C)
        BY <1>4, <4>1
      <4> QED BY <4>2, <4>3
    <3>4. Len(pairs[k - 1]) >= Cardinality(C) /\ Len(pairs[k - 1]) \in Nat /\ Cardinality(C) \in Nat
      BY <1>3, <1>4, <1>6, <3>1, <3>2
    <3>5. ~(Len(pairs[k]) = Len(pairs[k - 1]) + 1)
      BY <3>3, <3>4
    <3> QED BY <1>7, <3>2, <3>5
  <2> HIDE DEF S
  <2>3. 0 .. n \subseteq S
    BY <2>1, <2>2, EveryTurn
  <2> QED BY <2>3 DEF S
<1>10. n \in 0 .. n /\ p <= n
  BY <1>1
<1> QED BY <1>1, <1>9, <1>10

-----------------------------------------------------------------------------
(* parse_query_string after k turns: it ended with all pairs, or it has those  *)
(* up to an ampersand p, k at least unless they are max_pairs already.         *)
QueryStates(X) == [rest : Seq(X), ended : BOOLEAN, pairs : Seq(KeysAndValues(X))]

QueryStop(query, pairs, k, s, p) ==
    /\ ~s.ended /\ s.rest = Behind(query, p) /\ s.pairs = pairs[p]
    /\ p = 0 \/ query[p] = "&"
    /\ p >= k \/ Len(pairs[p]) >= max_pairs(query)

QueryAt(query, pairs, k, s) ==
    \/ s.ended /\ s.pairs = pairs[Len(query)]
    \/ \E p \in 0 .. Len(query) : QueryStop(query, pairs, k, s, p)

LEMMA QueryStep ==
  ASSUME NEW X, NEW query \in Seq(X), NEW pairs, PairsUpTo(X, query, pairs),
         NEW k \in Nat, NEW s \in QueryStates(X), QueryAt(query, pairs, k, s)
  PROVE  QueryTurn(max_pairs(query), s) \in QueryStates(X)
         /\ QueryAt(query, pairs, k + 1, QueryTurn(max_pairs(query), s))
<1>1. PICK n \in Nat : n = Len(query)
  OBVIOUS
<1>2. PICK t : t = QueryTurn(max_pairs(query), s)
  OBVIOUS
<1>3. CASE s.ended \/ Len(s.pairs) >= max_pairs(query)
  <2>1. t = s
    BY <1>2, <1>3 DEF QueryTurn
  <2>2. QueryAt(query, pairs, k + 1, s)
    BY <1>3 DEF QueryAt, QueryStop
  <2> QED BY <1>2, <2>1, <2>2
<1>4. CASE ~(s.ended \/ Len(s.pairs) >= max_pairs(query))
  <2>1. PICK p \in 0 .. Len(query) : QueryStop(query, pairs, k, s, p)
    BY <1>4 DEF QueryAt
  <2>2. /\ s.rest = Behind(query, p) /\ s.pairs = pairs[p]
        /\ p = 0 \/ query[p] = "&"
        /\ p >= k /\ p \in Nat /\ p <= n
    BY <1>1, <1>4, <2>1 DEF QueryStop
  <2>3. PICK r \in Seq(X) : r = s.rest /\ Len(r) = n - p
                            /\ \A i \in 1 .. n - p : r[i] = query[p + i]
    <3>1. /\ Behind(query, p) \in Seq(X) /\ Len(Behind(query, p)) = Len(query) - p
          /\ \A i \in 1 .. Len(query) - p : Behind(query, p)[i] = query[p + i]
      BY BehindIs
    <3> QED BY <1>1, <2>2, <3>1
  <2>4. PICK a : a = SelectInSeq(r, LAMBDA c : c = "&")
    OBVIOUS
  <2>5. FirstPlace(r, 1, n - p, "&", a)
    <3>1. n - p \in Nat /\ 1 \in Nat /\ 1 >= 1
      BY <2>2
    <3>2. a = FirstIn(r, 1, n - p, "&")
      BY <2>3, <2>4, FirstInSeq
    <3> QED BY <3>1, <3>2, FirstFound
  <2>6. PICK token : token = IF a = 0 THEN r ELSE SubSeq(r, 1, a - 1)
    OBVIOUS
  <2>7. t = [rest |-> SubSeq(r, a + 1, n - p), ended |-> (a = 0), pairs |-> KeepPair(token, pairs[p])]
    BY <1>2, <1>4, <2>2, <2>3, <2>4, <2>6 DEF QueryTurn
  <2>8. \A q \in 0 .. n : pairs[q] \in Seq(KeysAndValues(X))
    BY <1>1, PairsTyped
  <2>9. CASE a = 0
    <3>1. TokenOf(query, p, n, r)
      <4>1. ASSUME NEW i \in p + 1 .. n PROVE query[i] # "&"
        <5>1. i - p \in 1 .. n - p /\ p + (i - p) = i
          BY <2>2
        <5>2. r[i - p] # "&"
          BY <2>5, <2>9, <5>1 DEF FirstPlace
        <5> QED BY <2>3, <5>1, <5>2
      <4> QED BY <1>1, <2>2, <2>3, <4>1 DEF TokenOf, EndsAt, PartOf
    <3>2. PICK q \in p .. Len(query) : q = n
      BY <1>1, <2>2
    <3>3. KeepPair(r, pairs[p]) = pairs[q]
      BY <3>1, <3>2, PairOfToken
    <3>4. t.pairs = pairs[n] /\ t.ended = TRUE /\ t.rest = SubSeq(r, 1, n - p)
      <4>1. a + 1 = 1 /\ (a = 0) = TRUE /\ KeepPair(token, pairs[p]) = pairs[n]
        BY <2>6, <2>9, <3>2, <3>3
      <4> QED BY <2>7, <4>1
    <3>5. SubSeq(r, 1, n - p) \in Seq(X)
      BY <2>2, <2>3
    <3>6. t \in QueryStates(X)
      BY <1>1, <2>7, <2>8, <2>9, <3>4, <3>5 DEF QueryStates
    <3> QED BY <1>1, <1>2, <3>4, <3>6 DEF QueryAt
  <2>10. CASE a # 0
    <3>1. /\ a \in 1 .. n - p /\ query[p + a] = "&"
          /\ \A i \in 1 .. a - 1 : r[i] # "&" /\ r[i] = query[p + i]
      <4>1. a \in 1 .. n - p /\ r[a] = "&" /\ \A i \in 1 .. a - 1 : r[i] # "&"
        BY <2>5, <2>10 DEF FirstPlace
      <4>2. \A i \in 1 .. a - 1 : i \in 1 .. n - p
        BY <4>1
      <4> QED BY <2>3, <4>1, <4>2
    <3>2. PICK q \in p .. Len(query) : q = p + a - 1
      <4>1. p + a - 1 \in p .. Len(query)
        BY <1>1, <2>2, <3>1
      <4> QED BY <4>1
    <3>3. q + 1 = p + a /\ q + 1 \in 1 .. Len(query) /\ q - p = a - 1 /\ a - 1 \in Nat
      BY <1>1, <2>2, <3>1, <3>2
    <3>4. /\ token \in Seq(X) /\ Len(token) = a - 1
          /\ \A i \in 1 .. a - 1 : token[i] = r[i]
      <4>1. SubSeq(r, 1, a - 1) \in Seq(X)
        BY <2>3, <3>1
      <4>2. Len(SubSeq(r, 1, a - 1)) = a - 1
        BY <2>3, <3>1
      <4>3. \A i \in 1 .. a - 1 : SubSeq(r, 1, a - 1)[i] = r[i]
        BY <2>3, <3>1
      <4> QED BY <2>6, <2>10, <4>1, <4>2, <4>3
    <3>5. TokenOf(query, p, q, token)
      <4>1. ASSUME NEW i \in p + 1 .. q PROVE query[i] # "&"
        <5>1. i - p \in 1 .. a - 1 /\ p + (i - p) = i
          BY <2>2, <3>3
        <5> QED BY <3>1, <5>1
      <4>2. EndsAt(query, q)
        BY <3>1, <3>3 DEF EndsAt
      <4> QED BY <2>2, <3>1, <3>3, <3>4, <4>1, <4>2 DEF TokenOf, PartOf
    <3>6. KeepPair(token, pairs[p]) = pairs[q]
      BY <3>4, <3>5, PairOfToken
    <3>7. PICK z \in 1 .. Len(query) : z = q + 1 /\ z - 1 = q /\ z = p + a /\ query[z] = "&"
      BY <3>1, <3>3
    <3>8. pairs[z] = pairs[q]
      <4>1. ~IsPairAt(query, z)
        BY <3>7, PairPlaces
      <4> QED BY <3>7, <4>1, OnePairMore
    <3>9. SubSeq(r, a + 1, n - p) = Behind(query, z)
      <4>1. PICK m \in p .. Len(query) : m = n
        BY <1>1, <2>2
      <4>2. PartOf(query, p, m, r)
        BY <2>3, <4>1 DEF PartOf
      <4>3. ASSUME NEW c \in Nat, NEW d \in Nat, c >= 1, d <= m - p
            PROVE  SubSeq(r, c, d) = SubSeq(query, p + c, p + d)
        BY <2>1, <2>3, <4>1, <4>2, <4>3, PartOfPart
      <4>4. a + 1 \in Nat /\ a + 1 >= 1 /\ n - p \in Nat /\ n - p <= m - p
        BY <2>2, <3>1, <4>1
      <4>5. SubSeq(r, a + 1, n - p) = SubSeq(query, p + (a + 1), p + (n - p))
        BY <4>3, <4>4
      <4>6. p + (a + 1) = z + 1 /\ p + (n - p) = Len(query)
        BY <1>1, <2>2, <3>1, <3>7
      <4> QED BY <4>5, <4>6 DEF Behind
    <3>10. t.rest = Behind(query, z) /\ t.ended = FALSE /\ t.pairs = pairs[z]
      BY <2>7, <2>10, <3>6, <3>8, <3>9
    <3>11. t \in QueryStates(X)
      <4>1. z \in 0 .. Len(query) /\ z \in 0 .. n
        BY <1>1
      <4>2. Behind(query, z) \in Seq(X)
        BY <4>1, BehindIs
      <4> QED BY <2>7, <2>8, <3>10, <4>1, <4>2 DEF QueryStates
    <3>12. z \in 0 .. Len(query) /\ z >= k + 1
      BY <2>2, <3>1, <3>7
    <3>13. QueryStop(query, pairs, k + 1, t, z)
      BY <3>7, <3>10, <3>12 DEF QueryStop
    <3> QED BY <1>2, <3>11, <3>12, <3>13 DEF QueryAt
  <2> QED BY <2>9, <2>10
<1> QED BY <1>3, <1>4

(* parse_query_string, of a query string of any characters: it finds each      *)
(* substring with an equals sign that has something behind it.               *)
THEOREM AllPairsFound ==
  ASSUME NEW X, NEW query \in Seq(X)
  PROVE  parse_query_string(query) = PairsOf(query) /\ PairsOf(query) \in Seq(KeysAndValues(X))
<1>1. PICK pairs : PairsUpTo(X, query, pairs) /\ PairsOf(query) = pairs[Len(query)]
  BY PairsListed
<1>2. PICK n \in Nat : n = Len(query) + 1
  OBVIOUS
<1>3. PICK s0 : s0 = [rest |-> query, ended |-> FALSE, pairs |-> <<>>]
  OBVIOUS
<1>4. s0 \in QueryStates(X) /\ QueryAt(query, pairs, 0, s0)
  <2>1. Behind(query, 0) = query
    BY BehindIs
  <2>2. pairs[0] = <<>>
    BY <1>1 DEF PairsUpTo
  <2>3. s0.rest = query /\ s0.ended = FALSE /\ s0.pairs = <<>>
    BY <1>3
  <2>4. QueryStop(query, pairs, 0, s0, 0)
    BY <2>1, <2>2, <2>3 DEF QueryStop
  <2>5. 0 \in 0 .. Len(query)
    OBVIOUS
  <2>6. s0 \in QueryStates(X)
    BY <1>3 DEF QueryStates
  <2> QED BY <2>4, <2>5, <2>6 DEF QueryAt
<1> DEFINE Turn(t) == QueryTurn(max_pairs(query), t)
           Is(f) == f = [k \in 0 .. n |-> IF k = 0 THEN s0 ELSE Turn(f[k - 1])]
           Good == {t \in QueryStates(X) : \E k \in Nat : QueryAt(query, pairs, k, t)}
<1>5. ASSUME NEW t \in Good PROVE Turn(t) \in Good
  <2>1. PICK k \in Nat : QueryAt(query, pairs, k, t)
    OBVIOUS
  <2>2. Turn(t) \in QueryStates(X) /\ QueryAt(query, pairs, k + 1, Turn(t))
    BY <1>1, <2>1, QueryStep
  <2>3. k + 1 \in Nat
    BY <2>1
  <2> HIDE DEF Turn
  <2> QED BY <2>2, <2>3
<1>6. s0 \in Good
  BY <1>4
<1>7. \E f : Is(f) /\ f \in [0 .. n -> Good]
  <2> HIDE DEF Turn, Good
  <2>1. PICK step \in [Good \X (1 .. n) -> Good] :
           step = [c \in Good \X (1 .. n) |-> Turn(c[1])]
    <3>1. [c \in Good \X (1 .. n) |-> Turn(c[1])] \in [Good \X (1 .. n) -> Good]
      BY <1>5
    <3> QED BY <3>1
  <2>2. HasTurns(Good, s0, n, step)
    BY <1>6, Recursion
  <2>3. PICK g \in [0 .. n -> Good] :
           g[0] = s0 /\ \A k \in 1 .. n : g[k] = step[<<g[k - 1], k>>]
    BY <2>2 DEF HasTurns
  <2>4. ASSUME NEW k \in 1 .. n PROVE g[k] = Turn(g[k - 1])
    <3>1. PICK t \in Good : t = g[k - 1]
      <4>1. k - 1 \in 0 .. n
        OBVIOUS
      <4> QED BY <4>1
    <3>2. <<t, k>> \in Good \X (1 .. n) /\ <<t, k>>[1] = t
      OBVIOUS
    <3>3. step[<<t, k>>] = Turn(t)
      BY <2>1, <3>2
    <3> QED BY <2>3, <3>1, <3>3
  <2>5. Is(g)
    BY <2>3, <2>4
  <2> QED BY <2>5
<1>8. PICK f : f = CHOOSE g : Is(g)
  OBVIOUS
<1>9. Is(f)
  BY <1>7, <1>8
<1>10. f[0] = s0 /\ \A k \in 1 .. n : f[k] = QueryTurn(max_pairs(query), f[k - 1])
  <2> HIDE DEF Turn
  <2>1. f[0] = s0 /\ \A k \in 1 .. n : f[k] = Turn(f[k - 1])
    BY <1>9
  <2> QED BY <2>1 DEF Turn
<1>11. parse_query_string(query) = f[n].pairs
  BY <1>2, <1>3, <1>8 DEF parse_query_string, While
<1>12. f[n] \in QueryStates(X) /\ QueryAt(query, pairs, n, f[n])
  <2> HIDE DEF Is, Turn, Good
  <2> DEFINE S == {k \in 0 .. n : f[k] \in QueryStates(X) /\ QueryAt(query, pairs, k, f[k])}
  <2>1. 0 \in S
    BY <1>4, <1>10
  <2>2. ASSUME NEW k \in 1 .. n, k - 1 \in S PROVE k \in S
    <3>1. PICK j \in Nat : j = k - 1 /\ j + 1 = k
      <4>1. k - 1 \in Nat /\ k - 1 + 1 = k
        OBVIOUS
      <4> QED BY <4>1
    <3>2. PICK s \in QueryStates(X) : s = f[j] /\ QueryAt(query, pairs, j, s)
      BY <2>2, <3>1
    <3>3. QueryTurn(max_pairs(query), s) \in QueryStates(X)
          /\ QueryAt(query, pairs, j + 1, QueryTurn(max_pairs(query), s))
      BY <1>1, <3>1, <3>2, QueryStep
    <3>4. f[k] = QueryTurn(max_pairs(query), s)
      BY <1>10, <3>1, <3>2
    <3> QED BY <3>1, <3>3, <3>4
  <2> HIDE DEF S
  <2>3. 0 .. n \subseteq S
    BY <2>1, <2>2, EveryTurn
  <2>4. n \in S
    BY <2>3
  <2> QED BY <2>4 DEF S
<1>13. f[n].pairs = pairs[Len(query)]
  <2>1. CASE f[n].ended /\ f[n].pairs = pairs[Len(query)]
    BY <2>1
  <2>2. CASE ~(f[n].ended /\ f[n].pairs = pairs[Len(query)])
    <3>1. PICK p \in 0 .. Len(query) : QueryStop(query, pairs, n, f[n], p)
      BY <1>12, <2>2 DEF QueryAt
    <3>2. ~(p >= n)
      BY <1>2, <3>1
    <3>3. f[n].pairs = pairs[p] /\ Len(pairs[p]) >= max_pairs(query)
      BY <3>1, <3>2 DEF QueryStop
    <3>4. pairs[Len(query)] = pairs[p]
      BY <1>1, <3>1, <3>3, PairsBounded
    <3> QED BY <3>3, <3>4
  <2> QED BY <2>1, <2>2
<1>14. pairs[Len(query)] \in Seq(KeysAndValues(X))
  <2>1. PICK m \in 0 .. Len(query) : m = Len(query)
    OBVIOUS
  <2> QED BY <1>1, <2>1, PairsTyped
<1> QED BY <1>1, <1>11, <1>13, <1>14

(* Of the texts over X only name is a known name, in this mixture of cases.    *)
OneCaseOf(name, X) ==
    \A key \in Seq(X) : Known(key) <=> key = name

(* What deal_query_string makes of the pairs of a query, when the query has no  *)
(* known key but name.                                                      *)
LEMMA PairsAreFound ==
  ASSUME NEW X, NEW query \in Seq(X), NEW name, OneCaseOf(name, X)
  PROVE  PairsFound(query, name)
<1>1. PICK pairs \in Seq(KeysAndValues(X)) :
         pairs = PairsOf(query) /\ parse_query_string(query) = pairs
  BY AllPairsFound
<1>2. ASSUME NEW k \in DOMAIN pairs PROVE ~Known(pairs[k].key) <=> pairs[k].key # name
  <2>1. pairs[k].key \in Seq(X)
    <3>1. pairs[k] \in KeysAndValues(X)
      BY <1>1
    <3> QED BY <3>1 DEF KeysAndValues
  <2> QED BY <2>1 DEF OneCaseOf
<1>3. {k \in DOMAIN pairs : ~Known(pairs[k].key)} = {k \in DOMAIN pairs : pairs[k].key # name}
  BY <1>2
<1>4. deal_query_string(query) =
        IF Len(pairs) > 32 THEN Overrun
        ELSE -Cardinality({k \in DOMAIN pairs : pairs[k].key # name})
  BY <1>1, <1>3 DEF deal_query_string, MaxPairs
<1> QED BY <1>1, <1>4 DEF PairsFound

(* Copies of a text have the characters of the text.                         *)
LEMMA CopiesTyped ==
  ASSUME NEW X, NEW s \in Seq(X), NEW n \in Nat
  PROVE  Copies(s, n) \in Seq(X)
<1>1. PICK l \in Nat : l = Len(s)
  OBVIOUS
<1>2. PICK m \in Nat : m = n * l
  OBVIOUS
<1>3. ASSUME NEW i \in 1 .. m PROVE s[((i - 1) % l) + 1] \in X
  <2>1. l > 0
    BY <1>2, <1>3
  <2>2. (i - 1) % l \in 0 .. l - 1
    BY <2>1
  <2>3. ((i - 1) % l) + 1 \in 1 .. Len(s)
    BY <1>1, <2>2
  <2> QED BY <2>3
<1>4. [i \in 1 .. m |-> s[((i - 1) % l) + 1]] \in Seq(X)
  BY <1>3
<1> QED BY <1>1, <1>2, <1>4 DEF Copies

(* The elements of a sequence of a given length, and when two are the same. *)
LEMMA SeqElements ==
  ASSUME NEW S, NEW s \in Seq(S), NEW n \in Nat, Len(s) = n
  PROVE  \A i \in 1 .. n : s[i] \in S
  OBVIOUS

LEMMA SameSequence ==
  ASSUME NEW S, NEW s \in Seq(S), NEW t \in Seq(S), NEW n \in Nat, Len(s) = n, Len(t) = n,
         \A i \in 1 .. n : s[i] = t[i]
  PROVE  s = t
  OBVIOUS

(* The letters that strcasecmp takes in either case.                        *)
LEMMA CapitalLetters ==
  /\ DOMAIN Capital = {"c", "e", "l", "o", "r", "s", "u", "v"}
  /\ Capital["c"] = "C" /\ Capital["e"] = "E" /\ Capital["l"] = "L"
  /\ Capital["o"] = "O" /\ Capital["r"] = "R" /\ Capital["s"] = "S"
  /\ Capital["u"] = "U" /\ Capital["v"] = "V"
  BY DEF Capital

CaseOf(a) == IF a \in DOMAIN Capital THEN {a, Capital[a]} ELSE {a}

(* A key that is the same as a name has at each place a case of its letter.   *)
LEMMA NameLetters ==
  ASSUME NEW key, NEW name, SameName(key, name)
  PROVE  /\ Len(key) = Len(name)
         /\ \A i \in DOMAIN name : key[i] \in CaseOf(name[i])
  BY DEF SameName, CaseOf

LEMMA CaseLetters ==
  /\ CaseOf("c") = {"c", "C"} /\ CaseOf("e") = {"e", "E"} /\ CaseOf("l") = {"l", "L"}
  /\ CaseOf("o") = {"o", "O"} /\ CaseOf("r") = {"r", "R"} /\ CaseOf("s") = {"s", "S"}
  /\ CaseOf("u") = {"u", "U"} /\ CaseOf("v") = {"v", "V"} /\ CaseOf("_") = {"_"}
  BY CapitalLetters DEF CaseOf

(* The two known names, and the keys that are spelt like them.               *)
LEMMA CoverLetters ==
  /\ Len(Cover) = 5 /\ DOMAIN Cover = 1 .. 5
  /\ Cover[1] = "c" /\ Cover[2] = "o" /\ Cover[3] = "v" /\ Cover[4] = "e" /\ Cover[5] = "r"
  BY DEF Cover

LEMMA ServerUrlLetters ==
  /\ Len(ServerUrl) = 10 /\ DOMAIN ServerUrl = 1 .. 10
  /\ ServerUrl[1] = "s" /\ ServerUrl[2] = "e" /\ ServerUrl[3] = "r" /\ ServerUrl[4] = "v"
  /\ ServerUrl[5] = "e" /\ ServerUrl[6] = "r" /\ ServerUrl[7] = "_" /\ ServerUrl[8] = "u"
  /\ ServerUrl[9] = "r" /\ ServerUrl[10] = "l"
  BY DEF ServerUrl

LEMMA CoverSpelt ==
  ASSUME NEW key, SameName(key, Cover)
  PROVE  /\ Len(key) = 5
         /\ key[1] \in {"c", "C"} /\ key[2] \in {"o", "O"} /\ key[3] \in {"v", "V"}
         /\ key[4] \in {"e", "E"} /\ key[5] \in {"r", "R"}
<1>1. Len(key) = 5 /\ \A i \in 1 .. 5 : key[i] \in CaseOf(Cover[i])
  BY NameLetters, CoverLetters
<1>2. /\ key[1] \in CaseOf(Cover[1]) /\ key[2] \in CaseOf(Cover[2])
      /\ key[3] \in CaseOf(Cover[3]) /\ key[4] \in CaseOf(Cover[4])
      /\ key[5] \in CaseOf(Cover[5])
  BY <1>1
<1> QED BY <1>1, <1>2, CoverLetters, CaseLetters

LEMMA ServerUrlSpelt ==
  ASSUME NEW key, SameName(key, ServerUrl)
  PROVE  /\ Len(key) = 10
         /\ key[1] \in {"s", "S"} /\ key[2] \in {"e", "E"} /\ key[3] \in {"r", "R"}
         /\ key[4] \in {"v", "V"} /\ key[5] \in {"e", "E"} /\ key[6] \in {"r", "R"}
         /\ key[7] = "_" /\ key[8] \in {"u", "U"} /\ key[9] \in {"r", "R"}
         /\ key[10] \in {"l", "L"}
<1>1. Len(key) = 10 /\ \A i \in 1 .. 10 : key[i] \in CaseOf(ServerUrl[i])
  BY NameLetters, ServerUrlLetters
<1>2. /\ key[1] \in CaseOf(ServerUrl[1]) /\ key[2] \in CaseOf(ServerUrl[2])
      /\ key[3] \in CaseOf(ServerUrl[3]) /\ key[4] \in CaseOf(ServerUrl[4])
      /\ key[5] \in CaseOf(ServerUrl[5]) /\ key[6] \in CaseOf(ServerUrl[6])
      /\ key[7] \in CaseOf(ServerUrl[7]) /\ key[8] \in CaseOf(ServerUrl[8])
      /\ key[9] \in CaseOf(ServerUrl[9]) /\ key[10] \in CaseOf(ServerUrl[10])
  BY <1>1
<1> QED BY <1>1, <1>2, ServerUrlLetters, CaseLetters

(* Each of the two names in a mixture of cases, and the signs of the texts that *)
(* hold it: of each letter of the name they have one case only.             *)
CoverSigns == {"&", "=", "x", "y", "c", "O", "V", "e", "R"}
CoverName == <<"c", "O", "V", "e", "R">>
UrlSigns == {"&", "=", "x", "y", "S", "e", "R", "V", "_", "u", "l"}
UrlName == <<"S", "e", "R", "V", "e", "R", "_", "u", "R", "l">>

LEMMA CoverNameLetters ==
  /\ CoverName \in Seq(CoverSigns) /\ Len(CoverName) = 5 /\ DOMAIN CoverName = 1 .. 5
  /\ CoverName[1] = "c" /\ CoverName[2] = "O" /\ CoverName[3] = "V"
  /\ CoverName[4] = "e" /\ CoverName[5] = "R"
  BY DEF CoverName, CoverSigns

LEMMA UrlNameLetters ==
  /\ Len(UrlName) = 10 /\ DOMAIN UrlName = 1 .. 10
  /\ UrlName[1] = "S" /\ UrlName[2] = "e" /\ UrlName[3] = "R" /\ UrlName[4] = "V"
  /\ UrlName[5] = "e" /\ UrlName[6] = "R" /\ UrlName[7] = "_" /\ UrlName[8] = "u"
  /\ UrlName[9] = "R" /\ UrlName[10] = "l"
  BY DEF UrlName

LEMMA UrlNameTyped == UrlName \in Seq(UrlSigns)
<1>1. /\ "S" \in UrlSigns /\ "e" \in UrlSigns /\ "R" \in UrlSigns /\ "V" \in UrlSigns
      /\ "_" \in UrlSigns /\ "u" \in UrlSigns /\ "l" \in UrlSigns
  BY DEF UrlSigns
<1>2. ASSUME NEW i \in 1 .. 10 PROVE UrlName[i] \in UrlSigns
  <2>1. i = 1 \/ i = 2 \/ i = 3 \/ i = 4 \/ i = 5 \/ i = 6 \/ i = 7 \/ i = 8 \/ i = 9 \/ i = 10
    BY <1>2
  <2> QED BY <1>1, <2>1, UrlNameLetters
<1>3. UrlName = [i \in 1 .. 10 |-> UrlName[i]]
  BY SMTT(60) DEF UrlName
<1>4. [i \in 1 .. 10 |-> UrlName[i]] \in Seq(UrlSigns)
  BY <1>2
<1> QED BY <1>3, <1>4

(* So of these signs only that mixture is known.                            *)
LEMMA CoverOneCase ==
  ASSUME NEW key \in Seq(CoverSigns)
  PROVE  Known(key) <=> key = CoverName
<1>1. ASSUME SameName(key, Cover) PROVE key = CoverName
  <2>1. \A i \in 1 .. 5 : key[i] \in CoverSigns
    BY <1>1, CoverSpelt
  <2>2. /\ key[1] \in CoverSigns /\ key[2] \in CoverSigns /\ key[3] \in CoverSigns
        /\ key[4] \in CoverSigns /\ key[5] \in CoverSigns
    BY <2>1
  <2>3. /\ key[1] = "c" /\ key[2] = "O" /\ key[3] = "V" /\ key[4] = "e" /\ key[5] = "R"
    BY <1>1, <2>2, CoverSpelt DEF CoverSigns
  <2>4. \A i \in 1 .. 5 : key[i] = CoverName[i]
    BY <2>3, CoverNameLetters
  <2> QED BY <1>1, <2>4, CoverSpelt, CoverNameLetters
<1>2. ~SameName(key, ServerUrl)
  <2> SUFFICES ASSUME SameName(key, ServerUrl) PROVE FALSE
    OBVIOUS
  <2>1. Len(key) = 10 /\ key[1] \in {"s", "S"}
    BY ServerUrlSpelt
  <2>2. key[1] \in CoverSigns
    BY <2>1
  <2> QED BY <2>1, <2>2 DEF CoverSigns
<1>3. SameName(CoverName, Cover)
  BY CoverNameLetters, CoverLetters, CapitalLetters DEF SameName
<1> QED BY <1>1, <1>2, <1>3 DEF Known

LEMMA UrlOneCase ==
  ASSUME NEW key \in Seq(UrlSigns)
  PROVE  Known(key) <=> key = UrlName
<1>1. ASSUME SameName(key, ServerUrl) PROVE key = UrlName
  <2>0. Len(key) = 10
    BY <1>1, ServerUrlSpelt
  <2>1. \A i \in 1 .. 10 : key[i] \in UrlSigns
    <3>1. 10 \in Nat
      OBVIOUS
    <3> QED BY <2>0, <3>1, SeqElements, Zenon
  <2>2. /\ key[1] \in UrlSigns /\ key[2] \in UrlSigns /\ key[3] \in UrlSigns
        /\ key[4] \in UrlSigns /\ key[5] \in UrlSigns /\ key[6] \in UrlSigns
        /\ key[7] \in UrlSigns /\ key[8] \in UrlSigns /\ key[9] \in UrlSigns
        /\ key[10] \in UrlSigns
    BY <2>1
  <2>5. /\ \A x \in UrlSigns : (x \in {"s", "S"} => x = "S") /\ (x \in {"e", "E"} => x = "e")
        /\ \A x \in UrlSigns : (x \in {"r", "R"} => x = "R") /\ (x \in {"v", "V"} => x = "V")
        /\ \A x \in UrlSigns : (x \in {"u", "U"} => x = "u") /\ (x \in {"l", "L"} => x = "l")
    BY DEF UrlSigns
  <2>3. /\ key[1] = "S" /\ key[2] = "e" /\ key[3] = "R" /\ key[4] = "V" /\ key[5] = "e"
        /\ key[6] = "R" /\ key[7] = "_" /\ key[8] = "u" /\ key[9] = "R" /\ key[10] = "l"
    BY <1>1, <2>2, <2>5, ServerUrlSpelt
  <2>4. ASSUME NEW i \in 1 .. 10 PROVE key[i] = UrlName[i]
    <3>1. i = 1 \/ i = 2 \/ i = 3 \/ i = 4 \/ i = 5 \/ i = 6 \/ i = 7 \/ i = 8 \/ i = 9 \/ i = 10
      BY <2>4
    <3> QED BY <2>3, <3>1, UrlNameLetters
  <2>6. 10 \in Nat /\ Len(UrlName) = 10
    BY UrlNameLetters
  <2> QED BY <2>0, <2>4, <2>6, UrlNameTyped, SameSequence, Zenon
<1>2. ~SameName(key, Cover)
  <2> SUFFICES ASSUME SameName(key, Cover) PROVE FALSE
    OBVIOUS
  <2>1. Len(key) = 5 /\ key[1] \in {"c", "C"}
    BY CoverSpelt
  <2>2. key[1] \in UrlSigns
    BY <2>1
  <2> QED BY <2>1, <2>2 DEF UrlSigns
<1>3. SameName(UrlName, ServerUrl)
  <2>1. ASSUME NEW i \in 1 .. 10
        PROVE  \/ UrlName[i] = ServerUrl[i]
               \/ ServerUrl[i] \in DOMAIN Capital /\ UrlName[i] = Capital[ServerUrl[i]]
    <3>1. i = 1 \/ i = 2 \/ i = 3 \/ i = 4 \/ i = 5 \/ i = 6 \/ i = 7 \/ i = 8 \/ i = 9 \/ i = 10
      BY <2>1
    <3>2. /\ UrlName[2] = ServerUrl[2] /\ UrlName[5] = ServerUrl[5] /\ UrlName[7] = ServerUrl[7]
          /\ UrlName[8] = ServerUrl[8] /\ UrlName[10] = ServerUrl[10]
      BY UrlNameLetters, ServerUrlLetters
    <3>3. ServerUrl[1] \in DOMAIN Capital /\ UrlName[1] = Capital[ServerUrl[1]]
      BY UrlNameLetters, ServerUrlLetters, CapitalLetters
    <3>4. ServerUrl[3] \in DOMAIN Capital /\ UrlName[3] = Capital[ServerUrl[3]]
      BY UrlNameLetters, ServerUrlLetters, CapitalLetters
    <3>5. ServerUrl[4] \in DOMAIN Capital /\ UrlName[4] = Capital[ServerUrl[4]]
      BY UrlNameLetters, ServerUrlLetters, CapitalLetters
    <3>6. ServerUrl[6] \in DOMAIN Capital /\ UrlName[6] = Capital[ServerUrl[6]]
      BY UrlNameLetters, ServerUrlLetters, CapitalLetters
    <3>7. ServerUrl[9] \in DOMAIN Capital /\ UrlName[9] = Capital[ServerUrl[9]]
      BY UrlNameLetters, ServerUrlLetters, CapitalLetters
    <3> QED BY <3>1, <3>2, <3>3, <3>4, <3>5, <3>6, <3>7
  <2> QED BY <2>1, UrlNameLetters, ServerUrlLetters DEF SameName
<1> QED BY <1>1, <1>2, <1>3 DEF Known

LEMMA QueriesRead == InputType => QueryPairsFound
<1> SUFFICES ASSUME InputType PROVE QueryPairsFound
  OBVIOUS
<1> DEFINE Text == Read(<<"&", "=", "x", "y">>)
           Signs == {"&", "=", "x", "y"}
<1>1. Text \in Seq(Signs)
  <2>1. data \in Seq(1 .. 4) /\ DOMAIN data = 1 .. Len(data)
    BY DEF InputType
  <2>2. \A symbol \in 1 .. 4 : <<"&", "=", "x", "y">>[symbol] \in Signs
    OBVIOUS
  <2>3. [i \in 1 .. Len(data) |-> <<"&", "=", "x", "y">>[data[i]]] \in Seq(Signs)
    BY <2>1, <2>2
  <2> QED BY <2>1, <2>3 DEF Read
<1>2. ASSUME NEW name, NEW X, Signs \subseteq X, name \in Seq(X), OneCaseOf(name, X)
      PROVE  /\ PairsFound(name \o Text, name)
             /\ \A n \in {1, 32, 33} : PairsFound(Copies(Text, n), name)
  <2> HIDE DEF Text, Signs
  <2>1. Text \in Seq(X)
    BY <1>1, <1>2
  <2>2. name \o Text \in Seq(X)
    BY <1>2, <2>1
  <2>3. \A n \in {1, 32, 33} : Copies(Text, n) \in Seq(X)
    BY <2>1, CopiesTyped
  <2> QED BY <1>2, <2>2, <2>3, PairsAreFound
<1>3. Signs \subseteq CoverSigns /\ Signs \subseteq UrlSigns
  BY DEF CoverSigns, UrlSigns
<1>4. OneCaseOf(CoverName, CoverSigns) /\ OneCaseOf(UrlName, UrlSigns)
  BY CoverOneCase, UrlOneCase DEF OneCaseOf
<1> HIDE DEF Text, Signs
<1>5. ASSUME NEW name \in {CoverName, UrlName}
      PROVE  /\ PairsFound(name \o Text, name)
             /\ \A n \in {1, 32, 33} : PairsFound(Copies(Text, n), name)
  <2>1. PICK X : Signs \subseteq X /\ name \in Seq(X) /\ OneCaseOf(name, X)
    BY <1>3, <1>4, CoverNameLetters, UrlNameTyped
  <2> QED BY <1>2, <2>1
<1> QED BY <1>5 DEF QueryPairsFound, Text, CoverName, UrlName

(* What comes as text is neither lost nor doubled.  Line by line,             *)
(* get_request_line returns all of a text, however the line ends and the      *)
(* buffer's ends fall; parse_query_string finds the pairs of every query      *)
(* string, since its bound max_pairs is never less than their number; and     *)
(* deal_query_string counts each key that is not known, in either case of its *)
(* letters, as long as there are no more than the 32 pairs its array holds.   *)
THEOREM HelpersLoseNothing == Spec => []HelpersKeepText
<1>1. InputType => HelpersKeepText
  BY LinesKept, QueriesRead DEF HelpersKeepText
<1> QED BY <1>1, InputTyped, PTL

-----------------------------------------------------------------------------
(* searchInsert after k turns: it has found the target, or the target can     *)
(* only be among the positions low .. high, of which each turn takes one.     *)
SearchOn(nums, target, k, s) ==
    /\ s.low <= s.high + 1 /\ (s.low > s.high \/ s.high - s.low + 1 <= Len(nums) - k)
    /\ \A i \in 0 .. s.low - 1 : nums[i + 1] < target
    /\ \A i \in s.high + 1 .. Len(nums) - 1 : nums[i + 1] > target

SearchAt(nums, target, k, s) ==
    /\ s \in [low : 0 .. Len(nums), high : -1 .. Len(nums) - 1]
    /\ \/ s.low > s.high /\ s.low < Len(nums) /\ nums[s.low + 1] = target
       \/ SearchOn(nums, target, k, s)

SearchTurn(nums, target, s) ==
    LET mid == (s.low + s.high) \div 2
    IN  IF s.low > s.high THEN s
        ELSE CASE nums[mid + 1] = target -> [low |-> mid, high |-> mid - 1]
               [] nums[mid + 1] < target -> Above(s, mid)
               [] nums[mid + 1] > target -> [s EXCEPT !.high = mid - 1]

LEMMA SearchStep ==
  ASSUME NEW nums \in Seq(Int), Ascending(nums), NEW target \in Int, NEW k \in Nat,
         NEW s, SearchAt(nums, target, k, s)
  PROVE  SearchAt(nums, target, k + 1, SearchTurn(nums, target, s))
<1>1. PICK n \in Nat : n = Len(nums)
  OBVIOUS
<1>2. PICK low \in 0 .. n : low = s.low
  BY <1>1 DEF SearchAt
<1>3. PICK high \in -1 .. n - 1 : high = s.high
  BY <1>1 DEF SearchAt
<1>4. s = [low |-> low, high |-> high]
  BY <1>1, <1>2, <1>3 DEF SearchAt
<1>5. PICK t : t = SearchTurn(nums, target, s)
  OBVIOUS
<1>6. CASE low > high
  <2>1. t = s
    BY <1>2, <1>3, <1>5, <1>6 DEF SearchTurn
  <2>2. SearchAt(nums, target, k + 1, s)
    BY <1>2, <1>3, <1>6 DEF SearchAt, SearchOn
  <2> QED BY <1>5, <2>1, <2>2
<1>7. CASE ~(low > high)
  <2>1. /\ high - low + 1 <= n - k
        /\ \A i \in 0 .. low - 1 : nums[i + 1] < target
        /\ \A i \in high + 1 .. n - 1 : nums[i + 1] > target
    BY <1>1, <1>2, <1>3, <1>7 DEF SearchAt, SearchOn
  <2>2. PICK mid \in low .. high : mid = (low + high) \div 2
    <3>1. (low + high) \div 2 \in low .. high
      BY <1>7
    <3> QED BY <3>1
  <2>3. PICK x \in Int : x = nums[mid + 1]
    <3>1. mid + 1 \in 1 .. Len(nums)
      BY <1>1, <2>2
    <3> QED BY <3>1
  <2>4. \A i, j \in 1 .. n : i < j => nums[i] <= nums[j]
    <3>1. DOMAIN nums = 1 .. n
      BY <1>1
    <3> QED BY <3>1 DEF Ascending
  <2>5. \A i \in 0 .. n - 1 : nums[i + 1] \in Int
    BY <1>1
  <2>6. t = CASE x = target -> [low |-> mid, high |-> mid - 1]
              [] x < target -> [low |-> mid + 1, high |-> high]
              [] x > target -> [low |-> low, high |-> mid - 1]
    <3>1. t = CASE x = target -> [low |-> mid, high |-> mid - 1]
                [] x < target -> Above(s, mid)
                [] x > target -> [s EXCEPT !.high = mid - 1]
      BY <1>2, <1>3, <1>5, <1>7, <2>2, <2>3 DEF SearchTurn
    <3>2. Above(s, mid) = [low |-> mid + 1, high |-> high]
      BY <1>4 DEF Above
    <3>3. [s EXCEPT !.high = mid - 1] = [low |-> low, high |-> mid - 1]
      BY <1>4
    <3> QED BY <3>1, <3>2, <3>3
  <2>7. CASE x = target
    <3>1. t = [low |-> mid, high |-> mid - 1]
      BY <2>6, <2>7
    <3>2. t \in [low : 0 .. n, high : -1 .. n - 1] /\ t.low > t.high /\ t.low < n /\ t.low = mid
      BY <2>2, <3>1
    <3> QED BY <1>1, <1>5, <2>3, <2>7, <3>2 DEF SearchAt
  <2>8. CASE x < target
    <3>1. t = [low |-> mid + 1, high |-> high]
      BY <2>6, <2>8
    <3>2. ASSUME NEW i \in 0 .. mid PROVE nums[i + 1] < target
      <4>1. i + 1 \in 1 .. n /\ mid + 1 \in 1 .. n /\ (i = mid \/ i + 1 < mid + 1) /\ i \in 0 .. n - 1
        BY <2>2
      <4>2. nums[i + 1] <= x
        BY <2>3, <2>4, <4>1
      <4> QED BY <2>5, <2>8, <4>1, <4>2
    <3>3. t \in [low : 0 .. n, high : -1 .. n - 1]
      BY <2>2, <3>1
    <3>4. t.low = mid + 1 /\ t.high = high /\ t.low - 1 = mid
      BY <2>2, <3>1
    <3>5. high - (mid + 1) + 1 <= n - (k + 1) /\ mid + 1 <= high + 1
      BY <2>1, <2>2
    <3>6. SearchOn(nums, target, k + 1, t)
      BY <1>1, <2>1, <3>2, <3>4, <3>5 DEF SearchOn
    <3> QED BY <1>1, <1>5, <3>3, <3>6 DEF SearchAt
  <2>9. CASE x > target
    <3>1. t = [low |-> low, high |-> mid - 1]
      BY <2>6, <2>9
    <3>2. ASSUME NEW i \in mid .. n - 1 PROVE nums[i + 1] > target
      <4>1. i + 1 \in 1 .. n /\ mid + 1 \in 1 .. n /\ (i = mid \/ mid + 1 < i + 1) /\ i \in 0 .. n - 1
        BY <2>2
      <4>2. x <= nums[i + 1]
        BY <2>3, <2>4, <4>1
      <4> QED BY <2>5, <2>9, <4>1, <4>2
    <3>3. t \in [low : 0 .. n, high : -1 .. n - 1]
      BY <2>2, <3>1
    <3>4. t.low = low /\ t.high = mid - 1 /\ t.high + 1 = mid
      BY <2>2, <3>1
    <3>5. mid - 1 - low + 1 <= n - (k + 1) /\ low <= mid - 1 + 1
      BY <2>1, <2>2
    <3>6. SearchOn(nums, target, k + 1, t)
      BY <1>1, <2>1, <3>2, <3>4, <3>5 DEF SearchOn
    <3> QED BY <1>1, <1>5, <3>3, <3>6 DEF SearchAt
  <2> QED BY <2>3, <2>7, <2>8, <2>9
<1> QED BY <1>6, <1>7

LEMMA SearchLoop ==
  ASSUME NEW nums \in Seq(Int), Ascending(nums), NEW target \in Int
  PROVE  \E s : searchInsert(nums, target) = s.low /\ SearchAt(nums, target, Len(nums), s)
<1>1. PICK n \in Nat : n = Len(nums)
  OBVIOUS
<1>2. PICK s0 : s0 = [low |-> 0, high |-> n - 1]
  OBVIOUS
<1>3. SearchAt(nums, target, 0, s0)
  <2>1. s0.low = 0 /\ s0.high = n - 1 /\ s0 \in [low : 0 .. n, high : -1 .. n - 1]
    BY <1>2
  <2>2. SearchOn(nums, target, 0, s0)
    BY <1>1, <2>1 DEF SearchOn
  <2> QED BY <1>1, <2>1, <2>2 DEF SearchAt
<1> DEFINE Turn(t) == SearchTurn(nums, target, t)
           Is(f) == f = [k \in 0 .. n |-> IF k = 0 THEN s0 ELSE Turn(f[k - 1])]
           Good == {t \in [low : 0 .. n, high : -1 .. n - 1] :
                       \E k \in Nat : SearchAt(nums, target, k, t)}
<1>4. ASSUME NEW t \in Good PROVE Turn(t) \in Good
  <2>1. PICK k \in Nat : SearchAt(nums, target, k, t)
    OBVIOUS
  <2>2. SearchAt(nums, target, k + 1, Turn(t)) /\ k + 1 \in Nat
    BY <2>1, SearchStep
  <2> HIDE DEF Turn
  <2>3. Turn(t) \in [low : 0 .. n, high : -1 .. n - 1]
    BY <1>1, <2>2 DEF SearchAt
  <2> QED BY <2>2, <2>3
<1>5. s0 \in Good
  <2>1. s0 \in [low : 0 .. n, high : -1 .. n - 1]
    BY <1>2
  <2> QED BY <1>3, <2>1
<1>6. \E f : Is(f) /\ f \in [0 .. n -> Good]
  <2> HIDE DEF Turn, Good
  <2>1. PICK step \in [Good \X (1 .. n) -> Good] :
           step = [c \in Good \X (1 .. n) |-> Turn(c[1])]
    <3>1. [c \in Good \X (1 .. n) |-> Turn(c[1])] \in [Good \X (1 .. n) -> Good]
      BY <1>4
    <3> QED BY <3>1
  <2>2. HasTurns(Good, s0, n, step)
    BY <1>5, Recursion
  <2>3. PICK g \in [0 .. n -> Good] :
           g[0] = s0 /\ \A k \in 1 .. n : g[k] = step[<<g[k - 1], k>>]
    BY <2>2 DEF HasTurns
  <2>4. ASSUME NEW k \in 1 .. n PROVE g[k] = Turn(g[k - 1])
    <3>1. PICK t \in Good : t = g[k - 1]
      <4>1. k - 1 \in 0 .. n
        OBVIOUS
      <4> QED BY <4>1
    <3>2. <<t, k>> \in Good \X (1 .. n) /\ <<t, k>>[1] = t
      OBVIOUS
    <3>3. step[<<t, k>>] = Turn(t)
      BY <2>1, <3>2
    <3> QED BY <2>3, <3>1, <3>3
  <2>5. Is(g)
    BY <2>3, <2>4
  <2> QED BY <2>5
<1>7. PICK f : f = CHOOSE g : Is(g)
  OBVIOUS
<1>8. Is(f)
  BY <1>6, <1>7
<1>9. f[0] = s0 /\ \A k \in 1 .. n : f[k] = SearchTurn(nums, target, f[k - 1])
  <2> HIDE DEF Turn
  <2>1. f[0] = s0 /\ \A k \in 1 .. n : f[k] = Turn(f[k - 1])
    BY <1>8
  <2> QED BY <2>1 DEF Turn
<1>10. searchInsert(nums, target) = f[n].low
  BY <1>1, <1>2, <1>7 DEF searchInsert, While, SearchTurn
<1>11. SearchAt(nums, target, n, f[n])
  <2> HIDE DEF Is, Turn, Good
  <2> DEFINE S == {k \in 0 .. n : SearchAt(nums, target, k, f[k])}
  <2>1. 0 \in S
    BY <1>3, <1>9
  <2>2. ASSUME NEW k \in 1 .. n, k - 1 \in S PROVE k \in S
    <3>1. PICK j \in Nat : j = k - 1 /\ j + 1 = k
      <4>1. k - 1 \in Nat /\ k - 1 + 1 = k
        OBVIOUS
      <4> QED BY <4>1
    <3>2. SearchAt(nums, target, j, f[j])
      BY <2>2, <3>1
    <3>3. SearchAt(nums, target, j + 1, SearchTurn(nums, target, f[j]))
      BY <3>1, <3>2, SearchStep
    <3>4. f[k] = SearchTurn(nums, target, f[j])
      BY <1>9, <3>1
    <3> QED BY <3>1, <3>3, <3>4
  <2> HIDE DEF S
  <2>3. 0 .. n \subseteq S
    BY <2>1, <2>2, EveryTurn
  <2>4. n \in S
    BY <2>3
  <2> QED BY <2>4 DEF S
<1> QED BY <1>1, <1>10, <1>11

LEMMA Searched == InputType => SearchFinds
<1> SUFFICES ASSUME InputType, NEW nums, nums = Read(<<1, 3, 5, 7>>), Ascending(nums),
                    NEW target \in 0 .. 8, NEW p, p = searchInsert(nums, target)
             PROVE  IF target \in ToSet(nums) THEN nums[p + 1] = target
                    ELSE p = Cardinality({i \in DOMAIN nums : nums[i] < target})
  BY DEF SearchFinds
<1>1. nums \in Seq(Int)
  <2>1. data \in Seq(1 .. 4) /\ DOMAIN data = 1 .. Len(data)
    BY DEF InputType
  <2>2. \A symbol \in 1 .. 4 : <<1, 3, 5, 7>>[symbol] \in Int
    OBVIOUS
  <2>3. [i \in 1 .. Len(data) |-> <<1, 3, 5, 7>>[data[i]]] \in Seq(Int)
    BY <2>1, <2>2
  <2> QED BY <2>1, <2>3 DEF Read
<1>2. PICK n \in Nat : n = Len(nums) /\ DOMAIN nums = 1 .. n
  BY <1>1
<1>3. PICK s : p = s.low /\ SearchAt(nums, target, n, s)
  <2>1. target \in Int
    OBVIOUS
  <2> QED BY <1>1, <1>2, <2>1, SearchLoop
<1>4. p \in 0 .. n
  BY <1>2, <1>3 DEF SearchAt
<1>5. CASE p < n /\ nums[p + 1] = target
  <2>1. target \in ToSet(nums)
    <3>1. p + 1 \in DOMAIN nums
      BY <1>2, <1>4, <1>5
    <3> QED BY <1>5, <3>1 DEF ToSet
  <2> QED BY <1>5, <2>1
<1>6. CASE ~(p < n /\ nums[p + 1] = target)
  <2>1. SearchOn(nums, target, n, s) /\ s.high \in -1 .. n - 1
    BY <1>2, <1>3, <1>6 DEF SearchAt
  <2>2. s.high = p - 1
    BY <1>3, <1>2, <1>4, <2>1 DEF SearchOn
  <2>3. /\ \A i \in 0 .. p - 1 : nums[i + 1] < target
        /\ \A i \in p .. n - 1 : nums[i + 1] > target
    BY <1>2, <1>3, <1>4, <2>1, <2>2 DEF SearchOn
  <2>4. \A i \in 1 .. n : nums[i] \in Int /\ (nums[i] < target <=> i <= p) /\ nums[i] # target
    <3> SUFFICES ASSUME NEW i \in 1 .. n
                 PROVE  nums[i] \in Int /\ (nums[i] < target <=> i <= p) /\ nums[i] # target
      OBVIOUS
    <3>1. nums[i] \in Int
      BY <1>1, <1>2
    <3>2. PICK j \in 0 .. n - 1 : i = j + 1
      <4>1. i - 1 \in 0 .. n - 1 /\ i = i - 1 + 1
        OBVIOUS
      <4> QED BY <4>1
    <3>3. CASE i <= p
      <4>1. j \in 0 .. p - 1
        BY <3>2, <3>3, <1>4
      <4> QED BY <2>3, <3>1, <3>2, <3>3, <4>1
    <3>4. CASE ~(i <= p)
      <4>1. j \in p .. n - 1
        BY <3>2, <3>4, <1>4
      <4> QED BY <2>3, <3>1, <3>2, <3>4, <4>1
    <3> QED BY <3>3, <3>4
  <2>5. target \notin ToSet(nums)
    BY <1>2, <2>4 DEF ToSet
  <2>6. {i \in DOMAIN nums : nums[i] < target} = 1 .. p
    BY <1>2, <1>4, <2>4
  <2>7. Cardinality(1 .. p) = p
    <3>1. p \in Int /\ 1 \in Int
      BY <1>4
    <3>2. Cardinality(1 .. p) = IF 1 > p THEN 0 ELSE p - 1 + 1
      BY <3>1, FS_Interval
    <3> QED BY <1>4, <3>2
  <2> QED BY <2>5, <2>6, <2>7
<1> QED BY <1>5, <1>6

(* Binary search ends: within as many turns as there are elements,            *)
(* searchInsert has found the target or the place where it belongs, in an     *)
(* ascending array of any length, equal elements included.                   *)
THEOREM SearchEnds == Spec => []SearchFinds
BY Searched, InputTyped, PTL
=============================================================================
