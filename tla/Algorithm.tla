------------------------------ MODULE Algorithm ------------------------------
(***************************************************************************)
(* The exercises on arrays and strings in leetcode/algorithm.c.  Arrays and  *)
(* strings are sequences: the element a[i] of the code is a[i + 1] here, and  *)
(* a string has no zero byte of its own.  A function that works in place      *)
(* returns the array it leaves.  Characters are their ASCII codes, but for    *)
(* the letters of Roman numerals and the brackets.                           *)
(***************************************************************************)
EXTENDS Loops, FiniteSetsExt

IsUpper(c) == c \in 65 .. 90
IsLower(c) == c \in 97 .. 122
IsDigit(c) == c \in 48 .. 57
IsLetter(c) == IsUpper(c) \/ IsLower(c)
Space == 32
End   == 0         \* what ends a string

(* a[j] of a string, its terminator included.                                *)
At(s, j) == IF j < Len(s) THEN s[j + 1] ELSE End

CompareSwap(a, j) ==
    IF a[j + 1] > a[j + 2] THEN [a EXCEPT ![j + 1] = a[j + 2], ![j + 2] = a[j + 1]] ELSE a

(* Mutant of PassEnd: the last comparison of each pass is left out.          *)
PassEndEarly(i, end) == end - i - 1

(* Where the inner loop ends, whatever it began with.                        *)
PassEnd(i, end) == end - i

bubbleSort(arr, start, end) ==
    FoldLeft(LAMBDA a, i : FoldLeft(CompareSwap, a, Upto(start, PassEnd(i, end))),
             arr, Upto(start, end))

(* The buffer of sortString holds the upper-case letters, the lower-case ones *)
(* and the digits, then what malloc() left there; garbage is that, and what   *)
(* lies behind the buffer.                                                   *)
sortString(str, garbage) ==
    LET uppers == SelectSeq(str, IsUpper)
        lowers == SelectSeq(str, IsLower)
        digits == SelectSeq(str, IsDigit)
        upper  == Len(uppers)
        lower  == upper + Len(lowers)
        number == lower + Len(digits)
        buffer == uppers \o lowers \o digits \o garbage
        sorted == bubbleSort(bubbleSort(bubbleSort(buffer, 0, upper), upper, lower),
                             lower, number)
    IN  SubSeq(sorted, 1, Len(str))

(* Mutant of Keep: the element is put one place too far.                     *)
KeepBehind(s, x) ==
    [nums |-> IF s.size + 2 \in DOMAIN s.nums THEN [s.nums EXCEPT ![s.size + 2] = x] ELSE s.nums,
     size |-> s.size + 1]

Keep(s, x) == [nums |-> [s.nums EXCEPT ![s.size + 1] = x], size |-> s.size + 1]

(* The kept elements are moved to the front of the same array.               *)
removeElement(nums, val) ==
    FoldLeft(LAMBDA s, i : IF s.nums[i + 1] = val THEN s ELSE Keep(s, s.nums[i + 1]),
             [nums |-> nums, size |-> 0], Upto(0, Len(nums)))

(* An empty needle is found nowhere.                                         *)
strStr(haystack, needle) ==
    LET hits == {i \in 0 .. Len(haystack) - 1 :
                    /\ needle # <<>>
                    /\ \A j \in 0 .. Len(needle) - 1 : At(haystack, i + j) = needle[j + 1]}
    IN  IF hits = {} THEN -1 ELSE Min(hits)

-----------------------------------------------------------------------------
(* Roman numerals.                                                          *)
Numerals == <<
    [value |-> 1000, text |-> <<"M">>], [value |-> 900, text |-> <<"C", "M">>],
    [value |-> 500,  text |-> <<"D">>], [value |-> 400, text |-> <<"C", "D">>],
    [value |-> 100,  text |-> <<"C">>], [value |-> 90,  text |-> <<"X", "C">>],
    [value |-> 50,   text |-> <<"L">>], [value |-> 40,  text |-> <<"X", "L">>],
    [value |-> 10,   text |-> <<"X">>], [value |-> 9,   text |-> <<"I", "X">>],
    [value |-> 5,    text |-> <<"V">>], [value |-> 4,   text |-> <<"I", "V">>],
    [value |-> 1,    text |-> <<"I">>] >>

(* Takes the first numeral that fits, turn by turn; at most 15 turns for a    *)
(* number below 4000.                                                       *)
intToRoman(num) ==
    LET turn(s) ==
          IF s.num = 0 THEN s
          ELSE LET n == Numerals[SelectInSeq(Numerals, LAMBDA x : s.num >= x.value)]
               IN  [num |-> s.num - n.value, roman |-> s.roman \o n.text]
    IN  While(turn, [num |-> num, roman |-> <<>>], 15).roman

Values == [I |-> 1, V |-> 5, X |-> 10, L |-> 50, C |-> 100, D |-> 500, M |-> 1000]

(* Mutant of Term: a numeral before a larger one is taken away only once,     *)
(* though it has been added already.                                        *)
TermOnce(prev, current) == IF prev < current THEN current - prev ELSE current

Term(prev, current) == IF prev < current THEN current - 2 * prev ELSE current

(* A character that is no numeral counts as the one before it.               *)
romanToInt(s) ==
    FoldLeft(LAMBDA r, c :
                LET current == IF c \in DOMAIN Values THEN Values[c] ELSE r.prev
                IN  [sum |-> r.sum + Term(r.prev, current), prev |-> current],
             [sum |-> 0, prev |-> 0], s).sum

-----------------------------------------------------------------------------
(* longestCommonPrefix cuts the first string off in place and returns it.    *)
longestCommonPrefix(strs) ==
    IF strs = <<>> THEN <<>>
    ELSE LET flag(k) == strs[1][k]
             same(k) == \A i \in DOMAIN strs : k <= Len(strs[i]) /\ strs[i][k] = flag(k)
             stop == SelectInSeq(Upto(1, Len(strs[1]) + 1), LAMBDA k : ~same(k))
         IN  IF stop = 0 THEN strs[1] ELSE SubSeq(strs[1], 1, stop - 1)

Opening == {"(", "[", "{"}
Pairs   == {<<"(", ")">>, <<"[", "]">>, <<"{", "}">>}

(* Mutant of Closes: any closing bracket closes the last opening one.        *)
ClosesAny(stack, c) == stack # <<>>

Closes(stack, c) == stack # <<>> /\ <<Last(stack), c>> \in Pairs

(* The stack of opening brackets; a closing one must fit the last of them.    *)
isValid(s) ==
    LET read(stack, c) ==
          IF stack = <<"refused">> THEN stack
          ELSE IF c \in Opening THEN Append(stack, c)
          ELSE IF Closes(stack, c) THEN Front(stack) ELSE <<"refused">>
    IN  Len(s) % 2 = 0 /\ FoldLeft(read, <<>>, s) = <<>>

(* Mutant of Above: the upper half begins at mid.                            *)
AboveStuck(s, mid) == [s EXCEPT !.low = mid]

Above(s, mid) == [s EXCEPT !.low = mid + 1]

(* Binary search; low is the position that is returned, when the loop ends    *)
(* and when the target is met.                                              *)
searchInsert(nums, target) ==
    LET turn(s) ==
          LET mid == (s.low + s.high) \div 2
          IN  IF s.low > s.high THEN s
              ELSE CASE nums[mid + 1] = target -> [low |-> mid, high |-> mid - 1]
                     [] nums[mid + 1] < target -> Above(s, mid)
                     [] nums[mid + 1] > target -> [s EXCEPT !.high = mid - 1]
    IN  While(turn, [low |-> 0, high |-> Len(nums) - 1], Len(nums)).low

(* Mutant of WordEnds: trailing spaces end the word.                         *)
WordEndsAtSpace(s, i) == At(s, i) = Space

(* A space before a letter.                                                  *)
WordEnds(s, i) == At(s, i) = Space /\ IsLetter(At(s, i + 1))

(* From the end: letters count, until the word ends.                         *)
lengthOfLastWord(s) ==
    FoldLeft(LAMBDA r, i :
                IF r.done THEN r
                ELSE IF IsLetter(At(s, i)) THEN [r EXCEPT !.result = @ + 1]
                ELSE [r EXCEPT !.done = WordEnds(s, i)],
             [result |-> 0, done |-> FALSE], Reverse(Upto(0, Len(s)))).result
=============================================================================
