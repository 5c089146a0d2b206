----------------------------- MODULE MCAlgorithm -----------------------------
(* The exercises of leetcode/algorithm.c against what they promise.           *)
EXTENDS MCInputs, Algorithm, AlgorithmLists, TLC

Sorted(s) == SortSeq(s, LAMBDA a, b : a < b)
Ascending(s) == \A i, j \in DOMAIN s : i < j => s[i] <= s[j]

(* bubbleSort sorts the elements start .. end - start, both included, and     *)
(* touches nothing else: for start = 0 one element more than its callers     *)
(* mean, which for the last one of them lies behind the buffer, and for any   *)
(* other start too few, or none.                                            *)
BubbleSortsThatRange ==
    \A start \in Cuts, end \in 0 .. Len(data) - 1 :
        LET last == end - start + 1
        IN  start <= end =>
              bubbleSort(data, start, end) =
                IF last <= start THEN data
                ELSE UpTo(data, start) \o Sorted(SubSeq(data, start + 1, last))
                       \o Behind(data, last)

(* removeElement leaves the other elements at the front in their order,       *)
(* although it writes to the array it is still reading.                      *)
RemovesInPlace ==
    \A val \in 1 .. 4 :
        LET r == removeElement(data, val)
        IN  UpTo(r.nums, r.size) = SelectSeq(data, LAMBDA x : x # val)

(* Every number that has a numeral is read back from it; the numeral fits     *)
(* the 20 bytes it is given, with its end, and repeats no letter four times. *)
RomanReadsBack ==
    data = <<>> =>
        \A num \in 1 .. 3999 :
            LET r == intToRoman(num)
            IN  /\ romanToInt(r) = num
                /\ Len(r) < 20
                /\ \A i \in 1 .. Len(r) - 3 : Cardinality({r[i + k] : k \in 0 .. 3}) > 1

(* The strings of brackets that are built by putting one in a pair and        *)
(* another one behind it.                                                   *)
Balanced ==
    LET b[n \in 0 .. MaxLen \div 2] ==
          IF n = 0 THEN {<<>>}
          ELSE {<<p[1]>> \o s[1] \o <<p[2]>> \o s[2] :
                  p \in Pairs, s \in UNION {b[k] \X b[n - 1 - k] : k \in 0 .. n - 1}}
    IN  UNION {b[n] : n \in 0 .. MaxLen \div 2}

(* isValid accepts those strings and no others.                               *)
BracketsBalance ==
    \A alphabet \in {<<"(", ")", "[", "]">>, <<"[", "]", "{", "}">>, <<"{", "}", "(", ")">>} :
        isValid(Read(alphabet)) <=> Read(alphabet) \in Balanced

(* In an ascending array, equal elements included, searchInsert ends within   *)
(* as many turns as there are elements, and finds the target or the place    *)
(* where it belongs.                                                        *)
SearchFinds ==
    LET nums == Read(<<1, 3, 5, 7>>)
    IN  Ascending(nums) =>
          \A target \in 0 .. 8 :
              LET p == searchInsert(nums, target)
              IN  IF target \in ToSet(nums) THEN nums[p + 1] = target
                  ELSE p = Cardinality({i \in DOMAIN nums : nums[i] < target})

(* strStr finds the first occurrence, longestCommonPrefix the longest prefix  *)
(* of three strings, and lengthOfLastWord the last word before any spaces.   *)
StringsAnswered ==
    /\ \A cut \in Cuts \ {Len(data)} :
          LET text == UpTo(data, cut)
              word == Behind(data, cut)
              found == {i \in 0 .. Len(text) - Len(word) :
                           SubSeq(text, i + 1, i + Len(word)) = word}
          IN  strStr(text, word) = IF found = {} THEN -1 ELSE Min(found)
    /\ \A a, b \in Cuts :
          LET strs == <<UpTo(data, a), SubSeq(data, a + 1, b), Behind(data, b)>>
          IN  a <= b => longestCommonPrefix(strs) = LongestCommonPrefix(ToSet(strs))
    /\ LET text  == Read(<<97, 90, Space, Space>>)
           last  == SelectLastInSeq(text, LAMBDA c : c # Space)
           space == SelectLastInSeq(UpTo(text, last), LAMBDA c : c = Space)
       IN  lengthOfLastWord(text) = last - space

-----------------------------------------------------------------------------
(* Lists whose nodes are numbered in their order; the node i has the value    *)
(* data[i].  Linked has two of them, the second one begins behind the cut.   *)
Nodes == DOMAIN data
Linked(cut) == [i \in Nodes |-> IF i \in {cut, Len(data)} THEN Null ELSE i + 1]
NodeAt(i) == IF i \in Nodes THEN i ELSE Null
One == Linked(0)

(* Merging two ascending lists gives one with all nodes of both, each once,   *)
(* in the order of their values and, within a list, in its own.              *)
MergeKeepsAll ==
    \A cut \in Cuts :
        Ascending(UpTo(data, cut)) /\ Ascending(Behind(data, cut)) =>
            LET r == mergeTwoLists(data, Linked(cut), IF cut = 0 THEN Null ELSE 1,
                                   NodeAt(cut + 1))
                merged == Chain(r.next, r.head)
            IN  /\ Len(merged) = Len(data) /\ ToSet(merged) = Nodes
                /\ \A i, j \in DOMAIN merged : i < j =>
                      /\ data[merged[i]] <= data[merged[j]]
                      /\ (merged[i] <= cut <=> merged[j] <= cut) => merged[i] < merged[j]

(* Two lists that run together meet at their first common node, whatever      *)
(* values their nodes have; lists that do not, nowhere.                      *)
MeetWhereTheyJoin ==
    \A a, b \in Cuts :
        LET next == [i \in Nodes |-> IF i = a THEN NodeAt(b + 1) ELSE NodeAt(i + 1)]
        IN  a <= b => getIntersectionNode(data, next, IF a = 0 THEN NodeAt(b + 1) ELSE 1,
                                          NodeAt(a + 1)) = NodeAt(b + 1)

(* reverseList turns the list round and after no turn of its loop has lost a   *)
(* node: what is not yet turned follows from cur, what is from pre.  And      *)
(* reverseBetween turns round the nodes m to n, wherever they begin and end.  *)
ReversesInPlace ==
    LET size == Len(data)
        reversed == reverseList(One, NodeAt(1))
    IN  /\ Chain(reversed.next, reversed.head) = Reverse(Upto(1, size + 1))
        /\ \A k \in 0 .. size :
              LET s == While(ReverseTurn, [next |-> One, pre |-> Null, cur |-> NodeAt(1)], k)
              IN  Reverse(Chain(s.next, s.pre)) \o Chain(s.next, s.cur) = Upto(1, size + 1)
        /\ \A m, n \in 1 .. size :
              LET r == reverseBetween(One, 1, m, n)
              IN  m <= n => Chain(r.next, r.head) =
                    Upto(1, m) \o Reverse(Upto(m, n + 1)) \o Upto(n + 1, size + 1)

(* swapPairs exchanges the nodes of each pair and links the pairs; the last   *)
(* node of an odd list stays where it is.                                    *)
PairsSwapped ==
    LET size == Len(data)
        swapped == swapPairs(One, NodeAt(1))
    IN  Chain(swapped.next, swapped.head) =
          [i \in 1 .. size |-> IF i % 2 = 0 THEN i - 1 ELSE IF i < size THEN i + 1 ELSE i]

-----------------------------------------------------------------------------
(* The exercises on arrays and strings return what they should; bubbleSort    *)
(* does what it does.                                                       *)
ArraysAnswered ==
    /\ BubbleSortsThatRange
    /\ RemovesInPlace
    /\ RomanReadsBack
    /\ BracketsBalance
    /\ SearchFinds
    /\ StringsAnswered

(* The exercises on lists rearrange the nodes as they should, and lose none.  *)
ListsRearranged == MergeKeepsAll /\ MeetWhereTheyJoin /\ ReversesInPlace /\ PairsSwapped

-----------------------------------------------------------------------------
(* "对字符串的特定字串进行冒泡排序" (algorithm.h:30): sortString sorts, group by  *)
(* group, the letters and digits of a string, at least when what lies behind  *)
(* its buffer is larger than all of them.                                   *)
SortStringSorts ==
    LET str == Read(<<49, 65, 66, 97>>)
    IN  sortString(str, <<127>>) =
          Sorted(SelectSeq(str, IsUpper)) \o Sorted(SelectSeq(str, IsLower))
            \o Sorted(SelectSeq(str, IsDigit))
=============================================================================
