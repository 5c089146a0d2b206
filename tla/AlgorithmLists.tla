--------------------------- MODULE AlgorithmLists ---------------------------
(***************************************************************************)
(* The exercises on linked lists in leetcode/algorithm.c.  The heap is the   *)
(* function next from nodes to the node each one points to, and each loop is *)
(* one step on a record of the heap and the code's pointer variables: what   *)
(* can go wrong is a pointer that is written before it is read.              *)
(***************************************************************************)
EXTENDS Loops, FiniteSets

Null == 0

Point(next, node, to) == [next EXCEPT ![node] = to]

(* The nodes from head on; in a ring, one more than there are.                *)
Chain(next, head) ==
    LET walk(s) == IF s.at = Null THEN s
                   ELSE [at |-> next[s.at], nodes |-> Append(s.nodes, s.at)]
    IN  While(walk, [at |-> head, nodes |-> <<>>], Cardinality(DOMAIN next) + 1).nodes

-----------------------------------------------------------------------------
(* A turn of the loop: the smaller of the two first nodes, the second one if   *)
(* they are equal, is linked to the tail.                                    *)
MergeTurn(val, s) ==
    IF s.list1 = Null \/ s.list2 = Null THEN s
    ELSE LET first == val[s.list1] < val[s.list2]
             node  == IF first THEN s.list1 ELSE s.list2
             after == Point(s.next, s.tail, node)
         IN  [s EXCEPT !.next = after, !.tail = node,
                       !.list1 = IF first THEN after[node] ELSE @,
                       !.list2 = IF first THEN @ ELSE after[node]]

(* Mutant of Remaining: only the second list may be left.                    *)
RemainingSecond(list1, list2) == list2

Remaining(list1, list2) == IF list1 # Null THEN list1 ELSE list2

mergeTwoLists(val, next, list1, list2) ==
    IF list1 = Null \/ list2 = Null
      THEN [next |-> next, head |-> IF list1 = Null THEN list2 ELSE list1]
      ELSE LET first == val[list1] < val[list2]
               head  == IF first THEN list1 ELSE list2
               s == While(LAMBDA t : MergeTurn(val, t),
                          [next |-> next, tail |-> head,
                           list1 |-> IF first THEN next[list1] ELSE list1,
                           list2 |-> IF first THEN list2 ELSE next[list2]],
                          Cardinality(DOMAIN next))
           IN  [next |-> Point(s.next, s.tail, Remaining(s.list1, s.list2)),
                head |-> head]

(* Mutant of getIntersectionNode: nodes are told apart by their values.       *)
IntersectByValue(val, next, headA, headB) ==
    LET a == Chain(next, headA)
        b == Chain(next, headB)
        i == SelectInSeq(a, LAMBDA x : \E j \in DOMAIN b : val[b[j]] = val[x])
    IN  IF i = 0 THEN Null ELSE a[i]

(* For each node of the first list, the second is walked.                    *)
getIntersectionNode(val, next, headA, headB) ==
    LET a == Chain(next, headA)
        b == Chain(next, headB)
        i == SelectInSeq(a, LAMBDA x : \E j \in DOMAIN b : b[j] = x /\ val[b[j]] = val[x])
    IN  IF i = 0 THEN Null ELSE a[i]

-----------------------------------------------------------------------------
ReverseTurn(s) ==
    IF s.cur = Null THEN s
    ELSE [next |-> Point(s.next, s.cur, s.pre), pre |-> s.cur, cur |-> s.next[s.cur]]

reverseList(next, head) ==
    LET s == While(ReverseTurn, [next |-> next, pre |-> Null, cur |-> head],
                   Cardinality(DOMAIN next))
    IN  [next |-> s.next, head |-> s.pre]

(* Mutant of Marks: a range that begins at the head is not thought of.       *)
MarksNotFirst(m, index) == index = m - 1

(* Whether mp and mpn are set at this node.                                  *)
Marks(m, index) == index = m - 1 \/ (m = 1 /\ index = 1)

(* A turn of reverseBetween: mp is the node before the range and mpn the one   *)
(* it begins with, or its first two nodes when it begins at the head; np is   *)
(* the last node of the range.                                               *)
BetweenTurn(m, n, s) ==
    IF s.cur = Null THEN s
    ELSE LET index  == s.index + 1
             mp     == IF Marks(m, index) THEN s.cur ELSE s.mp
             mpn    == IF Marks(m, index) THEN s.next[s.cur] ELSE s.mpn
             np     == IF index = n THEN s.cur ELSE s.np
             cur    == s.next[s.cur]
             turned == IF index \in m .. n THEN Point(s.next, s.cur, s.pre) ELSE s.next
         IN  [next |-> CASE index # n -> turned
                         [] index = n /\ m = 1 -> Point(Point(turned, mp, cur), mpn, mp)
                         [] OTHER -> Point(Point(turned, mp, np), mpn, cur),
              index |-> index, pre |-> s.cur, cur |-> cur, mp |-> mp, mpn |-> mpn, np |-> np]

reverseBetween(next, head, m, n) ==
    IF m = n THEN [next |-> next, head |-> head]
    ELSE LET s == While(LAMBDA t : BetweenTurn(m, n, t),
                        [next |-> next, index |-> 0, pre |-> Null, cur |-> head,
                         mp |-> Null, mpn |-> Null, np |-> Null],
                        Cardinality(DOMAIN next))
         IN  [next |-> s.next, head |-> IF m = 1 THEN s.np ELSE head]

(* Mutant of Relink: the previous pair goes on pointing where it did.        *)
RelinkNot(next, link, cur) == next

Relink(next, link, cur) == Point(next, link, cur)

(* A turn of swapPairs: the pair pre, cur is swapped; unless fewer than two    *)
(* nodes are ahead of it, the first of them becomes the next pre, and link,   *)
(* the end of the pair before, is pointed at the pair's new first node.      *)
SwapTurn(s) ==
    LET swapped == Point(Point(s.next, s.pre, s.ahead), s.cur, s.pre)
    IN  CASE s.done -> s
          [] ~s.done /\ (s.ahead = Null \/ s.next[s.ahead] = Null) ->
                 [s EXCEPT !.next = swapped, !.done = TRUE]
          [] OTHER ->
                 LET cur == swapped[s.ahead]
                 IN  [next |-> Relink(swapped, s.link, cur), pre |-> s.ahead, cur |-> cur,
                      ahead |-> swapped[cur], link |-> s.ahead, done |-> FALSE]

swapPairs(next, head) ==
    IF head = Null THEN [next |-> next, head |-> head]
    ELSE IF next[head] = Null THEN [next |-> next, head |-> head]
    ELSE LET cur == next[head]
             s == While(SwapTurn, [next |-> next, pre |-> head, cur |-> cur,
                                   ahead |-> next[cur], link |-> head, done |-> FALSE],
                        Cardinality(DOMAIN next))
         IN  [next |-> s.next, head |-> cur]
=============================================================================
