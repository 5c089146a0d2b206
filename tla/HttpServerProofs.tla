--------------------------- MODULE HttpServerProofs ---------------------------
(***************************************************************************)
(* Proofs that the safety properties of HttpServer hold for any number of    *)
(* clients and descriptors, any requests and any segments.                  *)
(***************************************************************************)
EXTENDS HttpServerInv, WellFoundedInduction, TLAPS

(* A set of natural numbers that is not empty has a least member.            *)
LEMMA Least ==
  ASSUME NEW S, S \subseteq Nat, S # {}
  PROVE  \E x \in S : \A y \in S : x <= y
<1> DEFINE Less == OpToRel(<, Nat)
<1>1. \A x, y \in Nat : y < x => <<y, x>> \in Less
  BY DEF OpToRel
<1>2. IsWellFoundedOn(Less, Nat)
  BY NatLessThanWellFounded
<1> HIDE DEF Less
<1>3. PICK x \in S : \A y \in S : ~(<<y, x>> \in Less)
  BY <1>2, WFMin
<1>4. \A y \in S : x <= y
  <2> SUFFICES ASSUME NEW y \in S PROVE x <= y
    OBVIOUS
  <2>1. x \in Nat /\ y \in Nat /\ ~(y < x)
    BY <1>1, <1>3
  <2> QED BY <2>1
<1> QED BY <1>4

(* The kernel finds the lowest free descriptor when there is one.            *)
LEMMA LowestIsFree ==
  ASSUME FreeFds # {}
  PROVE  Lowest \in Fds /\ fdtab[Lowest] = Free
<1>1. FreeFds \subseteq Nat
  BY ServerAssumption DEF FreeFds, Fds
<1>2. \E f \in FreeFds : \A g \in FreeFds : f <= g
  BY <1>1, Least
<1>3. Lowest \in FreeFds
  BY <1>2 DEF Lowest, Min
<1> QED BY <1>3 DEF FreeFds

-----------------------------------------------------------------------------
(* The request line.  The member that no other is less than is the least one. *)
LEMMA MinIsLeast ==
  ASSUME NEW S, S \subseteq Nat, NEW x \in S, \A y \in S : x <= y
  PROVE  Min(S) = x
<1>1. Min(S) \in S /\ \A y \in S : Min(S) <= y
  BY DEF Min
<1>2. Min(S) \in Nat /\ x \in Nat /\ Min(S) <= x /\ x <= Min(S)
  BY <1>1
<1> QED BY <1>2

(* A loop of parse_request_line stops at the first byte of its kind, and      *)
(* nowhere else.                                                            *)
LEMMA LoopStops ==
  ASSUME NEW b, NEW n \in Nat, NEW i \in 1 .. n + 1, NEW kind
  PROVE  LET k == FirstFrom(i, b, n, kind)
         IN  /\ k \in Nat /\ i <= k /\ k <= n + 1
             /\ k = n + 1 \/ (IsSpace(b[k]) <=> kind = "space")
             /\ \A j \in i .. k - 1 : IsSpace(b[j]) <=> kind # "space"
<1> DEFINE Stop(k) == IsSpace(b[k]) <=> kind = "space"
           S == {k \in i .. n + 1 : k = n + 1 \/ Stop(k)}
<1>1. S \subseteq Nat /\ S # {}
  OBVIOUS
<1>2. PICK k \in S : \A j \in S : k <= j
  <2> HIDE DEF S
  <2> QED BY <1>1, Least
<1>3. /\ k \in i .. n + 1
      /\ k = n + 1 \/ Stop(k)
  BY <1>2
<1>4. \A j \in i .. k - 1 : ~Stop(j)
  <2> SUFFICES ASSUME NEW j \in i .. k - 1, Stop(j) PROVE FALSE
    OBVIOUS
  <2>1. j \in S
    BY <1>3
  <2> QED BY <1>2, <1>3, <2>1
<1>5. \E l \in i .. n + 1 :
        /\ l = n + 1 \/ (IsSpace(b[l]) <=> kind = "space")
        /\ \A j \in i .. l - 1 : IsSpace(b[j]) <=> kind # "space"
  BY <1>3, <1>4
<1> PICK k1 : k1 = FirstFrom(i, b, n, kind)
  OBVIOUS
<1>6. /\ k1 \in i .. n + 1
      /\ k1 = n + 1 \/ (IsSpace(b[k1]) <=> kind = "space")
      /\ \A j \in i .. k1 - 1 : IsSpace(b[j]) <=> kind # "space"
  BY <1>5 DEF FirstFrom
<1> QED BY <1>6

(* That is the only place where it can stop.                                *)
LEMMA LoopStopsAt ==
  ASSUME NEW b, NEW n \in Nat, NEW i \in 1 .. n + 1, NEW kind,
         NEW k \in i .. n + 1,
         k = n + 1 \/ (IsSpace(b[k]) <=> kind = "space"),
         \A j \in i .. k - 1 : IsSpace(b[j]) <=> kind # "space"
  PROVE  FirstFrom(i, b, n, kind) = k
<1> PICK l : l = FirstFrom(i, b, n, kind)
  OBVIOUS
<1>1. /\ l \in Nat /\ i <= l /\ l <= n + 1
      /\ l = n + 1 \/ (IsSpace(b[l]) <=> kind = "space")
      /\ \A j \in i .. l - 1 : IsSpace(b[j]) <=> kind # "space"
  BY LoopStops
<1>2. ~(l < k)
  <2> SUFFICES ASSUME l < k PROVE FALSE
    OBVIOUS
  <2>1. l \in i .. k - 1 /\ l # n + 1
    BY <1>1
  <2> QED BY <1>1, <2>1
<1>3. ~(k < l)
  <2> SUFFICES ASSUME k < l PROVE FALSE
    OBVIOUS
  <2>1. k \in i .. l - 1 /\ k # n + 1
    BY <1>1
  <2> QED BY <1>1, <2>1
<1> QED BY <1>1, <1>2, <1>3

(* The method and the url of a request end somewhere in it.                   *)
LEMMA LineEndType ==
  ASSUME NEW r \in Seq(Bytes)
  PROVE  LineEnd(r) \in Int
<1> PICK N \in Nat : N = Len(r)
  OBVIOUS
<1>m. PICK m : m = FirstFrom(1, r, N, "space")
  OBVIOUS
<1>1. m \in 1 .. N + 1
  BY <1>m, LoopStops
<1>u. PICK u : u = FirstFrom(m, r, N, "word")
  OBVIOUS
<1>2. u \in 1 .. N + 1
  BY <1>u, <1>1, LoopStops
<1>e. PICK e : e = FirstFrom(u, r, N, "space")
  OBVIOUS
<1>3. e \in Nat
  BY <1>e, <1>2, LoopStops
<1>4. LineEnd(r) = e - 1
  BY <1>m, <1>u, <1>e DEF LineEnd, ParseRequestLine
<1> QED BY <1>3, <1>4

(* Zeros behind a text do not change it.                                     *)
LEMMA TextPadded ==
  ASSUME NEW s \in Seq(Bytes), NEW t \in Seq(Bytes), Len(s) <= Len(t),
         \A j \in 1 .. Len(s) : t[j] = s[j],
         \A j \in Len(s) + 1 .. Len(t) : t[j] = Nul
  PROVE  Text(t) = Text(s)
<1> DEFINE Zs == {j \in 1 .. Len(s) : s[j] = Nul}
           Zt == {j \in 1 .. Len(t) : t[j] = Nul}
<1>1. /\ Text(s) = IF Zs = {} THEN s ELSE IF Min(Zs) = 0 THEN s ELSE SubSeq(s, 1, Min(Zs) - 1)
      /\ Text(t) = IF Zt = {} THEN t ELSE IF Min(Zt) = 0 THEN t ELSE SubSeq(t, 1, Min(Zt) - 1)
  BY DEF Text, SelectInSeq
<1>2. /\ Zs \subseteq Nat /\ Zt \subseteq Nat
      /\ Len(s) \in Nat /\ Len(t) \in Nat
  OBVIOUS
<1>3. CASE Zs # {}
  <2>1. PICK z \in Zs : \A j \in Zs : z <= j
    <3> HIDE DEF Zs, Zt
    <3> QED BY <1>2, <1>3, Least
  <2>2. z \in Zt /\ \A j \in Zt : z <= j
    <3>1. z \in 1 .. Len(s) /\ s[z] = Nul
      OBVIOUS
    <3>2. t[z] = Nul /\ z \in 1 .. Len(t)
      BY <3>1, <1>2
    <3>3. ASSUME NEW j \in Zt PROVE z <= j
      <4>1. CASE j \in 1 .. Len(s)
        BY <2>1, <4>1
      <4>2. CASE j \notin 1 .. Len(s)
        BY <3>1, <4>2, <1>2
      <4> QED BY <4>1, <4>2
    <3> QED BY <3>2, <3>3
  <2>3. SubSeq(s, 1, z - 1) = SubSeq(t, 1, z - 1)
    <3>1. z - 1 \in Nat /\ z - 1 <= Len(s)
      OBVIOUS
    <3> QED BY <3>1
  <2>4. z \in Nat /\ z > 0
    OBVIOUS
  <2> HIDE DEF Zs, Zt
  <2>5. Min(Zs) = z
    BY <1>2, <2>1, MinIsLeast
  <2>6. Min(Zt) = z
    BY <1>2, <2>2, MinIsLeast
  <2>7. Zs # {} /\ Zt # {} /\ z # 0
    BY <1>3, <2>2, <2>4
  <2>8. Text(s) = SubSeq(s, 1, z - 1)
    BY <1>1, <2>5, <2>7, Zenon
  <2>9. Text(t) = SubSeq(t, 1, z - 1)
    BY <1>1, <2>6, <2>7, Zenon
  <2> QED BY <2>3, <2>8, <2>9
<1>4. CASE Zs = {} /\ Len(t) > Len(s)
  <2>1. PICK z \in Nat : z = Len(s) + 1
    BY <1>2
  <2>2. z \in Zt /\ \A j \in Zt : z <= j
    <3>1. z \in Zt
      BY <1>2, <1>4, <2>1
    <3>2. ASSUME NEW j \in Zt, j < z PROVE FALSE
      <4>1. j \in 1 .. Len(s) /\ s[j] = Nul
        BY <1>2, <2>1, <3>2
      <4> QED BY <1>4, <4>1
    <3>3. \A j \in Zt : j \in Nat
      OBVIOUS
    <3> HIDE DEF Zs, Zt
    <3> QED BY <3>1, <3>2, <3>3
  <2>3. SubSeq(t, 1, z - 1) = s
    BY <1>2, <1>4, <2>1
  <2> HIDE DEF Zs, Zt
  <2>4. Min(Zt) = z
    BY <1>2, <2>2, MinIsLeast
  <2> QED BY <1>1, <1>2, <1>4, <2>1, <2>2, <2>3, <2>4
<1>5. CASE Zs = {} /\ Len(t) = Len(s)
  <2>1. t = s
    BY <1>5
  <2> QED BY <2>1
<1> QED BY <1>2, <1>3, <1>4, <1>5

(* The same for the loop to a space.                                        *)
LEMMA SpaceAt ==
  ASSUME NEW b, NEW n \in Nat, NEW i \in 1 .. n + 1, NEW k \in i .. n + 1,
         k = n + 1 \/ IsSpace(b[k]),
         \A j \in i .. k - 1 : ~IsSpace(b[j])
  PROVE  FirstFrom(i, b, n, "space") = k
<1> PICK kind : kind = "space"
  OBVIOUS
<1>1. k = n + 1 \/ (IsSpace(b[k]) <=> kind = "space")
  OBVIOUS
<1>2. \A j \in i .. k - 1 : IsSpace(b[j]) <=> kind # "space"
  OBVIOUS
<1>3. FirstFrom(i, b, n, kind) = k
  BY <1>1, <1>2, LoopStopsAt, Zenon
<1> QED BY <1>3

(* And the one to a word.                                                   *)
LEMMA WordAt ==
  ASSUME NEW b, NEW n \in Nat, NEW i \in 1 .. n + 1, NEW k \in i .. n + 1,
         k = n + 1 \/ ~IsSpace(b[k]),
         \A j \in i .. k - 1 : IsSpace(b[j])
  PROVE  FirstFrom(i, b, n, "word") = k
<1> PICK kind : kind = "word"
  OBVIOUS
<1>1. k = n + 1 \/ (IsSpace(b[k]) <=> kind = "space")
  OBVIOUS
<1>2. \A j \in i .. k - 1 : IsSpace(b[j]) <=> kind # "space"
  OBVIOUS
<1>3. FirstFrom(i, b, n, kind) = k
  BY <1>1, <1>2, LoopStopsAt, Zenon
<1> QED BY <1>3

(* Words that agree byte by byte are equal.                                  *)
LEMMA SameWord ==
  ASSUME NEW a \in Seq(Bytes), NEW c \in Seq(Bytes), NEW i \in Nat, NEW l \in Int,
         1 <= i, i <= l + 1, l <= Len(a), l <= Len(c),
         \A j \in i .. l : a[j] = c[j]
  PROVE  SubSeq(a, i, l) = SubSeq(c, i, l)
OBVIOUS

(* The bytes of two texts that are joined.                                  *)
LEMMA JoinType ==
  ASSUME NEW a \in Seq(Bytes), NEW c \in Seq(Bytes)
  PROVE  /\ a \o c \in Seq(Bytes) /\ Len(a \o c) = Len(a) + Len(c)
         /\ \A j \in 1 .. Len(a) : (a \o c)[j] = a[j]
         /\ \A j \in 1 .. Len(c) : (a \o c)[Len(a) + j] = c[j]
OBVIOUS

(* A buffer of zeros is all zeros.                                           *)
LEMMA ZeroBufZero ==
  ZeroBuf \in Seq(Bytes) /\ Len(ZeroBuf) = BufSize /\ \A j \in 1 .. BufSize : ZeroBuf[j] = Nul
<1> PICK N : N = BufSize
  OBVIOUS
<1>1. N \in Nat
  BY ServerAssumption
<1>2. ZeroBuf = [j \in 1 .. N |-> Nul]
  BY DEF ZeroBuf
<1>3. Nul \in Bytes
  BY DEF Bytes
<1> QED BY <1>1, <1>2, <1>3

(* The copy is as long as the buffer, and begins as the header does.         *)
LEMMA CopyType ==
  ASSUME NEW h \in Seq(Bytes), NEW n \in 0 .. BufSize, n <= Len(h)
  PROVE  /\ HeaderCopy(h, n) \in Seq(Bytes) /\ Len(HeaderCopy(h, n)) = BufSize
         /\ \A j \in 1 .. n : HeaderCopy(h, n)[j] = h[j]
         /\ \A j \in n + 1 .. BufSize : HeaderCopy(h, n)[j] = Nul
<1> PICK N : N = BufSize
  OBVIOUS
<1> PICK Z : Z = ZeroBuf
  OBVIOUS
<1> PICK x : x = SubSeq(h, 1, n)
  OBVIOUS
<1> PICK z : z = SubSeq(Z, n + 1, N)
  OBVIOUS
<1>1. N \in Nat /\ n \in Nat /\ n <= N
  BY ServerAssumption
<1>2. x \in Seq(Bytes) /\ Len(x) = n /\ \A j \in 1 .. n : x[j] = h[j]
  BY <1>1
<1>3. Z \in Seq(Bytes) /\ Len(Z) = N /\ \A j \in 1 .. N : Z[j] = Nul
  BY ZeroBufZero
<1>4. z \in Seq(Bytes) /\ Len(z) = N - n /\ \A j \in 1 .. N - n : z[j] = Nul
  BY <1>1, <1>3
<1> PICK b : b = x \o z
  OBVIOUS
<1>5. b \in Seq(Bytes) /\ Len(b) = N
  BY <1>1, <1>2, <1>4
<1>6. \A j \in 1 .. n : b[j] = h[j]
  BY <1>1, <1>2, <1>4
<1>7. \A j \in n + 1 .. N : b[j] = Nul
  <2> SUFFICES ASSUME NEW j \in n + 1 .. N PROVE b[j] = Nul
    OBVIOUS
  <2>1. j - n \in 1 .. Len(z) /\ j = Len(x) + (j - n)
    BY <1>1, <1>2, <1>4
  <2>2. \A i \in 1 .. Len(z) : (x \o z)[Len(x) + i] = z[i]
    BY <1>2, <1>4
  <2>3. b[j] = z[j - n]
    BY <2>1, <2>2
  <2> QED BY <1>4, <2>1, <2>3
<1>8. HeaderCopy(h, n) = b
  BY DEF HeaderCopy
<1> QED BY <1>5, <1>6, <1>7, <1>8

(* The bytes of a word.                                                      *)
LEMMA WordType ==
  ASSUME NEW a \in Seq(Bytes), NEW i \in Nat, NEW l \in Nat, 1 <= i, i <= l, l <= Len(a)
  PROVE  /\ SubSeq(a, i, l) \in Seq(Bytes) /\ Len(SubSeq(a, i, l)) = l - i + 1
         /\ \A j \in 1 .. l - i + 1 : SubSeq(a, i, l)[j] = a[i + j - 1]
OBVIOUS

(* A word that runs into the zeros is the word up to them.                   *)
LEMMA CutWord ==
  ASSUME NEW r \in Seq(Bytes), NEW b \in Seq(Bytes), NEW u \in Nat, NEW n \in Nat, NEW k \in Nat,
         1 <= u, u <= n, n <= k, n <= Len(r), k <= Len(b),
         \A j \in 1 .. n : b[j] = r[j],
         \A j \in n + 1 .. Len(b) : b[j] = Nul
  PROVE  Text(SubSeq(b, u, k)) = Text(SubSeq(r, u, n))
<1> PICK s : s = SubSeq(r, u, n)
  OBVIOUS
<1> PICK t : t = SubSeq(b, u, k)
  OBVIOUS
<1>1. /\ s \in Seq(Bytes) /\ Len(s) = n - u + 1
      /\ \A j \in 1 .. n - u + 1 : s[j] = r[u + j - 1]
  BY WordType
<1>2. /\ t \in Seq(Bytes) /\ Len(t) = k - u + 1
      /\ \A j \in 1 .. k - u + 1 : t[j] = b[u + j - 1]
  <2>1. u <= k
    OBVIOUS
  <2> QED BY <2>1, WordType
<1>3. Len(s) <= Len(t)
  BY <1>1, <1>2
<1>4. ASSUME NEW j \in 1 .. Len(s) PROVE t[j] = s[j]
  <2>1. u + j - 1 \in 1 .. n /\ j \in 1 .. k - u + 1 /\ j \in 1 .. n - u + 1
    BY <1>1
  <2> QED BY <1>1, <1>2, <2>1
<1>5. ASSUME NEW j \in Len(s) + 1 .. Len(t) PROVE t[j] = Nul
  <2>1. u + j - 1 \in n + 1 .. Len(b) /\ j \in 1 .. k - u + 1
    BY <1>1, <1>2
  <2> QED BY <1>2, <2>1
<1> QED BY <1>1, <1>2, <1>3, <1>4, <1>5, TextPadded

(* If the bytes that were copied, n of them, reach to the end of the url, the  *)
(* copy reads as the request itself does.                                   *)
LEMMA CopyReadsAlike ==
  ASSUME NEW r \in Seq(Bytes), Len(r) <= BufSize,
         NEW k \in 0 .. Len(r), NEW n \in 0 .. k, LineEnd(r) <= n
  PROVE  LET copied == ParseRequestLine(HeaderCopy(SubSeq(r, 1, k), n), k)
             whole  == ParseRequestLine(r, Len(r))
         IN  copied.method = whole.method /\ copied.url = whole.url
<1> PICK N : N = Len(r)
  OBVIOUS
<1>b. PICK b : b = HeaderCopy(SubSeq(r, 1, k), n)
  OBVIOUS
<1>1. /\ BufSize \in Nat /\ N \in Nat /\ k \in Nat /\ n \in Nat
      /\ n <= k /\ k <= N /\ N <= BufSize
  BY ServerAssumption
<1>2. /\ b \in Seq(Bytes) /\ Len(b) = BufSize
      /\ \A j \in 1 .. n : b[j] = r[j]
      /\ \A j \in n + 1 .. BufSize : b[j] = Nul
  <2> PICK h : h = SubSeq(r, 1, k)
    OBVIOUS
  <2>1. h \in Seq(Bytes) /\ Len(h) = k /\ \A j \in 1 .. k : h[j] = r[j]
    BY <1>1
  <2>2. n \in 0 .. BufSize /\ n <= Len(h)
    BY <1>1, <2>1
  <2>3. /\ b \in Seq(Bytes) /\ Len(b) = BufSize
        /\ \A j \in 1 .. n : b[j] = h[j]
        /\ \A j \in n + 1 .. BufSize : b[j] = Nul
    BY <1>b, <2>1, <2>2, CopyType
  <2> QED BY <1>1, <2>1, <2>3
<1>3. \A j \in n + 1 .. BufSize : ~IsSpace(b[j])
  BY <1>2 DEF IsSpace, Nul
<1>m. PICK m : m = FirstFrom(1, r, N, "space")
  OBVIOUS
<1>4. /\ m \in Nat /\ 1 <= m /\ m <= N + 1
      /\ m = N + 1 \/ IsSpace(r[m])
      /\ \A j \in 1 .. m - 1 : ~IsSpace(r[j])
  BY <1>m, <1>1, LoopStops
<1>u. PICK u : u = FirstFrom(m, r, N, "word")
  OBVIOUS
<1>5. /\ u \in Nat /\ m <= u /\ u <= N + 1
      /\ u = N + 1 \/ ~IsSpace(r[u])
      /\ \A j \in m .. u - 1 : IsSpace(r[j])
  <2>1. m \in 1 .. N + 1
    BY <1>1, <1>4
  <2> QED BY <1>u, <1>1, <2>1, LoopStops
<1>e. PICK e : e = FirstFrom(u, r, N, "space")
  OBVIOUS
<1>6. /\ e \in Nat /\ u <= e /\ e <= N + 1
      /\ e = N + 1 \/ IsSpace(r[e])
      /\ \A j \in u .. e - 1 : ~IsSpace(r[j])
  <2>1. u \in 1 .. N + 1
    BY <1>1, <1>4, <1>5
  <2> QED BY <1>e, <1>1, <2>1, LoopStops
<1>7. /\ ParseRequestLine(r, N).method = Text(SubSeq(r, 1, m - 1))
      /\ ParseRequestLine(r, N).url = Text(SubSeq(r, u, e - 1))
      /\ e - 1 <= n
  BY <1>m, <1>u, <1>e DEF ParseRequestLine, LineEnd
<1>mm. PICK mm : mm = FirstFrom(1, b, k, "space")
  OBVIOUS
<1>uu. PICK uu : uu = FirstFrom(mm, b, k, "word")
  OBVIOUS
<1>ee. PICK ee : ee = FirstFrom(uu, b, k, "space")
  OBVIOUS
<1>8. /\ ParseRequestLine(b, k).method = Text(SubSeq(b, 1, mm - 1))
      /\ ParseRequestLine(b, k).url = Text(SubSeq(b, uu, ee - 1))
  BY <1>mm, <1>uu, <1>ee DEF ParseRequestLine
<1>9. SUFFICES /\ Text(SubSeq(b, 1, mm - 1)) = Text(SubSeq(r, 1, m - 1))
               /\ Text(SubSeq(b, uu, ee - 1)) = Text(SubSeq(r, u, e - 1))
  BY <1>b, <1>7, <1>8
<1>10. CASE n = N
  <2>1. k = N /\ \A j \in 1 .. N : b[j] = r[j]
    BY <1>1, <1>2, <1>10
  <2>2. mm = m
    <3>1. m = k + 1 \/ IsSpace(b[m])
      BY <1>4, <2>1 DEF IsSpace
    <3>2. \A j \in 1 .. m - 1 : ~IsSpace(b[j])
      BY <1>1, <1>4, <2>1
    <3>3. m \in 1 .. k + 1 /\ 1 \in 1 .. k + 1
      BY <1>1, <1>4, <2>1
    <3> QED BY <1>mm, <1>1, <3>1, <3>2, <3>3, SpaceAt, Zenon
  <2>3. uu = u
    <3>1. u = k + 1 \/ ~IsSpace(b[u])
      BY <1>4, <1>5, <2>1
    <3>2. \A j \in m .. u - 1 : IsSpace(b[j])
      <4> SUFFICES ASSUME NEW j \in m .. u - 1 PROVE IsSpace(b[j])
        OBVIOUS
      <4>1. j \in 1 .. N
        BY <1>1, <1>4, <1>5
      <4> QED BY <1>5, <2>1, <4>1
    <3>3. m \in 1 .. k + 1 /\ u \in m .. k + 1
      BY <1>1, <1>4, <1>5, <2>1
    <3> QED BY <1>uu, <1>1, <2>2, <3>1, <3>2, <3>3, WordAt
  <2>4. ee = e
    <3>1. e = k + 1 \/ IsSpace(b[e])
      BY <1>4, <1>5, <1>6, <2>1 DEF IsSpace
    <3>2. \A j \in u .. e - 1 : ~IsSpace(b[j])
      BY <1>1, <1>4, <1>5, <1>6, <2>1
    <3>3. u \in 1 .. k + 1 /\ e \in u .. k + 1
      BY <1>1, <1>4, <1>5, <1>6, <2>1
    <3> QED BY <1>ee, <1>1, <2>3, <3>1, <3>2, <3>3, SpaceAt
  <2>5. SubSeq(b, 1, m - 1) = SubSeq(r, 1, m - 1)
    BY <1>1, <1>2, <1>4, <2>1
  <2>6. SubSeq(b, u, e - 1) = SubSeq(r, u, e - 1)
    <3>0. PICK l : l = e - 1
      OBVIOUS
    <3>1. /\ u \in Nat /\ 1 <= u /\ l \in Int /\ u <= l + 1
          /\ l <= Len(r) /\ l <= Len(b)
      BY <3>0, <1>1, <1>2, <1>4, <1>5, <1>6, <2>1
    <3>2. \A j \in u .. l : b[j] = r[j]
      BY <3>0, <1>1, <1>4, <1>5, <1>6, <2>1
    <3>3. SubSeq(b, u, l) = SubSeq(r, u, l)
      BY <1>2, <3>1, <3>2, SameWord, Zenon
    <3> QED BY <3>0, <3>3
  <2> QED BY <2>2, <2>3, <2>4, <2>5, <2>6
<1>11. CASE n < N
  <2>1. u <= n /\ m <= n
    <3>1. e <= N
      BY <1>1, <1>6, <1>7, <1>11
    <3>2. IsSpace(r[e])
      BY <1>1, <1>6, <3>1
    <3>3. u # e
      BY <1>1, <1>4, <1>5, <1>6, <3>1, <3>2
    <3> QED BY <1>1, <1>4, <1>5, <1>6, <1>7, <3>3
  <2>2. mm = m
    <3>1. IsSpace(b[m])
      BY <1>1, <1>2, <1>4, <1>11, <2>1 DEF IsSpace
    <3>2. \A j \in 1 .. m - 1 : ~IsSpace(b[j])
      BY <1>1, <1>2, <1>4, <2>1
    <3>3. m \in 1 .. k + 1 /\ 1 \in 1 .. k + 1
      BY <1>1, <1>4, <2>1
    <3> QED BY <1>mm, <1>1, <3>1, <3>2, <3>3, SpaceAt, Zenon
  <2>3. uu = u
    <3>1. ~IsSpace(b[u])
      BY <1>1, <1>2, <1>4, <1>5, <1>11, <2>1
    <3>2. \A j \in m .. u - 1 : IsSpace(b[j])
      BY <1>1, <1>2, <1>4, <1>5, <2>1
    <3>3. u \in m .. k + 1 /\ m \in 1 .. k + 1
      BY <1>1, <1>4, <1>5, <2>1
    <3> QED BY <1>uu, <1>1, <2>2, <3>1, <3>2, <3>3, WordAt
  <2>4. SubSeq(b, 1, m - 1) = SubSeq(r, 1, m - 1)
    BY <1>1, <1>2, <1>4, <2>1
  <2>5. CASE e <= n
    <3>1. ee = e
      <4>1. IsSpace(b[e])
        BY <1>1, <1>2, <1>4, <1>5, <1>6, <2>5, <1>11 DEF IsSpace
      <4>2. \A j \in u .. e - 1 : ~IsSpace(b[j])
        BY <1>1, <1>2, <1>4, <1>5, <1>6, <2>5
      <4>3. e \in u .. k + 1 /\ u \in 1 .. k + 1
        BY <1>1, <1>4, <1>5, <1>6, <2>5, <2>1
      <4> QED BY <1>ee, <1>1, <2>3, <4>1, <4>2, <4>3, SpaceAt
    <3>2. SubSeq(b, u, e - 1) = SubSeq(r, u, e - 1)
      <4>0. PICK l : l = e - 1
        OBVIOUS
      <4>1. /\ u \in Nat /\ 1 <= u /\ l \in Int /\ u <= l + 1
            /\ l <= Len(r) /\ l <= Len(b)
        BY <4>0, <1>1, <1>2, <1>4, <1>5, <1>6, <2>5
      <4>2. \A j \in u .. l : b[j] = r[j]
        BY <4>0, <1>1, <1>2, <1>4, <1>5, <1>6, <2>5
      <4>3. SubSeq(b, u, l) = SubSeq(r, u, l)
        BY <1>2, <4>1, <4>2, SameWord, Zenon
      <4> QED BY <4>0, <4>3
    <3> QED BY <2>2, <2>3, <2>4, <3>1, <3>2
  <2>6. CASE e = n + 1
    <3>1. ee = k + 1
      <4>1. \A j \in u .. k : ~IsSpace(b[j])
        <5> SUFFICES ASSUME NEW j \in u .. k PROVE ~IsSpace(b[j])
          OBVIOUS
        <5>1. CASE j <= n
          <6>1. j \in 1 .. n /\ j \in u .. e - 1
            BY <1>1, <1>4, <1>5, <2>6, <5>1
          <6> QED BY <1>2, <1>6, <6>1
        <5>2. CASE j > n
          BY <1>1, <1>3, <1>4, <1>5, <5>2
        <5> QED BY <1>1, <1>4, <1>5, <5>1, <5>2
      <4>2. k + 1 \in u .. k + 1 /\ u \in 1 .. k + 1 /\ (k + 1) - 1 = k
        BY <1>1, <1>4, <1>5, <2>1
      <4> QED BY <1>ee, <1>1, <2>3, <4>1, <4>2, SpaceAt
    <3>2. /\ u \in Nat /\ 1 <= u /\ u <= n /\ n <= Len(r) /\ k <= Len(b)
      BY <1>1, <1>2, <1>4, <1>5, <2>1
    <3>3. Text(SubSeq(b, u, k)) = Text(SubSeq(r, u, n))
      <4>1. \A j \in n + 1 .. Len(b) : b[j] = Nul
        BY <1>2
      <4>2. \A j \in 1 .. n : b[j] = r[j]
        BY <1>2
      <4>3. /\ b \in Seq(Bytes) /\ r \in Seq(Bytes) /\ u \in Nat /\ n \in Nat /\ k \in Nat
            /\ 1 <= u /\ u <= n /\ n <= k /\ n <= Len(r) /\ k <= Len(b)
        BY <1>1, <1>2, <3>2
      <4> QED BY <4>1, <4>2, <4>3, CutWord
    <3>4. e - 1 = n /\ ee - 1 = k
      BY <1>1, <2>6, <3>1
    <3> QED BY <2>2, <2>3, <2>4, <3>3, <3>4
  <2> QED BY <1>1, <1>4, <1>5, <1>6, <1>7, <2>5, <2>6
<1> QED BY <1>1, <1>10, <1>11

-----------------------------------------------------------------------------
(* What a descriptor is open on is not mistaken for a connection.            *)
LEMMA NotClient == Free \notin Clients /\ Listen \notin Clients /\ Picture \notin Clients
BY ServerAssumption

(* The number that stands for none is no descriptor.                        *)
LEMMA NoFdIsNone == NoFd \notin Fds
BY ServerAssumption DEF NoFd, Fds

(* A request is complete and fits the buffer.                               *)
LEMMA RequestType ==
  \A r \in Requests : r \in Seq(Bytes) /\ HeaderComplete(r) /\ Len(r) <= BufSize
BY ServerAssumption

(* The initial states satisfy the invariant.                                 *)
LEMMA InitInv == Init => IInv /\ EverySocketDue /\ RightWhenLongEnough
<1> SUFFICES ASSUME Init PROVE IInv /\ EverySocketDue /\ RightWhenLongEnough
  OBVIOUS
<1> USE DEF Init
<1>1. TypeOK
  <2>1. \A c \in Clients : got[c] <= sent[c] /\ sent[c] <= Len(request[c])
    OBVIOUS
  <2>2. sending \in Seq(BOOLEAN) /\ header \in Seq(Bytes) /\ queue \in Seq(Fds)
    OBVIOUS
  <2>3. Len(queue) <= Capacity /\ last \in 0 .. BufSize
    BY ServerAssumption
  <2>4. response \in Responses
    BY DEF Responses
  <2> QED BY <2>1, <2>2, <2>3, <2>4, ZeroBufZero DEF TypeOK
<1>2. WorkerInv
  <2>1. ~HeaderComplete(header)
    BY DEF HeaderComplete
  <2> QED BY <2>1 DEF WorkerInv
<1>3. ClientInv /\ EverySocketDue
  BY NotClient DEF ClientInv, Owners, Owner, EverySocketDue
<1>4. ReadInv
  BY NotClient DEF ReadInv, Owner
<1>5. WholeInv
  BY DEF WholeInv, QueueApart, OwnRequest, NoFd
<1>6. BrokenInv
  BY DEF BrokenInv
<1>7. AnswerInv /\ RightWhenLongEnough
  BY DEF AnswerInv, HeaderComplete, RightWhenLongEnough
<1> QED BY <1>1, <1>2, <1>3, <1>4, <1>5, <1>6, <1>7 DEF IInv

(* Every request line leads to one of the responses.                        *)
LEMMA RouteType == \A line : Route(line) \in Responses
BY DEF Route, Responses

(* Each response is a sequence of send() calls, known by their flags.       *)
LEMMA SendsType == \A r \in Responses : Sends(r) \in Seq(BOOLEAN)
<1>1. <<TRUE, TRUE>> \in Seq(BOOLEAN) /\ <<TRUE, FALSE>> \in Seq(BOOLEAN)
      /\ <<TRUE>> \in Seq(BOOLEAN) /\ <<>> \in Seq(BOOLEAN)
  OBVIOUS
<1>2. \A r \in Responses :
        Sends(r) \in {<<TRUE, TRUE>>, <<TRUE, FALSE>>, <<TRUE>>, <<>>}
  BY Zenon DEF Sends, Responses
<1> QED BY <1>1, <1>2, Zenon

(* What a client has sent is not more than its request.                      *)
LEMMA RequestsSent ==
  ASSUME TypeOK, NEW c \in Clients
  PROVE  /\ request[c] \in Seq(Bytes) /\ Len(request[c]) \in Nat /\ Len(request[c]) <= BufSize
         /\ got[c] \in Nat /\ sent[c] \in Nat /\ got[c] <= sent[c] /\ sent[c] <= Len(request[c])
<1>1. request[c] \in Requests \union {<<>>}
  BY DEF TypeOK
<1>2. request[c] \in Seq(Bytes) /\ Len(request[c]) <= BufSize
  <2>1. CASE request[c] \in Requests
    BY <2>1, RequestType
  <2>2. CASE request[c] = <<>>
    <3>1. <<>> \in Seq(Bytes) /\ Len(<<>>) = 0 /\ 0 <= BufSize
      BY ServerAssumption
    <3> QED BY <2>2, <3>1
  <2> QED BY <1>1, <2>1, <2>2
<1> QED BY <1>2 DEF TypeOK

(* n bytes from the one behind the first g.                                  *)
LEMMA PieceType ==
  ASSUME NEW r \in Seq(Bytes), NEW g \in Nat, NEW n \in Nat, n > 0, g + n <= Len(r)
  PROVE  /\ SubSeq(r, g + 1, g + n) \in Seq(Bytes) /\ Len(SubSeq(r, g + 1, g + n)) = n
         /\ \A j \in 1 .. n : SubSeq(r, g + 1, g + n)[j] = r[g + j]
OBVIOUS

(* What a recv() reads: one piece, of the client the descriptor belongs to.  *)
LEMMA RecvReads ==
  ASSUME TypeOK, WorkerInv, Recv
  PROVE  \E c \in Clients, n \in Nat, piece \in Seq(Bytes) :
            /\ wfd \in Fds /\ Owner(wfd) = c
            /\ 0 < n /\ n <= BufSize /\ got[c] + n <= sent[c]
            /\ piece = SubSeq(request[c], got[c] + 1, got[c] + n) /\ Len(piece) = n
            /\ header' = header \o piece
            /\ got' = [got EXCEPT ![c] = got[c] + n]
            /\ last' = n
            /\ from' = from \union {c}
            /\ IF HeaderComplete(header')
                 THEN buf' = HeaderCopy(header', n) /\ wpc' = "parse"
                 ELSE buf' = piece \o SubSeq(buf, n + 1, BufSize) /\ wpc' = "recv"
<1> PICK c \in Clients : c = Owner(wfd)
  BY DEF Recv
<1>n. PICK n : n = Min({Unread(c), BufSize})
  OBVIOUS
<1>p. PICK piece : piece = SubSeq(request[c], got[c] + 1, got[c] + n)
  OBVIOUS
<1>1. /\ header' = header \o piece
      /\ n > 0
      /\ got' = [got EXCEPT ![c] = got[c] + n]
      /\ last' = n
      /\ from' = from \union {c}
      /\ IF HeaderComplete(header')
           THEN buf' = HeaderCopy(header', n) /\ wpc' = "parse"
           ELSE buf' = piece \o SubSeq(buf, n + 1, BufSize) /\ wpc' = wpc
  BY <1>n, <1>p DEF Recv
<1>2. wpc = "recv" /\ wfd \in Fds
  BY DEF Recv, WorkerAt, TypeOK, WorkerInv
<1>3. Unread(c) \in Nat /\ BufSize \in Nat
  BY RequestsSent, ServerAssumption DEF Unread
<1>4. n \in Nat /\ n <= Unread(c) /\ n <= BufSize
  <2>1. \E x \in {Unread(c), BufSize} : \A y \in {Unread(c), BufSize} : x <= y
    BY <1>3
  <2>2. n \in {Unread(c), BufSize} /\ \A y \in {Unread(c), BufSize} : n <= y
    BY <1>n, <2>1 DEF Min
  <2> QED BY <1>3, <2>2
<1>5. got[c] + n <= sent[c] /\ got[c] + n <= Len(request[c])
  BY <1>3, <1>4, RequestsSent DEF Unread
<1>6. piece \in Seq(Bytes) /\ Len(piece) = n
  <2>1. /\ request[c] \in Seq(Bytes) /\ got[c] \in Nat
        /\ n \in Nat /\ n > 0 /\ got[c] + n <= Len(request[c])
    BY <1>1, <1>4, <1>5, RequestsSent
  <2>2. /\ SubSeq(request[c], got[c] + 1, got[c] + n) \in Seq(Bytes)
        /\ Len(SubSeq(request[c], got[c] + 1, got[c] + n)) = n
    BY <2>1, PieceType, Zenon
  <2> QED BY <1>p, <2>2, Zenon
<1> QED BY <1>p, <1>1, <1>2, <1>4, <1>5, <1>6

(* The part of a response that a send() puts on its way.                    *)
Part == [kind |-> response, from |-> from, last |-> last, complete |-> HeaderComplete(header)]

(* It reaches the client that the descriptor belongs to, or is lost.        *)
LEMMA SendDelivers ==
  ASSUME SendPart
  PROVE  /\ wpc = "send" /\ sending # <<>> /\ sending' = Tail(sending)
         /\ process' \in {process, "killed"}
         /\ \/ UNCHANGED client
            \/ \E c \in Clients : client[c] = "closed" /\ client' = [client EXCEPT ![c] = "reset"]
         /\ \/ UNCHANGED inbox
            \/ \E c \in Clients : /\ c = Owner(wfd)
                                  /\ inbox' = [inbox EXCEPT ![c] = inbox[c] \union {Part}]
         /\ UNCHANGED <<request, sent, got, failed, fdtab, queue, afd, wpc, wfd, readVars, response>>
<1>1. /\ wpc = "send" /\ sending # <<>> /\ sending' = Tail(sending)
      /\ UNCHANGED <<request, sent, got, failed, fdtab, queue, afd, wpc, wfd, readVars, response>>
  BY Zenon DEF SendPart, WorkerAt
<1>2. CASE Owner(wfd) \notin Clients
  <2>1. UNCHANGED <<process, client, inbox>>
    BY <1>2, Zenon DEF SendPart
  <2> QED BY <1>1, <2>1
<1>3. CASE Owner(wfd) \in Clients
  <2> PICK c \in Clients : c = Owner(wfd)
    BY <1>3
  <2>1. CASE client[c] = "reset"
    <3>1. (process' = "killed" \/ UNCHANGED process) /\ UNCHANGED <<client, inbox>>
      BY <2>1, Zenon DEF SendPart
    <3> QED BY <1>1, <3>1
  <2>2. CASE client[c] # "reset"
    <3>1. /\ inbox' = [inbox EXCEPT ![c] = inbox[c] \union {Part}]
          /\ \/ UNCHANGED client
             \/ client[c] = "closed" /\ client' = [client EXCEPT ![c] = "reset"]
          /\ UNCHANGED process
      BY <2>2, Zenon DEF SendPart, Part
    <3> QED BY <1>1, <3>1
  <2> QED BY <2>1, <2>2
<1> QED BY <1>2, <1>3

(* No step breaks TypeOK: no client is read beyond what it has sent.         *)
LEMMA TypeStep ==
  ASSUME TypeOK, WorkerInv, ClientInv, [Next]_vars
  PROVE  TypeOK'
<1> USE DEF TypeOK, clientVars, readVars, sendVars, workerVars
<1>1. CASE Startup
  BY <1>1 DEF Startup
<1>2. CASE StartupFails
  BY <1>2 DEF StartupFails
<1>3. CASE AcceptFails
  BY <1>3 DEF AcceptFails
<1>4. CASE Enqueue
  <2>1. afd \in Fds
    BY <1>4 DEF Enqueue
  <2>2. queue' \in Seq(Fds) /\ Len(queue') <= Capacity
    <3>1. CASE Len(queue) < Capacity
      <4>1. queue' = Append(queue, afd)
        BY <1>4, <3>1 DEF Enqueue
      <4> QED BY <2>1, <3>1, <4>1, ServerAssumption
    <3>2. CASE ~(Len(queue) < Capacity)
      BY <1>4, <3>2 DEF Enqueue
    <3> QED BY <3>1, <3>2
  <2>3. fdtab' \in [Fds -> Clients \union {Free, Listen, Picture}]
    BY <1>4, <2>1 DEF Enqueue, Close
  <2> QED BY <1>4, <2>2, <2>3 DEF Enqueue
<1>5. CASE \E c \in Clients : Accept(c)
  <2> PICK c \in Clients : Accept(c)
    BY <1>5
  <2>1. Lowest \in Fds
    BY LowestIsFree DEF Accept
  <2>2. fdtab' \in [Fds -> Clients \union {Free, Listen, Picture}] /\ afd' \in Fds
    BY <2>1 DEF Accept
  <2>3. client' \in [Clients -> {"idle", "backlog", "open", "closed", "reset"}]
    BY DEF Accept
  <2> QED BY <2>2, <2>3 DEF Accept
<1>6. CASE Take
  <2>1. queue' \in Seq(Fds) /\ Len(queue') <= Capacity /\ wfd' \in Fds
    BY <1>6, ServerAssumption DEF Take
  <2> QED BY <1>6, <2>1 DEF Take
<1>7. CASE Recv
  <2>1. PICK c \in Clients, n \in Nat, piece \in Seq(Bytes) :
          /\ n <= BufSize /\ got[c] + n <= sent[c]
          /\ Len(piece) = n
          /\ header' = header \o piece
          /\ got' = [got EXCEPT ![c] = got[c] + n]
          /\ last' = n
          /\ from' = from \union {c}
          /\ IF HeaderComplete(header')
               THEN buf' = HeaderCopy(header', n) /\ wpc' = "parse"
               ELSE buf' = piece \o SubSeq(buf, n + 1, BufSize) /\ wpc' = "recv"
    BY <1>7, RecvReads
  <2>2. header' \in Seq(Bytes) /\ n <= Len(header') /\ last' \in 0 .. BufSize /\ BufSize \in Nat
    BY <2>1, ServerAssumption
  <2>3. buf' \in Seq(Bytes) /\ Len(buf') = BufSize
    <3>1. CASE HeaderComplete(header')
      <4>1. n \in 0 .. BufSize
        BY <2>1, <2>2
      <4>2. buf' = HeaderCopy(header', n)
        BY <2>1, <3>1
      <4>3. header' \in Seq(Bytes) /\ n <= Len(header')
        BY <2>2
      <4> HIDE DEF TypeOK
      <4> QED BY <4>1, <4>2, <4>3, CopyType
    <3>2. CASE ~HeaderComplete(header')
      <4> PICK x : x = SubSeq(buf, n + 1, BufSize)
        OBVIOUS
      <4>1. buf' = piece \o x
        BY <2>1, <3>2
      <4>2. x \in Seq(Bytes) /\ Len(x) = BufSize - n
        BY <2>1, <2>2
      <4>3. piece \in Seq(Bytes) /\ Len(piece) = n
        BY <2>1
      <4>4. piece \o x \in Seq(Bytes) /\ Len(piece \o x) = n + (BufSize - n)
        BY <4>2, <4>3, JoinType
      <4>5. n + (BufSize - n) = BufSize
        BY <2>2
      <4> QED BY <4>1, <4>4, <4>5
    <3> QED BY <3>1, <3>2
  <2>4. /\ got' \in [Clients -> Nat]
        /\ \A d \in Clients : got'[d] <= sent[d]
    BY <2>1
  <2>5. from' \subseteq Clients /\ wpc' \in {"parse", "recv"}
    BY <2>1
  <2>6. UNCHANGED <<request, client, sent, inbox, failed, process, fdtab, queue, afd, wfd, sendVars>>
    BY <1>7 DEF Recv
  <2> QED BY <2>2, <2>3, <2>4, <2>5, <2>6
<1>8. CASE RecvFails
  BY <1>8 DEF RecvFails
<1>9. CASE CloseFailed
  <2>1. wfd \in Fds
    BY <1>9 DEF CloseFailed, WorkerAt, WorkerInv
  <2>2. fdtab' \in [Fds -> Clients \union {Free, Listen, Picture}]
    BY <1>9, <2>1 DEF CloseFailed, Close
  <2>3. failed' \subseteq Clients
    BY <1>9 DEF CloseFailed
  <2> QED BY <1>9, <2>2, <2>3 DEF CloseFailed
<1>10. CASE Respond
  <2>1. response' \in Responses /\ sending' \in Seq(BOOLEAN)
    BY <1>10, RouteType, SendsType DEF Respond
  <2>2. /\ fdtab' \in [Fds -> Clients \union {Free, Listen, Picture}]
        /\ process' \in {process, "killed"}
    BY <1>10, LowestIsFree DEF Respond
  <2> QED BY <1>10, <2>1, <2>2 DEF Respond
<1>11. CASE SendPart
  <2>1. sending' \in Seq(BOOLEAN)
    <3>1. sending # <<>> /\ sending' = Tail(sending)
      BY <1>11, SendDelivers
    <3> QED BY <3>1
  <2>2. Part \in Responded
    <3>1. HeaderComplete(header) \in BOOLEAN
      BY Zenon DEF HeaderComplete
    <3> QED BY <3>1 DEF Responded, Part
  <2>3. /\ client' \in [Clients -> {"idle", "backlog", "open", "closed", "reset"}]
        /\ process' \in {process, "killed"}
    BY <1>11, SendDelivers
  <2>4. inbox' \in [Clients -> SUBSET Responded]
    <3>1. CASE UNCHANGED inbox
      BY <3>1
    <3>2. CASE \E c \in Clients : inbox' = [inbox EXCEPT ![c] = inbox[c] \union {Part}]
      BY <2>2, <3>2
    <3>3. \/ UNCHANGED inbox
          \/ \E c \in Clients : inbox' = [inbox EXCEPT ![c] = inbox[c] \union {Part}]
      BY <1>11, SendDelivers
    <3> QED BY <3>1, <3>2, <3>3
  <2>5. UNCHANGED <<request, sent, got, failed, fdtab, queue, afd, wpc, wfd, readVars, response>>
    BY <1>11, SendDelivers
  <2> QED BY <2>1, <2>3, <2>4, <2>5
<1>12. CASE Finish
  <2>1. wfd \in Fds
    BY <1>12 DEF Finish, WorkerAt, WorkerInv
  <2>2. fdtab' \in [Fds -> Clients \union {Free, Listen, Picture}]
    BY <1>12, <2>1 DEF Finish, Close
  <2>3. sending' \in Seq(BOOLEAN) /\ header' \in Seq(Bytes) /\ last' \in 0 .. BufSize
    BY <1>12, ServerAssumption DEF Finish
  <2>4. response' \in Responses
    BY <1>12 DEF Finish, Responses
  <2> QED BY <1>12, <2>2, <2>3, <2>4, ZeroBufZero DEF Finish
<1>13. CASE \E c \in Clients : Connect(c)
  <2> PICK c \in Clients : Connect(c)
    BY <1>13
  <2>1. PICK r \in Requests : request' = [request EXCEPT ![c] = r]
    BY DEF Connect
  <2>2. /\ client' \in [Clients -> {"idle", "backlog", "open", "closed", "reset"}]
        /\ request' \in [Clients -> Requests \union {<<>>}]
    BY <2>1 DEF Connect
  <2>3. sent[c] = 0 /\ 0 <= Len(r)
    BY <2>1, RequestType DEF Connect, ClientInv
  <2>4. \A d \in Clients : sent[d] <= Len(request'[d])
    BY <2>1, <2>3
  <2> QED BY <2>2, <2>4 DEF Connect
<1>14. CASE \E c \in Clients : Send(c)
  <2> PICK c \in Clients : Send(c)
    BY <1>14
  <2>1. PICK n \in {p \in Pieces : p < Len(request[c])} \union {Len(request[c])} :
          n > sent[c] /\ sent' = [sent EXCEPT ![c] = n]
    BY DEF Send
  <2>2. n \in Nat /\ n <= Len(request[c]) /\ got[c] <= n
    BY <2>1, RequestsSent, ServerAssumption
  <2> QED BY <2>1, <2>2 DEF Send
<1>15. CASE \E c \in Clients : HangUp(c)
  BY <1>15 DEF HangUp
<1>16. CASE \E c \in Clients : Break(c)
  BY <1>16 DEF Break
<1>17. CASE UNCHANGED vars
  BY <1>17 DEF vars
<1> QED
  BY <1>1, <1>2, <1>3, <1>4, <1>5, <1>6, <1>7, <1>8, <1>9, <1>10, <1>11, <1>12, <1>13, <1>14, <1>15, <1>16, <1>17
  DEF Next, AcceptLoop, Worker, ClientStep

(* No step breaks WorkerInv.                                                *)
LEMMA WorkerStep ==
  ASSUME TypeOK, WorkerInv, [Next]_vars
  PROVE  WorkerInv'
<1> USE DEF WorkerInv, clientVars, readVars, sendVars, workerVars
<1>1. CASE Startup
  BY <1>1 DEF Startup
<1>2. CASE StartupFails
  BY <1>2 DEF StartupFails
<1>3. CASE AcceptFails
  BY <1>3 DEF AcceptFails
<1>4. CASE Enqueue
  BY <1>4 DEF Enqueue, Close
<1>5. CASE \E c \in Clients : Accept(c)
  BY <1>5 DEF Accept
<1>6. CASE Take
  <2>1. wfd' \in Fds
    BY <1>6 DEF Take, TypeOK
  <2>2. ~HeaderComplete(header)
    BY <1>6 DEF Take, WorkerAt, HeaderComplete
  <2> QED BY <1>6, <2>1, <2>2, NoFdIsNone DEF Take, WorkerAt
<1>7. CASE Recv
  <2>1. PICK c \in Clients, n \in Nat, piece \in Seq(Bytes) :
          /\ wfd \in Fds /\ Len(piece) = n
          /\ header' = header \o piece
          /\ last' = n
          /\ from' = from \union {c}
          /\ HeaderComplete(header') => wpc' = "parse"
          /\ ~HeaderComplete(header') => wpc' = "recv"
    BY <1>7, RecvReads
  <2>2. last' <= Len(header')
    <3>1. header \in Seq(Bytes) /\ Len(header) \in Nat
      BY DEF TypeOK
    <3>2. Len(header') = Len(header) + n
      BY <2>1, <3>1, JoinType
    <3> QED BY <2>1, <3>1, <3>2
  <2>3. process = "running" /\ wfd # NoFd
    BY <1>7, <2>1, NoFdIsNone DEF Recv, WorkerAt
  <2>4. UNCHANGED <<process, wfd>>
    BY <1>7 DEF Recv
  <2>5. wpc' \in {"parse", "recv"} /\ (wpc' = "recv" => ~HeaderComplete(header'))
    BY <2>1
  <2>6. from' # {}
    BY <2>1
  <2> QED BY <2>2, <2>3, <2>4, <2>5, <2>6
<1>8. CASE RecvFails
  BY <1>8 DEF RecvFails, WorkerAt
<1>9. CASE CloseFailed
  BY <1>9 DEF CloseFailed, WorkerAt, Close
<1>10. CASE Respond
  BY <1>10 DEF Respond, WorkerAt
<1>11. CASE SendPart
  BY <1>11, SendDelivers
<1>12. CASE Finish
  <2>1. ~HeaderComplete(header')
    BY <1>12 DEF Finish, HeaderComplete
  <2> QED BY <1>12, <2>1 DEF Finish, WorkerAt
<1>13. CASE \E c \in Clients : Connect(c)
  BY <1>13 DEF Connect
<1>14. CASE \E c \in Clients : Send(c)
  BY <1>14 DEF Send
<1>15. CASE \E c \in Clients : HangUp(c)
  BY <1>15 DEF HangUp
<1>16. CASE \E c \in Clients : Break(c)
  BY <1>16 DEF Break
<1>17. CASE UNCHANGED vars
  BY <1>17 DEF vars
<1> QED
  BY <1>1, <1>2, <1>3, <1>4, <1>5, <1>6, <1>7, <1>8, <1>9, <1>10, <1>11, <1>12, <1>13, <1>14, <1>15, <1>16, <1>17
  DEF Next, AcceptLoop, Worker, ClientStep

(* No step breaks ClientInv.                                                *)
LEMMA ClientStepInv ==
  ASSUME TypeOK, WorkerInv, ClientInv, [Next]_vars
  PROVE  ClientInv'
<1> USE DEF ClientInv, Owners, Owner, clientVars, readVars, sendVars, workerVars
<1>1. CASE Startup
  <2>1. fdtab' = [fdtab EXCEPT ![Lowest] = Listen] /\ fdtab \in [Fds -> Clients \union {Free, Listen, Picture}]
    BY <1>1 DEF Startup, TypeOK
  <2> QED BY <1>1, <2>1, NotClient DEF Startup
<1>2. CASE StartupFails
  BY <1>2 DEF StartupFails
<1>3. CASE AcceptFails
  BY <1>3 DEF AcceptFails
<1>4. CASE Enqueue
  <2>1. fdtab' = fdtab \/ fdtab' = [fdtab EXCEPT ![afd] = Free]
    BY <1>4 DEF Enqueue, Close
  <2>2. fdtab \in [Fds -> Clients \union {Free, Listen, Picture}]
    BY DEF TypeOK
  <2> QED BY <1>4, <2>1, <2>2, NotClient DEF Enqueue
<1>5. CASE \E c \in Clients : Accept(c)
  <2> PICK c \in Clients : Accept(c)
    BY <1>5
  <2>1. fdtab' = [fdtab EXCEPT ![Lowest] = c]
    BY DEF Accept
  <2>2. fdtab \in [Fds -> Clients \union {Free, Listen, Picture}]
    BY DEF TypeOK
  <2>3. client[c] = "backlog" /\ client' = [client EXCEPT ![c] = "open"]
        /\ client \in [Clients -> {"idle", "backlog", "open", "closed", "reset"}]
    BY DEF Accept, TypeOK
  <2>4. \A f \in Fds : fdtab[f] # c
    BY <2>3
  <2> QED BY <2>1, <2>2, <2>3, <2>4 DEF Accept
<1>6. CASE Take
  BY <1>6 DEF Take
<1>7. CASE Recv
  <2>1. PICK c \in Clients : wfd \in Fds /\ Owner(wfd) = c /\ from' = from \union {c}
    BY <1>7, RecvReads
  <2>2. client[c] \notin {"idle", "backlog"}
    BY <2>1
  <2>3. UNCHANGED <<client, sent, inbox, fdtab>>
    BY <1>7 DEF Recv
  <2> QED BY <2>1, <2>2, <2>3
<1>8. CASE RecvFails
  BY <1>8 DEF RecvFails
<1>9. CASE CloseFailed
  <2>1. fdtab' = [fdtab EXCEPT ![wfd] = Free] /\ fdtab \in [Fds -> Clients \union {Free, Listen, Picture}]
    BY <1>9 DEF CloseFailed, Close, TypeOK
  <2> QED BY <1>9, <2>1, NotClient DEF CloseFailed
<1>10. CASE Respond
  <2>1. fdtab' = fdtab \/ fdtab' = [fdtab EXCEPT ![Lowest] = Picture]
    BY <1>10 DEF Respond
  <2>2. fdtab \in [Fds -> Clients \union {Free, Listen, Picture}]
    BY DEF TypeOK
  <2> QED BY <1>10, <2>1, <2>2, NotClient DEF Respond
<1>11. CASE SendPart
  <2>1. UNCHANGED <<sent, fdtab, from>>
    BY <1>11, SendDelivers
  <2>2. \A c \in Clients : client'[c] \in {"idle", "backlog"} => client'[c] = client[c]
    <3>1. \/ UNCHANGED client
          \/ \E c \in Clients : client' = [client EXCEPT ![c] = "reset"]
      BY <1>11, SendDelivers
    <3> QED BY <3>1 DEF TypeOK
  <2>3. wfd \in Fds
    BY <1>11, SendDelivers DEF TypeOK, WorkerInv
  <2>4. \A c \in Clients : inbox'[c] # inbox[c] => c = Owner(wfd)
    <3>1. \/ UNCHANGED inbox
          \/ \E c \in Clients : /\ c = Owner(wfd)
                                /\ inbox' = [inbox EXCEPT ![c] = inbox[c] \union {Part}]
      BY <1>11, SendDelivers
    <3> QED BY <3>1 DEF TypeOK
  <2> QED BY <2>1, <2>2, <2>3, <2>4
<1>12. CASE Finish
  <2>1. fdtab' = [fdtab EXCEPT ![wfd] = Free] /\ fdtab \in [Fds -> Clients \union {Free, Listen, Picture}]
    BY <1>12 DEF Finish, Close, TypeOK
  <2> QED BY <1>12, <2>1, NotClient DEF Finish
<1>13. CASE \E c \in Clients : Connect(c)
  <2> PICK c \in Clients : Connect(c)
    BY <1>13
  <2> QED BY DEF Connect, TypeOK
<1>14. CASE \E c \in Clients : Send(c)
  BY <1>14 DEF Send, TypeOK
<1>15. CASE \E c \in Clients : HangUp(c)
  BY <1>15 DEF HangUp, TypeOK
<1>16. CASE \E c \in Clients : Break(c)
  BY <1>16 DEF Break, TypeOK
<1>17. CASE UNCHANGED vars
  BY <1>17 DEF vars
<1> QED
  BY <1>1, <1>2, <1>3, <1>4, <1>5, <1>6, <1>7, <1>8, <1>9, <1>10, <1>11, <1>12, <1>13, <1>14, <1>15, <1>16, <1>17
  DEF Next, AcceptLoop, Worker, ClientStep

(* Two pieces that follow each other are one.                                *)
LEMMA Glue ==
  ASSUME NEW r \in Seq(Bytes), NEW g \in Nat, NEW n \in Nat, g + n <= Len(r)
  PROVE  SubSeq(r, 1, g) \o SubSeq(r, g + 1, g + n) = SubSeq(r, 1, g + n)
OBVIOUS

(* No step breaks ReadInv.                                                  *)
LEMMA ReadStep ==
  ASSUME TypeOK, WorkerInv, ClientInv, ReadInv, [Next]_vars
  PROVE  ReadInv'
<1> USE DEF ReadInv, Owner, clientVars, readVars, sendVars, workerVars
<1>1. CASE Startup
  <2>1. fdtab' = [fdtab EXCEPT ![Lowest] = Listen] /\ fdtab \in [Fds -> Clients \union {Free, Listen, Picture}]
    BY <1>1 DEF Startup, TypeOK
  <2> QED BY <1>1, <2>1, NotClient DEF Startup
<1>2. CASE StartupFails
  BY <1>2 DEF StartupFails
<1>3. CASE AcceptFails
  BY <1>3 DEF AcceptFails
<1>4. CASE Enqueue
  <2>1. fdtab' = fdtab \/ fdtab' = [fdtab EXCEPT ![afd] = Free]
    BY <1>4 DEF Enqueue, Close
  <2>2. fdtab \in [Fds -> Clients \union {Free, Listen, Picture}]
    BY DEF TypeOK
  <2> QED BY <1>4, <2>1, <2>2, NotClient DEF Enqueue
<1>5. CASE \E c \in Clients : Accept(c)
  <2> PICK c \in Clients : Accept(c)
    BY <1>5
  <2>1. fdtab' = [fdtab EXCEPT ![Lowest] = c] /\ fdtab \in [Fds -> Clients \union {Free, Listen, Picture}]
    BY DEF Accept, TypeOK
  <2>2. ~(got[c] > 0)
    <3>1. sent[c] = 0
      BY DEF Accept, ClientInv
    <3> QED BY <3>1, RequestsSent
  <2>3. UNCHANGED <<request, got, from, header, wfd>>
    BY DEF Accept
  <2> QED BY <2>1, <2>2, <2>3
<1>6. CASE Take
  <2>1. UNCHANGED <<request, got, fdtab, header, from>> /\ wpc = "idle"
    BY <1>6 DEF Take, WorkerAt
  <2>2. wfd \notin Fds
    BY <2>1, NoFdIsNone DEF WorkerInv
  <2> QED BY <2>1, <2>2
<1>7. CASE Recv
  <2>1. PICK c \in Clients, n \in Nat, piece \in Seq(Bytes) :
          /\ wfd \in Fds /\ Owner(wfd) = c
          /\ 0 < n /\ n <= BufSize /\ got[c] + n <= sent[c]
          /\ piece = SubSeq(request[c], got[c] + 1, got[c] + n) /\ Len(piece) = n
          /\ header' = header \o piece
          /\ got' = [got EXCEPT ![c] = got[c] + n]
          /\ from' = from \union {c}
    BY <1>7, RecvReads
  <2>2. UNCHANGED <<request, fdtab, wfd>>
    BY <1>7 DEF Recv
  <2>3. ASSUME NEW f \in Fds, fdtab'[f] \in Clients, got'[fdtab'[f]] > 0
        PROVE  f = wfd' /\ fdtab'[f] \in from'
    <3>1. CASE fdtab[f] = c
      BY <2>1, <2>2, <3>1 DEF ClientInv
    <3>2. CASE fdtab[f] # c
      <4>1. got[fdtab[f]] > 0
        BY <2>1, <2>2, <2>3, <3>2 DEF TypeOK
      <4> QED BY <2>1, <2>2, <2>3, <4>1
    <3> QED BY <3>1, <3>2
  <2>4. ASSUME NEW d \in Clients, from' = {d}
        PROVE  header' = SubSeq(request'[d], 1, got'[d])
    <3>1. d = c /\ (from = {} \/ from = {c})
      BY <2>1, <2>4 DEF TypeOK
    <3>2. got'[c] = got[c] + n
      BY <2>1 DEF TypeOK
    <3>3. header = SubSeq(request[c], 1, got[c])
      <4>1. CASE from = {c}
        BY <4>1
      <4>2. CASE from = {}
        <5>1. got[c] = 0
          <6>1. ~(got[c] > 0)
          BY <2>1, <4>2
        <6> QED BY <6>1, RequestsSent
        <5>2. header = <<>>
          BY <4>2 DEF WorkerInv
        <5>3. SubSeq(request[c], 1, 0) = <<>>
          BY RequestsSent
        <5> QED BY <5>1, <5>2, <5>3
      <4> QED BY <3>1, <4>1, <4>2
    <3>4. /\ request[c] \in Seq(Bytes) /\ got[c] \in Nat
          /\ n \in Nat /\ got[c] + n <= Len(request[c])
      <4>1. /\ got[c] \in Nat /\ sent[c] \in Nat /\ Len(request[c]) \in Nat
            /\ sent[c] <= Len(request[c]) /\ request[c] \in Seq(Bytes)
        BY RequestsSent
      <4>2. got[c] + n <= sent[c] /\ n \in Nat
        BY <2>1
      <4>3. PICK l \in Nat : l = Len(request[c])
        BY <4>1
      <4> QED BY <4>1, <4>2, <4>3
    <3>5. SubSeq(request[c], 1, got[c]) \o SubSeq(request[c], got[c] + 1, got[c] + n)
            = SubSeq(request[c], 1, got[c] + n)
      BY <3>4, Glue
    <3>6. header' = SubSeq(request[c], 1, got[c] + n)
      BY <2>1, <3>3, <3>5, Zenon
    <3> QED BY <2>2, <3>1, <3>2, <3>6
  <2> QED BY <2>3, <2>4
<1>8. CASE RecvFails
  BY <1>8 DEF RecvFails
<1>9. CASE CloseFailed
  <2>1. fdtab' = [fdtab EXCEPT ![wfd] = Free] /\ fdtab \in [Fds -> Clients \union {Free, Listen, Picture}]
    BY <1>9 DEF CloseFailed, Close, TypeOK
  <2> QED BY <1>9, <2>1, NotClient DEF CloseFailed
<1>10. CASE Respond
  <2>1. fdtab' = fdtab \/ fdtab' = [fdtab EXCEPT ![Lowest] = Picture]
    BY <1>10 DEF Respond
  <2>2. fdtab \in [Fds -> Clients \union {Free, Listen, Picture}]
    BY DEF TypeOK
  <2> QED BY <1>10, <2>1, <2>2, NotClient DEF Respond
<1>11. CASE SendPart
  <2>1. UNCHANGED <<request, got, fdtab, wfd, header, from>>
    BY <1>11, SendDelivers
  <2> QED BY <2>1
<1>12. CASE Finish
  <2>1. fdtab' = [fdtab EXCEPT ![wfd] = Free] /\ fdtab \in [Fds -> Clients \union {Free, Listen, Picture}]
    BY <1>12 DEF Finish, Close, TypeOK
  <2>2. UNCHANGED got /\ from' = {}
    BY <1>12 DEF Finish
  <2> QED BY <2>1, <2>2, NotClient
<1>13. CASE \E c \in Clients : Connect(c)
  <2> PICK c \in Clients : Connect(c)
    BY <1>13
  <2>1. c \notin from
    BY DEF Connect, ClientInv
  <2>2. \A d \in Clients : d # c => request'[d] = request[d]
    BY DEF Connect, TypeOK
  <2>3. UNCHANGED <<got, fdtab, wfd, header, from>>
    BY DEF Connect
  <2> QED BY <2>1, <2>2, <2>3
<1>14. CASE \E c \in Clients : Send(c)
  BY <1>14 DEF Send
<1>15. CASE \E c \in Clients : HangUp(c)
  BY <1>15 DEF HangUp
<1>16. CASE \E c \in Clients : Break(c)
  BY <1>16 DEF Break
<1>17. CASE UNCHANGED vars
  BY <1>17 DEF vars
<1> QED
  BY <1>1, <1>2, <1>3, <1>4, <1>5, <1>6, <1>7, <1>8, <1>9, <1>10, <1>11, <1>12, <1>13, <1>14, <1>15, <1>16, <1>17
  DEF Next, AcceptLoop, Worker, ClientStep

(* Only CloseFailed changes failed.                                         *)
LEMMA FailedSame ==
  ASSUME [Next]_vars, ~CloseFailed
  PROVE  UNCHANGED failed
<1> USE DEF clientVars, readVars, sendVars, workerVars
<1>1. CASE Startup
  BY <1>1 DEF Startup
<1>2. CASE StartupFails
  BY <1>2 DEF StartupFails
<1>3. CASE AcceptFails
  BY <1>3 DEF AcceptFails
<1>4. CASE Enqueue
  BY <1>4 DEF Enqueue
<1>5. CASE \E c \in Clients : Accept(c)
  BY <1>5 DEF Accept
<1>6. CASE Take
  BY <1>6 DEF Take
<1>7. CASE Recv
  BY <1>7 DEF Recv
<1>8. CASE RecvFails
  BY <1>8 DEF RecvFails
<1>9. CASE Respond
  BY <1>9 DEF Respond
<1>10. CASE SendPart
  BY <1>10, SendDelivers
<1>11. CASE Finish
  BY <1>11 DEF Finish
<1>12. CASE \E c \in Clients : Connect(c)
  BY <1>12 DEF Connect
<1>13. CASE \E c \in Clients : Send(c)
  BY <1>13 DEF Send
<1>14. CASE \E c \in Clients : HangUp(c)
  BY <1>14 DEF HangUp
<1>15. CASE \E c \in Clients : Break(c)
  BY <1>15 DEF Break
<1>16. CASE UNCHANGED vars
  BY <1>16 DEF vars
<1> QED
  BY <1>1, <1>2, <1>3, <1>4, <1>5, <1>6, <1>7, <1>8, <1>9, <1>10, <1>11, <1>12, <1>13, <1>14, <1>15, <1>16
  DEF Next, AcceptLoop, Worker, ClientStep

(* failed stays empty until handle_request closes a client's descriptor, and   *)
(* never gets empty again.                                                  *)
LEMMA StillNone ==
  ASSUME WorkerInv, WholeInv, [Next]_vars, failed' = {}
  PROVE  failed = {} /\ ~CloseFailed
<1>1. CASE CloseFailed
  <2>1. failed # {} => failed' # {}
    BY <1>1 DEF CloseFailed
  <2>2. failed = {} => failed' # {}
    <3>1. wfd # NoFd
      BY <1>1 DEF CloseFailed, WorkerAt, WorkerInv
    <3> QED BY <1>1, <3>1 DEF CloseFailed, WholeInv, OwnRequest
  <2> QED BY <2>1, <2>2
<1>2. CASE ~CloseFailed
  <2>1. UNCHANGED failed
    BY <1>2, FailedSame
  <2> QED BY <1>2, <2>1
<1> QED BY <1>1, <1>2

(* A client that is gone before its header was read stays so: it is not read  *)
(* again unless a recv() is waiting for it.                                 *)
LEMMA EarlyStays ==
  ASSUME TypeOK, WorkerInv, [Next]_vars, NEW c \in Clients, EarlyHangUp(c),
         wpc = "recv" => Owner(wfd) # c
  PROVE  EarlyHangUp(c)'
<1> USE DEF EarlyHangUp, clientVars, readVars, sendVars, workerVars
<1>1. CASE Startup
  <2>1. UNCHANGED <<request, client, got>>
    BY <1>1 DEF Startup
  <2> QED BY <2>1
<1>2. CASE StartupFails
  <2>1. UNCHANGED <<request, client, got>>
    BY <1>2 DEF StartupFails
  <2> QED BY <2>1
<1>3. CASE AcceptFails
  <2>1. UNCHANGED <<request, client, got>>
    BY <1>3 DEF AcceptFails
  <2> QED BY <2>1
<1>4. CASE Enqueue
  <2>1. UNCHANGED <<request, client, got>>
    BY <1>4 DEF Enqueue
  <2> QED BY <2>1
<1>5. CASE \E d \in Clients : Accept(d)
  <2> PICK d \in Clients : Accept(d)
    BY <1>5
  <2>1. UNCHANGED <<request, got>> /\ client'[c] = client[c]
    BY DEF Accept, TypeOK
  <2> QED BY <2>1
<1>6. CASE Take
  <2>1. UNCHANGED <<request, client, got>>
    BY <1>6 DEF Take
  <2> QED BY <2>1
<1>7. CASE Recv
  <2>1. PICK d \in Clients, n \in Nat : Owner(wfd) = d /\ got' = [got EXCEPT ![d] = got[d] + n]
    BY <1>7, RecvReads
  <2>2. UNCHANGED <<request, client>> /\ wpc = "recv"
    BY <1>7 DEF Recv, WorkerAt
  <2>3. got'[c] = got[c]
    BY <2>1, <2>2 DEF TypeOK
  <2> QED BY <2>2, <2>3
<1>8. CASE RecvFails
  <2>1. UNCHANGED <<request, client, got>>
    BY <1>8 DEF RecvFails
  <2> QED BY <2>1
<1>9. CASE CloseFailed
  <2>1. UNCHANGED <<request, client, got>>
    BY <1>9 DEF CloseFailed
  <2> QED BY <2>1
<1>10. CASE Respond
  <2>1. UNCHANGED <<request, client, got>>
    BY <1>10 DEF Respond
  <2> QED BY <2>1
<1>11. CASE SendPart
  <2>1. UNCHANGED <<request, got>>
    BY <1>11, SendDelivers
  <2>2. \/ UNCHANGED client
        \/ \E d \in Clients : client' = [client EXCEPT ![d] = "reset"]
    BY <1>11, SendDelivers
  <2>3. client'[c] \in {"closed", "reset"}
    BY <2>2 DEF TypeOK
  <2> QED BY <2>1, <2>3
<1>12. CASE Finish
  <2>1. UNCHANGED <<request, client, got>>
    BY <1>12 DEF Finish
  <2> QED BY <2>1
<1>13. CASE \E d \in Clients : Connect(d)
  <2> PICK d \in Clients : Connect(d)
    BY <1>13
  <2>1. UNCHANGED got /\ request'[c] = request[c] /\ client'[c] \in {"closed", "reset"}
    BY DEF Connect, TypeOK
  <2> QED BY <2>1
<1>14. CASE \E d \in Clients : Send(d)
  <2> PICK d \in Clients : Send(d)
    BY <1>14
  <2>1. UNCHANGED got /\ request'[c] = request[c] /\ client'[c] \in {"closed", "reset"}
    BY DEF Send, TypeOK
  <2> QED BY <2>1
<1>15. CASE \E d \in Clients : HangUp(d)
  <2> PICK d \in Clients : HangUp(d)
    BY <1>15
  <2>1. UNCHANGED got /\ request'[c] = request[c] /\ client'[c] \in {"closed", "reset"}
    BY DEF HangUp, TypeOK
  <2> QED BY <2>1
<1>16. CASE \E d \in Clients : Break(d)
  <2> PICK d \in Clients : Break(d)
    BY <1>16
  <2>1. UNCHANGED got /\ request'[c] = request[c] /\ client'[c] \in {"closed", "reset"}
    BY DEF Break, TypeOK
  <2> QED BY <2>1
<1>17. CASE UNCHANGED vars
  <2>1. UNCHANGED <<request, client, got>>
    BY <1>17 DEF vars
  <2> QED BY <2>1
<1> QED
  BY <1>1, <1>2, <1>3, <1>4, <1>5, <1>6, <1>7, <1>8, <1>9, <1>10, <1>11, <1>12, <1>13, <1>14, <1>15, <1>16, <1>17
  DEF Next, AcceptLoop, Worker, ClientStep

(* As long as no descriptor was closed too early, what is in the queue is in   *)
(* it once, and still open on the client it was accepted for.               *)
LEMMA QueueStep ==
  ASSUME TypeOK, WorkerInv, QueueApart, OwnRequest, [Next]_vars, ~CloseFailed
  PROVE  QueueApart'
<1> USE DEF QueueApart, Owner, clientVars, readVars, sendVars, workerVars
<1>1. CASE Startup
  <2>1. FreeFds # {}
    <3>1. 1 \in Fds
      BY ServerAssumption DEF Fds
    <3> QED BY <1>1, <3>1 DEF Startup, WorkerInv, FreeFds
  <2>2. Lowest \in Fds /\ fdtab[Lowest] = Free
    BY <2>1, LowestIsFree
  <2>3. fdtab' = [fdtab EXCEPT ![Lowest] = Listen] /\ UNCHANGED <<queue, afd, wfd>>
    BY <1>1 DEF Startup
  <2>4. \A i \in 1 .. Len(queue) : queue[i] \in Fds /\ queue[i] # Lowest
    BY <2>2, NotClient DEF TypeOK
  <2>5. afd # NoFd => afd \in Fds /\ afd # Lowest
    BY <2>2, NotClient DEF TypeOK
  <2> HIDE DEF Lowest
  <2> QED BY <2>2, <2>3, <2>4, <2>5 DEF TypeOK
<1>2. CASE StartupFails
  <2>1. UNCHANGED <<fdtab, queue, afd, wfd>>
    BY <1>2 DEF StartupFails
  <2> QED BY <2>1
<1>3. CASE AcceptFails
  <2>1. UNCHANGED <<fdtab, queue, afd, wfd>>
    BY <1>3 DEF AcceptFails
  <2> QED BY <2>1
<1>4. CASE Enqueue
  <2>1. afd \in Fds /\ afd # NoFd /\ afd' = NoFd /\ Owner(afd) \in Clients /\ afd # wfd /\ UNCHANGED wfd
    BY <1>4 DEF Enqueue, TypeOK
  <2>2. queue \in Seq(Fds) /\ fdtab \in [Fds -> Clients \union {Free, Listen, Picture}]
    BY DEF TypeOK
  <2>3. CASE queue' = Append(queue, afd) /\ UNCHANGED fdtab
    <3>1. /\ Len(queue) \in Nat /\ Len(queue') = Len(queue) + 1
          /\ queue'[Len(queue) + 1] = afd
          /\ \A i \in 1 .. Len(queue) : queue'[i] = queue[i] /\ queue[i] \in Fds
      BY <2>1, <2>2, <2>3
    <3>2. \A i \in 1 .. Len(queue') : i \in 1 .. Len(queue) \/ i = Len(queue) + 1
      BY <3>1
    <3>3. \A i, j \in 1 .. Len(queue') : queue'[i] = queue'[j] => i = j
      <4> SUFFICES ASSUME NEW i \in 1 .. Len(queue'), NEW j \in 1 .. Len(queue'), queue'[i] = queue'[j]
                   PROVE  i = j
        OBVIOUS
      <4> QED BY <3>1, <3>2
    <3>4. \A i \in 1 .. Len(queue') : fdtab'[queue'[i]] \in Clients /\ queue'[i] \notin {afd', wfd'}
      <4> SUFFICES ASSUME NEW i \in 1 .. Len(queue')
                   PROVE  fdtab'[queue'[i]] \in Clients /\ queue'[i] \notin {afd', wfd'}
        OBVIOUS
      <4>1. CASE i \in 1 .. Len(queue)
        BY <2>1, <2>3, <3>1, <4>1, NoFdIsNone
      <4>2. CASE i = Len(queue) + 1
        BY <2>1, <2>3, <3>1, <4>2, NoFdIsNone
      <4> QED BY <3>2, <4>1, <4>2
    <3> QED BY <2>1, <3>3, <3>4
  <2>4. CASE fdtab' = [fdtab EXCEPT ![afd] = Free] /\ UNCHANGED queue
    BY <2>1, <2>2, <2>4, NoFdIsNone
  <2>5. \/ queue' = Append(queue, afd) /\ UNCHANGED fdtab
        \/ fdtab' = [fdtab EXCEPT ![afd] = Free] /\ UNCHANGED queue
    BY <1>4 DEF Enqueue, Close
  <2> QED BY <2>3, <2>4, <2>5
<1>5. CASE \E c \in Clients : Accept(c)
  <2> PICK c \in Clients : Accept(c)
    BY <1>5
  <2>1. /\ afd = NoFd /\ FreeFds # {} /\ afd' = Lowest
        /\ fdtab' = [fdtab EXCEPT ![Lowest] = c] /\ UNCHANGED <<queue, wfd>>
    BY DEF Accept
  <2>2. Lowest \in Fds /\ fdtab[Lowest] = Free
    BY <2>1, LowestIsFree
  <2>3. \A i \in 1 .. Len(queue) : queue[i] \in Fds /\ queue[i] # Lowest
    BY <2>2, NotClient DEF TypeOK
  <2>4. wfd # Lowest
    BY <2>2, NotClient, NoFdIsNone DEF OwnRequest
  <2> HIDE DEF Lowest
  <2> QED BY <2>1, <2>2, <2>3, <2>4 DEF TypeOK
<1>6. CASE Take
  <2>1. queue # <<>> /\ wfd' = Head(queue) /\ queue' = Tail(queue) /\ UNCHANGED <<fdtab, afd>>
    BY <1>6 DEF Take
  <2>2. queue \in Seq(Fds)
    BY DEF TypeOK
  <2>3. /\ Len(queue) \in Nat /\ 1 \in 1 .. Len(queue) /\ wfd' = queue[1]
        /\ Len(queue') = Len(queue) - 1
        /\ \A i \in 1 .. Len(queue') : i + 1 \in 1 .. Len(queue) /\ i + 1 # 1 /\ queue'[i] = queue[i + 1]
    BY <2>1, <2>2
  <2>4. \A i, j \in 1 .. Len(queue') : queue'[i] = queue'[j] => i = j
    <3> SUFFICES ASSUME NEW i \in 1 .. Len(queue'), NEW j \in 1 .. Len(queue'), queue'[i] = queue'[j]
                 PROVE  i = j
      OBVIOUS
    <3>1. i + 1 = j + 1
      BY <2>3
    <3> QED BY <2>3, <3>1
  <2>5. \A i \in 1 .. Len(queue') : fdtab'[queue'[i]] \in Clients /\ queue'[i] \notin {afd', wfd'}
    BY <2>1, <2>3
  <2>6. afd' # NoFd => fdtab'[afd'] \in Clients /\ afd' # wfd'
    BY <2>1, <2>3
  <2> QED BY <2>4, <2>5, <2>6
<1>7. CASE Recv
  <2>1. UNCHANGED <<fdtab, queue, afd, wfd>>
    BY <1>7 DEF Recv
  <2> QED BY <2>1
<1>8. CASE RecvFails
  <2>1. UNCHANGED <<fdtab, queue, afd, wfd>>
    BY <1>8 DEF RecvFails
  <2> QED BY <2>1
<1>9. CASE CloseFailed
  BY <1>9
<1>10. CASE Respond
  <2>1. \/ UNCHANGED fdtab
        \/ FreeFds # {} /\ fdtab' = [fdtab EXCEPT ![Lowest] = Picture]
    BY <1>10 DEF Respond
  <2>2. UNCHANGED <<queue, afd, wfd>>
    BY <1>10 DEF Respond
  <2>3. CASE UNCHANGED fdtab
    BY <2>2, <2>3
  <2>4. CASE FreeFds # {} /\ fdtab' = [fdtab EXCEPT ![Lowest] = Picture]
    <3>1. Lowest \in Fds /\ fdtab[Lowest] = Free
      BY <2>4, LowestIsFree
    <3>2. \A i \in 1 .. Len(queue) : queue[i] \in Fds /\ queue[i] # Lowest
      BY <3>1, NotClient DEF TypeOK
    <3>3. afd # NoFd => afd \in Fds /\ afd # Lowest
      BY <3>1, NotClient DEF TypeOK
    <3> QED BY <2>2, <2>4, <3>1, <3>2, <3>3 DEF TypeOK
  <2> QED BY <2>1, <2>3, <2>4
<1>11. CASE SendPart
  <2>1. UNCHANGED <<fdtab, queue, afd, wfd>>
    BY <1>11, SendDelivers
  <2> QED BY <2>1
<1>12. CASE Finish
  <2>1. fdtab' = [fdtab EXCEPT ![wfd] = Free] /\ UNCHANGED <<queue, afd>> /\ wfd' = NoFd
    BY <1>12 DEF Finish, Close
  <2>2. \A i \in 1 .. Len(queue) : queue[i] \in Fds
    BY DEF TypeOK
  <2> QED BY <2>1, <2>2, NoFdIsNone DEF TypeOK
<1>13. CASE \E c \in Clients : Connect(c)
  <2>1. UNCHANGED <<fdtab, queue, afd, wfd>>
    BY <1>13 DEF Connect
  <2> QED BY <2>1
<1>14. CASE \E c \in Clients : Send(c)
  <2>1. UNCHANGED <<fdtab, queue, afd, wfd>>
    BY <1>14 DEF Send
  <2> QED BY <2>1
<1>15. CASE \E c \in Clients : HangUp(c)
  <2>1. UNCHANGED <<fdtab, queue, afd, wfd>>
    BY <1>15 DEF HangUp
  <2> QED BY <2>1
<1>16. CASE \E c \in Clients : Break(c)
  <2>1. UNCHANGED <<fdtab, queue, afd, wfd>>
    BY <1>16 DEF Break
  <2> QED BY <2>1
<1>17. CASE UNCHANGED vars
  <2>1. UNCHANGED <<fdtab, queue, afd, wfd>>
    BY <1>17 DEF vars
  <2> QED BY <2>1
<1> QED
  BY <1>1, <1>2, <1>3, <1>4, <1>5, <1>6, <1>7, <1>8, <1>9, <1>10, <1>11, <1>12, <1>13, <1>14, <1>15, <1>16, <1>17
  DEF Next, AcceptLoop, Worker, ClientStep

(* As long as no descriptor was closed too early, the worker reads and         *)
(* answers the client its descriptor belongs to, and a recv() that failed    *)
(* means that this client is gone too early.                                *)
LEMMA OwnStep ==
  ASSUME TypeOK, WorkerInv, ClientInv, ReadInv, QueueApart, OwnRequest, [Next]_vars, ~CloseFailed
  PROVE  OwnRequest'
<1> USE DEF clientVars, readVars, sendVars, workerVars
<1> DEFINE Gone(c) == /\ client'[c] \in {"closed", "reset"}
                      /\ ~HeaderComplete(SubSeq(request'[c], 1, got'[c]))
<1>a. wfd # NoFd => wfd \in Fds /\ fdtab[wfd] \in Clients /\ from \subseteq {fdtab[wfd]}
  BY DEF TypeOK, OwnRequest, Owner
<1>c. EarlyHangUp(Owner(wfd))' <=> Gone(fdtab'[wfd'])
  BY DEF EarlyHangUp, Owner
<1>b. ASSUME UNCHANGED <<wpc, wfd, from, inbox>>, wfd # NoFd => fdtab'[wfd] = fdtab[wfd]
      PROVE  OwnRequest'
  <2>1. wpc = "close" => Gone(fdtab[wfd])
    <3> SUFFICES ASSUME wpc = "close" PROVE Gone(fdtab[wfd])
      OBVIOUS
    <3> PICK c \in Clients : c = fdtab[wfd]
      BY <1>a DEF WorkerInv
    <3>1. EarlyHangUp(c)
      BY DEF OwnRequest, Owner
    <3>2. EarlyHangUp(c)'
      BY <3>1, EarlyStays
    <3> QED BY <3>2 DEF EarlyHangUp
  <2>2. wpc' = "close" => Gone(fdtab'[wfd'])
    BY <1>b, <2>1 DEF WorkerInv
  <2>3. wpc' = "close" => EarlyHangUp(Owner(wfd))'
    BY <1>c, <2>2
  <2> HIDE DEF Gone
  <2> QED BY <1>a, <1>b, <2>3 DEF OwnRequest, Owner
<1>1. CASE Startup
  <2>1. FreeFds # {}
    <3>1. 1 \in Fds
      BY ServerAssumption DEF Fds
    <3> QED BY <1>1, <3>1 DEF Startup, WorkerInv, FreeFds
  <2>2. Lowest \in Fds /\ fdtab[Lowest] = Free
    BY <2>1, LowestIsFree
  <2>3. fdtab' = [fdtab EXCEPT ![Lowest] = Listen] /\ UNCHANGED <<wpc, wfd, from, inbox>>
    BY <1>1 DEF Startup
  <2>4. wfd # NoFd => fdtab'[wfd] = fdtab[wfd]
    BY <2>2, <2>3, <1>a, NotClient DEF TypeOK
  <2> QED BY <2>3, <2>4, <1>b
<1>2. CASE StartupFails
  <2>1. UNCHANGED <<fdtab, wpc, wfd, from, inbox>>
    BY <1>2 DEF StartupFails
  <2> QED BY <2>1, <1>b
<1>3. CASE AcceptFails
  <2>1. UNCHANGED <<fdtab, wpc, wfd, from, inbox>>
    BY <1>3 DEF AcceptFails
  <2> QED BY <2>1, <1>b
<1>4. CASE Enqueue
  <2>1. afd # NoFd /\ UNCHANGED <<wpc, wfd, from, inbox>>
    BY <1>4 DEF Enqueue
  <2>2. UNCHANGED fdtab \/ fdtab' = [fdtab EXCEPT ![afd] = Free]
    BY <1>4 DEF Enqueue, Close
  <2>3. wfd # NoFd => fdtab'[wfd] = fdtab[wfd]
    BY <2>1, <2>2, <1>a DEF TypeOK, QueueApart
  <2> QED BY <2>1, <2>3, <1>b
<1>5. CASE \E c \in Clients : Accept(c)
  <2> PICK c \in Clients : Accept(c)
    BY <1>5
  <2>1. FreeFds # {} /\ fdtab' = [fdtab EXCEPT ![Lowest] = c] /\ UNCHANGED <<wpc, wfd, from, inbox>>
    BY DEF Accept
  <2>2. Lowest \in Fds /\ fdtab[Lowest] = Free
    BY <2>1, LowestIsFree
  <2>3. wfd # NoFd => fdtab'[wfd] = fdtab[wfd]
    BY <2>1, <2>2, <1>a, NotClient DEF TypeOK
  <2> QED BY <2>1, <2>3, <1>b
<1>6. CASE Take
  <2>1. /\ queue # <<>> /\ wfd' = Head(queue) /\ wpc = "idle" /\ wpc' = "recv"
        /\ UNCHANGED <<fdtab, from, inbox>>
    BY <1>6 DEF Take, WorkerAt
  <2>2. queue \in Seq(Fds)
    BY DEF TypeOK
  <2>3. 1 \in 1 .. Len(queue) /\ wfd' = queue[1]
    BY <2>1, <2>2
  <2>4. from' = {} /\ fdtab'[wfd'] \in Clients
    BY <2>1, <2>3 DEF WorkerInv, QueueApart, Owner
  <2> QED BY <2>1, <2>4 DEF OwnRequest, Owner
<1>7. CASE Recv
  <2>1. /\ wfd \in Fds /\ from' = from \union {fdtab[wfd]} /\ fdtab[wfd] \in Clients
        /\ wpc' \in {"parse", "recv"}
    BY <1>7, RecvReads DEF Owner
  <2>2. UNCHANGED <<fdtab, wfd, inbox>>
    BY <1>7 DEF Recv
  <2> QED BY <1>a, <2>1, <2>2, NoFdIsNone DEF OwnRequest, Owner
<1>8. CASE RecvFails
  <2>1. wpc = "recv" /\ wpc' = "close" /\ UNCHANGED <<request, client, got, fdtab, wfd, from, inbox>>
    BY <1>8 DEF RecvFails, WorkerAt
  <2>2. wfd # NoFd
    BY <2>1 DEF WorkerInv
  <2> PICK c \in Clients : c = fdtab[wfd]
    BY <1>a, <2>2
  <2>3. client[c] \in {"closed", "reset"}
    BY <1>8 DEF RecvFails, Owner
  <2>4. ~HeaderComplete(SubSeq(request[c], 1, got[c]))
    <3>1. CASE from = {}
      <4>1. got[c] = 0
        <5>1. ~(got[c] > 0)
          BY <3>1, <1>a, <2>2 DEF ReadInv, Owner
        <5> QED BY <5>1, RequestsSent
      <4>2. SubSeq(request[c], 1, 0) = <<>>
        BY RequestsSent
      <4>3. ~HeaderComplete(<<>>)
        BY DEF HeaderComplete
      <4> QED BY <4>1, <4>2, <4>3
    <3>2. CASE from = {c}
      BY <2>1, <3>2 DEF ReadInv, WorkerInv
    <3> QED BY <1>a, <2>2, <3>1, <3>2
  <2>5. Gone(fdtab'[wfd'])
    BY <2>1, <2>3, <2>4
  <2> HIDE DEF Gone
  <2> QED BY <1>c, <1>a, <2>1, <2>5 DEF OwnRequest, Owner
<1>9. CASE CloseFailed
  BY <1>9
<1>10. CASE Respond
  <2>1. /\ wpc = "parse" /\ wpc' = "send" /\ UNCHANGED <<wfd, from, inbox>>
        /\ \/ UNCHANGED fdtab
           \/ FreeFds # {} /\ fdtab' = [fdtab EXCEPT ![Lowest] = Picture]
    BY <1>10 DEF Respond, WorkerAt
  <2>2. wfd # NoFd => fdtab'[wfd] = fdtab[wfd]
    <3>1. CASE UNCHANGED fdtab
      BY <3>1
    <3>2. CASE FreeFds # {} /\ fdtab' = [fdtab EXCEPT ![Lowest] = Picture]
      <4>1. Lowest \in Fds /\ fdtab[Lowest] = Free
        BY <3>2, LowestIsFree
      <4> QED BY <3>2, <4>1, <1>a, NotClient DEF TypeOK
    <3> QED BY <2>1, <3>1, <3>2
  <2>3. wfd' # NoFd => fdtab'[wfd'] \in Clients /\ from' \subseteq {fdtab'[wfd']}
    BY <1>a, <2>1, <2>2
  <2>4. from' # {}
    BY <2>1 DEF OwnRequest
  <2> QED BY <2>1, <2>3, <2>4 DEF OwnRequest, Owner
<1>11. CASE SendPart
  <2>1. wpc = "send" /\ UNCHANGED <<fdtab, wpc, wfd, from>>
    BY <1>11, SendDelivers
  <2>2. \/ UNCHANGED inbox
        \/ \E c \in Clients : /\ c = Owner(wfd)
                              /\ inbox' = [inbox EXCEPT ![c] = inbox[c] \union {Part}]
    BY <1>11, SendDelivers
  <2>3. wfd # NoFd /\ from # {} /\ from \subseteq {Owner(wfd)}
    BY <2>1 DEF WorkerInv, OwnRequest
  <2>4. Part.from = from
    BY DEF Part
  <2>5. \A c \in Clients : \A r \in inbox'[c] : r.from = {c}
    <3> HIDE DEF Gone
    <3>1. CASE UNCHANGED inbox
      BY <3>1 DEF OwnRequest
    <3>2. ASSUME NEW c \in Clients, c = Owner(wfd), inbox' = [inbox EXCEPT ![c] = inbox[c] \union {Part}]
          PROVE  \A d \in Clients : \A r \in inbox'[d] : r.from = {d}
      <4>1. Part.from = {c}
        BY <2>3, <2>4, <3>2
      <4>2. \A d \in Clients : \A r \in inbox'[d] : r \in inbox[d] \/ (d = c /\ r = Part)
        BY <3>2 DEF TypeOK
      <4> QED BY <4>1, <4>2 DEF OwnRequest
    <3> QED BY <2>2, <3>1, <3>2
  <2> QED BY <1>a, <2>1, <2>3, <2>5 DEF OwnRequest, Owner
<1>12. CASE Finish
  <2>1. wfd' = NoFd /\ wpc' = "idle" /\ UNCHANGED inbox
    BY <1>12 DEF Finish
  <2> QED BY <2>1 DEF OwnRequest
<1>13. CASE \E c \in Clients : Connect(c)
  <2>1. UNCHANGED <<fdtab, wpc, wfd, from, inbox>>
    BY <1>13 DEF Connect
  <2> QED BY <2>1, <1>b
<1>14. CASE \E c \in Clients : Send(c)
  <2>1. UNCHANGED <<fdtab, wpc, wfd, from, inbox>>
    BY <1>14 DEF Send
  <2> QED BY <2>1, <1>b
<1>15. CASE \E c \in Clients : HangUp(c)
  <2>1. UNCHANGED <<fdtab, wpc, wfd, from, inbox>>
    BY <1>15 DEF HangUp
  <2> QED BY <2>1, <1>b
<1>16. CASE \E c \in Clients : Break(c)
  <2>1. UNCHANGED <<fdtab, wpc, wfd, from, inbox>>
    BY <1>16 DEF Break
  <2> QED BY <2>1, <1>b
<1>17. CASE UNCHANGED vars
  <2>1. UNCHANGED <<fdtab, wpc, wfd, from, inbox>>
    BY <1>17 DEF vars
  <2> QED BY <2>1, <1>b
<1> QED
  BY <1>1, <1>2, <1>3, <1>4, <1>5, <1>6, <1>7, <1>8, <1>9, <1>10, <1>11, <1>12, <1>13, <1>14, <1>15, <1>16, <1>17
  DEF Next, AcceptLoop, Worker, ClientStep

(* A client gets a descriptor by being accepted, not otherwise.              *)
LEMMA NotOwnedAgain ==
  ASSUME TypeOK, [Next]_vars, NEW c \in Clients, c \notin Owners, client[c] # "backlog"
  PROVE  c \notin Owners'
<1> USE DEF Owners, Owner, clientVars, readVars, sendVars, workerVars
<1>1. CASE Startup
  <2>1. UNCHANGED fdtab \/ fdtab' = [fdtab EXCEPT ![Lowest] = Listen]
    BY <1>1 DEF Startup, Close
  <2> QED BY <2>1, NotClient DEF TypeOK
<1>2. CASE StartupFails
  <2>1. UNCHANGED fdtab
    BY <1>2 DEF StartupFails
  <2> QED BY <2>1
<1>3. CASE AcceptFails
  <2>1. UNCHANGED fdtab
    BY <1>3 DEF AcceptFails
  <2> QED BY <2>1
<1>4. CASE Enqueue
  <2>1. UNCHANGED fdtab \/ fdtab' = [fdtab EXCEPT ![afd] = Free]
    BY <1>4 DEF Enqueue, Close
  <2> QED BY <2>1, NotClient DEF TypeOK
<1>5. CASE \E d \in Clients : Accept(d)
  <2> PICK d \in Clients : Accept(d)
    BY <1>5
  <2>1. fdtab' = [fdtab EXCEPT ![Lowest] = d] /\ d # c
    BY DEF Accept
  <2> QED BY <2>1 DEF TypeOK
<1>6. CASE Take
  <2>1. UNCHANGED fdtab
    BY <1>6 DEF Take
  <2> QED BY <2>1
<1>7. CASE Recv
  <2>1. UNCHANGED fdtab
    BY <1>7 DEF Recv
  <2> QED BY <2>1
<1>8. CASE RecvFails
  <2>1. UNCHANGED fdtab
    BY <1>8 DEF RecvFails
  <2> QED BY <2>1
<1>9. CASE CloseFailed
  <2>1. UNCHANGED fdtab \/ fdtab' = [fdtab EXCEPT ![wfd] = Free]
    BY <1>9 DEF CloseFailed, Close
  <2> QED BY <2>1, NotClient DEF TypeOK
<1>10. CASE Respond
  <2>1. UNCHANGED fdtab \/ fdtab' = [fdtab EXCEPT ![Lowest] = Picture]
    BY <1>10 DEF Respond, Close
  <2> QED BY <2>1, NotClient DEF TypeOK
<1>11. CASE SendPart
  <2>1. UNCHANGED fdtab
    BY <1>11, SendDelivers
  <2> QED BY <2>1
<1>12. CASE Finish
  <2>1. UNCHANGED fdtab \/ fdtab' = [fdtab EXCEPT ![wfd] = Free]
    BY <1>12 DEF Finish, Close
  <2> QED BY <2>1, NotClient DEF TypeOK
<1>13. CASE \E d \in Clients : Connect(d)
  <2>1. UNCHANGED fdtab
    BY <1>13 DEF Connect
  <2> QED BY <2>1
<1>14. CASE \E d \in Clients : Send(d)
  <2>1. UNCHANGED fdtab
    BY <1>14 DEF Send
  <2> QED BY <2>1
<1>15. CASE \E d \in Clients : HangUp(d)
  <2>1. UNCHANGED fdtab
    BY <1>15 DEF HangUp
  <2> QED BY <2>1
<1>16. CASE \E d \in Clients : Break(d)
  <2>1. UNCHANGED fdtab
    BY <1>16 DEF Break
  <2> QED BY <2>1
<1>17. CASE UNCHANGED vars
  <2>1. UNCHANGED fdtab
    BY <1>17 DEF vars
  <2> QED BY <2>1
<1> QED
  BY <1>1, <1>2, <1>3, <1>4, <1>5, <1>6, <1>7, <1>8, <1>9, <1>10, <1>11, <1>12, <1>13, <1>14, <1>15, <1>16, <1>17
  DEF Next, AcceptLoop, Worker, ClientStep

(* No step breaks BrokenInv.                                                *)
LEMMA BrokenStep ==
  ASSUME TypeOK, WorkerInv, ClientInv, WholeInv, BrokenInv, [Next]_vars
  PROVE  BrokenInv'
<1>1. CASE failed # {}
  <2>1. PICK c \in failed : EarlyHangUp(c) /\ c \notin Owners
    BY <1>1 DEF BrokenInv
  <2>2. c \in Clients /\ client[c] # "backlog"
    BY <2>1 DEF TypeOK, EarlyHangUp
  <2>3. wpc = "recv" => Owner(wfd) # c
    BY <2>1, NoFdIsNone DEF Owners, TypeOK, WorkerInv
  <2>4. EarlyHangUp(c)'
    BY <2>1, <2>2, <2>3, EarlyStays
  <2>5. c \notin Owners'
    BY <2>1, <2>2, NotOwnedAgain
  <2>6. failed' = failed
    <3>1. CASE CloseFailed
      BY <1>1, <3>1 DEF CloseFailed
    <3> QED BY <3>1, FailedSame
  <2> QED BY <2>1, <2>4, <2>5, <2>6 DEF BrokenInv
<1>2. CASE failed = {} /\ CloseFailed
  <2>1. wpc = "close" /\ wfd \in Fds /\ wfd # NoFd
    BY <1>2, NoFdIsNone DEF CloseFailed, WorkerAt, TypeOK, WorkerInv
  <2>2. Owner(wfd) \in Clients /\ EarlyHangUp(Owner(wfd))
    BY <1>2, <2>1 DEF WholeInv, OwnRequest
  <2> PICK c \in Clients : c = Owner(wfd)
    BY <2>2
  <2>3. EarlyHangUp(c)'
    BY <2>1, <2>2, EarlyStays
  <2>4. c \notin Owners'
    <3>1. fdtab' = [fdtab EXCEPT ![wfd] = Free]
      BY <1>2 DEF CloseFailed, Close
    <3> QED BY <2>1, <3>1, NotClient DEF Owners, Owner, ClientInv, TypeOK
  <2>5. failed' = {c}
    BY <1>2 DEF CloseFailed
  <2> QED BY <2>3, <2>4, <2>5 DEF BrokenInv
<1>3. CASE failed = {} /\ ~CloseFailed
  <2>1. failed' = {}
    BY <1>3, FailedSame
  <2> QED BY <2>1 DEF BrokenInv
<1> QED BY <1>1, <1>2, <1>3

(* No step breaks AnswerInv.                                                *)
LEMMA AnswerStep ==
  ASSUME TypeOK, WorkerInv, AnswerInv, [Next]_vars
  PROVE  AnswerInv'
<1> USE DEF AnswerInv, clientVars, readVars, sendVars, workerVars
<1>1. CASE Startup
  <2>1. UNCHANGED <<buf, header, last, wpc, response>>
    BY <1>1 DEF Startup
  <2> QED BY <2>1
<1>2. CASE StartupFails
  <2>1. UNCHANGED <<buf, header, last, wpc, response>>
    BY <1>2 DEF StartupFails
  <2> QED BY <2>1
<1>3. CASE AcceptFails
  <2>1. UNCHANGED <<buf, header, last, wpc, response>>
    BY <1>3 DEF AcceptFails
  <2> QED BY <2>1
<1>4. CASE Enqueue
  <2>1. UNCHANGED <<buf, header, last, wpc, response>>
    BY <1>4 DEF Enqueue
  <2> QED BY <2>1
<1>5. CASE \E c \in Clients : Accept(c)
  <2>1. UNCHANGED <<buf, header, last, wpc, response>>
    BY <1>5 DEF Accept
  <2> QED BY <2>1
<1>6. CASE Take
  <2>1. UNCHANGED <<buf, header, last>> /\ wpc' # "send"
    BY <1>6 DEF Take
  <2> QED BY <2>1
<1>7. CASE Recv
  <2>1. PICK n \in Nat :
          /\ last' = n
          /\ IF HeaderComplete(header') THEN buf' = HeaderCopy(header', n) /\ wpc' = "parse" ELSE wpc' = "recv"
    BY <1>7, RecvReads
  <2> QED BY <2>1
<1>8. CASE RecvFails
  <2>1. UNCHANGED <<buf, header, last>> /\ wpc' # "send"
    BY <1>8 DEF RecvFails
  <2> QED BY <2>1
<1>9. CASE CloseFailed
  <2>1. UNCHANGED <<buf, header, last>> /\ wpc' # "send"
    BY <1>9 DEF CloseFailed
  <2> QED BY <2>1
<1>10. CASE Respond
  <2>1. UNCHANGED <<buf, header, last>> /\ response' = Route(ParseRequestLine(buf, Min({Len(header), BufSize})))
    BY <1>10 DEF Respond
  <2> QED BY <2>1
<1>11. CASE SendPart
  <2>1. UNCHANGED <<buf, header, last, wpc, response>>
    BY <1>11, SendDelivers
  <2> QED BY <2>1
<1>12. CASE Finish
  <2>1. header' = <<>>
    BY <1>12 DEF Finish
  <2> QED BY <2>1 DEF HeaderComplete
<1>13. CASE \E c \in Clients : Connect(c)
  <2>1. UNCHANGED <<buf, header, last, wpc, response>>
    BY <1>13 DEF Connect
  <2> QED BY <2>1
<1>14. CASE \E c \in Clients : Send(c)
  <2>1. UNCHANGED <<buf, header, last, wpc, response>>
    BY <1>14 DEF Send
  <2> QED BY <2>1
<1>15. CASE \E c \in Clients : HangUp(c)
  <2>1. UNCHANGED <<buf, header, last, wpc, response>>
    BY <1>15 DEF HangUp
  <2> QED BY <2>1
<1>16. CASE \E c \in Clients : Break(c)
  <2>1. UNCHANGED <<buf, header, last, wpc, response>>
    BY <1>16 DEF Break
  <2> QED BY <2>1
<1>17. CASE UNCHANGED vars
  <2>1. UNCHANGED <<buf, header, last, wpc, response>>
    BY <1>17 DEF vars
  <2> QED BY <2>1
<1> QED
  BY <1>1, <1>2, <1>3, <1>4, <1>5, <1>6, <1>7, <1>8, <1>9, <1>10, <1>11, <1>12, <1>13, <1>14, <1>15, <1>16, <1>17
  DEF Next, AcceptLoop, Worker, ClientStep

(* No step leaves an open connection that nobody is going to handle.         *)
LEMMA DueStep ==
  ASSUME TypeOK, WorkerInv, EverySocketDue, [Next]_vars
  PROVE  EverySocketDue'
<1> USE DEF EverySocketDue, Owner, clientVars, readVars, sendVars, workerVars
<1>1. CASE Startup
  <2>1. UNCHANGED fdtab \/ fdtab' = [fdtab EXCEPT ![Lowest] = Listen]
    BY <1>1 DEF Startup, Close
  <2>2. UNCHANGED <<queue, afd, wfd>>
    BY <1>1 DEF Startup
  <2> QED BY <2>1, <2>2, NotClient DEF TypeOK
<1>2. CASE StartupFails
  <2>1. UNCHANGED <<fdtab, queue, afd, wfd>>
    BY <1>2 DEF StartupFails
  <2> QED BY <2>1
<1>3. CASE AcceptFails
  <2>1. UNCHANGED <<fdtab, queue, afd, wfd>>
    BY <1>3 DEF AcceptFails
  <2> QED BY <2>1
<1>4. CASE Enqueue
  <2>1. afd' = NoFd /\ UNCHANGED wfd
    BY <1>4 DEF Enqueue
  <2>2. queue \in Seq(Fds) /\ afd \in Fds
    BY <1>4 DEF Enqueue, TypeOK
  <2>3. CASE queue' = Append(queue, afd) /\ UNCHANGED fdtab
    <3>1. /\ Len(queue) \in Nat /\ Len(queue') = Len(queue) + 1
          /\ queue'[Len(queue) + 1] = afd
          /\ \A i \in 1 .. Len(queue) : queue'[i] = queue[i]
      BY <2>2, <2>3
    <3>2. Len(queue) + 1 \in 1 .. Len(queue') /\ \A i \in 1 .. Len(queue) : i \in 1 .. Len(queue')
      BY <3>1
    <3> QED BY <2>1, <2>3, <3>1, <3>2
  <2>4. CASE fdtab' = [fdtab EXCEPT ![afd] = Free] /\ UNCHANGED queue
    BY <2>1, <2>4, NotClient DEF TypeOK
  <2>5. \/ queue' = Append(queue, afd) /\ UNCHANGED fdtab
        \/ fdtab' = [fdtab EXCEPT ![afd] = Free] /\ UNCHANGED queue
    BY <1>4 DEF Enqueue, Close
  <2> QED BY <2>3, <2>4, <2>5
<1>5. CASE \E c \in Clients : Accept(c)
  <2> PICK c \in Clients : Accept(c)
    BY <1>5
  <2>1. afd = NoFd /\ afd' = Lowest /\ fdtab' = [fdtab EXCEPT ![Lowest] = c] /\ UNCHANGED <<queue, wfd>>
    BY DEF Accept
  <2> HIDE DEF Lowest
  <2> QED BY <2>1, NoFdIsNone DEF TypeOK
<1>6. CASE Take
  <2>1. /\ queue # <<>> /\ wfd' = Head(queue) /\ queue' = Tail(queue) /\ UNCHANGED <<fdtab, afd>>
        /\ wfd = NoFd
    BY <1>6 DEF Take, WorkerAt, WorkerInv
  <2>2. queue \in Seq(Fds)
    BY DEF TypeOK
  <2>3. /\ Len(queue) \in Nat /\ wfd' = queue[1] /\ Len(queue') = Len(queue) - 1
        /\ \A i \in 1 .. Len(queue) : i = 1 \/ (i - 1 \in 1 .. Len(queue') /\ queue'[i - 1] = queue[i])
    BY <2>1, <2>2
  <2> QED BY <2>1, <2>3, NoFdIsNone
<1>7. CASE Recv
  <2>1. UNCHANGED <<fdtab, queue, afd, wfd>>
    BY <1>7 DEF Recv
  <2> QED BY <2>1
<1>8. CASE RecvFails
  <2>1. UNCHANGED <<fdtab, queue, afd, wfd>>
    BY <1>8 DEF RecvFails
  <2> QED BY <2>1
<1>9. CASE CloseFailed
  <2>1. UNCHANGED fdtab \/ fdtab' = [fdtab EXCEPT ![wfd] = Free]
    BY <1>9 DEF CloseFailed, Close
  <2>2. UNCHANGED <<queue, afd, wfd>>
    BY <1>9 DEF CloseFailed
  <2> QED BY <2>1, <2>2, NotClient DEF TypeOK
<1>10. CASE Respond
  <2>1. UNCHANGED fdtab \/ fdtab' = [fdtab EXCEPT ![Lowest] = Picture]
    BY <1>10 DEF Respond, Close
  <2>2. UNCHANGED <<queue, afd, wfd>>
    BY <1>10 DEF Respond
  <2> QED BY <2>1, <2>2, NotClient DEF TypeOK
<1>11. CASE SendPart
  <2>1. UNCHANGED <<fdtab, queue, afd, wfd>>
    BY <1>11, SendDelivers
  <2> QED BY <2>1
<1>12. CASE Finish
  <2>1. fdtab' = [fdtab EXCEPT ![wfd] = Free] /\ UNCHANGED <<queue, afd>>
    BY <1>12 DEF Finish, Close
  <2> QED BY <2>1, NotClient DEF TypeOK
<1>13. CASE \E c \in Clients : Connect(c)
  <2>1. UNCHANGED <<fdtab, queue, afd, wfd>>
    BY <1>13 DEF Connect
  <2> QED BY <2>1
<1>14. CASE \E c \in Clients : Send(c)
  <2>1. UNCHANGED <<fdtab, queue, afd, wfd>>
    BY <1>14 DEF Send
  <2> QED BY <2>1
<1>15. CASE \E c \in Clients : HangUp(c)
  <2>1. UNCHANGED <<fdtab, queue, afd, wfd>>
    BY <1>15 DEF HangUp
  <2> QED BY <2>1
<1>16. CASE \E c \in Clients : Break(c)
  <2>1. UNCHANGED <<fdtab, queue, afd, wfd>>
    BY <1>16 DEF Break
  <2> QED BY <2>1
<1>17. CASE UNCHANGED vars
  <2>1. UNCHANGED <<fdtab, queue, afd, wfd>>
    BY <1>17 DEF vars
  <2> QED BY <2>1
<1> QED
  BY <1>1, <1>2, <1>3, <1>4, <1>5, <1>6, <1>7, <1>8, <1>9, <1>10, <1>11, <1>12, <1>13, <1>14, <1>15, <1>16, <1>17
  DEF Next, AcceptLoop, Worker, ClientStep

(* The response depends on the method and the url only.                      *)
LEMMA RouteReads ==
  ASSUME NEW a, NEW b, a.method = b.method, a.url = b.url
  PROVE  Route(a) = Route(b)
BY DEF Route

(* The part of a response that is about to be sent is right, if the copy of   *)
(* the header reached to the end of the url.                                *)
LEMMA PartIsRight ==
  ASSUME TypeOK, WorkerInv, ReadInv, AnswerInv, wpc = "send", NEW c \in Clients
  PROVE  Part.from = {c} /\ Part.complete /\ Part.last >= LineEnd(request[c])
           => Part.kind = Intended(request[c])
<1> SUFFICES ASSUME from = {c}, HeaderComplete(header), last >= LineEnd(request[c])
             PROVE  response = Intended(request[c])
  BY DEF Part
<1> PICK r : r = request[c]
  OBVIOUS
<1> PICK k : k = got[c]
  OBVIOUS
<1>1. /\ r \in Seq(Bytes) /\ Len(r) \in Nat /\ Len(r) <= BufSize
      /\ k \in Nat /\ k <= Len(r)
  <2>1. /\ r \in Seq(Bytes) /\ Len(r) \in Nat /\ Len(r) <= BufSize
        /\ k \in Nat /\ sent[c] \in Nat /\ k <= sent[c] /\ sent[c] <= Len(r)
    BY RequestsSent
  <2>2. PICK l \in Nat : l = Len(r)
    BY <2>1
  <2> QED BY <2>1, <2>2
<1>2. header = SubSeq(r, 1, k) /\ Len(header) = k
  <2>1. header = SubSeq(r, 1, k)
    BY DEF ReadInv
  <2>2. Len(SubSeq(r, 1, k)) = k
    BY <1>1
  <2> QED BY <2>1, <2>2
<1>3. last \in Nat /\ last <= k
  <2>1. last \in Nat
    BY ServerAssumption DEF TypeOK
  <2> QED BY <1>2, <2>1 DEF WorkerInv
<1>4. Min({Len(header), BufSize}) = k
  <2>1. BufSize \in Nat /\ k \in Nat /\ k <= BufSize
    BY <1>1, ServerAssumption
  <2>2. {k, BufSize} \subseteq Nat /\ k \in {k, BufSize} /\ \A y \in {k, BufSize} : k <= y
    BY <2>1
  <2>3. Min({k, BufSize}) = k
    BY <2>2, MinIsLeast
  <2> QED BY <1>2, <2>3
<1>5. response = Route(ParseRequestLine(HeaderCopy(SubSeq(r, 1, k), last), k))
  BY <1>2, <1>4 DEF AnswerInv
<1>6. LineEnd(r) <= last
  <2>1. LineEnd(r) \in Int
    BY <1>1, LineEndType
  <2> QED BY <1>3, <2>1
<1>7. /\ ParseRequestLine(HeaderCopy(SubSeq(r, 1, k), last), k).method = ParseRequestLine(r, Len(r)).method
      /\ ParseRequestLine(HeaderCopy(SubSeq(r, 1, k), last), k).url = ParseRequestLine(r, Len(r)).url
  <2>1. k \in 0 .. Len(r) /\ last \in 0 .. k
    BY <1>1, <1>3
  <2> QED BY <1>1, <1>6, <2>1, CopyReadsAlike
<1>8. response = Route(ParseRequestLine(r, Len(r)))
  BY <1>5, <1>7, RouteReads
<1> QED BY <1>8 DEF Intended

(* No step sends a wrong answer to a client whose last segment was long        *)
(* enough.                                                                  *)
LEMMA RightStep ==
  ASSUME TypeOK, WorkerInv, ClientInv, ReadInv, AnswerInv, RightWhenLongEnough, [Next]_vars
  PROVE  RightWhenLongEnough'
<1> USE DEF RightWhenLongEnough, clientVars, readVars, sendVars, workerVars
<1>1. CASE Startup
  <2>1. UNCHANGED <<request, inbox>>
    BY <1>1 DEF Startup
  <2> QED BY <2>1
<1>2. CASE StartupFails
  <2>1. UNCHANGED <<request, inbox>>
    BY <1>2 DEF StartupFails
  <2> QED BY <2>1
<1>3. CASE AcceptFails
  <2>1. UNCHANGED <<request, inbox>>
    BY <1>3 DEF AcceptFails
  <2> QED BY <2>1
<1>4. CASE Enqueue
  <2>1. UNCHANGED <<request, inbox>>
    BY <1>4 DEF Enqueue
  <2> QED BY <2>1
<1>5. CASE \E c \in Clients : Accept(c)
  <2>1. UNCHANGED <<request, inbox>>
    BY <1>5 DEF Accept
  <2> QED BY <2>1
<1>6. CASE Take
  <2>1. UNCHANGED <<request, inbox>>
    BY <1>6 DEF Take
  <2> QED BY <2>1
<1>7. CASE Recv
  <2>1. UNCHANGED <<request, inbox>>
    BY <1>7 DEF Recv
  <2> QED BY <2>1
<1>8. CASE RecvFails
  <2>1. UNCHANGED <<request, inbox>>
    BY <1>8 DEF RecvFails
  <2> QED BY <2>1
<1>9. CASE CloseFailed
  <2>1. UNCHANGED <<request, inbox>>
    BY <1>9 DEF CloseFailed
  <2> QED BY <2>1
<1>10. CASE Respond
  <2>1. UNCHANGED <<request, inbox>>
    BY <1>10 DEF Respond
  <2> QED BY <2>1
<1>11. CASE SendPart
  <2>1. wpc = "send" /\ UNCHANGED request
    BY <1>11, SendDelivers
  <2>2. \/ UNCHANGED inbox
        \/ \E c \in Clients : inbox' = [inbox EXCEPT ![c] = inbox[c] \union {Part}]
    BY <1>11, SendDelivers
  <2>3. CASE UNCHANGED inbox
    BY <2>1, <2>3
  <2>4. CASE \E c \in Clients : inbox' = [inbox EXCEPT ![c] = inbox[c] \union {Part}]
    <3> PICK c \in Clients : inbox' = [inbox EXCEPT ![c] = inbox[c] \union {Part}]
      BY <2>4
    <3>1. \A d \in Clients : \A r \in inbox'[d] : r \in inbox[d] \/ (d = c /\ r = Part)
      BY DEF TypeOK
    <3>2. Part.from = {c} /\ Part.complete /\ Part.last >= LineEnd(request[c])
            => Part.kind = Intended(request[c])
      BY <2>1, PartIsRight
    <3> HIDE DEF Part
    <3> QED BY <2>1, <3>1, <3>2
  <2> QED BY <2>2, <2>3, <2>4
<1>12. CASE Finish
  <2>1. UNCHANGED <<request, inbox>>
    BY <1>12 DEF Finish
  <2> QED BY <2>1
<1>13. CASE \E c \in Clients : Connect(c)
  <2> PICK c \in Clients : Connect(c)
    BY <1>13
  <2>1. inbox[c] = {} /\ UNCHANGED inbox
    BY DEF Connect, ClientInv
  <2>2. \A d \in Clients : d # c => request'[d] = request[d]
    BY DEF Connect, TypeOK
  <2> QED BY <2>1, <2>2
<1>14. CASE \E c \in Clients : Send(c)
  <2>1. UNCHANGED <<request, inbox>>
    BY <1>14 DEF Send
  <2> QED BY <2>1
<1>15. CASE \E c \in Clients : HangUp(c)
  <2>1. UNCHANGED <<request, inbox>>
    BY <1>15 DEF HangUp
  <2> QED BY <2>1
<1>16. CASE \E c \in Clients : Break(c)
  <2>1. UNCHANGED <<request, inbox>>
    BY <1>16 DEF Break
  <2> QED BY <2>1
<1>17. CASE UNCHANGED vars
  <2>1. UNCHANGED <<request, inbox>>
    BY <1>17 DEF vars
  <2> QED BY <2>1
<1> QED
  BY <1>1, <1>2, <1>3, <1>4, <1>5, <1>6, <1>7, <1>8, <1>9, <1>10, <1>11, <1>12, <1>13, <1>14, <1>15, <1>16, <1>17
  DEF Next, AcceptLoop, Worker, ClientStep

-----------------------------------------------------------------------------
(* Every step keeps the invariant.                                          *)
LEMMA StepInv ==
  ASSUME IInv, [Next]_vars
  PROVE  IInv'
<1> USE DEF IInv
<1>1. TypeOK' /\ WorkerInv' /\ ClientInv'
  BY TypeStep, WorkerStep, ClientStepInv
<1>2. ReadInv'
  BY ReadStep
<1>3. WholeInv'
  <2> SUFFICES ASSUME failed' = {} PROVE QueueApart' /\ OwnRequest'
    BY DEF WholeInv
  <2>1. failed = {} /\ ~CloseFailed
    BY StillNone
  <2>2. QueueApart /\ OwnRequest
    BY <2>1 DEF WholeInv
  <2> QED BY <2>1, <2>2, QueueStep, OwnStep
<1>4. BrokenInv'
  BY BrokenStep
<1>5. AnswerInv'
  BY AnswerStep
<1> QED BY <1>1, <1>2, <1>3, <1>4, <1>5

(* Whatever the clients send and in whatever order the two threads and the    *)
(* clients move, IInv holds, with it the types of all the variables.        *)
THEOREM Invariance == Spec => []IInv
<1>1. Init => IInv
  BY InitInv
<1>2. IInv /\ [Next]_vars => IInv'
  BY StepInv
<1> QED BY <1>1, <1>2, PTL DEF Spec

(* Every open connection is in the hands of the accept loop or the worker or   *)
(* waits in the queue, even after handle_request has closed a descriptor     *)
(* that others go on using.                                                 *)
THEOREM NoSocketForgotten == Spec => []EverySocketDue
<1>1. Init => EverySocketDue
  BY InitInv
<1>2. IInv /\ EverySocketDue /\ [Next]_vars => EverySocketDue'
  BY DueStep DEF IInv
<1> QED BY <1>1, <1>2, Invariance, PTL DEF Spec

(* Only a client that hangs up before its header was read sets the queue and    *)
(* the descriptor table apart.                                              *)
THEOREM OnlyEarlyHangUpsMix == Spec => []QueueMatchesTable
<1>1. IInv => QueueMatchesTable
  BY DEF IInv, WholeInv, BrokenInv, QueueMatchesTable, EarlyClose
<1> QED BY <1>1, Invariance, PTL

(* Unless a client hangs up that early, nobody gets an answer to somebody       *)
(* else's request.                                                          *)
THEOREM AnswersAreOwn == Spec => []OwnUnlessHangUp
<1>1. IInv => OwnUnlessHangUp
  BY DEF IInv, WholeInv, OwnRequest, BrokenInv, OwnUnlessHangUp, EarlyClose
<1> QED BY <1>1, Invariance, PTL

(* A client whose last segment reaches back over its request line is answered   *)
(* as it asked, in whatever pieces the rest came and whoever hung up.        *)
THEOREM LongLastSegmentIsEnough == Spec => []RightWhenLongEnough
<1>1. Init => RightWhenLongEnough
  BY InitInv
<1>2. IInv /\ RightWhenLongEnough /\ [Next]_vars => RightWhenLongEnough'
  BY RightStep DEF IInv
<1> QED BY <1>1, <1>2, Invariance, PTL DEF Spec
=============================================================================
