--------------------------- MODULE HttpClientProofs ---------------------------
(***************************************************************************)
(* Proofs that http_client and its network are clients of HttpServer, and    *)
(* that a patient program does the server no harm and is answered, for any   *)
(* number of connections, segments, strangers and descriptors.              *)
(***************************************************************************)
EXTENDS HttpClientInv, HttpServerProofs

(* A GET, token by token.                                                    *)
LEMMA RequestTokens ==
  ASSUME NEW S, NEW u \in Seq(S), {"GE", "T", "SP", "HTTP", "CRLF"} \subseteq S
  PROVE  LET r == Request(Get, u)
         IN  /\ Len(r) = Len(u) + 7
             /\ r[1] = "GE" /\ r[2] = "T" /\ r[3] = "SP"
             /\ \A j \in 1 .. Len(u) : r[3 + j] = u[j]
             /\ r[Len(u) + 4] = "SP" /\ r[Len(u) + 5] = "HTTP"
             /\ r[Len(u) + 6] = "CRLF" /\ r[Len(u) + 7] = "CRLF"
<1>0. "GE" \in S /\ "T" \in S /\ "SP" \in S /\ "HTTP" \in S /\ "CRLF" \in S
  OBVIOUS
<1>1. PICK g \in Seq(S) : g = <<"GE", "T">>
  <2>1. <<"GE", "T">> \in Seq(S)
    BY <1>0
  <2> QED BY <2>1, Zenon
<1>2. PICK p \in Seq(S) : p = <<"SP">>
  <2>1. <<"SP">> \in Seq(S)
    BY <1>0
  <2> QED BY <2>1, Zenon
<1>3. PICK t \in Seq(S) : t = <<"SP", "HTTP", "CRLF", "CRLF">>
  <2>1. <<"SP", "HTTP", "CRLF", "CRLF">> \in Seq(S)
    BY <1>0
  <2> QED BY <2>1, Zenon
<1>4. PICK x \in Seq(S) : x = g \o p
  <2>1. g \o p \in Seq(S)
    OBVIOUS
  <2> QED BY <2>1, Zenon
<1>5. Len(x) = 3 /\ x[1] = "GE" /\ x[2] = "T" /\ x[3] = "SP"
  BY <1>1, <1>2, <1>4
<1>6. PICK y \in Seq(S) : y = x \o u
  <2>1. x \o u \in Seq(S)
    OBVIOUS
  <2> QED BY <2>1, Zenon
<1>7. /\ Len(y) = Len(u) + 3 /\ y[1] = "GE" /\ y[2] = "T" /\ y[3] = "SP"
      /\ \A j \in 1 .. Len(u) : y[3 + j] = u[j]
  <2>1. /\ Len(y) = Len(x) + Len(u)
        /\ \A j \in 1 .. Len(x) : y[j] = x[j]
        /\ \A j \in 1 .. Len(u) : y[Len(x) + j] = u[j]
    BY <1>6
  <2>2. Len(u) \in Nat
    OBVIOUS
  <2>3. y[1] = x[1] /\ y[2] = x[2] /\ y[3] = x[3]
    BY <1>5, <2>1
  <2> QED BY <1>5, <2>1, <2>2, <2>3
<1>8. PICK r : r = y \o t
  OBVIOUS
<1>9. /\ Len(r) = Len(u) + 7
      /\ \A j \in 1 .. Len(u) + 3 : r[j] = y[j]
      /\ r[Len(u) + 4] = "SP" /\ r[Len(u) + 5] = "HTTP"
      /\ r[Len(u) + 6] = "CRLF" /\ r[Len(u) + 7] = "CRLF"
  BY <1>3, <1>7, <1>8
<1>10. Request(Get, u) = r
  BY <1>1, <1>2, <1>3, <1>4, <1>6, <1>8, Zenon DEF Request, Get
<1>11. /\ r[1] = "GE" /\ r[2] = "T" /\ r[3] = "SP"
       /\ \A j \in 1 .. Len(u) : r[3 + j] = u[j]
  BY <1>7, <1>9
<1> QED BY <1>9, <1>10, <1>11

(* The requests of the program.                                              *)
LEMMA AsksTokens ==
  /\ Len(Asks(0)) = 9
  /\ \A j \in 1 .. 9 : Asks(0)[j] \in {"GE", "T", "SP", "/", "1.jpg", "HTTP", "CRLF"}
  /\ \A n \in {1, 2} :
        /\ Len(Asks(n)) = 12
        /\ \A j \in {1, 2, 4, 5, 6, 7, 8} :
              Asks(n)[j] \in {"GE", "T", "/", "set", "_params", "?", "cover=0", "cover=1"}
        /\ Asks(n)[3] = "SP" /\ Asks(n)[9] = "SP" /\ Asks(n)[10] = "HTTP"
        /\ Asks(n)[11] = "CRLF" /\ Asks(n)[12] = "CRLF"
        /\ Asks(n)[1] = "GE" /\ Asks(n)[2] = "T"
        /\ Asks(n)[4] = "/" /\ Asks(n)[5] = "set" /\ Asks(n)[6] = "_params"
        /\ Asks(n)[7] = "?"
<1> DEFINE S == {"GE", "T", "SP", "HTTP", "CRLF", "/", "1.jpg", "set", "_params", "?",
                 "cover=0", "cover=1"}
<1>1. {"GE", "T", "SP", "HTTP", "CRLF"} \subseteq S
  OBVIOUS
<1>2. /\ Asks(0) = Request(Get, <<"/", "1.jpg">>)
      /\ Asks(1) = Request(Get, SetParams \o <<"?", "cover=0">>)
      /\ Asks(2) = Request(Get, SetParams \o <<"?", "cover=1">>)
  BY DEF Asks
<1>0. /\ "/" \in S /\ "1.jpg" \in S /\ "set" \in S /\ "_params" \in S
      /\ "?" \in S /\ "cover=0" \in S /\ "cover=1" \in S
  OBVIOUS
<1> HIDE DEF S
<1>3. PICK u \in Seq(S) : u = <<"/", "1.jpg">>
  <2>1. <<"/", "1.jpg">> \in Seq(S)
    BY <1>0
  <2> QED BY <2>1, Zenon
<1>4. Len(u) = 2 /\ u[1] = "/" /\ u[2] = "1.jpg"
  BY <1>3
<1>5. ASSUME NEW w \in {"cover=0", "cover=1"}
      PROVE  \E v \in Seq(S) :
               /\ v = SetParams \o <<"?", w>> /\ Len(v) = 5
               /\ v[1] = "/" /\ v[2] = "set" /\ v[3] = "_params" /\ v[4] = "?" /\ v[5] = w
  <2>1. PICK p \in Seq(S) : p = SetParams /\ p = <<"/", "set", "_params">>
    <3>1. <<"/", "set", "_params">> \in Seq(S)
      BY <1>0
    <3> QED BY <3>1, Zenon DEF SetParams
  <2>2. PICK q \in Seq(S) : q = <<"?", w>>
    <3>1. w \in S
      BY <1>0
    <3>2. <<"?", w>> \in Seq(S)
      BY <1>0, <3>1
    <3> QED BY <3>2, Zenon
  <2>3. PICK v \in Seq(S) : v = p \o q
    <3>1. p \o q \in Seq(S)
      OBVIOUS
    <3> QED BY <3>1, Zenon
  <2>4. /\ Len(v) = 5
        /\ v[1] = "/" /\ v[2] = "set" /\ v[3] = "_params" /\ v[4] = "?" /\ v[5] = w
    BY <2>1, <2>2, <2>3
  <2> QED BY <2>1, <2>2, <2>3, <2>4
<1>6. /\ Len(Asks(0)) = 9
      /\ Asks(0)[1] = "GE" /\ Asks(0)[2] = "T" /\ Asks(0)[3] = "SP"
      /\ Asks(0)[4] = "/" /\ Asks(0)[5] = "1.jpg" /\ Asks(0)[6] = "SP"
      /\ Asks(0)[7] = "HTTP" /\ Asks(0)[8] = "CRLF" /\ Asks(0)[9] = "CRLF"
  <2> PICK r : r = Request(Get, u)
    OBVIOUS
  <2>1. /\ Len(r) = Len(u) + 7
        /\ r[1] = "GE" /\ r[2] = "T" /\ r[3] = "SP"
        /\ \A j \in 1 .. Len(u) : r[3 + j] = u[j]
        /\ r[Len(u) + 4] = "SP" /\ r[Len(u) + 5] = "HTTP"
        /\ r[Len(u) + 6] = "CRLF" /\ r[Len(u) + 7] = "CRLF"
    BY <1>1, RequestTokens
  <2>2. r[4] = u[1] /\ r[5] = u[2]
    BY <1>4, <2>1
  <2>3. r = Asks(0)
    BY <1>2, <1>3
  <2> QED BY <1>4, <2>1, <2>2, <2>3
<1>7. ASSUME NEW w \in {"cover=0", "cover=1"}, NEW r, r = Request(Get, SetParams \o <<"?", w>>)
      PROVE  /\ Len(r) = 12
             /\ r[1] = "GE" /\ r[2] = "T" /\ r[3] = "SP" /\ r[4] = "/" /\ r[5] = "set"
             /\ r[6] = "_params" /\ r[7] = "?" /\ r[8] = w /\ r[9] = "SP" /\ r[10] = "HTTP"
             /\ r[11] = "CRLF" /\ r[12] = "CRLF"
  <2>1. PICK v \in Seq(S) :
          /\ v = SetParams \o <<"?", w>> /\ Len(v) = 5
          /\ v[1] = "/" /\ v[2] = "set" /\ v[3] = "_params" /\ v[4] = "?" /\ v[5] = w
    BY <1>5
  <2>2. /\ Len(r) = Len(v) + 7
        /\ r[1] = "GE" /\ r[2] = "T" /\ r[3] = "SP"
        /\ \A j \in 1 .. Len(v) : r[3 + j] = v[j]
        /\ r[Len(v) + 4] = "SP" /\ r[Len(v) + 5] = "HTTP"
        /\ r[Len(v) + 6] = "CRLF" /\ r[Len(v) + 7] = "CRLF"
    BY <1>1, <1>7, <2>1, RequestTokens
  <2>3. r[4] = v[1] /\ r[5] = v[2] /\ r[6] = v[3] /\ r[7] = v[4] /\ r[8] = v[5]
    BY <2>1, <2>2
  <2> QED BY <2>1, <2>2, <2>3
<1>8. \A j \in 1 .. 9 : Asks(0)[j] \in {"GE", "T", "SP", "/", "1.jpg", "HTTP", "CRLF"}
  BY <1>6
<1> QED BY <1>2, <1>6, <1>7, <1>8

(* There are three of them, and the server knows them.                       *)
LEMMA AsksThree ==
  ASSUME NEW n \in Nat
  PROVE  Asks(n) \in Requests /\ Asks(n) \in {Asks(0), Asks(1), Asks(2)}
<1>1. n % 3 \in 0 .. 2
  OBVIOUS
<1>2. Asks(n) \in {Asks(0), Asks(1), Asks(2)}
  BY <1>1 DEF Asks
<1>3. Asks(0) \in Requests /\ Asks(1) \in Requests /\ Asks(2) \in Requests
  BY ClientAssumption
<1> QED BY <1>2, <1>3

(* A text begins as the bytes do from which it is taken, and so does a path.   *)
LEMMA TextBegins ==
  ASSUME NEW s \in Seq(Bytes)
  PROVE  /\ Text(s) \in Seq(Bytes) /\ Len(Text(s)) <= Len(s)
         /\ \A j \in 1 .. Len(Text(s)) : Text(s)[j] = s[j]
<1> DEFINE Z == {j \in 1 .. Len(s) : s[j] = Nul}
<1>1. Text(s) = IF Z = {} THEN s ELSE IF Min(Z) = 0 THEN s ELSE SubSeq(s, 1, Min(Z) - 1)
  BY DEF Text, SelectInSeq
<1>2. CASE Z = {}
  BY <1>1, <1>2
<1>3. CASE Z # {}
  <2>1. PICK z \in Z : \A j \in Z : z <= j
    <3>1. Z \subseteq Nat
      OBVIOUS
    <3> HIDE DEF Z
    <3> QED BY <1>3, <3>1, Least
  <2>2. z \in 1 .. Len(s) /\ Z \subseteq Nat
    OBVIOUS
  <2> HIDE DEF Z
  <2>3. Min(Z) = z
    BY <2>1, <2>2, MinIsLeast
  <2>4. Text(s) = SubSeq(s, 1, z - 1)
    BY <1>1, <1>3, <2>2, <2>3
  <2> QED BY <2>2, <2>4
<1> QED BY <1>2, <1>3

(* As TextBegins, of a path in a url.                                        *)
LEMMA PathBegins ==
  ASSUME NEW s \in Seq(Bytes)
  PROVE  /\ Len(Path(s)) \in Nat /\ Len(Path(s)) <= Len(s)
         /\ \A j \in 1 .. Len(Path(s)) : Path(s)[j] = s[j]
<1> DEFINE Q == {j \in 1 .. Len(s) : s[j] = "?"}
<1>1. Path(s) = IF Q = {} THEN s ELSE IF Min(Q) = 0 THEN s ELSE SubSeq(s, 1, Min(Q) - 1)
  BY DEF Path, SelectInSeq
<1>2. CASE Q = {}
  BY <1>1, <1>2
<1>3. CASE Q # {}
  <2>1. PICK z \in Q : \A j \in Q : z <= j
    <3>1. Q \subseteq Nat
      OBVIOUS
    <3> HIDE DEF Q
    <3> QED BY <1>3, <3>1, Least
  <2>2. z \in 1 .. Len(s) /\ Q \subseteq Nat
    OBVIOUS
  <2> HIDE DEF Q
  <2>3. Min(Q) = z
    BY <2>1, <2>2, MinIsLeast
  <2>4. Path(s) = SubSeq(s, 1, z - 1)
    BY <1>1, <1>3, <2>2, <2>3
  <2> QED BY <2>2, <2>4
<1> QED BY <1>2, <1>3

(* What is parsed consists of bytes that are there.                          *)
LEMMA UrlTokens ==
  ASSUME NEW b \in Seq(Bytes), NEW n \in 0 .. Len(b)
  PROVE  LET path == Path(ParseRequestLine(b, n).url)
         IN  \A j \in 1 .. Len(path) : \E q \in 1 .. Len(b) : path[j] = b[q]
<1>m. PICK m : m = FirstFrom(1, b, n, "space")
  OBVIOUS
<1>1. m \in 1 .. n + 1
  BY <1>m, LoopStops
<1>u. PICK u : u = FirstFrom(m, b, n, "word")
  OBVIOUS
<1>2. u \in 1 .. n + 1
  BY <1>u, <1>1, LoopStops
<1>e. PICK e : e = FirstFrom(u, b, n, "space")
  OBVIOUS
<1>3. e \in Nat /\ u <= e /\ e <= n + 1
  BY <1>e, <1>2, LoopStops
<1>w. PICK w : w = SubSeq(b, u, e - 1)
  OBVIOUS
<1>4. w \in Seq(Bytes) /\ \A j \in 1 .. Len(w) : u + j - 1 \in 1 .. Len(b) /\ w[j] = b[u + j - 1]
  BY <1>w, <1>2, <1>3
<1>5. PICK t : t = Text(w)
  OBVIOUS
<1>6. ParseRequestLine(b, n).url = t
  BY <1>m, <1>u, <1>e, <1>w, <1>5 DEF ParseRequestLine
<1>7. /\ t \in Seq(Bytes) /\ Len(t) <= Len(w)
      /\ \A j \in 1 .. Len(t) : t[j] = w[j]
  BY <1>4, <1>5, TextBegins
<1>8. /\ Len(Path(t)) \in Nat /\ Len(Path(t)) <= Len(t)
      /\ \A j \in 1 .. Len(Path(t)) : Path(t)[j] = t[j]
  BY <1>7, PathBegins
<1>9. ASSUME NEW j \in 1 .. Len(Path(t))
      PROVE  \E q \in 1 .. Len(b) : Path(t)[j] = b[q]
  <2>1. j \in 1 .. Len(t) /\ j \in 1 .. Len(w)
    BY <1>4, <1>7, <1>8
  <2> QED BY <1>4, <1>7, <1>8, <2>1
<1> QED BY <1>6, <1>9

(* So a response that names a path needs the path's name.                    *)
LEMMA RouteNeedsName ==
  ASSUME NEW b \in Seq(Bytes), NEW n \in 0 .. Len(b)
  PROVE  /\ (\A q \in 1 .. Len(b) : b[q] # "jp") => Route(ParseRequestLine(b, n)) # "jpeg"
         /\ (\A q \in 1 .. Len(b) : b[q] \notin {"set", "re"})
              => Route(ParseRequestLine(b, n)) # "none"
<1>l. PICK line : line = ParseRequestLine(b, n)
  OBVIOUS
<1>p. PICK path : path = Path(line.url)
  OBVIOUS
<1>1. \A j \in 1 .. Len(path) : \E q \in 1 .. Len(b) : path[j] = b[q]
  BY <1>l, <1>p, UrlTokens
<1>2. Route(line) = "jpeg" => path = Jpeg
  BY <1>p DEF Route
<1>3. Route(line) = "none" => path \in {SetParams, Reboot}
  BY <1>p DEF Route
<1>4. Len(Jpeg) = 3 /\ Jpeg[2] = "jp"
  BY DEF Jpeg
<1>5. \A p \in {SetParams, Reboot} : Len(p) = 3 /\ p[2] \in {"set", "re"}
  BY DEF SetParams, Reboot
<1>6. ASSUME \A q \in 1 .. Len(b) : b[q] # "jp", Route(line) = "jpeg" PROVE FALSE
  <2>1. path = Jpeg
    BY <1>2, <1>6
  <2>2. Len(path) = 3 /\ path[2] = "jp"
    BY <1>4, <2>1
  <2>3. 2 \in 1 .. Len(path)
    BY <2>2
  <2> QED BY <1>1, <1>6, <2>2, <2>3
<1>7. ASSUME \A q \in 1 .. Len(b) : b[q] \notin {"set", "re"}, Route(line) = "none" PROVE FALSE
  <2>1. path \in {SetParams, Reboot}
    BY <1>3, <1>7
  <2>2. 2 \in 1 .. Len(path) /\ path[2] \in {"set", "re"}
    BY <1>5, <2>1
  <2> QED BY <1>1, <1>7, <2>2
<1> QED BY <1>l, <1>6, <1>7

(* A text without zeros is all of it.                                        *)
LEMMA TextWhole ==
  ASSUME NEW s, \A j \in 1 .. Len(s) : s[j] # Nul
  PROVE  Text(s) = s
<1>1. {j \in 1 .. Len(s) : s[j] = Nul} = {}
  OBVIOUS
<1> QED BY <1>1 DEF Text, SelectInSeq

(* The settings' requests are for what the server does not answer.           *)
LEMMA SettingsUnanswered ==
  ASSUME NEW n \in {1, 2}
  PROVE  Intended(Asks(n)) = "none"
<1> PICK r : r = Asks(n)
  OBVIOUS
<1>1. /\ Len(r) = 12
      /\ \A j \in {1, 2, 4, 5, 6, 7, 8} :
            r[j] \in {"GE", "T", "/", "set", "_params", "?", "cover=0", "cover=1"}
      /\ r[3] = "SP" /\ r[9] = "SP"
      /\ r[1] = "GE" /\ r[2] = "T" /\ r[4] = "/" /\ r[5] = "set" /\ r[6] = "_params"
      /\ r[7] = "?"
  BY AsksTokens
<1>2. r \in Seq(Bytes)
  BY AsksThree, RequestType
<1>3. \A j \in {1, 2, 4, 5, 6, 7, 8} : ~IsSpace(r[j]) /\ r[j] # Nul
  BY <1>1 DEF IsSpace, Nul
<1>4. IsSpace(r[3]) /\ IsSpace(r[9])
  BY <1>1 DEF IsSpace
<1>5. FirstFrom(1, r, 12, "space") = 3
  BY <1>3, <1>4, SpaceAt
<1>6. FirstFrom(3, r, 12, "word") = 4
  BY <1>3, <1>4, WordAt
<1>7. FirstFrom(4, r, 12, "space") = 9
  BY <1>3, <1>4, SpaceAt
<1>8. PICK m : m = SubSeq(r, 1, 2)
  OBVIOUS
<1>9. PICK u : u = SubSeq(r, 4, 8)
  OBVIOUS
<1>10. /\ m \in Seq(Bytes) /\ Len(m) = 2 /\ m[1] = r[1] /\ m[2] = r[2]
       /\ u \in Seq(Bytes) /\ Len(u) = 5
       /\ u[1] = r[4] /\ u[2] = r[5] /\ u[3] = r[6] /\ u[4] = r[7] /\ u[5] = r[8]
  <2>1. m \in Seq(Bytes) /\ Len(m) = 2 /\ \A j \in 1 .. 2 : m[j] = r[j]
    BY <1>1, <1>2, <1>8
  <2>2. u \in Seq(Bytes) /\ Len(u) = 5 /\ \A j \in 1 .. 5 : u[j] = r[j + 3]
    <3>1. 4 \in Nat /\ 8 \in Nat /\ 8 <= Len(r)
      BY <1>1
    <3>2. u \in Seq(Bytes) /\ Len(u) = 8 - 4 + 1
      BY <1>2, <1>9, <3>1
    <3>3. \A j \in 1 .. 5 : u[j] = r[4 + j - 1]
      BY <1>2, <1>9, <3>1, <3>2
    <3> QED BY <3>2, <3>3
  <2>3. u[1] = r[4] /\ u[2] = r[5] /\ u[3] = r[6] /\ u[4] = r[7] /\ u[5] = r[8]
    BY <2>2
  <2> QED BY <2>1, <2>2, <2>3
<1>11. Text(m) = m /\ Text(u) = u
  <2>1. \A j \in 1 .. Len(m) : m[j] # Nul
    BY <1>3, <1>10
  <2>2. \A j \in 1 .. Len(u) : u[j] # Nul
    BY <1>3, <1>10
  <2> QED BY <2>1, <2>2, TextWhole
<1>12. m = Get
  <2>1. m = <<"GE", "T">>
    BY <1>1, <1>10
  <2> QED BY <2>1 DEF Get
<1>13. Path(u) = SetParams
  <2> DEFINE Q == {j \in 1 .. Len(u) : u[j] = "?"}
  <2>1. 4 \in Q /\ Q \subseteq Nat /\ \A j \in Q : 4 <= j
    BY <1>1, <1>10
  <2>2. Path(u) = IF Q = {} THEN u ELSE IF Min(Q) = 0 THEN u ELSE SubSeq(u, 1, Min(Q) - 1)
    BY DEF Path, SelectInSeq
  <2> HIDE DEF Q
  <2>3. Min(Q) = 4
    BY <2>1, MinIsLeast
  <2>4. Path(u) = SubSeq(u, 1, 3)
    BY <2>1, <2>2, <2>3
  <2>5. PICK p : p = SubSeq(u, 1, 3)
    OBVIOUS
  <2>6. p \in Seq(Bytes) /\ Len(p) = 3 /\ p[1] = "/" /\ p[2] = "set" /\ p[3] = "_params"
    <3>1. u \in Seq(Bytes) /\ Len(u) = 5
      BY <1>10
    <3>2. p \in Seq(Bytes) /\ Len(p) = 3
      <4>1. \A j \in 1 .. 3 : j \in 1 .. Len(u)
        BY <3>1
      <4>2. p \in Seq(Bytes)
        BY <2>5, <3>1, <4>1
      <4>3. Len(p) = 3 - 1 + 1
        BY <2>5, <3>1
      <4> QED BY <4>2, <4>3
    <3>3. 1 \in Nat /\ 3 \in Nat /\ 3 <= Len(u)
      BY <3>1
    <3>4. \A j \in 1 .. 3 : p[j] = u[1 + j - 1]
      BY <2>5, <3>1, <3>3
    <3>5. p[1] = u[1] /\ p[2] = u[2] /\ p[3] = u[3]
      BY <3>4
    <3> QED BY <1>1, <1>10, <3>2, <3>5
  <2>7. p = <<"/", "set", "_params">>
    BY <2>6
  <2> QED BY <2>4, <2>5, <2>7 DEF SetParams
<1>14. ParseRequestLine(r, Len(r)).method = m /\ ParseRequestLine(r, Len(r)).url = u
  BY <1>1, <1>5, <1>6, <1>7, <1>8, <1>9, <1>11 DEF ParseRequestLine
<1>15. Route(ParseRequestLine(r, Len(r))) = "none"
  <2>1. SetParams \notin {Hello, Jpeg, Root, Home}
    <3>1. /\ SetParams[2] = "set" /\ Len(SetParams) = 3
          /\ Hello[2] = "he" /\ Jpeg[2] = "jp" /\ Home[2] = "ho" /\ Len(Root) = 1
      BY DEF SetParams, Hello, Jpeg, Home, Root
    <3> QED BY <3>1
  <2> PICK line : line = ParseRequestLine(r, Len(r))
    OBVIOUS
  <2>2. line.method = Get /\ Path(line.url) = SetParams
    BY <1>12, <1>13, <1>14
  <2>3. Path(line.url) \notin {Hello, Jpeg, Root, Home} /\ Path(line.url) \in {SetParams, Reboot}
    BY <2>1, <2>2
  <2>4. Route(line) = "none"
    BY <2>2, <2>3 DEF Route
  <2> QED BY <2>4
<1> QED BY <1>15 DEF Intended

(* The program asks for no picture that the server has, and what is read of    *)
(* its request is answered unless nothing was to be.                        *)
LEMMA AskedAndAnswered ==
  ASSUME NEW n \in Nat, NEW b \in Seq(Bytes), NEW k \in 0 .. Len(b),
         \A q \in 1 .. Len(b) : b[q] = Nul \/ \E j \in 1 .. Len(Asks(n)) : b[q] = Asks(n)[j]
  PROVE  /\ Route(ParseRequestLine(b, k)) # "jpeg"
         /\ Route(ParseRequestLine(b, k)) = "none" => Intended(Asks(n)) = "none"
<1>1. \A j \in 1 .. Len(Asks(n)) : Asks(n)[j] # "jp"
  <2>1. \A j \in 1 .. Len(Asks(0)) : Asks(0)[j] # "jp"
    BY AsksTokens
  <2>2. ASSUME NEW i \in {1, 2} PROVE \A j \in 1 .. Len(Asks(i)) : Asks(i)[j] # "jp"
    <3> PICK r : r = Asks(i)
      OBVIOUS
    <3>1. /\ Len(r) = 12
          /\ \A j \in {1, 2, 4, 5, 6, 7, 8} :
                r[j] \in {"GE", "T", "/", "set", "_params", "?", "cover=0", "cover=1"}
          /\ r[3] = "SP" /\ r[9] = "SP" /\ r[10] = "HTTP" /\ r[11] = "CRLF" /\ r[12] = "CRLF"
      BY AsksTokens
    <3>2. \A j \in {1, 2, 4, 5, 6, 7, 8} : r[j] # "jp"
      BY <3>1
    <3>3. \A j \in {3, 9, 10, 11, 12} : r[j] # "jp"
      BY <3>1
    <3> QED BY <3>1, <3>2, <3>3
  <2> QED BY <2>1, <2>2, AsksThree
<1>2. \A q \in 1 .. Len(b) : b[q] # "jp"
  BY <1>1 DEF Nul
<1>3. CASE Asks(n) = Asks(0)
  <2>1. \A j \in 1 .. Len(Asks(n)) : Asks(n)[j] \notin {"set", "re"}
    BY <1>3, AsksTokens
  <2>2. \A q \in 1 .. Len(b) : b[q] \notin {"set", "re"}
    BY <2>1 DEF Nul
  <2> QED BY <1>2, <2>2, RouteNeedsName
<1>4. CASE Asks(n) \in {Asks(1), Asks(2)}
  <2>1. Intended(Asks(n)) = "none"
    BY <1>4, SettingsUnanswered
  <2> QED BY <1>2, <2>1, RouteNeedsName
<1> QED BY <1>3, <1>4, AsksThree

-----------------------------------------------------------------------------
(* The program's connections are connections, and each is used once.          *)
LEMMA MineType ==
  /\ Len(Mine) \in Nat
  /\ \A i \in 1 .. Len(Mine) : Mine[i] \in Clients /\ Mine[i] \notin Strangers
  /\ \A i, j \in 1 .. Len(Mine) : Mine[i] = Mine[j] => i = j
<1>1. Mine \in Seq(Clients)
  BY ClientAssumption
<1>2. ASSUME NEW i \in 1 .. Len(Mine) PROVE Mine[i] \in Clients /\ Mine[i] \in Range(Mine)
  BY <1>1 DEF Range
<1>3. \A i \in 1 .. Len(Mine) : Mine[i] \in Clients /\ Mine[i] \notin Strangers
  BY <1>2 DEF Strangers
<1> QED BY <1>1, <1>3, ClientAssumption

(* Whatever the server does, no connection is taken up or forgotten for it,    *)
(* and a server that is not starting does not fail to start.                *)
LEMMA ServerStep ==
  ASSUME TypeOK, AcceptLoop \/ Worker
  PROVE  /\ UNCHANGED request
         /\ \A c \in Clients : client'[c] = "idle" <=> client[c] = "idle"
         /\ process' \in {"starting", "failed"} => process \in {"starting", "failed"}
<1> USE DEF TypeOK, clientVars, readVars, sendVars, workerVars
<1>1. CASE Startup
  BY <1>1 DEF Startup
<1>2. CASE StartupFails
  BY <1>2 DEF StartupFails
<1>3. CASE AcceptFails
  BY <1>3 DEF AcceptFails
<1>4. CASE Enqueue
  BY <1>4 DEF Enqueue
<1>5. CASE \E c \in Clients : Accept(c)
  BY <1>5 DEF Accept
<1>6. CASE Take
  BY <1>6 DEF Take
<1>7. CASE Recv
  BY <1>7 DEF Recv
<1>8. CASE RecvFails
  BY <1>8 DEF RecvFails
<1>9. CASE CloseFailed
  BY <1>9 DEF CloseFailed
<1>10. CASE Respond
  BY <1>10 DEF Respond
<1>11. CASE SendPart
  <2>1. /\ UNCHANGED request
        /\ process' \in {process, "killed"}
        /\ \/ UNCHANGED client
           \/ \E c \in Clients : client[c] = "closed" /\ client' = [client EXCEPT ![c] = "reset"]
    BY <1>11, SendDelivers
  <2>2. \A c \in Clients : client'[c] = "idle" <=> client[c] = "idle"
    BY <2>1
  <2> QED BY <2>1, <2>2
<1>12. CASE Finish
  BY <1>12 DEF Finish
<1> QED
  BY <1>1, <1>2, <1>3, <1>4, <1>5, <1>6, <1>7, <1>8, <1>9, <1>10, <1>11, <1>12
  DEF AcceptLoop, Worker

(* A step of the program, of the network or of a stranger is one that a client *)
(* or the server may take.                                                  *)
LEMMA ProgramStep ==
  ASSUME ProgramInv, [ProgramNext]_allVars
  PROVE  [Next]_vars
<1>1. CASE ProgramConnects
  <2> PICK c : c = Mine[cnt + 1]
    OBVIOUS
  <2>1. cnt + 1 \in 1 .. Len(Mine) /\ ~(cnt + 1 <= Used)
    BY <1>1, MineType DEF ProgramConnects, ProgramInv, Used
  <2>2. c \in Clients /\ client[c] = "idle"
    BY <2>1, MineType DEF ProgramInv
  <2>3. Asks(cnt) \in Requests
    BY AsksThree DEF ProgramInv
  <2>4. Connect(c)
    BY <1>1, <2>2, <2>3 DEF ProgramConnects, Connect
  <2> QED BY <2>2, <2>4 DEF Next, ClientStep
<1>2. CASE ProgramSends \/ SendFails \/ SelectReady \/ Timeout \/ RecvLoop \/ ProgramCloses
  <2>1. UNCHANGED vars
    BY <1>2 DEF ProgramSends, SendFails, SelectReady, Timeout, RecvLoop, ProgramCloses
  <2> QED BY <2>1
<1>3. CASE Delivery
  <2>1. PICK i \in 1 .. cnt : Deliver(i) \/ CloseArrives(i)
    BY <1>3 DEF Delivery
  <2>2. i \in 1 .. Len(Mine)
    BY MineType DEF ProgramInv, Used
  <2>3. Mine[i] \in Clients
    BY <2>2, MineType
  <2>4. Send(Mine[i]) \/ HangUp(Mine[i])
    BY <2>1 DEF Deliver, CloseArrives
  <2> QED BY <2>3, <2>4 DEF Next, ClientStep
<1>4. CASE Server
  BY <1>4 DEF Server, Next
<1>5. CASE Stranger
  BY <1>5 DEF Stranger, Strangers, Next
<1>6. CASE UNCHANGED allVars
  BY <1>6 DEF allVars
<1> QED BY <1>1, <1>2, <1>3, <1>4, <1>5, <1>6 DEF ProgramNext, Program

(* The program uses one connection after the other, for one request after the  *)
(* other.                                                                   *)
LEMMA ProgramInvStep ==
  ASSUME TypeOK, ProgramInv, [ProgramNext]_allVars
  PROVE  ProgramInv'
<1> PICK L \in Nat : L = Len(Mine)
  BY MineType
<1>0. cnt \in Nat /\ Used \in Nat /\ Used <= L
  BY DEF ProgramInv, Used
<1>a. ASSUME UNCHANGED programVars, UNCHANGED request,
             \A i \in 1 .. L : client'[Mine[i]] = "idle" <=> client[Mine[i]] = "idle",
             process' \in {"starting", "failed"} => process \in {"starting", "failed"}
      PROVE  ProgramInv'
  <2>1. UNCHANGED <<cpc, cnt, Used>>
    BY <1>a DEF programVars, Used
  <2> QED BY <1>a, <2>1 DEF ProgramInv
<1>1. CASE ProgramConnects
  <2>1. /\ Used = cnt /\ Used' = cnt + 1 /\ cpc' = "send" /\ cnt' = cnt
        /\ cnt + 1 \in 1 .. L /\ process' = "running"
        /\ client' = [client EXCEPT ![Mine[cnt + 1]] = "backlog"]
        /\ request' = [request EXCEPT ![Mine[cnt + 1]] = Asks(cnt)]
    BY <1>0, <1>1 DEF ProgramConnects, Used
  <2>2. \A i \in 1 .. L : Mine[i] \in Clients /\ (i # cnt + 1 => Mine[i] # Mine[cnt + 1])
    BY <2>1, MineType
  <2>3. ASSUME NEW i \in 1 .. L
        PROVE  IF i <= cnt + 1 THEN client'[Mine[i]] # "idle" /\ request'[Mine[i]] = Asks(i - 1)
                               ELSE client'[Mine[i]] = "idle"
    <3>1. CASE i = cnt + 1
      <4>1. client'[Mine[i]] = "backlog" /\ request'[Mine[i]] = Asks(cnt)
        BY <2>1, <2>2, <3>1 DEF TypeOK
      <4>2. i - 1 = cnt
        BY <3>1, <1>0
      <4> QED BY <3>1, <4>1, <4>2
    <3>2. CASE i # cnt + 1
      <4>1. client'[Mine[i]] = client[Mine[i]] /\ request'[Mine[i]] = request[Mine[i]]
        BY <2>1, <2>2, <3>2 DEF TypeOK
      <4>2. i <= cnt + 1 <=> i <= cnt
        BY <1>0, <3>2
      <4> QED BY <2>1, <4>1, <4>2 DEF ProgramInv
    <3> QED BY <3>1, <3>2
  <2> QED BY <1>0, <2>1, <2>3 DEF ProgramInv
<1>2. CASE ProgramSends \/ SendFails \/ SelectReady \/ Timeout \/ RecvLoop \/ ProgramCloses
  <2>1. Used' = Used /\ UNCHANGED <<client, request, process>>
    BY <1>0, <1>2
    DEF Used, ProgramSends, SendFails, SelectReady, Timeout, RecvLoop, ProgramCloses, vars, clientVars
  <2>2. /\ cpc' \in {"select", "exited", "recv", "close", "connect"}
        /\ cnt' \in Nat /\ (cpc' \in {"select", "recv", "close"} => cnt' > 0)
        /\ process \in {"starting", "failed"} => cpc' = "connect"
    BY <1>0, <1>2 DEF ProgramInv, ProgramSends, SendFails, SelectReady, Timeout, RecvLoop, ProgramCloses
  <2> QED BY <2>1, <2>2 DEF ProgramInv
<1>3. CASE Delivery
  <2>1. PICK i \in 1 .. cnt : Deliver(i) \/ CloseArrives(i)
    BY <1>3 DEF Delivery
  <2>2. \/ UNCHANGED client
        \/ client[Mine[i]] = "open" /\ client' = [client EXCEPT ![Mine[i]] = "closed"]
    BY <2>1 DEF Deliver, CloseArrives, Send, HangUp
  <2>3. UNCHANGED <<request, process, programVars>>
    BY <2>1 DEF Deliver, CloseArrives, Send, HangUp
  <2>4. \A j \in 1 .. L : client'[Mine[j]] = "idle" <=> client[Mine[j]] = "idle"
    BY <2>2, MineType DEF TypeOK
  <2> QED BY <1>a, <2>3, <2>4
<1>4. CASE Server
  <2>1. UNCHANGED programVars /\ (AcceptLoop \/ Worker)
    BY <1>4 DEF Server
  <2>2. \A j \in 1 .. L : Mine[j] \in Clients
    BY MineType
  <2> QED BY <1>a, <2>1, <2>2, ServerStep
<1>5. CASE Stranger
  <2>1. PICK c \in Strangers : ClientStep(c) /\ UNCHANGED programVars
    BY <1>5 DEF Stranger
  <2>2. \A j \in 1 .. L : Mine[j] \in Clients /\ Mine[j] # c
    BY MineType
  <2>3. /\ \A d \in Clients : d # c => client'[d] = client[d] /\ request'[d] = request[d]
        /\ UNCHANGED process
    BY <2>1 DEF ClientStep, Connect, Send, HangUp, Break, TypeOK
  <2>4. UNCHANGED <<cpc, cnt, Used, process>>
    BY <2>1, <2>3 DEF programVars, Used
  <2>5. \A j \in 1 .. L : client'[Mine[j]] = client[Mine[j]] /\ request'[Mine[j]] = request[Mine[j]]
    BY <2>2, <2>3
  <2> QED BY <2>4, <2>5 DEF ProgramInv
<1>6. CASE UNCHANGED allVars
  <2>1. UNCHANGED <<client, request, process, programVars>>
    BY <1>6 DEF allVars, vars, clientVars
  <2> QED BY <1>a, <2>1
<1> QED BY <1>1, <1>2, <1>3, <1>4, <1>5, <1>6 DEF ProgramNext, Program

(* The initial states are states of both.                                   *)
LEMMA ProgramInitInv == ProgramInit => IInv /\ RightWhenLongEnough /\ ProgramInv
<1>1. ProgramInit => Init
  BY DEF ProgramInit
<1>2. ProgramInit => ProgramInv
  BY MineType DEF ProgramInit, Init, ProgramInv, Used
<1> QED BY <1>1, <1>2, InitInv

(* The program is a client of the server like any other, and what the server    *)
(* guarantees whatever its clients do (IInv, RightWhenLongEnough) it           *)
(* guarantees beside it.                                                    *)
THEOREM ProgramInvariance == ProgramSpec => [](IInv /\ RightWhenLongEnough /\ ProgramInv)
<1>1. ProgramInit => IInv /\ RightWhenLongEnough /\ ProgramInv
  BY ProgramInitInv
<1>2. IInv /\ RightWhenLongEnough /\ ProgramInv /\ [ProgramNext]_allVars
        => IInv' /\ RightWhenLongEnough' /\ ProgramInv'
  <2> SUFFICES ASSUME IInv, RightWhenLongEnough, ProgramInv, [ProgramNext]_allVars
               PROVE  IInv' /\ RightWhenLongEnough' /\ ProgramInv'
    OBVIOUS
  <2>1. [Next]_vars
    BY ProgramStep
  <2>2. ProgramInv'
    BY ProgramInvStep DEF IInv
  <2>3. IInv'
    BY <2>1, StepInv
  <2>4. RightWhenLongEnough'
    BY <2>1, RightStep DEF IInv
  <2> QED BY <2>2, <2>3, <2>4
<1> QED BY <1>1, <1>2, PTL DEF ProgramSpec

(* So the program with its server implements the server with its clients.      *)
THEOREM ProgramIsClient == ProgramSpec => Spec
<1>1. ProgramInit => Init
  BY DEF ProgramInit
<1>2. ProgramInv /\ [ProgramNext]_allVars => [Next]_vars
  BY ProgramStep
<1> QED BY <1>1, <1>2, ProgramInvariance, PTL DEF ProgramSpec, Spec

-----------------------------------------------------------------------------
(* What a patient program and its server are to each other.                  *)
LEMMA PatientFacts ==
  ASSUME IInv, ProgramInv, PatientInv, Patient
  PROVE  /\ OneConnection /\ Unharmed /\ PartsSent /\ QueueApart /\ OwnRequest
         /\ \A f \in Fds : Owner(f) \in Clients => Busy /\ Owner(f) = Latest
         /\ wfd # NoFd => /\ wfd \in Fds /\ Busy /\ Owner(wfd) = Latest
                          /\ Latest \in Clients /\ client[Latest] = "open"
         /\ Busy \/ cpc = "close" => /\ Used \in 1 .. Len(Mine) /\ Latest \in Clients
                                     /\ request[Latest] = Asks(Used - 1) /\ Used - 1 \in Nat
<1>1. OneConnection /\ Unharmed /\ PartsSent
  BY DEF PatientInv
<1>2. QueueApart /\ OwnRequest
  BY <1>1 DEF IInv, WholeInv, Unharmed
<1>3. \A f \in Fds : Owner(f) \in Clients => Busy /\ Owner(f) = Latest
  BY <1>1, NotClient DEF OneConnection
<1>4. ASSUME wfd # NoFd
      PROVE  /\ wfd \in Fds /\ Busy /\ Owner(wfd) = Latest
             /\ Latest \in Clients /\ client[Latest] = "open"
  <2>1. wfd \in Fds /\ Owner(wfd) \in Clients
    BY <1>2, <1>4 DEF IInv, TypeOK, OwnRequest
  <2>2. Busy /\ Owner(wfd) = Latest
    BY <1>3, <2>1
  <2>3. client[Latest] # "backlog"
    BY <2>1, <2>2 DEF IInv, ClientInv, Owners
  <2> QED BY <1>1, <2>1, <2>2, <2>3 DEF OneConnection
<1>5. ASSUME Busy \/ cpc = "close"
      PROVE  /\ Used \in 1 .. Len(Mine) /\ Latest \in Clients
             /\ request[Latest] = Asks(Used - 1) /\ Used - 1 \in Nat
  <2>1. Used \in Nat /\ Used > 0 /\ Used <= Len(Mine)
    BY <1>5 DEF ProgramInv, Used, Busy
  <2>2. Used \in 1 .. Len(Mine)
    BY <2>1, MineType
  <2> QED BY <2>1, <2>2, MineType DEF ProgramInv, Latest
<1> QED BY <1>1, <1>2, <1>3, <1>4, <1>5

(* The answer that the worker finds for it is no picture, and it is none only   *)
(* if none was asked for.                                                   *)
LEMMA PatientAnswer ==
  ASSUME IInv, ProgramInv, PatientInv, Patient, wpc \in {"parse", "send"}
  PROVE  LET answer == Route(ParseRequestLine(buf, Min({Len(header), BufSize})))
         IN  /\ answer # "jpeg"
             /\ answer = "none" => Intended(request[Latest]) = "none"
             /\ from = {Latest}
<1>1. wfd # NoFd
  BY DEF IInv, WorkerInv
<1>2. /\ Busy /\ Owner(wfd) = Latest /\ Latest \in Clients
      /\ request[Latest] = Asks(Used - 1) /\ Used - 1 \in Nat
      /\ OwnRequest /\ Unharmed
  BY <1>1, PatientFacts
<1>3. from = {Latest}
  BY <1>1, <1>2 DEF OwnRequest
<1> PICK k : k = got[Latest]
  OBVIOUS
<1> PICK r : r = request[Latest]
  OBVIOUS
<1>4. r \in Seq(Bytes) /\ Len(r) \in Nat /\ k \in Nat /\ k <= Len(r)
  BY <1>2, RequestsSent DEF IInv
<1>5. header = SubSeq(r, 1, k)
  BY <1>2, <1>3 DEF IInv, ReadInv
<1>6. header \in Seq(Bytes) /\ Len(header) = k /\ \A j \in 1 .. k : header[j] = r[j]
  BY <1>4, <1>5
<1>7. HeaderComplete(header) /\ buf = HeaderCopy(header, last)
  BY <1>2 DEF Unharmed, IInv, AnswerInv
<1>8. last \in 0 .. BufSize /\ last <= Len(header)
  BY DEF IInv, TypeOK, WorkerInv
<1>9. /\ buf \in Seq(Bytes) /\ Len(buf) = BufSize
      /\ \A j \in 1 .. last : buf[j] = header[j]
      /\ \A j \in last + 1 .. BufSize : buf[j] = Nul
  BY <1>6, <1>7, <1>8, CopyType
<1>10. \A q \in 1 .. Len(buf) : buf[q] = Nul \/ \E j \in 1 .. Len(r) : buf[q] = r[j]
  <2> SUFFICES ASSUME NEW q \in 1 .. Len(buf)
               PROVE  buf[q] = Nul \/ \E j \in 1 .. Len(r) : buf[q] = r[j]
    OBVIOUS
  <2>1. CASE q \in 1 .. last
    <3>1. q \in 1 .. k /\ q \in 1 .. Len(r)
      BY <1>4, <1>6, <1>8, <2>1
    <3> QED BY <1>6, <1>9, <2>1, <3>1
  <2>2. CASE q \in last + 1 .. BufSize
    BY <1>9, <2>2
  <2> QED BY <1>8, <1>9, <2>1, <2>2
<1> PICK n : n = Min({Len(header), BufSize})
  OBVIOUS
<1>11. n \in 0 .. Len(buf)
  <2>1. k \in Nat /\ BufSize \in Nat
    BY <1>4, ServerAssumption
  <2>2. \E x \in {k, BufSize} : \A y \in {k, BufSize} : x <= y
    BY <2>1
  <2>3. n \in {k, BufSize} /\ \A y \in {k, BufSize} : n <= y
    BY <1>6, <2>2 DEF Min
  <2> QED BY <1>9, <2>1, <2>3
<1>12. /\ Route(ParseRequestLine(buf, n)) # "jpeg"
       /\ Route(ParseRequestLine(buf, n)) = "none" => Intended(Asks(Used - 1)) = "none"
  <2> PICK i \in Nat : i = Used - 1
    BY <1>2
  <2>1. r = Asks(i)
    BY <1>2
  <2>2. \A q \in 1 .. Len(buf) : buf[q] = Nul \/ \E j \in 1 .. Len(Asks(i)) : buf[q] = Asks(i)[j]
    BY <1>10, <2>1
  <2>3. buf \in Seq(Bytes) /\ n \in 0 .. Len(buf)
    BY <1>9, <1>11
  <2>4. /\ Route(ParseRequestLine(buf, n)) # "jpeg"
        /\ Route(ParseRequestLine(buf, n)) = "none" => Intended(Asks(i)) = "none"
    BY <2>2, <2>3, AskedAndAnswered
  <2> QED BY <2>4
<1> QED BY <1>2, <1>3, <1>12

(* What the parts of PatientInv depend on.                                   *)
tables == <<client, fdtab, programVars>>

LEMMA SameConnection ==
  ASSUME OneConnection, UNCHANGED tables
  PROVE  OneConnection'
BY DEF OneConnection, Owner, Busy, Latest, Used, tables, programVars

LEMMA SameParts ==
  ASSUME PartsSent, wpc' # "send", UNCHANGED <<tables, response, sending, inbox, request>>
  PROVE  PartsSent'
BY DEF PartsSent, Owners, Owner, Busy, Latest, Used, tables, programVars

(* The accept loop does a patient program no harm: it finds a free descriptor   *)
(* for it and room in the queue.                                            *)
LEMMA AcceptStep ==
  ASSUME IInv, ProgramInv, PatientInv, Patient, AcceptLoop, UNCHANGED programVars
  PROVE  OneConnection' /\ Unharmed' /\ PartsSent'
<1> USE DEF clientVars, readVars, sendVars, workerVars
<1>0. /\ OneConnection /\ Unharmed /\ PartsSent /\ QueueApart
      /\ \A f \in Fds : Owner(f) \in Clients => Busy /\ Owner(f) = Latest
  BY PatientFacts
<1>a. /\ UNCHANGED <<Busy, Latest, cpc>>
      /\ fdtab \in [Fds -> Clients \union {Free, Listen, Picture}]
      /\ client \in [Clients -> {"idle", "backlog", "open", "closed", "reset"}]
  BY DEF programVars, Busy, Latest, Used, IInv, TypeOK
<1>1. CASE Startup
  <2>1. ~Busy /\ cpc = "connect" /\ \A f \in Fds : fdtab[f] = Free
    BY <1>1 DEF Startup, ProgramInv, Busy, IInv, WorkerInv
  <2>2. /\ fdtab' = [fdtab EXCEPT ![Lowest] = Listen] /\ process' = "running"
        /\ UNCHANGED <<clientVars, workerVars>>
    BY <1>1 DEF Startup
  <2>3. OneConnection'
    BY <1>0, <1>a, <2>1, <2>2 DEF OneConnection, Owner, Free, Listen
  <2>4. Unharmed'
    BY <1>0, <2>2 DEF Unharmed
  <2>5. PartsSent'
    BY <1>0, <1>a, <2>1, <2>2 DEF PartsSent
  <2> QED BY <2>3, <2>4, <2>5
<1>2. CASE StartupFails
  <2>1. process' = "failed" /\ UNCHANGED <<clientVars, fdtab, workerVars>>
    BY <1>2 DEF StartupFails
  <2>2. OneConnection'
    BY <1>0, <2>1, SameConnection DEF tables
  <2>3. Unharmed'
    BY <1>0, <2>1 DEF Unharmed
  <2>4. PartsSent'
    BY <1>0, <1>a, <2>1 DEF PartsSent, Owners, Owner
  <2> QED BY <2>2, <2>3, <2>4
<1>3. CASE AcceptFails
  <2>1. FreeFds = {} /\ \E c \in Clients : client[c] = "backlog"
    BY <1>3 DEF AcceptFails
  <2>2. Busy /\ Latest \in Clients /\ client[Latest] = "backlog"
    BY <1>0, <2>1 DEF OneConnection
  <2>3. \A f \in Fds : Owner(f) # Latest
    BY <2>2 DEF IInv, ClientInv, Owners
  <2>4. \A f \in Fds : Owner(f) = Listen
    BY <1>0, <2>1, <2>3 DEF OneConnection, FreeFds, Owner
  <2>5. 1 \in Fds /\ 2 \in Fds
    BY ServerAssumption DEF Fds
  <2> QED BY <1>0, <2>4, <2>5 DEF OneConnection
<1>4. CASE Enqueue
  <2>1. afd # NoFd
    BY <1>4 DEF Enqueue
  <2>2. Len(queue) < Capacity
    <3> SUFFICES ASSUME ~(Len(queue) < Capacity) PROVE FALSE
      OBVIOUS
    <3>1. 1 \in 1 .. Len(queue)
      BY ServerAssumption DEF IInv, TypeOK
    <3>2. queue[1] \in Fds /\ afd \in Fds
      BY <2>1, <3>1 DEF IInv, TypeOK
    <3>3. Owner(queue[1]) \in Clients /\ queue[1] # afd /\ Owner(afd) \in Clients
      BY <1>0, <2>1, <3>1 DEF QueueApart
    <3>4. Owner(queue[1]) = Owner(afd)
      BY <1>0, <3>2, <3>3
    <3> QED BY <3>2, <3>3, <3>4 DEF IInv, ClientInv
  <2>3. UNCHANGED <<clientVars, process, fdtab, workerVars>>
    BY <1>4, <2>2 DEF Enqueue
  <2>4. OneConnection'
    BY <1>0, <2>3, SameConnection DEF tables
  <2>5. Unharmed'
    BY <1>0, <2>3 DEF Unharmed
  <2>6. PartsSent'
    BY <1>0, <1>a, <2>3 DEF PartsSent, Owners, Owner
  <2> QED BY <2>4, <2>5, <2>6
<1>5. CASE \E c \in Clients : Accept(c)
  <2> PICK c \in Clients : Accept(c)
    BY <1>5
  <2>1. client[c] = "backlog" /\ FreeFds # {}
    BY DEF Accept
  <2>2. /\ fdtab' = [fdtab EXCEPT ![Lowest] = c] /\ client' = [client EXCEPT ![c] = "open"]
        /\ UNCHANGED <<request, inbox, failed, process, workerVars>>
    BY DEF Accept
  <2>3. Lowest \in Fds /\ fdtab[Lowest] = Free
    BY <2>1, LowestIsFree
  <2>4. Busy /\ c = Latest
    BY <1>0, <2>1 DEF OneConnection
  <2>5. /\ fdtab'[Lowest] = c
        /\ \A f \in Fds : fdtab'[f] = fdtab[f] \/ (f = Lowest /\ fdtab'[f] = c)
    BY <1>a, <2>2, <2>3 DEF Owner
  <2>6. client'[c] = "open" /\ \A d \in Clients : d # c => client'[d] = client[d]
    BY <1>a, <2>2
  <2>7. OneConnection'
    <3>1. \A f, g \in Fds : fdtab'[f] = Listen /\ fdtab'[g] = Listen => f = g
      BY <1>0, <2>5, NotClient DEF OneConnection, Owner
    <3>2. \A f \in Fds : fdtab'[f] \in {Free, Listen} \/ (Busy' /\ fdtab'[f] = Latest')
      BY <1>0, <1>a, <2>4, <2>5 DEF OneConnection, Owner
    <3>3. \A d \in Clients : client'[d] = "backlog" => Busy' /\ d = Latest'
      BY <1>0, <1>a, <2>4, <2>6 DEF OneConnection
    <3>4. client'[Latest'] = "open"
      BY <1>a, <2>4, <2>6
    <3> QED BY <3>1, <3>2, <3>3, <3>4 DEF OneConnection, Owner
  <2>8. Unharmed'
    BY <1>0, <2>2 DEF Unharmed
  <2>9. PartsSent'
    <3>1. Latest' \in Owners'
      BY <1>a, <2>2, <2>3, <2>4 DEF Owners, Owner
    <3>2. \A d \in Clients : \A r \in inbox'[d] : r.complete /\ r.kind # "none"
      BY <1>0, <2>2 DEF PartsSent
    <3>3. /\ wpc' = "send" => sending' = Sends(response') \/ \A d \in from' : inbox'[d] # {}
          /\ response' = "none" => sending' = <<>>
      BY <1>0, <2>2 DEF PartsSent
    <3> QED BY <3>1, <3>2, <3>3 DEF PartsSent
  <2> QED BY <2>7, <2>8, <2>9
<1> QED BY <1>1, <1>2, <1>3, <1>4, <1>5 DEF AcceptLoop

(* A response that is sent takes at least one send().                        *)
LEMMA SendsSome == \A r \in Responses : Sends(r) = <<>> => r = "none"
<1>1. \A r \in Responses : r # "none" => Sends(r) \in {<<TRUE, TRUE>>, <<TRUE, FALSE>>, <<TRUE>>}
  BY Zenon DEF Sends, Responses
<1>2. <<TRUE, TRUE>> # <<>> /\ <<TRUE, FALSE>> # <<>> /\ <<TRUE>> # <<>>
  OBVIOUS
<1> QED BY <1>1, <1>2

(* Nor does the worker, which reads its request to the end and answers it.    *)
LEMMA WorkerKeeps ==
  ASSUME IInv, ProgramInv, PatientInv, Patient, Worker, UNCHANGED programVars
  PROVE  OneConnection' /\ Unharmed' /\ PartsSent'
<1> USE DEF clientVars, readVars, sendVars, workerVars
<1>0. /\ OneConnection /\ Unharmed /\ PartsSent /\ OwnRequest
      /\ wfd # NoFd => /\ wfd \in Fds /\ Busy /\ Owner(wfd) = Latest
                       /\ Latest \in Clients /\ client[Latest] = "open"
  BY PatientFacts
<1>a. /\ UNCHANGED <<Busy, Latest, cpc>>
      /\ fdtab \in [Fds -> Clients \union {Free, Listen, Picture}]
      /\ inbox \in [Clients -> SUBSET Responded]
      /\ response \in Responses
  BY DEF programVars, Busy, Latest, Used, IInv, TypeOK
<1>b. wpc # "idle" => wfd # NoFd
  BY DEF IInv, WorkerInv
<1>1. CASE Take
  <2>1. wpc' = "recv" /\ UNCHANGED <<clientVars, process, fdtab, readVars, sendVars>>
    BY <1>1 DEF Take
  <2>2. Unharmed'
    BY <1>0, <2>1 DEF Unharmed
  <2> QED BY <1>0, <2>1, <2>2, SameConnection, SameParts DEF tables
<1>2. CASE Recv
  <2>1. /\ wpc' = "recv" \/ (wpc' = "parse" /\ HeaderComplete(header'))
        /\ UNCHANGED <<request, client, inbox, failed, process, fdtab, sendVars>>
    BY <1>2 DEF Recv, WorkerAt
  <2>2. Unharmed'
    BY <1>0, <2>1 DEF Unharmed
  <2> QED BY <1>0, <2>1, <2>2, SameConnection, SameParts DEF tables
<1>3. CASE RecvFails
  <2>1. wpc = "recv"
    BY <1>3 DEF RecvFails, WorkerAt
  <2>2. Owner(wfd) \in Clients /\ client[Owner(wfd)] = "open"
    BY <1>0, <1>b, <2>1
  <2> QED BY <1>3, <2>2 DEF RecvFails
<1>4. CASE CloseFailed
  BY <1>0, <1>4 DEF CloseFailed, WorkerAt, Unharmed
<1>5. CASE Respond
  <2>1. /\ wpc = "parse" /\ wpc' = "send"
        /\ response' = Route(ParseRequestLine(buf, Min({Len(header), BufSize})))
        /\ sending' = Sends(response')
        /\ response' # "jpeg" => UNCHANGED <<process, fdtab>>
        /\ UNCHANGED <<clientVars, readVars>>
    BY <1>5 DEF Respond, WorkerAt
  <2>2. response' # "jpeg"
    BY <2>1, PatientAnswer
  <2>3. OneConnection'
    BY <1>0, <2>1, <2>2, SameConnection DEF tables
  <2>4. Unharmed'
    BY <1>0, <2>1, <2>2 DEF Unharmed
  <2>5. response' = "none" => sending' = <<>>
    BY <2>1 DEF Sends
  <2>6. PartsSent'
    BY <1>0, <1>a, <2>1, <2>2, <2>5 DEF PartsSent, Owners, Owner
  <2> QED BY <2>3, <2>4, <2>6
<1>6. CASE SendPart
  <2>1. wpc = "send" /\ sending # <<>> /\ WorkerAt("send")
    BY <1>6 DEF SendPart, WorkerAt
  <2>2. Owner(wfd) = Latest /\ Latest \in Clients /\ client[Latest] = "open"
    BY <1>0, <1>b, <2>1
  <2>3. /\ inbox' = [inbox EXCEPT ![Latest] = inbox[Latest] \union {Part}]
        /\ UNCHANGED <<client, process>>
    <3> PICK c \in Clients : c = Owner(wfd)
      BY <2>2
    <3>1. /\ inbox' = [inbox EXCEPT ![c] = inbox[c] \union {Part}]
          /\ \/ UNCHANGED client
             \/ client[c] = "closed" /\ client' = [client EXCEPT ![c] = "reset"]
          /\ UNCHANGED process
      <4>1. client[c] # "reset"
        BY <2>2
      <4> QED BY <1>6, <4>1, Zenon DEF SendPart, Part
    <3> QED BY <2>2, <3>1
  <2>4. UNCHANGED <<request, failed, fdtab, wpc, wfd, readVars, response>>
    BY <1>6 DEF SendPart
  <2>5. from = {Latest}
    BY <2>1, PatientAnswer
  <2>6. Part.complete /\ Part.kind # "none"
    BY <1>0, <2>1 DEF Part, Unharmed, PartsSent
  <2>7. OneConnection'
    BY <1>0, <2>3, <2>4, SameConnection DEF tables
  <2>8. Unharmed'
    BY <1>0, <2>3, <2>4 DEF Unharmed
  <2>9. PartsSent'
    <3>1. \A c \in Clients : \A r \in inbox'[c] : r \in inbox[c] \/ r = Part
      BY <1>a, <2>2, <2>3
    <3>2. inbox'[Latest] # {}
      BY <1>a, <2>2, <2>3
    <3>3. \A c \in Clients : \A r \in inbox'[c] : r.complete /\ r.kind # "none"
      <4> HIDE DEF Part
      <4> QED BY <1>0, <2>6, <3>1 DEF PartsSent
    <3>4. \A c \in from' : inbox'[c] # {}
      BY <2>4, <2>5, <3>2
    <3>5. response' # "none"
      BY <1>0, <2>1, <2>4 DEF PartsSent
    <3> QED BY <1>a, <3>2, <3>3, <3>4, <3>5 DEF PartsSent
  <2> QED BY <2>7, <2>8, <2>9
<1>7. CASE Finish
  <2>1. /\ wpc = "send" /\ sending = <<>> /\ wpc' = "idle"
        /\ fdtab' = [fdtab EXCEPT ![wfd] = Free]
        /\ response' = "none" /\ sending' = <<>>
        /\ UNCHANGED <<clientVars, process>>
    BY <1>7 DEF Finish, WorkerAt, Close
  <2>2. wfd \in Fds /\ \A f \in Fds : fdtab'[f] = fdtab[f] \/ fdtab'[f] = Free
    BY <1>0, <1>a, <1>b, <2>1
  <2>3. OneConnection'
    <3>1. \A f, g \in Fds : fdtab'[f] = Listen /\ fdtab'[g] = Listen => f = g
      BY <1>0, <2>2 DEF OneConnection, Owner, Free, Listen
    <3>2. \A f \in Fds : fdtab'[f] \in {Free, Listen} \/ (Busy' /\ fdtab'[f] = Latest')
      BY <1>0, <1>a, <2>2 DEF OneConnection, Owner
    <3> QED BY <1>0, <1>a, <2>1, <3>1, <3>2 DEF OneConnection, Owner
  <2>4. Unharmed'
    BY <1>0, <2>1 DEF Unharmed
  <2>5. inbox[Latest] # {} \/ Intended(request[Latest]) = "none"
    <3>1. /\ Route(ParseRequestLine(buf, Min({Len(header), BufSize}))) = "none"
                => Intended(request[Latest]) = "none"
          /\ from = {Latest}
      BY <2>1, PatientAnswer
    <3>2. response = Route(ParseRequestLine(buf, Min({Len(header), BufSize})))
      BY <1>0, <2>1 DEF Unharmed, IInv, AnswerInv
    <3>3. CASE \A c \in from : inbox[c] # {}
      BY <3>1, <3>3
    <3>4. CASE sending = Sends(response)
      <4>1. response = "none"
        BY <1>a, <2>1, <3>4, SendsSome
      <4> QED BY <3>1, <3>2, <4>1
    <3> QED BY <1>0, <2>1, <3>3, <3>4 DEF PartsSent
  <2>6. PartsSent'
    <3>1. inbox'[Latest'] # {} \/ Intended(request'[Latest']) = "none"
      BY <1>a, <2>1, <2>5
    <3>2. \A c \in Clients : \A r \in inbox'[c] : r.complete /\ r.kind # "none"
      BY <1>0, <2>1 DEF PartsSent
    <3> QED BY <2>1, <3>1, <3>2 DEF PartsSent
  <2> QED BY <2>3, <2>4, <2>6
<1> QED BY <1>1, <1>2, <1>3, <1>4, <1>5, <1>6, <1>7 DEF Worker

(* Nor does the program to itself: it hangs up on nobody who has not answered   *)
(* it, unless it has lost patience.                                         *)
LEMMA PatientProgramStep ==
  ASSUME IInv, ProgramInv, PatientInv, Patient, Program, gaveUp' = {}
  PROVE  OneConnection' /\ Unharmed' /\ PartsSent'
<1> USE DEF clientVars, readVars, sendVars, workerVars
<1>0. /\ OneConnection /\ Unharmed /\ PartsSent
      /\ \A f \in Fds : Owner(f) \in Clients => Busy /\ Owner(f) = Latest
  BY PatientFacts
<1>a. /\ client \in [Clients -> {"idle", "backlog", "open", "closed", "reset"}]
      /\ cnt \in Nat
  BY DEF IInv, TypeOK, ProgramInv
<1>b. ASSUME UNCHANGED vars, cpc' \in {"send", "select", "recv"}, Used' = Used, Busy
      PROVE  OneConnection' /\ Unharmed' /\ PartsSent'
  <2>1. Busy' /\ Latest' = Latest
    BY <1>b DEF Busy, Latest
  <2>2. UNCHANGED <<client, fdtab, process, failed, wpc, response, header, sending, inbox, from, request>>
    BY <1>b DEF vars
  <2>3. OneConnection'
    BY <1>0, <1>b, <2>1, <2>2 DEF OneConnection, Owner
  <2>4. Unharmed'
    BY <1>0, <2>2 DEF Unharmed
  <2>5. PartsSent'
    BY <1>0, <1>b, <2>1, <2>2 DEF PartsSent, Owners, Owner
  <2> QED BY <2>3, <2>4, <2>5
<1>1. CASE ProgramConnects
  <2> PICK c : c = Mine[cnt + 1]
    OBVIOUS
  <2>1. /\ cpc = "connect" /\ cpc' = "send" /\ cnt' = cnt /\ c \in Clients
        /\ client' = [client EXCEPT ![c] = "backlog"]
        /\ UNCHANGED <<inbox, failed, process, fdtab, workerVars>>
    BY <1>1, <1>a, MineType DEF ProgramConnects
  <2>2. ~Busy /\ Busy' /\ Latest' = c
    BY <2>1 DEF Busy, Latest, Used
  <2>3. client'[c] = "backlog" /\ \A d \in Clients : d # c => client'[d] = client[d]
    BY <1>a, <2>1
  <2>4. OneConnection'
    <3>1. \A f, g \in Fds : fdtab'[f] = Listen /\ fdtab'[g] = Listen => f = g
      BY <1>0, <2>1 DEF OneConnection, Owner
    <3>2. \A f \in Fds : fdtab'[f] \in {Free, Listen}
      BY <1>0, <2>1, <2>2 DEF OneConnection, Owner
    <3>3. \A d \in Clients : client'[d] = "backlog" => d = c
      BY <1>0, <2>2, <2>3 DEF OneConnection
    <3> QED BY <2>2, <2>3, <3>1, <3>2, <3>3 DEF OneConnection, Owner
  <2>5. Unharmed'
    BY <1>0, <2>1 DEF Unharmed
  <2>6. PartsSent'
    <3>1. client'[Latest'] = "backlog"
      BY <2>2, <2>3
    <3> QED BY <1>0, <2>1, <3>1 DEF PartsSent
  <2> QED BY <2>4, <2>5, <2>6
<1>2. CASE ProgramSends
  <2>1. cpc = "send" /\ cpc' = "select" /\ cnt' = cnt + 1 /\ UNCHANGED vars
    BY <1>2 DEF ProgramSends
  <2>2. Used' = Used /\ Busy
    BY <2>1 DEF Used, Busy
  <2> QED BY <1>b, <2>1, <2>2
<1>3. CASE SendFails
  <2>1. cpc = "send" /\ process # "running"
    BY <1>3 DEF SendFails
  <2> QED BY <1>0, <2>1 DEF ProgramInv, Unharmed, IInv, TypeOK
<1>4. CASE SelectReady
  <2>1. cpc = "select" /\ cpc' = "recv" /\ cnt' = cnt /\ UNCHANGED vars
    BY <1>4 DEF SelectReady
  <2>2. Used' = Used /\ Busy
    BY <2>1 DEF Used, Busy
  <2> QED BY <1>b, <2>1, <2>2
<1>5. CASE Timeout
  BY <1>5 DEF Timeout
<1>6. CASE RecvLoop
  <2>1. cpc = "recv" /\ cpc' = "close" /\ cnt' = cnt /\ Ended(Mine[cnt]) /\ UNCHANGED vars
    BY <1>6 DEF RecvLoop
  <2>2. Busy /\ ~Busy' /\ Latest = Mine[cnt] /\ Latest' = Latest
    BY <2>1 DEF Used, Busy, Latest
  <2>3. process = "running"
    BY <1>0, <2>1 DEF ProgramInv, Unharmed, IInv, TypeOK
  <2>4. client[Latest] # "backlog" /\ \A f \in Fds : Owner(f) # Latest
    BY <1>0, <2>1, <2>2, <2>3 DEF Ended, OneConnection
  <2>5. UNCHANGED <<client, fdtab, process, failed, wpc, response, header, sending, inbox, from, request>>
    BY <2>1 DEF vars
  <2>6. OneConnection'
    <3>1. \A f \in Fds : Owner(f) \in {Free, Listen}
      BY <1>0, <2>4 DEF OneConnection
    <3>2. \A d \in Clients : client[d] # "backlog"
      BY <1>0, <2>4 DEF OneConnection
    <3> QED BY <1>0, <2>2, <2>5, <3>1, <3>2 DEF OneConnection, Owner
  <2>7. Unharmed'
    BY <1>0, <2>5 DEF Unharmed
  <2>8. PartsSent'
    <3>1. inbox[Latest] # {} \/ Intended(request[Latest]) = "none"
      BY <1>0, <2>2, <2>4 DEF PartsSent, Owners
    <3> QED BY <1>0, <2>2, <2>5, <3>1 DEF PartsSent
  <2> QED BY <2>6, <2>7, <2>8
<1>7. CASE ProgramCloses
  <2>1. cpc = "close" /\ cpc' = "connect" /\ UNCHANGED vars
    BY <1>7 DEF ProgramCloses
  <2>2. ~Busy /\ ~Busy'
    BY <2>1 DEF Busy
  <2>3. UNCHANGED <<client, fdtab, process, failed, wpc, response, header, sending, inbox, from, request>>
    BY <2>1 DEF vars
  <2>4. OneConnection'
    BY <1>0, <2>2, <2>3 DEF OneConnection, Owner
  <2>5. Unharmed'
    BY <1>0, <2>3 DEF Unharmed
  <2>6. PartsSent'
    BY <1>0, <2>1, <2>2, <2>3 DEF PartsSent
  <2> QED BY <2>4, <2>5, <2>6
<1> QED BY <1>1, <1>2, <1>3, <1>4, <1>5, <1>6, <1>7 DEF Program

(* Nor does the network, which closes no connection that is still used.        *)
LEMMA DeliveryStep ==
  ASSUME IInv, ProgramInv, PatientInv, Patient, Delivery
  PROVE  OneConnection' /\ Unharmed' /\ PartsSent'
<1>0. OneConnection /\ Unharmed /\ PartsSent
  BY PatientFacts
<1> PICK i \in 1 .. cnt : Deliver(i) \/ CloseArrives(i)
  BY DEF Delivery
<1>1. /\ UNCHANGED <<request, inbox, failed, process, fdtab, workerVars, programVars>>
      /\ \/ UNCHANGED client
         \/ Closed(i) /\ client' = [client EXCEPT ![Mine[i]] = "closed"]
  BY DEF Deliver, CloseArrives, Send, HangUp
<1>2. UNCHANGED <<Busy, Latest, cpc>>
  BY <1>1 DEF Busy, Latest, Used, programVars
<1>3. /\ \A d \in Clients : client'[d] = client[d] \/ client'[d] = "closed"
      /\ Busy \/ cpc = "close" => client'[Latest] = client[Latest]
  <2>1. client \in [Clients -> {"idle", "backlog", "open", "closed", "reset"}]
    BY DEF IInv, TypeOK
  <2>2. ASSUME Busy \/ cpc = "close", Closed(i) PROVE Mine[i] # Latest /\ Latest \in Clients
    <3>1. Used \in 1 .. Len(Mine) /\ Latest \in Clients
      BY <2>2, PatientFacts
    <3>2. i # Used /\ i \in 1 .. Len(Mine)
      BY <2>2, <3>1, MineType DEF Closed, Used, Busy, ProgramInv
    <3> QED BY <3>1, <3>2, MineType DEF Latest
  <2> QED BY <1>1, <2>1, <2>2
<1>4. OneConnection'
  <2>1. \A d \in Clients : client'[d] = "backlog" => client[d] = "backlog"
    BY <1>3
  <2> QED BY <1>0, <1>1, <1>2, <1>3, <2>1 DEF OneConnection, Owner
<1>5. Unharmed'
  BY <1>0, <1>1 DEF Unharmed, workerVars, readVars, sendVars
<1>6. PartsSent'
  BY <1>0, <1>1, <1>2, <1>3 DEF PartsSent, Owners, Owner, workerVars, readVars, sendVars
<1> QED BY <1>4, <1>5, <1>6

(* Patience is not found again, nor is a server that one had for oneself; and  *)
(* no stranger moves without being seen.                                    *)
LEMMA PatientBefore ==
  ASSUME TypeOK, ProgramInv, [ProgramNext]_allVars, Patient'
  PROVE  Patient /\ ~Stranger
<1>0. /\ client \in [Clients -> {"idle", "backlog", "open", "closed", "reset"}]
      /\ Strangers \subseteq Clients /\ gaveUp' = {}
      /\ \A s \in Strangers : client'[s] = "idle"
  BY DEF TypeOK, Strangers, Patient, Alone
<1>1. CASE ProgramConnects
  <2>1. cnt + 1 \in 1 .. Len(Mine) /\ UNCHANGED gaveUp
    BY <1>1, MineType DEF ProgramConnects, ProgramInv
  <2>2. \A s \in Strangers : s # Mine[cnt + 1]
    BY <2>1, MineType
  <2>3. \A s \in Strangers : client'[s] = client[s]
    BY <1>0, <1>1, <2>2 DEF ProgramConnects
  <2>4. ~Stranger
    BY <1>1 DEF ProgramConnects, Stranger, programVars
  <2> QED BY <1>0, <2>1, <2>3, <2>4 DEF Patient, Alone
<1>2. CASE ProgramSends \/ SendFails \/ SelectReady \/ Timeout \/ RecvLoop \/ ProgramCloses
  <2>1. UNCHANGED client /\ gaveUp = {} /\ cpc' # cpc
    BY <1>0, <1>2
    DEF ProgramSends, SendFails, SelectReady, Timeout, RecvLoop, ProgramCloses, vars, clientVars
  <2> QED BY <1>0, <2>1 DEF Patient, Alone, Stranger, programVars
<1>3. CASE Stranger
  <2> PICK s \in Strangers : ClientStep(s)
    BY <1>3 DEF Stranger
  <2>1. client'[s] # "idle"
    BY <1>0 DEF ClientStep, Connect, Send, HangUp, Break
  <2> QED BY <1>0, <2>1
<1>4. CASE Delivery /\ ~Stranger
  <2> PICK i \in 1 .. cnt : Deliver(i) \/ CloseArrives(i)
    BY <1>4 DEF Delivery
  <2>1. UNCHANGED gaveUp /\ (UNCHANGED client \/ client' = [client EXCEPT ![Mine[i]] = "closed"])
    BY DEF Deliver, CloseArrives, Send, HangUp, programVars
  <2>2. i \in 1 .. Len(Mine)
    BY MineType DEF ProgramInv, Used
  <2>3. \A s \in Strangers : client'[s] = client[s]
    BY <1>0, <2>1, <2>2, MineType
  <2> QED BY <1>0, <1>4, <2>1, <2>3 DEF Patient, Alone
<1>5. CASE Server /\ ~Stranger
  <2>1. (AcceptLoop \/ Worker) /\ UNCHANGED gaveUp
    BY <1>5 DEF Server, programVars
  <2> QED BY <1>0, <1>5, <2>1, ServerStep DEF Patient, Alone
<1>6. CASE UNCHANGED allVars /\ ~Stranger
  BY <1>0, <1>6 DEF allVars, vars, clientVars, programVars, Patient, Alone
<1> QED BY <1>1, <1>2, <1>3, <1>4, <1>5, <1>6 DEF ProgramNext, Program

(* Every step keeps PatientInv.                                             *)
LEMMA PatientStep ==
  ASSUME IInv, ProgramInv, PatientInv, [ProgramNext]_allVars
  PROVE  PatientInv'
<1> SUFFICES ASSUME Patient' PROVE OneConnection' /\ Unharmed' /\ PartsSent'
  BY DEF PatientInv
<1>0. Patient /\ ~Stranger /\ gaveUp' = {}
  BY PatientBefore DEF IInv, Patient
<1>1. CASE Program
  BY <1>0, <1>1, PatientProgramStep
<1>2. CASE Delivery
  BY <1>0, <1>2, DeliveryStep
<1>3. CASE Server
  BY <1>0, <1>3, AcceptStep, WorkerKeeps DEF Server
<1>4. CASE UNCHANGED allVars
  <2>1. OneConnection /\ Unharmed /\ PartsSent
    BY <1>0 DEF PatientInv
  <2>2. UNCHANGED <<client, fdtab, process, failed, wpc, response, header, sending, inbox, from,
                    request, cpc, cnt>>
    BY <1>4 DEF allVars, vars, clientVars, workerVars, readVars, sendVars, programVars
  <2> QED BY <2>1, <2>2 DEF OneConnection, Unharmed, PartsSent, Owners, Owner, Busy, Latest, Used
<1> QED BY <1>0, <1>1, <1>2, <1>3, <1>4 DEF ProgramNext

(* A patient program that has the server for itself has one connection at a     *)
(* time, and the server answers each request in full and closes it.          *)
THEOREM PatientInvariance == ProgramSpec => []PatientInv
<1>1. ProgramInit => PatientInv
  BY NotClient DEF ProgramInit, Init, PatientInv, OneConnection, Unharmed, PartsSent, Owner, Owners,
                   Busy, Free, Listen
<1>2. IInv /\ ProgramInv /\ PatientInv /\ [ProgramNext]_allVars => PatientInv'
  BY PatientStep
<1> QED BY <1>1, <1>2, ProgramInvariance, PTL DEF ProgramSpec

(* As long as the program waits for every answer and has the server for itself, *)
(* nothing kills the server, and no descriptor is lacking.                  *)
THEOREM PatienceDoesNoHarm == ProgramSpec => []HarmlessIfPatient
<1>1. PatientInv => HarmlessIfPatient
  BY DEF PatientInv, Unharmed, HarmlessIfPatient
<1> QED BY <1>1, PatientInvariance, PTL

(* Such a program has the answer to its own request when it closes, unless the  *)
(* last segment was too short for the request line.                         *)
THEOREM PatienceIsRewarded == ProgramSpec => []PatientIsAnswered
<1>1. IInv /\ RightWhenLongEnough /\ ProgramInv /\ PatientInv => PatientIsAnswered
  <2> SUFFICES ASSUME IInv, RightWhenLongEnough, ProgramInv, PatientInv,
                      cpc = "close", Patient, 0 < cnt
               PROVE  LET c == Mine[cnt]
                      IN  IF Intended(request[c]) = "none"
                            THEN \A r \in inbox[c] : r.last < LineEnd(request[c])
                            ELSE /\ inbox[c] # {}
                                 /\ \A r \in inbox[c] : \/ r.kind = Intended(request[c])
                                                        \/ r.last < LineEnd(request[c])
    BY DEF PatientIsAnswered
  <2> PICK c : c = Mine[cnt]
    OBVIOUS
  <2>1. Latest = c /\ ~Busy
    BY DEF Latest, Used, Busy
  <2>2. c \in Clients /\ OneConnection /\ PartsSent /\ OwnRequest
    BY <2>1, PatientFacts
  <2>3. client[c] # "backlog" /\ c \notin Owners
    BY <2>1, <2>2, NotClient DEF OneConnection, Owners
  <2>4. inbox[c] # {} \/ Intended(request[c]) = "none"
    BY <2>1, <2>2, <2>3 DEF PartsSent
  <2>5. LineEnd(request[c]) \in Int
    BY <2>2, RequestsSent, LineEndType DEF IInv
  <2>6. ASSUME NEW r \in inbox[c]
        PROVE  r.kind # "none" /\ (r.kind = Intended(request[c]) \/ r.last < LineEnd(request[c]))
    <3>1. r.complete /\ r.kind # "none" /\ r.from = {c}
      BY <2>2 DEF PartsSent, OwnRequest
    <3>2. r.last \in Int
      BY <2>2, ServerAssumption DEF IInv, TypeOK, Responded
    <3>3. r.last >= LineEnd(request[c]) => r.kind = Intended(request[c])
      BY <2>2, <3>1 DEF RightWhenLongEnough
    <3> QED BY <2>5, <3>1, <3>2, <3>3
  <2> QED BY <2>4, <2>6
<1> QED BY <1>1, ProgramInvariance, PatientInvariance, PTL
=============================================================================
