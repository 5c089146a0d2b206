---------------------------- MODULE MCHttpHelpers ----------------------------
(* The helpers on lines and query strings against what they promise.          *)
EXTENDS MCInputs, HttpHelpers

(* The text with each line end, CR, LF or both, as one line feed.            *)
OneLineEnd(text) ==
    LET read[n \in 0 .. Len(text)] ==
          IF n = 0 THEN <<>>
          ELSE IF text[n] = LF /\ n > 1 /\ text[n - 1] = CR THEN read[n - 1]
          ELSE Append(read[n - 1], IF text[n] = CR THEN LF ELSE text[n])
    IN  read[Len(text)]

(* One more line is read; so far, fits says, each was shorter than the buffer *)
(* and had nothing behind its line end.                                      *)
ReadLine(size, s) ==
    LET r == get_request_line(s.stream, size)
    IN  [stream |-> r.stream, read |-> s.read \o r.line,
         fits |-> /\ s.fits /\ Len(r.line) < size
                  /\ \A i \in 1 .. Len(r.line) - 1 : r.line[i] # LF]

(* Line by line, get_request_line returns the whole text, however long the    *)
(* buffer is: no line end is lost, doubled or cut in two where a line is as   *)
(* long as the buffer, and none is followed by anything on its line.  Where   *)
(* the code goes further than its comment (a lone LF ends a line) or not as   *)
(* far (a line that the buffer or the end of the stream cuts gets no LF), this *)
(* says that no text is lost by it; FirstLineAsCommented is the comment.      *)
LinesKeepText ==
    LET text == Read(<<CR, LF, "a", "b">>)
    IN  \A size \in 2 .. 5 :
          While(LAMBDA t : ReadLine(size, t),
                [stream |-> text, read |-> <<>>, fits |-> TRUE], Len(text))
            = [stream |-> <<>>, read |-> OneLineEnd(text), fits |-> TRUE]

(* "以 '\r' 或 '\r\n' 为行结束符 ... 只是把 '\r\n' 之前的内容读取到 buf 中，最后再加   *)
(* 一个'\n\0'" (http_server.c:65): a line ends at CR or CR LF, what is before it  *)
(* goes to buf, and an LF is put behind it.                                  *)
FirstLineAsCommented ==
    LET text    == Read(<<CR, LF, "a", "b">>)
        end     == SelectInSeq(text, LAMBDA c : c = CR)
        content == IF end = 0 THEN text ELSE SubSeq(text, 1, end - 1)
    IN  get_request_line(text, Len(text) + 2).line = Append(content, LF)

(* The pairs of a query string: between the ampersands, each substring with   *)
(* an equals sign that has something behind it.                             *)
PairsOf(query) ==
    LET ends(n)   == n = Len(query) \/ query[n + 1] = "&"
        begin(n)  == SelectLastInSubSeq(query, 1, n, LAMBDA c : c = "&") + 1
        equals(n) == SelectInSubSeq(query, begin(n), n, LAMBDA c : c = "=")
        pairs[n \in 0 .. Len(query)] ==
          IF n = 0 THEN <<>>
          ELSE IF ends(n) /\ equals(n) \notin {0, n}
            THEN Append(pairs[n - 1], [key   |-> SubSeq(query, begin(n), equals(n) - 1),
                                       value |-> SubSeq(query, equals(n) + 1, n)])
            ELSE pairs[n - 1]
    IN  pairs[Len(query)]

(* parse_query_string finds the pairs of the query: its bound max_pairs, which *)
(* counts other substrings, never ends the search too early.  They are too    *)
(* many for deal_query_string from the 33rd on; up to there it counts the keys *)
(* other than name, as often as they come.                                  *)
PairsFound(query, name) ==
    LET pairs == PairsOf(query)
    IN  /\ parse_query_string(query) = pairs
        /\ deal_query_string(query) =
             IF Len(pairs) > 32 THEN Overrun
             ELSE -Cardinality({k \in DOMAIN pairs : pairs[k].key # name})

Copies(s, n) == [i \in 1 .. n * Len(s) |-> s[((i - 1) % Len(s)) + 1]]

(* So it is for queries that begin with a known name, its letters in either    *)
(* case, and for queries that have one part 32 or 33 times.                  *)
QueryPairsFound ==
    LET text == Read(<<"&", "=", "x", "y">>)
    IN  \A name \in {<<"c", "O", "V", "e", "R">>,
                     <<"S", "e", "R", "V", "e", "R", "_", "u", "R", "l">>} :
          /\ PairsFound(name \o text, name)
          /\ \A n \in {1, 32, 33} :
                n = 1 \/ Len(text) <= 3 => PairsFound(Copies(text, n), name)

(* The helpers lose nothing of a line and find every pair of a query string.  *)
HelpersKeepText == LinesKeepText /\ QueryPairsFound
=============================================================================
