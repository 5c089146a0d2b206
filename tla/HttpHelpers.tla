----------------------------- MODULE HttpHelpers -----------------------------
(***************************************************************************)
(* Helpers of http_server.c on lines and query strings.  No caller is left    *)
(* for get_request_line; the call of deal_query_string is commented out.      *)
(* Text is a sequence of characters; CR, LF and NUL stand for those three.    *)
(***************************************************************************)
EXTENDS Loops, FiniteSets

CR == "CR"
LF == "LF"

(* Mutant of BehindCR: the line feed of a CR LF stays in the stream.         *)
BehindCRPeeks(rest) == rest

(* A line feed behind a carriage return is looked at first, then taken.      *)
BehindCR(rest) == IF IsPrefix(<<LF>>, rest) THEN Tail(rest) ELSE rest

(* A turn of the loop: one character is received.                            *)
LineTurn(size, s) ==
    IF s.ended \/ Len(s.line) >= size - 1 THEN s
    ELSE IF s.stream = <<>> THEN [s EXCEPT !.ended = TRUE]
    ELSE IF Head(s.stream) = CR
      THEN [stream |-> BehindCR(Tail(s.stream)), line |-> Append(s.line, LF), ended |-> TRUE]
      ELSE [stream |-> Tail(s.stream), line |-> Append(s.line, Head(s.stream)),
            ended |-> Head(s.stream) = LF]

(* The line that is left in buf, and what is left to receive.                 *)
get_request_line(stream, size) ==
    LET s == While(LAMBDA t : LineTurn(size, t),
                   [stream |-> stream, line |-> <<>>, ended |-> FALSE], size)
    IN  [line |-> s.line, stream |-> s.stream]

-----------------------------------------------------------------------------
(* The bound on the pairs: the number of substrings that are not empty.       *)
max_pairs(query) ==
    LET next(i) == IF i < Len(query) THEN query[i + 1] ELSE "NUL"
    IN  Cardinality({i \in 1 .. Len(query) : query[i] # "&" /\ next(i) \in {"&", "NUL"}})

(* Mutant of IsPair: a value may be empty.                                   *)
IsPairAlways(token, e) == e # 0

(* e is the place of the first equals sign: something must come behind it.    *)
IsPair(token, e) == e # 0 /\ e # Len(token)

KeepPair(token, pairs) ==
    LET e == SelectInSeq(token, LAMBDA c : c = "=")
    IN  IF IsPair(token, e)
          THEN Append(pairs, [key |-> SubSeq(token, 1, e - 1),
                              value |-> SubSeq(token, e + 1, Len(token))])
          ELSE pairs

(* A turn of the loop: one token after the other, the one behind the last "&"  *)
(* included, until there is none left or max_pairs of them were kept.        *)
QueryTurn(max, s) ==
    LET a == SelectInSeq(s.rest, LAMBDA c : c = "&")
    IN  IF s.ended \/ Len(s.pairs) >= max THEN s
        ELSE [rest  |-> SubSeq(s.rest, a + 1, Len(s.rest)),
              ended |-> a = 0,
              pairs |-> KeepPair(IF a = 0 THEN s.rest ELSE SubSeq(s.rest, 1, a - 1), s.pairs)]

parse_query_string(query) ==
    While(LAMBDA t : QueryTurn(max_pairs(query), t),
          [rest |-> query, ended |-> FALSE, pairs |-> <<>>], Len(query) + 1).pairs

(* strcasecmp: a letter of a name may come in either case, each for itself.  *)
Capital == [c |-> "C", e |-> "E", l |-> "L", o |-> "O", r |-> "R", s |-> "S",
            u |-> "U", v |-> "V"]

SameName(key, name) ==
    /\ Len(key) = Len(name)
    /\ \A i \in DOMAIN name :
          key[i] = name[i] \/ (name[i] \in DOMAIN Capital /\ key[i] = Capital[name[i]])

Cover     == <<"c", "o", "v", "e", "r">>
ServerUrl == <<"s", "e", "r", "v", "e", "r", "_", "u", "r", "l">>

Known(key) == SameName(key, Cover) \/ SameName(key, ServerUrl)

(* The array that takes the pairs has this many elements.  parse_query_string *)
(* does not know: one pair more is written behind the array, and there is no  *)
(* result.  Overrun stands for that; no result of the function is positive.  *)
MaxPairs == 32
Overrun  == 1

(* Minus the number of keys that are not known; what a known one did is       *)
(* commented out.                                                           *)
deal_query_string(query) ==
    LET pairs == parse_query_string(query)
    IN  IF Len(pairs) > MaxPairs THEN Overrun
        ELSE -Cardinality({k \in DOMAIN pairs : ~Known(pairs[k].key)})
=============================================================================
