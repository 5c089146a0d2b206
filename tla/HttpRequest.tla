----------------------------- MODULE HttpRequest -----------------------------
(***************************************************************************)
(* What the HTTP server makes of the bytes of a request: parse_request_line, *)
(* parse_path_with_params and the choice of the response in accept_request.  *)
(*                                                                         *)
(* Text is a sequence of tokens.  A name that a TCP segment may cut in two  *)
(* is two tokens ("GE" "T", "ho" "me"); "CRLF" is a line end, "NUL" what    *)
(* the zeroed buffer holds behind the text.                                *)
(***************************************************************************)
EXTENDS Integers, Sequences, SequencesExt

Nul     == "NUL"
IsSpace(b) == b \in {"SP", "CRLF"}

Get     == <<"GE", "T">>
Post    == <<"PO", "ST">>
Root    == <<"/">>
Home    == <<"/", "ho", "me">>
Hello   == <<"/", "he", "llo">>
SetParams == <<"/", "set", "_params">>
Reboot  == <<"/", "re", "boot">>
Jpeg    == <<"/", "jp", "eg">>
Missing == <<"/", "mis", "sing">>

Request(method, url) == method \o <<"SP">> \o url \o <<"SP", "HTTP", "CRLF", "CRLF">>

(* strstr(request_header, "\r\n\r\n") != NULL                                *)
HeaderComplete(h) == \E i \in 1 .. Len(h) - 1 : h[i] = "CRLF" /\ h[i + 1] = "CRLF"

(* A C string ends at its first NUL.                                         *)
Text(s) ==
    LET z == SelectInSeq(s, LAMBDA b : b = Nul)
    IN  IF z = 0 THEN s ELSE SubSeq(s, 1, z - 1)

(* The loops of parse_request_line: from byte i on, to the first one that is  *)
(* white space ("space"), or is none ("word"), or to the end of the n bytes. *)
FirstFrom(i, buf, n, kind) ==
    CHOOSE k \in i .. n + 1 :
        /\ k = n + 1 \/ (IsSpace(buf[k]) <=> kind = "space")
        /\ \A j \in i .. k - 1 : IsSpace(buf[j]) <=> kind # "space"

(* parse_request_line on the first n bytes of buf: the word up to the first  *)
(* space is the method, the next word the url; how many bytes they take.     *)
ParseRequestLine(buf, n) ==
    LET m == FirstFrom(1, buf, n, "space")
        u == FirstFrom(m, buf, n, "word")
        e == FirstFrom(u, buf, n, "space")
    IN  [method |-> Text(SubSeq(buf, 1, m - 1)),
         url    |-> Text(SubSeq(buf, u, e - 1)),
         length |-> e - 1]

(* parse_path_with_params: the path ends at a question mark.                 *)
Path(url) ==
    LET q == SelectInSeq(url, LAMBDA b : b = "?")
    IN  IF q = 0 THEN url ELSE SubSeq(url, 1, q - 1)

(* accept_request: which response a request line gets; "/set_params" and      *)
(* "/reboot" get none.                                                      *)
Route(line) ==
    CASE line.method # Get                            -> "501"
      [] Path(line.url) = Hello                       -> "hello"
      [] Path(line.url) \in {SetParams, Reboot}       -> "none"
      [] Path(line.url) = Jpeg                        -> "jpeg"
      [] Path(line.url) \in {Root, Home}              -> "home"
      [] OTHER                                        -> "404"

Responses == {"501", "hello", "none", "jpeg", "home", "404"}

(* The send() calls of each response: TRUE where the flags are 0, so that a   *)
(* connection the client has reset raises SIGPIPE, FALSE with MSG_NOSIGNAL. *)
(* The eight sends of a 501, the nine of a 404 and the many of a picture    *)
(* are two here: a first one, and one with something sent before it.        *)
Sends(response) ==
    CASE response \in {"501", "404"}   -> <<TRUE, TRUE>>
      [] response \in {"home", "jpeg"} -> <<TRUE, FALSE>>
      [] response = "hello"            -> <<TRUE>>
      [] response = "none"             -> <<>>
=============================================================================
