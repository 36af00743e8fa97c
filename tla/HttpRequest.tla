---------------------------- MODULE HttpRequest ----------------------------
(***************************************************************************)
(* The request parser of the first version (Examples/Ver0.1/HttpData.cpp): *)
(* what requestData::handleRequest makes of the bytes it has read.         *)
(*                                                                         *)
(* A request is a sequence of symbols.  A separator is a symbol of its     *)
(* own; a word (a method, a file name, a header's key, a value) is one     *)
(* symbol and reaches to the next separator, and each byte of the body is  *)
(* a symbol.  What the parser looks for inside the request line (`GET',    *)
(* `POST', `1.0', `1.1') has no separator in it, so it is in one word:     *)
(* the constants say in which.                                             *)
(***************************************************************************)
EXTENDS Integers, Sequences, SequencesExt

CONSTANTS
  stoi(_),      \* the number a word spells
  HasGET,       \* the words in which `GET' occurs, such as FORGET
  HasPOST,      \* those in which `POST' occurs
  HasVersion    \* those that begin with `1.0' or `1.1'

ASSUME WordsAssumption ==
  /\ "GET" \in HasGET /\ "POST" \in HasPOST /\ {"1.0", "1.1"} \subseteq HasVersion
  /\ {" ", "/", "HTTP"} \cap (HasGET \cup HasPOST) = {}

CR == "\r"
LF == "\n"

\* A new requestData.
requestData ==
  [state |-> "PARSE_URI", h_state |-> "start", content |-> <<>>,
   method |-> "none", file_name |-> <<>>, headers |-> {},
   flag |-> "none"]      \* why handleRequest left its loop, if it has

\* The first position from n on at which one of the words is in s, or 0.
Find(s, words, n) == SelectInSubSeq(s, n, Len(s), LAMBDA w : w \in words)

-----------------------------------------------------------------------------
\* GET is looked for first, anywhere in the line and inside of words; the
\* file's name goes from the first / after the method to the next space, without
\* the part after a `?'.
parse_URI(r) ==
  LET cr == Find(r.content, {CR}, 1)
      line == SubSeq(r.content, 1, cr - 1)
      get == Find(line, HasGET, 1)
      pos == IF get # 0 THEN get ELSE Find(line, HasPOST, 1)
      name == Find(line, {"/"}, pos)
      space == Find(line, {" "}, name)
      query == Find(SubSeq(line, 1, space), {"?"}, name)
      slash == Find(line, {"/"}, space)
      rest == [r EXCEPT !.content = SubSeq(@, cr + 1, Len(@))]
  IN  CASE cr = 0 -> [r EXCEPT !.flag = "again"]
        [] cr # 0 /\ ( \/ pos = 0 \/ name = 0 \/ space = 0
                       \/ slash = 0 \/ slash = Len(line) ) ->
             [rest EXCEPT !.flag = "error"]
        [] OTHER ->
             [rest EXCEPT
                !.method = IF get # 0 THEN "GET" ELSE "POST",
                !.file_name = IF space = name + 1 THEN <<"index.html">>
                              ELSE SubSeq(line, name + 1,
                                          (IF query = 0 THEN space ELSE query) - 1),
                !.flag = IF line[slash + 1] \in HasVersion THEN @ ELSE "error",
                !.state = IF line[slash + 1] \in HasVersion
                          THEN "PARSE_HEADERS" ELSE @]

\* The state after the symbol c; a value of more than 255 bytes is an error.
NextHeaderState(h_state, c) ==
  CASE h_state = "start"  -> IF c \in {CR, LF} THEN "start" ELSE "key"
    [] h_state = "key"    -> IF c = ":" THEN "colon" ELSE IF c \in {CR, LF} THEN "error" ELSE "key"
    [] h_state = "colon"  -> IF c = " " THEN "spaces_after_colon" ELSE "error"
    [] h_state = "spaces_after_colon" -> IF c = "overlong" THEN "error" ELSE "value"
    [] h_state = "value"  -> IF c = CR THEN "CR" ELSE IF c = "overlong" THEN "error" ELSE "value"
    [] h_state = "CR"     -> IF c = LF THEN "LF" ELSE "error"
    [] h_state = "LF"     -> IF c = CR THEN "end_CR" ELSE "key"
    [] h_state = "end_CR" -> IF c = LF THEN "end_LF" ELSE "error"
    [] h_state = "end_LF" -> "end_LF"

\* One turn of the loop, at position i of str; p holds the local variables.
HeaderStep(str, p, i) ==
  LET h == NextHeaderState(p.h_state, str[i])
      key == SubSeq(str, p.key_start, p.key_end - 1)
      value == SubSeq(str, p.value_start, p.value_end - 1)
  IN  IF p.h_state = "error" \/ ~p.notFinish THEN p
      ELSE [h_state |-> h,
            notFinish |-> p.h_state # "end_LF",
            key_start |-> IF h = "key" /\ p.h_state # "key" THEN i ELSE p.key_start,
            key_end |-> IF h = "colon" THEN i ELSE p.key_end,
            value_start |-> IF p.h_state = "spaces_after_colon" THEN i ELSE p.value_start,
            value_end |-> IF h = "CR" THEN i ELSE p.value_end,
            now_read_line_begin |->
              IF h = "LF" \/ p.h_state = "end_LF" \/ (p.h_state = "start" /\ h = "key")
              THEN i ELSE p.now_read_line_begin,
            headers |-> IF h # "LF" THEN p.headers
                        ELSE {x \in p.headers : x[1] # key} \cup {<<key, value>>}]

\* The loop.
HeaderScan(str, start) ==
  LET scan[i \in 0 .. Len(str)] == IF i = 0 THEN start ELSE HeaderStep(str, scan[i - 1], i)
  IN  scan[Len(str)]

\* When the blank line is the last thing read, what stays in content begins at
\* the line end of the last header.
parse_Headers(r) ==
  LET p == HeaderScan(r.content, [h_state |-> r.h_state, notFinish |-> TRUE,
             key_start |-> 0, key_end |-> 0, value_start |-> 0, value_end |-> 0,
             now_read_line_begin |-> 1, headers |-> r.headers])
  IN  [r EXCEPT !.h_state = p.h_state,
                !.headers = p.headers,
                !.content = IF p.h_state = "error" THEN @
                            ELSE SubSeq(@, p.now_read_line_begin, Len(@)),
                !.flag = CASE p.h_state = "error"  -> "error"
                           [] p.h_state = "end_LF" -> @
                           [] OTHER                -> "again",
                !.state = IF p.h_state # "end_LF" THEN @
                          ELSE IF r.method = "POST" THEN "RECV_BODY" ELSE "ANALYSIS"]

\* Mutant: the body is not waited for.
MutRecv_body(r) ==
  IF \E x \in r.headers : x[1] = <<"Content-length">>
  THEN [r EXCEPT !.state = "ANALYSIS"] ELSE [r EXCEPT !.flag = "error"]

\* The last thing in the loop before the analysis.
recv_body(r) ==
  LET lengths == {x[2] : x \in {y \in r.headers : y[1] = <<"Content-length">>}}
  IN  IF lengths = {} THEN [r EXCEPT !.flag = "error"]
      ELSE IF \E v \in lengths : Len(r.content) < stoi(v[1]) THEN r
      ELSE [r EXCEPT !.state = "ANALYSIS"]

\* handleRequest from readn, which returned `reads', up to the analysis (the
\* answers are in HttpServer): each state is entered in the same pass of the loop
\* if the one before it has been left.
AfterLine(r) == IF r.state = "PARSE_URI" THEN parse_URI(r) ELSE r
AfterHeaders(r) ==
  IF r.flag = "none" /\ r.state = "PARSE_HEADERS" THEN parse_Headers(r) ELSE r
AfterBody(r) == IF r.flag = "none" /\ r.state = "RECV_BODY" THEN recv_body(r) ELSE r

Received(r, reads) == AfterBody(AfterHeaders(AfterLine([r EXCEPT !.content = @ \o reads])))

-----------------------------------------------------------------------------
(* Requests as clients mean them.  Field h of r begins at r.at[h], and the *)
(* blank line after the fields at r.at[Len(r.fields) + 1].                 *)

\* The words are those of s from position n on.
HasAt(s, n, words) == \A i \in DOMAIN words : s[n + i - 1] = words[i]

\* The method that a word stands for.
Taken(word) == IF word \in HasGET THEN "GET" ELSE "POST"

\* The method is where it belongs.  It is looked for everywhere, so that
\* POST /WIDGET HTTP/1.1 is refused and POST /WIDGET/x HTTP/1.1 asks for x.
IsClear(r) ==
  \/ r.method \in HasGET
  \/ LET others == {r.version} \cup {r.file[i] : i \in DOMAIN r.file}
     IN  others \cap (IF r.method \in HasPOST THEN HasGET ELSE HasGET \cup HasPOST) = {}

\* GET /file HTTP/1.1.
HasLine(r) ==
  /\ r.method # CR /\ r.version # CR
  /\ r.file \in Seq(STRING \ {CR, " "})
  /\ HasAt(r.message, 1, <<r.method, " ", "/">>)
  /\ HasAt(r.message, 4, r.file)
  /\ HasAt(r.message, 4 + Len(r.file), <<" ", "HTTP", "/", r.version, CR, LF>>)
  /\ \E n \in 0 .. Len(r.file) :
       /\ \A i \in 1 .. n : r.file[i] # "?"
       /\ n = Len(r.file) \/ r.file[n + 1] = "?"
       /\ r.file_name = IF r.file = <<>> THEN <<"index.html">> ELSE SubSeq(r.file, 1, n)

\* key: value.  No key comes twice.
HasFields(r) ==
  /\ r.fields \in Seq([key : STRING \ {CR, LF, ":"}, value : Seq(STRING \ {CR}) \ {<<>>}])
  /\ \A g, h \in DOMAIN r.fields : r.fields[g].key = r.fields[h].key => g = h
  /\ r.at \in Seq(Nat) /\ Len(r.at) = Len(r.fields) + 1 /\ r.at[1] = 10 + Len(r.file)
  /\ \A h \in DOMAIN r.fields :
       LET f == r.fields[h]
           cr == r.at[h] + 3 + Len(f.value)
       IN  /\ HasAt(r.message, r.at[h], <<f.key, ":", " ">>)
           /\ HasAt(r.message, r.at[h] + 3, f.value)
           /\ HasAt(r.message, cr, <<CR, LF>>)
           /\ r.at[h + 1] = cr + 2
  /\ HasAt(r.message, r.at[Len(r.at)], <<CR, LF>>)
  /\ r.headerEnd = r.at[Len(r.at)] + 1
  /\ r.headers = {<<<<r.fields[h].key>>, r.fields[h].value>> : h \in DOMAIN r.fields}

\* What the server takes.
IsValid(r) ==
  /\ r.method \in HasGET \cup HasPOST /\ r.version \in HasVersion
  /\ \A h \in DOMAIN r.fields : ~Contains(r.fields[h].value, "overlong")
  /\ r.method \notin HasGET => \E h \in DOMAIN r.fields : r.fields[h].key = "Content-length"

\* The body is as long as the request says; there is none without fields.
HasBody(r) ==
  /\ Len(r.message) >= r.headerEnd
  /\ r.fields = <<>> => Len(r.message) = r.headerEnd
  /\ \A h \in DOMAIN r.fields : r.fields[h].key = "Content-length" =>
       LET length == stoi(r.fields[h].value[1])
       IN  length \in Nat /\ r.headerEnd + length = Len(r.message)

IsRequest(r) ==
  /\ r.message \in Seq(STRING)
  /\ HasLine(r) /\ IsClear(r) /\ HasFields(r) /\ HasBody(r)
  /\ r.valid = IsValid(r)

\* Part of a request line.
IsFragment(r) == r.message \in Seq(STRING \ {CR}) /\ ~r.valid /\ r.headers = {}
=============================================================================
