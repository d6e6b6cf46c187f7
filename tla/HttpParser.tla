------------------------------ MODULE HttpParser ------------------------------
(***************************************************************************)
(* HTTPMessageParser: a state machine that reads a request or a response   *)
(* one character at a time, from as many pieces as the connection delivers *)
(* it in, and records where in the text each part lies.  Here it is given  *)
(* the successive parts of one text, as a caller that keeps what it has    *)
(* read does, and stops when the message is complete.  One step is one     *)
(* character, so that every place in a piece is a state.                   *)
(*                                                                         *)
(* A character is a string; the words whose letters the parser only        *)
(* compares (method, version, code, Content-Length) are one character.     *)
(* Positions count characters from 0, as in the code.                      *)
(***************************************************************************)
EXTENDS Integers, Sequences, SequencesExt

CONSTANTS
    Messages,   \* the messages a peer sends, see IsMessage and Plain
    Extra       \* what may follow a message: the beginning of the next one

\* What the parser knows: the keys of http_code_map are the known codes.
Methods == {"GET", "POST"}
Versions == {"HTTP/1.0", "HTTP/1.1"}
Codes == {"200", "404"}
LengthName == <<"Content-Length">>

\* Any digits; Messages has no value of a Content-Length from 2^31 on, at which
\* stoi throws.
Digit == [d \in {"0", "1", "2"} |->
             CASE d = "0" -> 0 [] d = "1" -> 1 [] d = "2" -> 2]

VARIABLES
    message,    \* the message that is being delivered
    mem,        \* the text of it and of what follows
    upto,       \* how much of it the parser was given
    p           \* the members of the parser and of its State object
vars == <<message, mem, upto, p>>

-----------------------------------------------------------------------------
(* The state objects.                                                       *)

\* "aborted" is no state object: an assertion or an exception ended the program.
Phases == {"method", "url", "version", "code", "detail", "header", "body", "aborted"}

\* new StateX().
Fresh(phase) ==
    [phase |-> phase, idx |-> 0, part |-> "key", emptyLine |-> FALSE,
     hasQuery |-> FALSE, prefixR |-> FALSE, keyOff |-> -1, keyLen |-> -1,
     valOff |-> -1]

\* (mistake) the part of the line is not set to its initial value.
Enter_KeepsPart(q, phase) == [q EXCEPT !.st = [Fresh(phase) EXCEPT !.part = q.st.part]]

\* next_state replaces the state after match returned.
Enter(q, phase) == [q EXCEPT !.st = Fresh(phase)]
Mismatch(q) == [q EXCEPT !.isMatch = FALSE]

\* The state object as match leaves it, now_idx counted up.
Stay(q, s) == [q EXCEPT !.st = [s EXCEPT !.idx = @ + 1]]

\* The constructor leaves code as it finds it, which may be a -1.
NewParser(isRequest, code) ==
    [isRequest |-> isRequest, code |-> code, isMatch |-> TRUE, totalLen |-> 0, nowLen |-> 0,
     begin |-> 0, st |-> Fresh(IF isRequest THEN "method" ELSE "version"),
     path |-> <<0, 0>>, query |-> <<>>, detail |-> <<0, 0>>, header |-> <<>>,
     body |-> <<0, 0>>]

\* string(begin_ptr + off, len); "?!" stands for memory outside the text.
Str(q, off, len) ==
    [i \in 1..len |-> LET k == q.begin + off + i
                      IN  IF k \in DOMAIN mem THEN mem[k] ELSE "?!"]

\* assignment to an element of an unordered_map
Put(f, k, v) == [x \in DOMAIN f \cup {k} |-> IF x = k THEN v ELSE f[x]]

Stoi(s) == FoldLeft(LAMBDA n, d : 10 * n + Digit[d], 0, s)

\* What match does to the parser q with its state object s, the character
\* read being c and counted in nowLen.
MatchMethod(q, s, c) ==
    IF s.idx = 0 THEN (IF c \in Methods THEN Stay(q, s) ELSE Mismatch(q))
    ELSE IF c = " " THEN Enter(q, "url") ELSE Mismatch(q)

PathBegins(q) == [q EXCEPT !.path = <<q.nowLen - 1, @[2]>>]
PathEnds(q) == [q EXCEPT !.path = <<@[1], q.nowLen - @[1] - 1>>]

\* A key and a value of the query, the last character being the separator.
QueryPair(q, s) ==
    [q EXCEPT !.query = Put(@, Str(q, s.keyOff, s.keyLen),
                            <<s.valOff, q.nowLen - s.valOff - 1>>)]

\* A pair ends that has no "=": the assertion of the last pair fails, and the
\* string of length -1, with which the key of any other is made, throws.
NoKey(s, c) == s.keyLen = -1 /\ (c = "&" \/ (c = " " /\ s.hasQuery))

MatchURL(q, s, c) ==
    IF NoKey(s, c) THEN Enter(q, "aborted") ELSE
    CASE c = "?" -> Stay(PathEnds(q), [s EXCEPT !.keyOff = q.nowLen, !.hasQuery = TRUE])
      [] c = "=" -> Stay(q, [s EXCEPT !.keyLen = q.nowLen - s.keyOff - 1,
                                      !.valOff = q.nowLen])
      [] c = "&" -> Stay(QueryPair(q, s), [s EXCEPT !.keyOff = q.nowLen,
                                                    !.keyLen = -1, !.valOff = -1])
      [] c = " " -> Enter(IF s.hasQuery THEN QueryPair(q, s) ELSE PathEnds(q), "version")
      [] OTHER   -> Stay(IF s.idx = 0 THEN PathBegins(q) ELSE q, s)

MatchVersion(q, s, c) ==
    CASE s.idx = 0 /\ c \in Versions -> Stay(q, s)
      [] s.idx = 1 /\ q.isRequest /\ c = "CR" -> Stay(q, s)
      [] s.idx = 1 /\ ~q.isRequest /\ c = " " -> Enter(q, "code")
      [] s.idx = 2 /\ q.isRequest /\ c = "LF" -> Enter(q, "header")
      [] OTHER -> Mismatch(q)

\* code is compared with -1, get_code's answer for an unknown code, before it
\* is set.
MatchCode(q, s, c) ==
    CASE s.idx = 0 /\ c \in Codes /\ q.code # "-1" -> Stay([q EXCEPT !.code = c], s)
      [] s.idx = 1 /\ c = " " -> Enter(q, "detail")
      [] OTHER -> Mismatch(q)

\* The position noted is one too far and the length two too many.
MatchDetail(q, s, c) ==
    CASE c = "CR" -> Stay(q, [s EXCEPT !.prefixR = TRUE])
      [] c = "LF" /\ s.prefixR ->
            Enter([q EXCEPT !.detail = <<q.nowLen - s.idx, s.idx + 1>>], "header")
      [] OTHER -> Stay(q, s)

\* The end of a header line: Content-Length sets total_len.
HeaderPair(q, s) ==
    LET key == Str(q, s.keyOff, s.keyLen)
        len == q.nowLen - s.valOff - 1
    IN  [q EXCEPT !.header = Put(@, key, <<s.valOff, len>>),
                  !.totalLen = IF key = LengthName
                               THEN Stoi(Str(q, s.valOff, len)) ELSE @]

MatchKey(q, s, c) ==
    Stay(q, CASE c = "CR" -> [s EXCEPT !.part = "end", !.emptyLine = TRUE]
              [] c # "CR" /\ s.idx = 0 -> [s EXCEPT !.keyOff = q.nowLen - 1]
              [] c = ":" /\ s.idx # 0 ->
                    [s EXCEPT !.part = "split", !.keyLen = q.nowLen - s.keyOff - 1]
              [] OTHER -> s)

MatchSplit(q, s, c) ==
    Stay(q, IF c = " " THEN s ELSE [s EXCEPT !.part = "value", !.valOff = q.nowLen - 1])

MatchValue(q, s, c) ==
    IF c = "CR" THEN Stay(HeaderPair(q, s), [s EXCEPT !.part = "end"]) ELSE Stay(q, s)

\* (mistake) now_idx is 1, not 0, at the start of the next header line.
MatchEnd_IdxOne(q, s, c) ==
    CASE c = "LF" /\ s.emptyLine -> Enter(q, "body")
      [] c = "LF" /\ ~s.emptyLine -> Stay(q, [s EXCEPT !.part = "key", !.idx = 0])
      [] OTHER -> Mismatch(q)

MatchEnd(q, s, c) ==
    CASE c = "LF" /\ s.emptyLine -> Enter(q, "body")
      [] c = "LF" /\ ~s.emptyLine -> Stay(q, [s EXCEPT !.part = "key", !.idx = -1])
      [] OTHER -> Mismatch(q)

MatchHeader(q, s, c) ==
    CASE s.part = "key"   -> MatchKey(q, s, c)
      [] s.part = "split" -> MatchSplit(q, s, c)
      [] s.part = "value" -> MatchValue(q, s, c)
      [] s.part = "end"   -> MatchEnd(q, s, c)

\* The end of the body is noted by the else of its beginning only.
MatchBody(q, s, c) ==
    Stay(CASE s.idx = 0 -> [q EXCEPT !.body = <<q.nowLen - 1, @[2]>>]
           [] s.idx # 0 /\ s.idx = q.totalLen - 1 ->
                 [q EXCEPT !.body = <<@[1], q.nowLen - @[1]>>]
           [] OTHER -> q, s)

\* One turn of the loop of parser_message.
Match(r, c) ==
    LET q == [r EXCEPT !.nowLen = @ + 1]
    IN  CASE r.st.phase = "method"  -> MatchMethod(q, r.st, c)
          [] r.st.phase = "url"     -> MatchURL(q, r.st, c)
          [] r.st.phase = "version" -> MatchVersion(q, r.st, c)
          [] r.st.phase = "code"    -> MatchCode(q, r.st, c)
          [] r.st.phase = "detail"  -> MatchDetail(q, r.st, c)
          [] r.st.phase = "header"  -> MatchHeader(q, r.st, c)
          [] r.st.phase = "body"    -> MatchBody(q, r.st, c)

IsCompleted(q) == q.st.phase = "body" /\ q.st.idx = q.totalLen

\* get_request_message and get_response_message, without the start line's words.
GetMessage(q) ==
    LET view(pos) == Str(q, pos[1], pos[2])
    IN  [path |-> view(q.path), detail |-> view(q.detail), body |-> view(q.body),
         query |-> [k \in DOMAIN q.query |-> view(q.query[k])],
         header |-> [k \in DOMAIN q.header |-> view(q.header[k])]]

-----------------------------------------------------------------------------
(* What a message is: a text, and where in it each part lies, as pairs of a *)
(* position and a length.  IsMessage follows the HTTP standard, but for     *)
(* these: a body is as long as a length in the header says, or absent (no   *)
(* chunks, no end at the end of the connection); the white space before a   *)
(* value is spaces only, and any behind it belongs to the value.  Plain     *)
(* singles out the messages that the parser is made for.                    *)

End(pos) == pos[1] + pos[2]
Part(m, pos) == [i \in 1..pos[2] |-> m.text[pos[1] + i]]
Reads(m, k, chars) == k < Len(m.text) /\ m.text[k + 1] \in chars
Free(m, pos, chars) == \A k \in pos[1]..End(pos) - 1 : m.text[k + 1] \notin chars
Distinct(m, pairs) ==
    \A i, j \in DOMAIN pairs : Part(m, pairs[i].key) = Part(m, pairs[j].key) => i = j

Positions == Nat \X Nat
Pairs == [key : Positions, val : Positions]
InURL == {"?", "=", "&", " "}

\* Where the i-th pair of the query begins, and the i-th line of the header;
\* behind the last of them comes what follows.
QueryAt(m, i) == (IF i = 1 THEN End(m.path) ELSE End(m.query[i - 1].val)) + 1
URLEnd(m) == QueryAt(m, Len(m.query) + 1) - 1
LineAt(m, i) ==
    IF i > 1 THEN End(m.header[i - 1].val) + 2
    ELSE IF m.isRequest THEN URLEnd(m) + 4 ELSE End(m.detail) + 2
HeaderEnds(m) == LineAt(m, Len(m.header) + 1)

\* A pair without a value may lack the "=" as well.
IsQueryPair(m, i) ==
    LET key == m.query[i].key
        val == m.query[i].val
    IN  /\ key[1] = QueryAt(m, i)
        /\ Reads(m, key[1] - 1, {IF i = 1 THEN "?" ELSE "&"})
        /\ Free(m, key, {"=", "&", " "}) /\ Free(m, val, {"&", " "})
        /\ \/ val[1] = End(key) + 1 /\ Reads(m, End(key), {"="})
           \/ val = <<End(key), 0>>

IsRequestLine(m) ==
    /\ Len(m.text) > 0 /\ Reads(m, 1, {" "})
    /\ m.path[1] = 2 /\ m.path[2] > 0 /\ Free(m, m.path, {"?", " "})
    /\ \A i \in DOMAIN m.query : IsQueryPair(m, i)
    /\ Reads(m, URLEnd(m), {" "}) /\ Reads(m, URLEnd(m) + 1, Versions)
    /\ Reads(m, URLEnd(m) + 2, {"CR"}) /\ Reads(m, URLEnd(m) + 3, {"LF"})

IsStatusLine(m) ==
    /\ Reads(m, 0, Versions) /\ Reads(m, 1, {" "}) /\ Reads(m, 3, {" "})
    /\ m.detail[1] = 4 /\ Free(m, m.detail, {"CR", "LF"})
    /\ Reads(m, End(m.detail), {"CR"}) /\ Reads(m, End(m.detail) + 1, {"LF"})

\* Any number of spaces may stand between the colon and the value, which may
\* be empty.
IsHeaderLine(m, i) ==
    LET key == m.header[i].key
        val == m.header[i].val
    IN  /\ key[1] = LineAt(m, i) /\ key[2] > 0 /\ Free(m, key, {":", "CR"})
        /\ Reads(m, End(key), {":"})
        /\ val[1] > End(key)
        /\ \A k \in End(key) + 1..val[1] - 1 : m.text[k + 1] = " "
        /\ Free(m, val, {"CR"}) /\ m.text[val[1] + 1] # " "
        /\ Reads(m, End(val), {"CR"}) /\ Reads(m, End(val) + 1, {"LF"})

\* The length of the body is what the header says, in whichever spelling of the
\* name, and 0 if it is silent.
LengthNames == {LengthName, <<"content-length">>}

IsBody(m) ==
    LET lengths == {i \in DOMAIN m.header : Part(m, m.header[i].key) \in LengthNames}
    IN  /\ m.body[1] = HeaderEnds(m) + 2
        /\ End(m.body) = Len(m.text)
        /\ \A i \in lengths : Stoi(Part(m, m.header[i].val)) = m.body[2]
        /\ lengths = {} => m.body[2] = 0

IsMessage(m) ==
    /\ m.isRequest \in BOOLEAN
    /\ m.text \in Seq(STRING)
    /\ {m.path, m.detail, m.body} \subseteq Positions
    /\ m.query \in Seq(Pairs) /\ m.header \in Seq(Pairs)
    /\ IF m.isRequest THEN IsRequestLine(m) ELSE IsStatusLine(m)
    /\ \A i \in DOMAIN m.header : IsHeaderLine(m, i)
    /\ Reads(m, HeaderEnds(m), {"CR"}) /\ Reads(m, HeaderEnds(m) + 1, {"LF"})
    /\ IsBody(m)

\* A method or a code that the parser knows; no separator of the query inside
\* the path, a key or a value; a "=" in each pair; no header without a value;
\* the length under the one name that the parser compares; no name twice.  A
\* message without any one of these may not be read as the standard has it:
\* refused, misread, never completed, or the end of the program.
PlainPair(m, pair) ==
    /\ pair.val[1] = End(pair.key) + 1
    /\ Free(m, pair.key, InURL) /\ Free(m, pair.val, InURL)

PlainRequestLine(m) ==
    /\ Reads(m, 0, Methods) /\ Free(m, m.path, InURL)
    /\ \A i \in DOMAIN m.query : PlainPair(m, m.query[i])
    /\ Distinct(m, m.query)

Plain(m) ==
    /\ IF m.isRequest THEN PlainRequestLine(m) ELSE Reads(m, 2, Codes)
    /\ \A i \in DOMAIN m.header :
          m.header[i].val[2] > 0 /\ Part(m, m.header[i].key) \notin LengthNames \ {LengthName}
    /\ Distinct(m, m.header)

ASSUME ParserAssumption == /\ \A m \in Messages : IsMessage(m)
                           /\ Extra \subseteq Seq(STRING)

-----------------------------------------------------------------------------
Init == /\ message \in Messages
        /\ mem \in {message.text \o extra : extra \in Extra}
        /\ upto = 0
        /\ p \in {NewParser(message.isRequest, code) :
                     code \in IF message.isRequest THEN {"unset"} ELSE {"unset", "-1"}}

\* The caller has its message, an error, or nothing more to read, or is gone.
Stopped == \/ ~p.isMatch \/ p.st.phase = "aborted"
           \/ p.nowLen = upto /\ (IsCompleted(p) \/ upto = Len(mem))

\* (mistake) begin_ptr is the beginning of the piece.
Receive_FromPiece(n) ==
    /\ ~Stopped /\ p.nowLen = upto
    /\ upto' = upto + n
    /\ upto' <= Len(mem)
    /\ p' = [p EXCEPT !.begin = upto]
    /\ UNCHANGED <<message, mem>>

\* The next n characters arrive, and parser_message is called on them:
\* begin_ptr is as far before them as the message began.
Receive(n) ==
    /\ ~Stopped /\ p.nowLen = upto
    /\ upto' = upto + n
    /\ upto' <= Len(mem)
    /\ p' = [p EXCEPT !.begin = upto - p.nowLen]
    /\ UNCHANGED <<message, mem>>

\* A turn of its loop, which a mismatch ends.
Parse == /\ p.isMatch /\ p.st.phase # "aborted"
         /\ p.nowLen < upto
         /\ p' = Match(p, mem[p.nowLen + 1])
         /\ UNCHANGED <<message, mem, upto>>

Done == Stopped /\ UNCHANGED vars

Next == (\E n \in 1..Len(mem) : Receive(n)) \/ Parse \/ Done

Spec == Init /\ [][Next]_vars

-----------------------------------------------------------------------------
(* Correctness.                                                             *)

\* The members have their types, and a new state object starts afresh.
TypeOK ==
    /\ p.isMatch \in BOOLEAN
    /\ p.code \in Codes \cup {"unset", "-1"}
    /\ upto \in 0..Len(mem)
    /\ p.nowLen \in 0..upto
    /\ Plain(message) => p.totalLen \in 0..message.body[2]
    /\ p.st.phase \in Phases
    /\ p.st.part \in {"key", "split", "value", "end"}
    /\ p.st.idx \in 0..p.nowLen
    /\ p.st.phase # "header" => p.st.part = "key" /\ ~p.st.emptyLine

\* A plain message is never refused and never ends the program, and it is
\* complete exactly when its last character has been read, however it was cut
\* into pieces: not before, and not when the beginning of the next message came
\* in the same piece.  Excepted is a response whose parser found a -1 in its
\* code.  Of messages that are not plain this does not hold.
CompletedExactly ==
    Plain(message) /\ p.code # "-1" =>
        /\ p.isMatch /\ p.st.phase # "aborted"
        /\ IsCompleted(p) <=> p.nowLen = Len(message.text)

\* The keys of pairs, each with its value, are what the map f holds.
HoldsPairs(f, pairs) ==
    LET key(i) == Part(message, pairs[i].key)
    IN  /\ DOMAIN f = {key(i) : i \in DOMAIN pairs}
        /\ \A i \in DOMAIN pairs : f[key(i)] = Part(message, pairs[i].val)

\* What the parser hands out of a plain message is what was sent, for every way
\* of cutting the text into pieces.  A body of one character is the exception: its end is
\* never noted and it comes out empty.  So is the detail of a response, which
\* StateDetail misplaces.
Understood ==
    LET got == GetMessage(p)
    IN  Plain(message) /\ IsCompleted(p) =>
          /\ message.isRequest => /\ got.path = Part(message, message.path)
                                  /\ HoldsPairs(got.query, message.query)
          /\ HoldsPairs(got.header, message.header)
          /\ message.body[2] # 1 => got.body = Part(message, message.body)
=============================================================================
