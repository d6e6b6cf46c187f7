--------------------------- MODULE HttpParserProofs ---------------------------
(***************************************************************************)
(* Theorems about HttpParser for every set of messages of any length, with *)
(* any number of query pairs and header lines, every text that may follow, *)
(* and every way of cutting them into pieces: of a message that is Plain   *)
(* the parser accepts all, is complete at its last character and hands out *)
(* what was sent; of any other only the types are claimed.                 *)
(***************************************************************************)
EXTENDS HttpParser, TLAPS

-----------------------------------------------------------------------------
(* The inductive invariant: at every character, the parser is in the state  *)
(* object for the place that the character has in the message, with the     *)
(* positions noted and the maps filled that are behind that place.          *)

StateObjects ==
    [phase : Phases, idx : Int, part : {"key", "split", "value", "end"},
     emptyLine : BOOLEAN, hasQuery : BOOLEAN, prefixR : BOOLEAN,
     keyOff : Int, keyLen : Int, valOff : Int]

\* The members that p has, and their types; of the maps nothing is said.
Shape(q) ==
    q = [isRequest |-> q.isRequest, code |-> q.code, isMatch |-> q.isMatch,
         totalLen |-> q.totalLen, nowLen |-> q.nowLen, begin |-> q.begin,
         st |-> q.st, path |-> q.path, query |-> q.query, detail |-> q.detail,
         header |-> q.header, body |-> q.body]

Types(q) ==
    /\ q.isRequest \in BOOLEAN /\ q.isMatch \in BOOLEAN
    /\ q.code \in Codes \cup {"unset", "-1"}
    /\ q.nowLen \in Nat
    /\ q.st \in StateObjects
    /\ q.path \in Int \X Int /\ q.body \in Int \X Int

Members(q) == Shape(q) /\ Types(q)

\* The map f holds the positions of the values of the first n pairs.
Holds(f, pairs, n) ==
    /\ DOMAIN f = {Part(message, pairs[i].key) : i \in 1..n}
    /\ \A i \in 1..n : f[Part(message, pairs[i].key)] = pairs[i].val

IsLength(i) == Part(message, message.header[i].key) = LengthName

-----------------------------------------------------------------------------
(* What was read when the parser is in a state object.                      *)

\* The query up to its n-th pair, and the path before it.
QueryRead(q, n) == q.path = message.path /\ Holds(q.query, message.query, n)

\* The start line.
StartRead(q) == /\ message.isRequest => QueryRead(q, Len(message.query))
                /\ ~message.isRequest => q.code # "-1"

\* The header up to its n-th line, and no body yet.
HeaderRead(q, n) ==
    /\ StartRead(q)
    /\ Holds(q.header, message.header, n)
    /\ (\E i \in 1..n : IsLength(i)) => q.totalLen = message.body[2]
    /\ (\A i \in 1..n : ~IsLength(i)) => q.totalLen = 0
    /\ q.body = <<0, 0>>

\* Nothing of the header.
NoHeader(q) == DOMAIN q.header = {} /\ q.totalLen = 0 /\ q.body = <<0, 0>>

InMethod(q) == /\ q.st.phase = "method"
               /\ message.isRequest
               /\ q.nowLen = q.st.idx /\ q.st.idx <= 1
               /\ NoHeader(q) /\ DOMAIN q.query = {}

InPath(q) == /\ q.st.phase = "url" /\ ~q.st.hasQuery
             /\ message.isRequest
             /\ q.nowLen = q.st.idx + 2 /\ q.nowLen <= End(message.path)
             /\ q.st.idx > 0 => q.path[1] = 2
             /\ NoHeader(q) /\ DOMAIN q.query = {}

\* The key, and the value, of the i-th pair of the query.
InKey(q, i) == LET key == message.query[i].key
               IN  /\ q.st.phase = "url" /\ q.st.hasQuery
                   /\ q.st.idx > 0
                   /\ q.st.keyOff = key[1]
                   /\ key[1] <= q.nowLen /\ q.nowLen <= End(key)

InValue(q, i) == LET key == message.query[i].key
                     val == message.query[i].val
                 IN  /\ q.st.phase = "url" /\ q.st.hasQuery
                     /\ q.st.idx > 0
                     /\ q.st.keyOff = key[1] /\ q.st.keyLen = key[2]
                     /\ q.st.valOff = val[1]
                     /\ val[1] <= q.nowLen /\ q.nowLen <= End(val)

InQuery(q, i) == /\ message.isRequest
                 /\ InKey(q, i) \/ InValue(q, i)
                 /\ QueryRead(q, i - 1)
                 /\ NoHeader(q)

InVersion(q) ==
    /\ q.st.phase = "version"
    /\ message.isRequest => /\ q.nowLen = URLEnd(message) + 1 + q.st.idx
                            /\ q.st.idx <= 2
                            /\ QueryRead(q, Len(message.query))
    /\ ~message.isRequest => q.nowLen = q.st.idx /\ q.st.idx <= 1
    /\ NoHeader(q)

InCode(q) == /\ q.st.phase = "code"
             /\ ~message.isRequest
             /\ q.nowLen = q.st.idx + 2 /\ q.st.idx <= 1
             /\ q.st.idx = 1 => q.code # "-1"
             /\ NoHeader(q)

InDetail(q) == /\ q.st.phase = "detail"
               /\ ~message.isRequest
               /\ 4 <= q.nowLen /\ q.nowLen <= End(message.detail) + 1
               /\ q.st.prefixR <=> q.nowLen = End(message.detail) + 1
               /\ StartRead(q) /\ NoHeader(q)

\* The key, the colon with its spaces, the value and the end of the i-th line.
AtKey(q, i) == LET key == message.header[i].key
               IN  /\ q.st.part = "key"
                   /\ q.st.idx > 0 => q.st.keyOff = key[1]
                   /\ q.nowLen <= End(key)

AtSplit(q, i) == LET key == message.header[i].key
                     val == message.header[i].val
                 IN  /\ q.st.part = "split"
                     /\ q.st.keyOff = key[1] /\ q.st.keyLen = key[2]
                     /\ End(key) < q.nowLen /\ q.nowLen <= val[1]

AtValue(q, i) == LET key == message.header[i].key
                     val == message.header[i].val
                 IN  /\ q.st.part = "value"
                     /\ q.st.keyOff = key[1] /\ q.st.keyLen = key[2]
                     /\ q.st.valOff = val[1]
                     /\ val[1] < q.nowLen /\ q.nowLen <= End(val)

AtEnd(q, i) == q.st.part = "end" /\ q.nowLen = LineAt(message, i + 1) - 1

InLine(q, i) ==
    /\ q.st.phase = "header" /\ ~q.st.emptyLine
    /\ q.nowLen = LineAt(message, i) + q.st.idx
    /\ \/ (AtKey(q, i) \/ AtSplit(q, i) \/ AtValue(q, i)) /\ HeaderRead(q, i - 1)
       \/ AtEnd(q, i) /\ HeaderRead(q, i)

\* The empty line.
InEmptyLine(q) ==
    /\ q.st.phase = "header"
    /\ \/ q.st.part = "key" /\ ~q.st.emptyLine /\ q.st.idx = 0
       \/ q.st.part = "end" /\ q.st.emptyLine /\ q.st.idx = 1
    /\ q.nowLen = HeaderEnds(message) + q.st.idx
    /\ HeaderRead(q, Len(message.header))

\* The body, or what follows it.
InBody(q) ==
    LET body == message.body
    IN  /\ q.st.phase = "body"
        /\ q.nowLen = body[1] + q.st.idx
        /\ q.totalLen = body[2]
        /\ q.st.idx > 0 => q.body[1] = body[1]
        /\ q.st.idx >= body[2] /\ body[2] # 1 => q.body[2] = body[2]
        /\ StartRead(q) /\ Holds(q.header, message.header, Len(message.header))

Reading(q) ==
    \/ InMethod(q) \/ InPath(q) \/ InVersion(q) \/ InCode(q) \/ InDetail(q)
    \/ \E i \in DOMAIN message.query : InQuery(q, i)
    \/ \E i \in DOMAIN message.header : InLine(q, i)
    \/ InEmptyLine(q) \/ InBody(q)

\* The parser stopped at a code that it compared too early.
Refused(q) == q.code = "-1" /\ q.st.phase = "code" /\ q.totalLen = 0

\* The message is one that the parser is made for.
Given == IsMessage(message) /\ Plain(message)

\* The text that is delivered begins with a message.
Sent == /\ message \in Messages
        /\ mem \in Seq(STRING)
        /\ Len(message.text) <= Len(mem)
        /\ \A k \in 1..Len(message.text) : mem[k] = message.text[k]

\* Of every message.
Working(q) ==
    /\ Members(q)
    /\ q.isRequest = message.isRequest /\ q.begin = 0
    /\ q.st.idx \in 0..q.nowLen
    /\ q.st.phase # "header" => q.st.part = "key" /\ ~q.st.emptyLine

\* Of a plain one.
Parsing(q) == Working(q) /\ IF q.isMatch THEN Reading(q) ELSE Refused(q)

IInv ==
    /\ Sent /\ Working(p)
    /\ Plain(message) => Parsing(p)
    /\ upto \in 0..Len(mem) /\ p.nowLen <= upto

-----------------------------------------------------------------------------
(* What the steps of a turn do to the members.                              *)

Read(q) == [q EXCEPT !.nowLen = @ + 1]

SameStart(q, r) == r.code = q.code /\ r.path = q.path /\ r.query = q.query
SameHeader(q, r) == r.totalLen = q.totalLen /\ r.header = q.header /\ r.body = q.body
SameRest(q, r) == r.isRequest = q.isRequest /\ r.begin = q.begin /\ r.isMatch = q.isMatch
Same(q, r) == SameStart(q, r) /\ SameHeader(q, r) /\ SameRest(q, r)

\* The character is counted.
LEMMA ReadIs ==
  ASSUME NEW q, Members(q)
  PROVE  /\ Members(Read(q)) /\ Same(q, Read(q))
         /\ Read(q).nowLen = q.nowLen + 1 /\ Read(q).st = q.st
<1>1. Same(q, Read(q)) /\ Read(q).nowLen = q.nowLen + 1 /\ Read(q).st = q.st
  BY DEF Members, Shape, Read, Same, SameStart, SameHeader, SameRest
<1>2. Members(Read(q))
  BY DEF Members, Shape, Types, Read
<1> QED BY <1>1, <1>2

\* The state object as match leaves it.
LEMMA StayIs ==
  ASSUME NEW q, Members(q), NEW s \in StateObjects
  PROVE  /\ Members(Stay(q, s)) /\ Same(q, Stay(q, s))
         /\ Stay(q, s).nowLen = q.nowLen
         /\ Stay(q, s).st = [s EXCEPT !.idx = @ + 1]
<1>1. /\ Same(q, Stay(q, s))
      /\ Stay(q, s).nowLen = q.nowLen
      /\ Stay(q, s).st = [s EXCEPT !.idx = @ + 1]
  BY DEF Members, Shape, Stay, Same, SameStart, SameHeader, SameRest
<1>2. [s EXCEPT !.idx = @ + 1] \in StateObjects
  BY DEF StateObjects
<1>3. Members(Stay(q, s))
  BY <1>2 DEF Members, Shape, Types, Stay
<1> QED BY <1>1, <1>3

\* A mismatch.
LEMMA MismatchIs ==
  ASSUME NEW q, Members(q), NEW r, r = Mismatch(q)
  PROVE  /\ Members(r) /\ SameStart(q, r) /\ SameHeader(q, r)
         /\ r.isRequest = q.isRequest /\ r.begin = q.begin /\ ~r.isMatch
         /\ r.nowLen = q.nowLen /\ r.st = q.st
<1>1. /\ SameStart(q, r) /\ SameHeader(q, r)
      /\ r.isRequest = q.isRequest /\ r.begin = q.begin /\ ~r.isMatch
      /\ r.nowLen = q.nowLen /\ r.st = q.st
  BY DEF Members, Shape, Mismatch, SameStart, SameHeader
<1>2. Members(r)
  BY DEF Members, Shape, Types, Mismatch
<1> QED BY <1>1, <1>2

\* A new state object.
LEMMA EnterIs ==
  ASSUME NEW q, Members(q), NEW phase \in Phases
  PROVE  /\ Members(Enter(q, phase)) /\ Same(q, Enter(q, phase))
         /\ Enter(q, phase).nowLen = q.nowLen
         /\ Enter(q, phase).st = Fresh(phase)
<1>1. /\ Same(q, Enter(q, phase))
      /\ Enter(q, phase).nowLen = q.nowLen
      /\ Enter(q, phase).st = Fresh(phase)
  BY DEF Members, Shape, Enter, Same, SameStart, SameHeader, SameRest
<1>2. Fresh(phase) \in StateObjects
  BY DEF Fresh, StateObjects
<1>3. Members(Enter(q, phase))
  BY <1>2 DEF Members, Shape, Types, Enter
<1> QED BY <1>1, <1>3

\* The members after the beginning or the end of the path was noted.
LEMMA PathIs ==
  ASSUME NEW q, Members(q)
  PROVE  /\ LET r == PathBegins(q)
            IN  /\ Members(r) /\ SameHeader(q, r) /\ SameRest(q, r)
                /\ r.nowLen = q.nowLen /\ r.st = q.st
                /\ r.code = q.code /\ r.query = q.query
                /\ r.path = <<q.nowLen - 1, q.path[2]>>
         /\ LET r == PathEnds(q)
            IN  /\ Members(r) /\ SameHeader(q, r) /\ SameRest(q, r)
                /\ r.nowLen = q.nowLen /\ r.st = q.st
                /\ r.code = q.code /\ r.query = q.query
                /\ r.path = <<q.path[1], q.nowLen - q.path[1] - 1>>
<1>1. LET r == PathBegins(q)
      IN  /\ Members(r) /\ SameHeader(q, r) /\ SameRest(q, r)
          /\ r.nowLen = q.nowLen /\ r.st = q.st
          /\ r.code = q.code /\ r.query = q.query
          /\ r.path = <<q.nowLen - 1, q.path[2]>>
  BY DEF Members, Shape, Types, PathBegins, SameHeader, SameRest
<1>2. LET r == PathEnds(q)
      IN  /\ Members(r) /\ SameHeader(q, r) /\ SameRest(q, r)
          /\ r.nowLen = q.nowLen /\ r.st = q.st
          /\ r.code = q.code /\ r.query = q.query
          /\ r.path = <<q.path[1], q.nowLen - q.path[1] - 1>>
  BY DEF Members, Shape, Types, PathEnds, SameHeader, SameRest
<1> QED BY <1>1, <1>2

\* The members after a pair of the query.
LEMMA QueryPairIs ==
  ASSUME NEW q, Members(q), NEW s
  PROVE  LET r == QueryPair(q, s)
         IN  /\ Members(r) /\ SameHeader(q, r) /\ SameRest(q, r)
             /\ r.nowLen = q.nowLen /\ r.st = q.st
             /\ r.code = q.code /\ r.path = q.path
             /\ r.query = Put(q.query, Str(q, s.keyOff, s.keyLen),
                              <<s.valOff, q.nowLen - s.valOff - 1>>)
BY DEF Members, Shape, Types, QueryPair, SameHeader, SameRest

\* The members after a line of the header.
LEMMA HeaderPairIs ==
  ASSUME NEW q, Members(q), NEW s, NEW key, NEW len,
         key = Str(q, s.keyOff, s.keyLen), len = q.nowLen - s.valOff - 1
  PROVE  LET r == HeaderPair(q, s)
         IN  /\ Members(r) /\ SameStart(q, r) /\ SameRest(q, r)
             /\ r.nowLen = q.nowLen /\ r.st = q.st /\ r.body = q.body
             /\ r.header = Put(q.header, key, <<s.valOff, len>>)
             /\ r.totalLen = IF key = LengthName
                             THEN Stoi(Str(q, s.valOff, len)) ELSE q.totalLen
<1> DEFINE total == IF key = LengthName
                    THEN Stoi(Str(q, s.valOff, len)) ELSE q.totalLen
           lines == Put(q.header, key, <<s.valOff, len>>)
           r == [q EXCEPT !.header = lines, !.totalLen = total]
<1>1. HeaderPair(q, s) = r
  BY DEF HeaderPair, Members, Shape
<1> HIDE DEF total, lines
<1>2. /\ SameStart(q, r) /\ SameRest(q, r)
      /\ r.nowLen = q.nowLen /\ r.st = q.st /\ r.body = q.body
      /\ r.header = lines /\ r.totalLen = total
  BY DEF Members, Shape, SameStart, SameRest
<1>3. Shape(r)
  <2> DEFINE u == [q EXCEPT !.header = lines]
             w == [u EXCEPT !.totalLen = total]
  <2>1. Shape(u)
    BY DEF Members, Shape
  <2>2. r = w
    BY DEF Members, Shape
  <2> HIDE DEF u
  <2>3. Shape(w)
    BY <2>1 DEF Shape
  <2> QED BY <2>2, <2>3
<1>4. Types(r)
  <2> HIDE DEF r
  <2> QED BY <1>2 DEF Members, Types, SameStart, SameRest
<1> QED BY <1>1, <1>2, <1>3, <1>4 DEF total, lines, Members

-----------------------------------------------------------------------------
(* The text and the maps.                                                   *)

\* What a part of the message is in the memory.
LEMMA StrIsPart ==
  ASSUME Sent, Given, NEW q, q.begin = 0, NEW pos \in Positions,
         End(pos) <= Len(message.text)
  PROVE  Str(q, pos[1], pos[2]) = Part(message, pos)
<1>1. pos[1] \in Nat /\ pos[2] \in Nat /\ message.text \in Seq(STRING)
  BY DEF Positions, Given, IsMessage
<1>2. ASSUME NEW i \in 1..pos[2]
      PROVE  pos[1] + i \in DOMAIN mem /\ mem[pos[1] + i] = message.text[pos[1] + i]
  <2>1. pos[1] + i \in 1..Len(message.text)
    BY <1>1 DEF End
  <2> QED BY <2>1, <1>1 DEF Sent
<1> QED BY <1>1, <1>2 DEF Str, Part

\* The next character is the one that the message has there.
LEMMA NextChar ==
  ASSUME Sent, Given, NEW k \in Nat, NEW chars, Reads(message, k, chars)
  PROVE  /\ k < Len(message.text)
         /\ mem[k + 1] = message.text[k + 1] /\ mem[k + 1] \in chars
<1>1. message.text \in Seq(STRING) /\ k < Len(message.text) /\ message.text[k + 1] \in chars
  BY DEF Given, IsMessage, Reads
<1>2. k + 1 \in 1..Len(message.text)
  BY <1>1
<1> QED BY <1>1, <1>2 DEF Sent

\* The same for one expected character.
LEMMA NextIs ==
  ASSUME Sent, Given, NEW k \in Nat, NEW c, Reads(message, k, {c})
  PROVE  k < Len(message.text) /\ mem[k + 1] = c
BY NextChar

\* Inside a part, the next character is none that would end it.
LEMMA FreeChar ==
  ASSUME Sent, Given,
         NEW pos \in Positions, NEW chars, Free(message, pos, chars),
         NEW k \in Nat, pos[1] <= k, k < End(pos), End(pos) <= Len(message.text)
  PROVE  mem[k + 1] = message.text[k + 1] /\ mem[k + 1] \notin chars
<1>1. pos[1] \in Nat /\ pos[2] \in Nat /\ message.text \in Seq(STRING)
  BY DEF Positions, Given, IsMessage
<1>2. k + 1 \in 1..Len(message.text) /\ k \in pos[1]..End(pos) - 1
  BY <1>1 DEF End
<1> QED BY <1>2 DEF Sent, Free

\* An empty map holds no pairs.
LEMMA HoldsNone ==
  ASSUME NEW f, DOMAIN f = {}, NEW pairs
  PROVE  Holds(f, pairs, 0)
BY DEF Holds

\* One more pair, whose key is none of those before, is added to the map.
LEMMA HoldsPut ==
  ASSUME NEW pairs, NEW n \in Nat, DOMAIN pairs = 1..Len(pairs), Len(pairs) \in Nat,
         n + 1 \in DOMAIN pairs, Distinct(message, pairs),
         NEW f, Holds(f, pairs, n)
  PROVE  Holds(Put(f, Part(message, pairs[n + 1].key), pairs[n + 1].val), pairs, n + 1)
<1> DEFINE K(i) == Part(message, pairs[i].key)
           g == Put(f, K(n + 1), pairs[n + 1].val)
<1>1. DOMAIN g = DOMAIN f \cup {K(n + 1)}
  BY DEF Put
<1>2. DOMAIN f = {K(i) : i \in 1..n}
  BY DEF Holds
<1>3. 1..n + 1 = (1..n) \cup {n + 1}
  OBVIOUS
<1>4. DOMAIN g = {K(i) : i \in 1..n + 1}
  BY <1>1, <1>2, <1>3
<1>5. ASSUME NEW i \in 1..n + 1
      PROVE  g[K(i)] = pairs[i].val
  <2>1. CASE i = n + 1
    BY <2>1, <1>1 DEF Put
  <2>2. CASE i # n + 1
    <3>1. i \in 1..n /\ i \in DOMAIN pairs
      BY <2>2
    <3>2. K(i) # K(n + 1)
      BY <3>1, <2>2 DEF Distinct
    <3>3. K(i) \in DOMAIN f /\ f[K(i)] = pairs[i].val
      BY <3>1 DEF Holds
    <3> QED BY <3>2, <3>3, <1>1 DEF Put
  <2> QED BY <2>1, <2>2
<1> QED BY <1>4, <1>5 DEF Holds

-----------------------------------------------------------------------------
(* One turn, state object by state object.                                  *)

\* What each turn is given, and what is known when its match is called.
Before(q) == /\ Sent /\ Given
             /\ Parsing(q) /\ q.isMatch /\ q.nowLen < Len(mem)

\* The parser as match finds it.
LEMMA TurnBegins ==
  ASSUME NEW q, Before(q)
  PROVE  /\ q.nowLen \in Nat /\ q.st \in StateObjects /\ q.st.idx \in 0..q.nowLen
         /\ Members(q) /\ Members(Read(q)) /\ Same(q, Read(q))
         /\ Read(q).nowLen = q.nowLen + 1 /\ Read(q).st = q.st
         /\ q.isRequest = message.isRequest
BY ReadIs DEF Before, Parsing, Working, Members, Types

\* After a turn in which the state object stays, or a new one comes.
LEMMA Stayed ==
  ASSUME NEW q, Before(q), NEW q1, Members(q1), SameRest(q, q1), q1.nowLen = q.nowLen + 1,
         NEW s \in StateObjects, s.idx + 1 \in 0..q.nowLen + 1,
         s.phase # "header" => s.part = "key" /\ ~s.emptyLine,
         NEW r, r = Stay(q1, s)
  PROVE  /\ Same(q1, r) /\ r.nowLen = q.nowLen + 1
         /\ r.st.phase = s.phase /\ r.st.idx = s.idx + 1 /\ r.st.part = s.part
         /\ r.st.emptyLine = s.emptyLine /\ r.st.hasQuery = s.hasQuery
         /\ r.st.prefixR = s.prefixR
         /\ r.st.keyOff = s.keyOff /\ r.st.keyLen = s.keyLen /\ r.st.valOff = s.valOff
         /\ Reading(r) => Parsing(r)
<1>1. /\ Members(r) /\ Same(q1, r) /\ r.nowLen = q1.nowLen
      /\ r.st = [s EXCEPT !.idx = @ + 1]
  BY StayIs
<1>2. /\ r.st.phase = s.phase /\ r.st.idx = s.idx + 1 /\ r.st.part = s.part
      /\ r.st.emptyLine = s.emptyLine /\ r.st.hasQuery = s.hasQuery
      /\ r.st.prefixR = s.prefixR
      /\ r.st.keyOff = s.keyOff /\ r.st.keyLen = s.keyLen /\ r.st.valOff = s.valOff
  BY <1>1 DEF StateObjects
<1>3. r.isMatch /\ r.isRequest = message.isRequest /\ r.begin = 0
  BY <1>1 DEF Before, Parsing, Working, Same, SameRest
<1> QED BY <1>1, <1>2, <1>3 DEF Parsing, Working

\* After a turn in which next_state puts in a new state object.
LEMMA Entered ==
  ASSUME NEW q, Before(q), NEW q1, Members(q1), SameRest(q, q1), q1.nowLen = q.nowLen + 1,
         NEW phase \in Phases, NEW r, r = Enter(q1, phase)
  PROVE  /\ Same(q1, r) /\ r.nowLen = q.nowLen + 1
         /\ r.st.phase = phase /\ r.st.idx = 0 /\ r.st.part = "key"
         /\ ~r.st.emptyLine /\ ~r.st.hasQuery /\ ~r.st.prefixR
         /\ Reading(r) => Parsing(r)
<1>1. /\ Members(r) /\ Same(q1, r) /\ r.nowLen = q1.nowLen
      /\ r.st = Fresh(phase)
  BY EnterIs
<1>2. /\ r.st.phase = phase /\ r.st.idx = 0 /\ r.st.part = "key"
      /\ ~r.st.emptyLine /\ ~r.st.hasQuery /\ ~r.st.prefixR
  BY <1>1 DEF Fresh
<1>3. r.isMatch /\ r.isRequest = message.isRequest /\ r.begin = 0
  BY <1>1 DEF Before, Parsing, Working, Same, SameRest
<1>4. 0 \in 0..r.nowLen
  BY <1>1 DEF Members, Types
<1> QED BY <1>1, <1>2, <1>3, <1>4 DEF Parsing, Working

\* The turns of StateMethod.
LEMMA MethodTurn ==
  ASSUME NEW q, Before(q), InMethod(q),
         NEW c, c = mem[q.nowLen + 1], NEW q1, q1 = Read(q), NEW r, r = Match(q, c)
  PROVE  Parsing(r)
<1>1. /\ Members(q1) /\ Same(q, q1) /\ SameRest(q, q1) /\ q1.nowLen = q.nowLen + 1
      /\ q.st \in StateObjects /\ q.nowLen \in Nat /\ q.st.idx \in 0..q.nowLen
      /\ q.st.phase = "method" /\ q.st.part = "key" /\ ~q.st.emptyLine
  BY TurnBegins DEF Before, Parsing, Working, InMethod, Same
<1>2. r = MatchMethod(q1, q.st, c)
  BY TurnBegins DEF Match, Read, InMethod
<1>3. Reads(message, 0, Methods) /\ Reads(message, 1, {" "})
  BY DEF Before, Given, IsMessage, Plain, InMethod, IsRequestLine, PlainRequestLine
<1>4. CASE q.st.idx = 0
  <2>1. q.nowLen = 0
    BY <1>3, <1>4 DEF InMethod
  <2>2. c \in Methods
    BY <2>1, <1>1, <1>3, NextChar DEF Before
  <2>3. r = Stay(q1, q.st)
    BY <1>2, <1>4, <2>2 DEF MatchMethod
  <2>4. /\ Same(q1, r) /\ r.nowLen = 1 /\ r.st.phase = "method" /\ r.st.idx = 1
        /\ Reading(r) => Parsing(r)
    BY <1>1, <1>4, <2>1, <2>3, Stayed
  <2>5. InMethod(r)
    BY <1>1, <2>4 DEF InMethod, NoHeader, Same, SameStart, SameHeader
  <2> QED BY <2>4, <2>5 DEF Reading
<1>5. CASE q.st.idx # 0
  <2>1. q.nowLen = 1
    BY <1>1, <1>5 DEF InMethod
  <2>2. c = " "
    BY <2>1, <1>3, NextIs DEF Before
  <2>3. r = Enter(q1, "url")
    BY <1>2, <1>5, <2>2 DEF MatchMethod
  <2>4. /\ Same(q1, r) /\ r.nowLen = 2 /\ r.st.phase = "url" /\ r.st.idx = 0
        /\ ~r.st.hasQuery /\ (Reading(r) => Parsing(r))
    BY <1>1, <2>1, <2>3, Entered DEF Phases
  <2>5. 2 <= End(message.path)
    <3>1. message.path[1] = 2 /\ message.path[2] \in Nat
      BY DEF Before, Given, IsMessage, InMethod, IsRequestLine, Positions
    <3> QED BY ONLY <3>1 DEF End
  <2>6. InPath(r)
    BY <1>1, <2>4, <2>5 DEF InMethod, InPath, NoHeader, Same, SameStart, SameHeader
  <2> QED BY <2>4, <2>6 DEF Reading
<1> QED BY <1>4, <1>5

\* The request line: the path, and behind it the query or the end of the URL.
LEMMA PathAt ==
  ASSUME Given, message.isRequest
  PROVE  /\ message.path \in Positions /\ message.path[1] = 2
         /\ message.path[2] \in Nat \ {0} /\ End(message.path) = 2 + message.path[2]
         /\ Free(message, message.path, InURL)
         /\ Len(message.query) \in Nat
         /\ DOMAIN message.query = 1..Len(message.query)
         /\ Len(message.query) = 0 => URLEnd(message) = End(message.path)
         /\ Len(message.query) = 0 => Reads(message, End(message.path), {" "})
         /\ Len(message.query) > 0 => Reads(message, End(message.path), {"?"})
<1>0. message.query \in Seq(Pairs)
  BY DEF Given, IsMessage
<1>1. message.path \in Positions /\ message.path[1] = 2 /\ message.path[2] > 0
  BY DEF Given, IsMessage, IsRequestLine
<1>a. /\ Free(message, message.path, InURL)
      /\ \A i \in DOMAIN message.query : IsQueryPair(message, i)
      /\ Reads(message, URLEnd(message), {" "})
  BY DEF Given, IsMessage, Plain, IsRequestLine, PlainRequestLine
<1>2. message.path[2] \in Nat \ {0} /\ End(message.path) = 2 + message.path[2]
  BY ONLY <1>1 DEF Positions, End
<1>3. Len(message.query) \in Nat /\ DOMAIN message.query = 1..Len(message.query)
  BY ONLY <1>0
<1>4. QueryAt(message, 1) - 1 = End(message.path)
  BY ONLY <1>2 DEF QueryAt
<1>5. Len(message.query) = 0 => URLEnd(message) = End(message.path)
  BY <1>4 DEF URLEnd
<1>6. ASSUME Len(message.query) > 0
      PROVE  Reads(message, End(message.path), {"?"})
  <2>1. 1 \in DOMAIN message.query
    BY ONLY <1>3, <1>6
  <2>3. IsQueryPair(message, 1)
    BY <1>a, <2>1
  <2> QED BY <2>3, <1>4 DEF IsQueryPair
<1> QED BY <1>1, <1>a, <1>2, <1>3, <1>5, <1>6

\* What is known of the i-th pair of a plain query.
LEMMA PairIs ==
  ASSUME Given, message.isRequest, NEW i \in DOMAIN message.query,
         NEW key, key = message.query[i].key, NEW val, val = message.query[i].val
  PROVE  /\ key \in Positions /\ val \in Positions
         /\ key[1] = QueryAt(message, i) /\ val[1] = End(key) + 1
         /\ Reads(message, key[1] - 1, {IF i = 1 THEN "?" ELSE "&"})
         /\ Reads(message, End(key), {"="})
         /\ Free(message, key, InURL) /\ Free(message, val, InURL)
<1>1. IsQueryPair(message, i) /\ PlainPair(message, message.query[i])
  BY DEF Given, IsMessage, Plain, IsRequestLine, PlainRequestLine
<1>2. /\ key[1] = QueryAt(message, i)
      /\ Reads(message, key[1] - 1, {IF i = 1 THEN "?" ELSE "&"})
      /\ \/ val[1] = End(key) + 1 /\ Reads(message, End(key), {"="})
         \/ val = <<End(key), 0>>
  BY <1>1 DEF IsQueryPair
<1>3. /\ val[1] = End(key) + 1
      /\ Free(message, key, InURL) /\ Free(message, val, InURL)
  BY <1>1 DEF PlainPair
<1>4. message.query \in Seq(Pairs)
  BY DEF Given, IsMessage
<1>5. message.query[i] \in Pairs
  BY ONLY <1>4, i \in DOMAIN message.query
<1>6. key \in Positions /\ val \in Positions
  BY <1>5 DEF Pairs
<1>7. End(key) \in Nat
  BY ONLY <1>6 DEF Positions, End
<1>8. val # <<End(key), 0>>
  BY ONLY <1>3, <1>7
<1> QED BY <1>2, <1>3, <1>6, <1>8

\* A pair of the query in numbers.
LEMMA PairAt ==
  ASSUME Given, message.isRequest, NEW i \in DOMAIN message.query,
         NEW key, key = message.query[i].key, NEW val, val = message.query[i].val
  PROVE  /\ i \in 1..Len(message.query) /\ Len(message.query) \in Nat
         /\ key[1] \in Nat /\ key[2] \in Nat /\ val[1] \in Nat /\ val[2] \in Nat
         /\ End(key) = key[1] + key[2] /\ End(val) = val[1] + val[2]
         /\ key[1] = QueryAt(message, i) /\ val[1] = End(key) + 1
<1>1. message.query \in Seq(Pairs)
  BY DEF Given, IsMessage
<1>2. i \in 1..Len(message.query) /\ Len(message.query) \in Nat
  BY ONLY <1>1, i \in DOMAIN message.query
<1>3. key \in Positions /\ val \in Positions
  BY PairIs
<1>4. key[1] = QueryAt(message, i)
  BY PairIs
<1>5. val[1] = End(key) + 1
  <2>1. PlainPair(message, message.query[i])
    BY DEF Given, Plain, PlainRequestLine
  <2> QED BY <2>1 DEF PlainPair
<1>6. /\ key[1] \in Nat /\ key[2] \in Nat /\ val[1] \in Nat /\ val[2] \in Nat
      /\ End(key) = key[1] + key[2] /\ End(val) = val[1] + val[2]
  BY ONLY <1>3 DEF Positions, End
<1> QED BY <1>2, <1>4, <1>5, <1>6

\* Its characters, and behind it the next pair or the end of the URL.
LEMMA PairText ==
  ASSUME Given, message.isRequest, NEW i \in DOMAIN message.query,
         NEW key, key = message.query[i].key, NEW val, val = message.query[i].val
  PROVE  /\ key \in Positions /\ val \in Positions
         /\ Free(message, key, InURL) /\ Free(message, val, InURL)
         /\ Reads(message, End(key), {"="})
         /\ i < Len(message.query) => /\ i + 1 \in DOMAIN message.query
                                      /\ message.query[i + 1].key[1] = End(val) + 1
                                      /\ Reads(message, End(val), {"&"})
         /\ i = Len(message.query) => /\ URLEnd(message) = End(val)
                                      /\ Reads(message, End(val), {" "})
<1>0. message.query \in Seq(Pairs)
  BY DEF Given, IsMessage
<1>1. /\ \A j \in DOMAIN message.query : IsQueryPair(message, j)
      /\ Reads(message, URLEnd(message), {" "})
  BY DEF Given, IsMessage, IsRequestLine
<1>2. i \in 1..Len(message.query) /\ Len(message.query) \in Nat
      /\ DOMAIN message.query = 1..Len(message.query)
  BY ONLY <1>0, i \in DOMAIN message.query
<1>4. key \in Positions /\ val \in Positions
  BY PairIs
<1>5. End(val) \in Nat
  BY ONLY <1>4 DEF Positions, End
<1>6. /\ Free(message, key, InURL) /\ Free(message, val, InURL)
      /\ Reads(message, End(key), {"="})
  BY PairIs
<1>7. QueryAt(message, i + 1) = End(val) + 1
  BY <1>2 DEF QueryAt
<1>8. ASSUME i < Len(message.query)
      PROVE  /\ i + 1 \in DOMAIN message.query
             /\ message.query[i + 1].key[1] = End(val) + 1
             /\ Reads(message, End(val), {"&"})
  <2>1. i + 1 \in DOMAIN message.query /\ i + 1 # 1
    BY ONLY <1>2, <1>8
  <2>2. IsQueryPair(message, i + 1)
    BY <2>1, <1>1
  <2>3. message.query[i + 1].key[1] = End(val) + 1
    BY <2>2, <1>7 DEF IsQueryPair
  <2>4. Reads(message, message.query[i + 1].key[1] - 1, {"&"})
    BY <2>2, <2>1 DEF IsQueryPair
  <2>5. message.query[i + 1].key[1] - 1 = End(val)
    BY ONLY <2>3, <1>5
  <2> QED BY <2>1, <2>3, <2>4, <2>5
<1>9. ASSUME i = Len(message.query)
      PROVE  URLEnd(message) = End(val) /\ Reads(message, End(val), {" "})
  <2>1. URLEnd(message) = End(val)
    BY <1>9, <1>7, <1>5 DEF URLEnd
  <2> QED BY <2>1, <1>1
<1> QED BY <1>4, <1>6, <1>8, <1>9

\* The turn in which the path is read, and ended by "?" or " ".
LEMMA PathTurn ==
  ASSUME NEW q, Before(q), InPath(q),
         NEW c, c = mem[q.nowLen + 1], NEW q1, q1 = Read(q), NEW r, r = Match(q, c)
  PROVE  Parsing(r)
<1> DEFINE s == q.st
           e == End(message.path)
<1>1. /\ Members(q1) /\ Same(q, q1) /\ SameRest(q, q1) /\ s \in StateObjects
      /\ s.phase = "url" /\ s.part = "key" /\ ~s.emptyLine /\ ~s.hasQuery
  BY TurnBegins DEF Before, Parsing, Working, InPath, Same
<1>n. /\ q1.nowLen = q.nowLen + 1 /\ q.nowLen \in Nat /\ s.idx \in 0..q.nowLen
      /\ q.nowLen = s.idx + 2 /\ q.nowLen <= e
  BY TurnBegins DEF InPath
<1>2. r = MatchURL(q1, s, c)
  BY TurnBegins DEF Match, Read, InPath
<1>3. /\ message.isRequest
      /\ s.idx > 0 => q.path[1] = 2
      /\ NoHeader(q) /\ DOMAIN q.query = {}
  BY DEF InPath
<1>4. Given
  BY DEF Before
<1>5. /\ message.path \in Positions /\ message.path[1] = 2
      /\ message.path[2] \in Nat \ {0} /\ e = 2 + message.path[2]
  BY <1>3, <1>4, PathAt
<1>f. Free(message, message.path, InURL)
  BY <1>3, <1>4, PathAt
<1>q. /\ Len(message.query) \in Nat /\ DOMAIN message.query = 1..Len(message.query)
      /\ Len(message.query) = 0 => URLEnd(message) = e
  BY <1>3, <1>4, PathAt
<1>6. /\ Len(message.query) = 0 => Reads(message, e, {" "})
      /\ Len(message.query) > 0 => Reads(message, e, {"?"})
  BY <1>3, <1>4, PathAt
<1>7. e \in Nat /\ e < Len(message.text)
  <2>1. e \in Nat
    BY ONLY <1>5
  <2>2. CASE Len(message.query) = 0
    BY <2>1, <2>2, <1>6, NextChar DEF Before
  <2>3. CASE Len(message.query) > 0
    BY <2>1, <2>3, <1>6, NextChar DEF Before
  <2> QED BY ONLY <1>q, <2>1, <2>2, <2>3
<1> HIDE DEF s, e
<1>8. CASE q.nowLen < e
  <2>1. c \notin InURL
    <3>1. message.path[1] <= q.nowLen /\ e <= Len(message.text)
      <4>1. Len(message.text) \in Nat
        BY <1>4 DEF Given, IsMessage
      <4> QED BY ONLY <4>1, <1>n, <1>5, <1>7
    <3> QED BY <3>1, <1>n, <1>4, <1>5, <1>f, <1>8, FreeChar DEF e, Before
  <2>2. r = Stay(IF s.idx = 0 THEN PathBegins(q1) ELSE q1, s)
    BY <1>2, <2>1 DEF MatchURL, NoKey, InURL
  <2>3. PICK q2 : /\ r = Stay(q2, s)
                  /\ Members(q2) /\ SameHeader(q1, q2) /\ SameRest(q1, q2)
                  /\ q2.nowLen = q1.nowLen /\ q2.query = q1.query
                  /\ q2.path[1] = 2
    <3>1. CASE s.idx = 0
      <4>1. r = Stay(PathBegins(q1), s)
        BY <2>2, <3>1
      <4>2. q1.nowLen - 1 = 2
        BY ONLY <1>n, <3>1
      <4> QED BY <4>1, <4>2, <1>1, PathIs
    <3>2. CASE s.idx # 0
      <4>1. r = Stay(q1, s)
        BY <2>2, <3>2
      <4>2. q1.path[1] = 2
        <5>1. s.idx > 0
          BY ONLY <1>n, <3>2
        <5> QED BY <5>1, <1>1, <1>3 DEF Same, SameStart
      <4> QED BY <4>1, <4>2, <1>1 DEF SameHeader, SameRest
    <3> QED BY <3>1, <3>2
  <2>4. SameRest(q, q2) /\ q2.nowLen = q.nowLen + 1 /\ s.idx + 1 \in 0..q.nowLen + 1
    BY <1>1, <1>n, <2>3 DEF SameRest
  <2>5. Same(q2, r) /\ r.st.phase = "url" /\ ~r.st.hasQuery /\ (Reading(r) => Parsing(r))
    BY <1>1, <2>3, <2>4, Stayed
  <2>b. r.nowLen = q.nowLen + 1 /\ r.st.idx = s.idx + 1
    BY <1>1, <2>3, <2>4, Stayed
  <2>6. r.nowLen = r.st.idx + 2 /\ r.nowLen <= e
    BY ONLY <1>n, <1>7, <1>8, <2>b
  <2>7. InPath(r)
    BY <1>1, <1>3, <2>3, <2>5, <2>6
       DEF InPath, NoHeader, Same, SameStart, SameHeader, e
  <2> QED BY <2>5, <2>7 DEF Reading
<1>9. CASE q.nowLen = e
  <2>0. /\ Members(PathEnds(q1)) /\ SameHeader(q, PathEnds(q1)) /\ SameRest(q, PathEnds(q1))
        /\ PathEnds(q1).nowLen = q.nowLen + 1
        /\ PathEnds(q1).query = q.query
    BY <1>1, <1>n, PathIs DEF Same, SameStart, SameHeader, SameRest
  <2>1. PathEnds(q1).path = message.path
    <3>0. PathEnds(q1).path = <<q.path[1], q1.nowLen - q.path[1] - 1>>
      BY <1>1, PathIs DEF Same, SameStart
    <3>4. s.idx > 0 /\ q1.nowLen - 2 - 1 = message.path[2]
      BY ONLY <1>n, <1>5, <1>9
    <3>1. q.path[1] = 2
      BY <3>4, <1>3
    <3>2. message.path = <<2, message.path[2]>>
      BY ONLY <1>5 DEF Positions
    <3> QED BY <3>0, <3>1, <3>2, <3>4
  <2>2. NoHeader(PathEnds(q1)) /\ DOMAIN PathEnds(q1).query = {}
    BY <1>3, <2>0 DEF NoHeader, SameHeader
  <2>3. CASE Len(message.query) = 0
    <3>1. c = " "
      BY <1>4, <1>6, <1>7, <1>9, <2>3, NextIs DEF Before
    <3>2. r = Enter(PathEnds(q1), "version")
      BY <1>1, <1>2, <3>1 DEF MatchURL, NoKey
    <3>3. /\ Same(PathEnds(q1), r) /\ r.st.phase = "version" /\ (Reading(r) => Parsing(r))
      BY <2>0, <3>2, Entered DEF Phases
    <3>b. r.nowLen = e + 1 /\ r.st.idx = 0
      BY <1>9, <2>0, <3>2, Entered DEF Phases
    <3>4. QueryRead(r, 0)
      BY <2>1, <2>2, <3>3, HoldsNone DEF QueryRead, Same, SameStart
    <3>5. r.nowLen = URLEnd(message) + 1 + r.st.idx
      BY ONLY <1>q, <1>7, <2>3, <3>b
    <3>6. InVersion(r)
      BY <1>3, <2>2, <2>3, <3>3, <3>b, <3>4, <3>5
         DEF InVersion, NoHeader, Same, SameStart, SameHeader
    <3> QED BY <3>3, <3>6 DEF Reading
  <2>4. CASE Len(message.query) > 0
    <3> DEFINE s2 == [s EXCEPT !.keyOff = q1.nowLen, !.hasQuery = TRUE]
               key == message.query[1].key
    <3>1. c = "?"
      BY <1>4, <1>6, <1>7, <1>9, <2>4, NextIs DEF Before
    <3>2. r = Stay(PathEnds(q1), s2)
      BY <1>2, <3>1 DEF MatchURL, NoKey
    <3>3. s2 \in StateObjects
      <4>1. q1.nowLen \in Int
        BY ONLY <1>n
      <4> QED BY <4>1, <1>1 DEF StateObjects
    <3>4. s2.phase = "url" /\ s2.part = "key" /\ ~s2.emptyLine /\ s2.hasQuery
      BY <1>1 DEF StateObjects
    <3>a. s2.idx = s.idx /\ s2.keyOff = e + 1
      BY <1>1, <1>n, <1>9 DEF StateObjects
    <3> HIDE DEF s2
    <3>5. s2.idx + 1 \in 0..q.nowLen + 1
      BY ONLY <1>n, <3>a
    <3>6. /\ Same(PathEnds(q1), r) /\ r.st.phase = "url" /\ r.st.hasQuery
          /\ (Reading(r) => Parsing(r))
      BY <2>0, <3>2, <3>3, <3>4, <3>5, Stayed
    <3>b. r.nowLen = e + 1 /\ r.st.idx = s.idx + 1 /\ r.st.keyOff = e + 1
      BY <1>9, <2>0, <3>2, <3>3, <3>4, <3>a, <3>5, Stayed
    <3>7. QueryRead(r, 0)
      BY <2>1, <2>2, <3>6, HoldsNone DEF QueryRead, Same, SameStart
    <3>8. 1 \in DOMAIN message.query
      BY ONLY <1>q, <2>4
    <3>9. key[1] \in Nat /\ key[2] \in Nat /\ End(key) = key[1] + key[2]
      BY <1>3, <1>4, <3>8, PairAt
    <3>10. key[1] = e + 1
      BY <1>3, <1>4, <3>8, PairAt DEF QueryAt, e
    <3>11. key[1] <= r.nowLen /\ r.nowLen <= End(key) /\ r.st.idx > 0
      BY ONLY <1>n, <1>7, <3>b, <3>9, <3>10
    <3>12. InKey(r, 1)
      BY <3>6, <3>b, <3>10, <3>11 DEF InKey
    <3>13. InQuery(r, 1)
      BY <1>3, <2>2, <3>6, <3>7, <3>12 DEF InQuery, NoHeader, Same, SameHeader
    <3> QED BY <3>6, <3>8, <3>13 DEF Reading
  <2> QED BY ONLY <1>q, <2>3, <2>4
<1> QED BY ONLY <1>n, <1>7, <1>8, <1>9

\* The turn in which the key of a pair is read, and ended by "=".
LEMMA KeyTurn ==
  ASSUME NEW q, Before(q), NEW i \in DOMAIN message.query, InQuery(q, i), InKey(q, i),
         NEW c, c = mem[q.nowLen + 1], NEW q1, q1 = Read(q), NEW r, r = Match(q, c)
  PROVE  Parsing(r)
<1> DEFINE s == q.st
           key == message.query[i].key
           val == message.query[i].val
<1>1. /\ Members(q1) /\ Same(q, q1) /\ SameRest(q, q1) /\ s \in StateObjects
      /\ s.phase = "url" /\ s.part = "key" /\ ~s.emptyLine /\ s.hasQuery
  BY TurnBegins DEF Before, Parsing, Working, InKey, Same
<1>2. /\ q1.nowLen = q.nowLen + 1 /\ q.nowLen \in Nat /\ s.idx \in 0..q.nowLen
      /\ s.idx > 0 /\ s.keyOff = key[1]
      /\ key[1] <= q.nowLen /\ q.nowLen <= End(key)
  BY TurnBegins DEF InKey
<1>3. r = MatchURL(q1, s, c)
  BY TurnBegins, <1>1 DEF Match, Read
<1>4. message.isRequest /\ QueryRead(q, i - 1) /\ NoHeader(q) /\ Given
  BY DEF InQuery, Before
<1>k. key = message.query[i].key /\ val = message.query[i].val
  OBVIOUS
<1> HIDE DEF s, key, val
<1>5. /\ key[1] \in Nat /\ key[2] \in Nat /\ val[1] \in Nat /\ val[2] \in Nat
      /\ End(key) = key[1] + key[2] /\ End(val) = val[1] + val[2]
      /\ val[1] = End(key) + 1
  BY <1>4, <1>k, PairAt
<1>6. /\ key \in Positions /\ Free(message, key, InURL)
      /\ Reads(message, End(key), {"="})
  BY <1>4, <1>k, PairText
<1>7. End(key) < Len(message.text) /\ Len(message.text) \in Nat
  BY <1>4, <1>6 DEF Given, IsMessage, Reads
<1>8. CASE q.nowLen < End(key)
  <2>1. End(key) <= Len(message.text)
    BY ONLY <1>5, <1>7
  <2>2. c \notin InURL
    BY <1>2, <1>4, <1>6, <1>8, <2>1, FreeChar DEF Before
  <2>3. r = Stay(q1, s)
    <3>1. s.idx # 0
      BY ONLY <1>2
    <3> QED BY <1>3, <2>2, <3>1 DEF MatchURL, NoKey, InURL
  <2>4. s.idx + 1 \in 0..q.nowLen + 1
    BY ONLY <1>2
  <2>5. /\ Same(q1, r) /\ r.st.phase = "url" /\ r.st.hasQuery
        /\ Reading(r) => Parsing(r)
    BY <1>1, <1>2, <2>3, <2>4, Stayed
  <2>6. /\ r.nowLen = q.nowLen + 1 /\ r.st.idx = s.idx + 1 /\ r.st.keyOff = s.keyOff
    BY <1>1, <1>2, <2>3, <2>4, Stayed
  <2>7. /\ r.st.idx > 0 /\ r.st.keyOff = key[1]
        /\ key[1] <= r.nowLen /\ r.nowLen <= End(key)
    BY ONLY <1>2, <1>5, <1>8, <2>6
  <2>8. InKey(r, i)
    BY <2>5, <2>7 DEF InKey, key
  <2>9. InQuery(r, i)
    BY <1>1, <1>4, <2>5, <2>8
       DEF InQuery, NoHeader, QueryRead, Same, SameStart, SameHeader
  <2> QED BY <2>5, <2>9 DEF Reading
<1>9. CASE q.nowLen = End(key)
  <2> DEFINE s2 == [s EXCEPT !.keyLen = q1.nowLen - s.keyOff - 1, !.valOff = q1.nowLen]
  <2>1. c = "="
    BY <1>2, <1>4, <1>6, <1>9, NextIs DEF Before
  <2>2. r = Stay(q1, s2)
    BY <1>3, <2>1 DEF MatchURL, NoKey
  <2>3. q1.nowLen \in Int /\ q1.nowLen - s.keyOff - 1 = key[2]
    BY ONLY <1>2, <1>5, <1>9
  <2>4. s2 \in StateObjects
    <3>1. s \in StateObjects
      BY <1>1
    <3>2. key[2] \in Int
      BY ONLY <1>5
    <3> QED BY ONLY <2>3, <3>1, <3>2 DEF s2, StateObjects
  <2>5. s2.phase = "url" /\ s2.part = "key" /\ ~s2.emptyLine /\ s2.hasQuery
    BY <1>1 DEF StateObjects
  <2>6. s2.idx = s.idx /\ s2.keyOff = s.keyOff /\ s2.keyLen = key[2] /\ s2.valOff = q1.nowLen
    BY <1>1, <2>3 DEF StateObjects
  <2> HIDE DEF s2
  <2>7. s2.idx + 1 \in 0..q.nowLen + 1
    BY ONLY <1>2, <2>6
  <2>8. /\ Same(q1, r) /\ r.st.phase = "url" /\ r.st.hasQuery
        /\ Reading(r) => Parsing(r)
    BY <1>1, <1>2, <2>2, <2>4, <2>5, <2>7, Stayed
  <2>9. /\ r.nowLen = q.nowLen + 1 /\ r.st.idx = s2.idx + 1 /\ r.st.keyOff = s2.keyOff
        /\ r.st.keyLen = s2.keyLen /\ r.st.valOff = s2.valOff
    BY <1>1, <1>2, <2>2, <2>4, <2>5, <2>7, Stayed
  <2>10. /\ r.st.idx > 0 /\ r.st.keyOff = key[1] /\ r.st.keyLen = key[2]
         /\ r.st.valOff = val[1] /\ val[1] <= r.nowLen /\ r.nowLen <= End(val)
    BY ONLY <1>2, <1>5, <1>9, <2>6, <2>9
  <2>11. InValue(r, i)
    BY <2>8, <2>10 DEF InValue, key, val
  <2>12. InQuery(r, i)
    BY <1>1, <1>4, <2>8, <2>11
       DEF InQuery, NoHeader, QueryRead, Same, SameStart, SameHeader
  <2> QED BY <2>8, <2>12 DEF Reading
<1> QED BY ONLY <1>2, <1>5, <1>8, <1>9

\* A pair that was read to its end goes into the map.
LEMMA PairRead ==
  ASSUME NEW q, Before(q), NEW q1, q1 = Read(q), NEW i \in DOMAIN message.query,
         InQuery(q, i), InValue(q, i), q.nowLen = End(message.query[i].val),
         NEW q2, q2 = QueryPair(q1, q.st)
  PROVE  /\ Members(q2) /\ SameRest(q, q2) /\ q2.nowLen = q.nowLen + 1
         /\ QueryRead(q2, i) /\ NoHeader(q2)
<1> DEFINE s == q.st
           key == message.query[i].key
           val == message.query[i].val
<1>1. Members(q1) /\ Same(q, q1) /\ s \in StateObjects /\ q1.begin = 0
  BY TurnBegins DEF Before, Parsing, Working, Same, SameRest
<1>2. /\ q1.nowLen = q.nowLen + 1 /\ q.nowLen \in Nat /\ q.nowLen = End(val)
      /\ s.keyOff = key[1] /\ s.keyLen = key[2] /\ s.valOff = val[1]
  BY TurnBegins DEF InValue
<1>3. message.isRequest /\ QueryRead(q, i - 1) /\ NoHeader(q) /\ Given
  BY DEF InQuery, Before
<1>k. key = message.query[i].key /\ val = message.query[i].val
  OBVIOUS
<1> HIDE DEF s, key, val
<1>4. /\ key[1] \in Nat /\ key[2] \in Nat /\ val[1] \in Nat /\ val[2] \in Nat
      /\ End(key) = key[1] + key[2] /\ End(val) = val[1] + val[2]
      /\ val[1] = End(key) + 1
      /\ i \in 1..Len(message.query) /\ Len(message.query) \in Nat
  BY <1>3, <1>k, PairAt
<1>5. key \in Positions /\ val \in Positions /\ Reads(message, End(key), {"="})
  BY <1>3, <1>k, PairText
<1>6. End(key) < Len(message.text) /\ Len(message.text) \in Nat
  BY <1>3, <1>5 DEF Given, IsMessage, Reads
<1>7. End(key) <= Len(message.text)
  BY ONLY <1>4, <1>6
<1>8. Str(q1, s.keyOff, s.keyLen) = Part(message, key)
  BY <1>1, <1>2, <1>3, <1>5, <1>7, StrIsPart DEF Before
<1>9. <<s.valOff, q1.nowLen - s.valOff - 1>> = val
  <2>0. /\ q1.nowLen = End(val) + 1 /\ s.valOff = val[1]
        /\ val[1] \in Nat /\ val[2] \in Nat /\ End(val) = val[1] + val[2]
    BY <1>2, <1>4
  <2>1. q1.nowLen - s.valOff - 1 = val[2]
    BY ONLY <2>0
  <2>2. val = <<val[1], val[2]>>
    BY ONLY <1>5 DEF Positions
  <2> QED BY <2>1, <2>2, <1>2
<1>10. /\ Members(q2) /\ SameHeader(q1, q2) /\ SameRest(q1, q2) /\ q2.nowLen = q1.nowLen
       /\ q2.path = q1.path
       /\ q2.query = Put(q1.query, Part(message, key), val)
  BY <1>1, <1>8, <1>9, QueryPairIs DEF s
<1>11. Holds(q1.query, message.query, i - 1) /\ q1.path = message.path
  BY <1>1, <1>3 DEF QueryRead, Same, SameStart
<1>12. Holds(q2.query, message.query, i)
  <2> DEFINE n == i - 1
  <2>1. n \in Nat /\ n + 1 = i
    BY ONLY <1>4
  <2> HIDE DEF n
  <2>2. Distinct(message, message.query)
    BY <1>3 DEF Given, Plain, PlainRequestLine
  <2>3. DOMAIN message.query = 1..Len(message.query) /\ Len(message.query) \in Nat
    BY <1>3, PathAt
  <2>4. Holds(q1.query, message.query, n)
    BY <1>11 DEF n
  <2>5. Holds(Put(q1.query, Part(message, message.query[n + 1].key),
                  message.query[n + 1].val), message.query, n + 1)
    BY <2>1, <2>2, <2>3, <2>4, HoldsPut
  <2> QED BY <2>1, <2>5, <1>10 DEF key, val
<1> QED BY <1>1, <1>2, <1>3, <1>10, <1>11, <1>12
           DEF QueryRead, NoHeader, Same, SameHeader, SameRest

\* The turn in which the value of a pair is read, and ended by "&" or " ".
LEMMA ValueTurn ==
  ASSUME NEW q, Before(q), NEW i \in DOMAIN message.query, InQuery(q, i), InValue(q, i),
         NEW c, c = mem[q.nowLen + 1], NEW q1, q1 = Read(q), NEW r, r = Match(q, c)
  PROVE  Parsing(r)
<1> DEFINE s == q.st
           key == message.query[i].key
           val == message.query[i].val
<1>1. /\ Members(q1) /\ Same(q, q1) /\ SameRest(q, q1) /\ s \in StateObjects
      /\ s.phase = "url" /\ s.part = "key" /\ ~s.emptyLine /\ s.hasQuery
  BY TurnBegins DEF Before, Parsing, Working, InValue, Same
<1>2. /\ q1.nowLen = q.nowLen + 1 /\ q.nowLen \in Nat /\ s.idx \in 0..q.nowLen
      /\ s.idx > 0 /\ s.keyOff = key[1] /\ s.keyLen = key[2] /\ s.valOff = val[1]
      /\ val[1] <= q.nowLen /\ q.nowLen <= End(val)
  BY TurnBegins DEF InValue
<1>3. r = MatchURL(q1, s, c)
  BY TurnBegins, <1>1 DEF Match, Read
<1>4. message.isRequest /\ QueryRead(q, i - 1) /\ NoHeader(q) /\ Given
  BY DEF InQuery, Before
<1>k. key = message.query[i].key /\ val = message.query[i].val
  OBVIOUS
<1>v. q.nowLen = End(message.query[i].val) <=> q.nowLen = End(val)
  OBVIOUS
<1> HIDE DEF s, key, val
<1>5. /\ i \in 1..Len(message.query) /\ Len(message.query) \in Nat
      /\ val[1] \in Nat /\ val[2] \in Nat /\ End(val) = val[1] + val[2]
  BY <1>4, <1>k, PairAt
<1>6. /\ val \in Positions /\ Free(message, val, InURL)
      /\ i < Len(message.query) => /\ i + 1 \in DOMAIN message.query
                                   /\ message.query[i + 1].key[1] = End(val) + 1
                                   /\ Reads(message, End(val), {"&"})
      /\ i = Len(message.query) => /\ URLEnd(message) = End(val)
                                   /\ Reads(message, End(val), {" "})
  BY <1>4, <1>k, PairText
<1>7. End(val) < Len(message.text) /\ Len(message.text) \in Nat
  <2>1. Len(message.text) \in Nat
    BY <1>4 DEF Given, IsMessage
  <2>2. i < Len(message.query) \/ i = Len(message.query)
    BY ONLY <1>5
  <2>3. Reads(message, End(val), {"&"}) \/ Reads(message, End(val), {" "})
    BY <1>6, <2>2
  <2>4. End(val) < Len(message.text)
    BY ONLY <2>3 DEF Reads
  <2> QED BY <2>1, <2>4
<1>w. ~NoKey(s, c)
  <2>1. key[2] \in Nat
    BY <1>4, <1>k, PairAt
  <2>2. s.keyLen = key[2]
    BY <1>2
  <2>3. s.keyLen # -1
    BY ONLY <2>1, <2>2
  <2> QED BY <2>3 DEF NoKey
<1>8. CASE q.nowLen < End(val)
  <2>1. End(val) <= Len(message.text)
    BY ONLY <1>5, <1>7
  <2>2. c \notin InURL
    BY <1>2, <1>4, <1>6, <1>8, <2>1, FreeChar DEF Before
  <2>3. r = Stay(q1, s)
    <3>1. s.idx # 0
      BY ONLY <1>2
    <3> QED BY <1>3, <1>w, <2>2, <3>1 DEF MatchURL, InURL
  <2>4. s.idx + 1 \in 0..q.nowLen + 1
    BY ONLY <1>2
  <2>5. /\ Same(q1, r) /\ r.st.phase = "url" /\ r.st.hasQuery
        /\ Reading(r) => Parsing(r)
    BY <1>1, <1>2, <2>3, <2>4, Stayed
  <2>6. /\ r.nowLen = q.nowLen + 1 /\ r.st.idx = s.idx + 1 /\ r.st.keyOff = s.keyOff
        /\ r.st.keyLen = s.keyLen /\ r.st.valOff = s.valOff
    BY <1>1, <1>2, <2>3, <2>4, Stayed
  <2>7. /\ r.st.idx > 0 /\ r.st.keyOff = key[1] /\ r.st.keyLen = key[2]
        /\ r.st.valOff = val[1] /\ val[1] <= r.nowLen /\ r.nowLen <= End(val)
    BY ONLY <1>2, <1>5, <1>8, <2>6
  <2>8. InValue(r, i)
    BY <1>k, <2>5, <2>7 DEF InValue
  <2>9. InQuery(r, i)
    BY <1>1, <1>4, <2>5, <2>8
       DEF InQuery, NoHeader, QueryRead, Same, SameStart, SameHeader
  <2> QED BY <2>5, <2>9 DEF Reading
<1>9. CASE q.nowLen = End(val)
  <2> DEFINE q2 == QueryPair(q1, s)
  <2>1. /\ Members(q2) /\ SameRest(q, q2) /\ q2.nowLen = q.nowLen + 1
        /\ QueryRead(q2, i) /\ NoHeader(q2)
    BY <1>v, <1>9, PairRead DEF s
  <2> HIDE DEF q2
  <2>2. CASE i < Len(message.query)
    <3> DEFINE s2 == [s EXCEPT !.keyOff = q1.nowLen, !.keyLen = -1, !.valOff = -1]
               next == message.query[i + 1].key
               last == message.query[i + 1].val
    <3>1. c = "&"
      BY <1>2, <1>4, <1>6, <1>9, <2>2, NextIs DEF Before
    <3>2. r = Stay(q2, s2)
      BY <1>3, <1>w, <3>1 DEF MatchURL, q2
    <3>3. s2 \in StateObjects
      <4>1. q1.nowLen \in Int /\ -1 \in Int
        BY ONLY <1>2
      <4> QED BY <4>1, <1>1 DEF StateObjects
    <3>4. s2.phase = "url" /\ s2.part = "key" /\ ~s2.emptyLine /\ s2.hasQuery
      BY <1>1 DEF StateObjects
    <3>5. s2.idx = s.idx /\ s2.keyOff = q1.nowLen
      BY <1>1 DEF StateObjects
    <3>k. i + 1 \in DOMAIN message.query /\ next = message.query[i + 1].key
          /\ last = message.query[i + 1].val /\ next[1] = End(val) + 1
      BY <1>6, <2>2
    <3> HIDE DEF s2, next, last
    <3>6. s2.idx + 1 \in 0..q.nowLen + 1
      BY ONLY <1>2, <3>5
    <3>7. /\ Same(q2, r) /\ r.st.phase = "url" /\ r.st.hasQuery
          /\ Reading(r) => Parsing(r)
      BY <2>1, <3>2, <3>3, <3>4, <3>6, Stayed
    <3>8. r.nowLen = q.nowLen + 1 /\ r.st.idx = s2.idx + 1 /\ r.st.keyOff = s2.keyOff
      BY <2>1, <3>2, <3>3, <3>4, <3>6, Stayed
    <3>9. next[1] \in Nat /\ next[2] \in Nat /\ End(next) = next[1] + next[2]
      BY <1>4, <3>k, PairAt
    <3>n. next[1] = End(val) + 1
      BY <3>k
    <3>10. /\ r.st.idx > 0 /\ r.st.keyOff = next[1]
           /\ next[1] <= r.nowLen /\ r.nowLen <= End(next)
      <4>1. r.nowLen = next[1] /\ s2.keyOff = next[1]
        BY <1>2, <1>9, <3>n, <3>5, <3>8
      <4>2. r.st.idx = s.idx + 1 /\ r.st.keyOff = next[1]
        BY <3>5, <3>8, <4>1
      <4>3. r.st.idx > 0
        BY ONLY <1>2, <4>2
      <4>4. next[1] <= r.nowLen /\ r.nowLen <= End(next)
        BY ONLY <3>9, <4>1
      <4> QED BY ONLY <4>2, <4>3, <4>4
    <3>11. InKey(r, i + 1)
      BY <3>k, <3>7, <3>10 DEF InKey
    <3>12. (i + 1) - 1 = i
      BY ONLY <1>5
    <3>13. QueryRead(r, (i + 1) - 1) /\ NoHeader(r)
      BY <2>1, <3>7, <3>12 DEF QueryRead, NoHeader, Same, SameStart, SameHeader
    <3>14. InQuery(r, i + 1)
      BY <1>4, <3>11, <3>13 DEF InQuery
    <3> QED BY <3>k, <3>7, <3>14 DEF Reading
  <2>3. CASE i = Len(message.query)
    <3>1. c = " "
      BY <1>2, <1>4, <1>6, <1>9, <2>3, NextIs DEF Before
    <3>2. r = Enter(q2, "version")
      BY <1>1, <1>3, <1>w, <3>1 DEF MatchURL, q2
    <3>3. /\ Same(q2, r) /\ r.st.phase = "version" /\ (Reading(r) => Parsing(r))
      BY <2>1, <3>2, Entered DEF Phases
    <3>4. r.nowLen = q.nowLen + 1 /\ r.st.idx = 0
      BY <2>1, <3>2, Entered DEF Phases
    <3>5. URLEnd(message) = End(val)
      BY <1>6, <2>3
    <3>6. r.nowLen = URLEnd(message) + 1 + r.st.idx /\ r.st.idx <= 2
      BY ONLY <1>2, <1>5, <1>9, <3>4, <3>5
    <3>7. QueryRead(r, Len(message.query)) /\ NoHeader(r)
      BY <2>1, <2>3, <3>3 DEF QueryRead, NoHeader, Same, SameStart, SameHeader
    <3>8. InVersion(r)
      BY <1>4, <3>3, <3>6, <3>7 DEF InVersion
    <3> QED BY <3>3, <3>8 DEF Reading
  <2> QED BY ONLY <1>5, <2>2, <2>3
<1> QED BY ONLY <1>2, <1>5, <1>8, <1>9

-----------------------------------------------------------------------------
(* The lines of the header, where they lie and what they hold.              *)

\* The URL ends somewhere, with or without a query.
LEMMA URLEndIs ==
  ASSUME Given, message.isRequest
  PROVE  URLEnd(message) \in Nat
<1>1. /\ Len(message.query) \in Nat /\ DOMAIN message.query = 1..Len(message.query)
      /\ Len(message.query) = 0 => URLEnd(message) = End(message.path)
      /\ message.path[2] \in Nat \ {0} /\ End(message.path) = 2 + message.path[2]
  BY PathAt
<1>2. CASE Len(message.query) = 0
  BY ONLY <1>1, <1>2
<1>3. CASE Len(message.query) # 0
  <2> DEFINE i == Len(message.query)
             val == message.query[i].val
  <2>1. i \in DOMAIN message.query
    BY ONLY <1>1, <1>3
  <2>2. val[1] \in Nat /\ val[2] \in Nat /\ End(val) = val[1] + val[2]
    BY <2>1, PairAt
  <2>3. URLEnd(message) = End(val)
    BY <2>1, PairText
  <2> QED BY ONLY <2>2, <2>3
<1> QED BY <1>2, <1>3

\* Where the header begins.
LEMMA HeaderAt ==
  ASSUME Given
  PROVE  /\ LineAt(message, 1) \in Nat
         /\ message.isRequest => LineAt(message, 1) = URLEnd(message) + 4
         /\ ~message.isRequest => LineAt(message, 1) = End(message.detail) + 2
         /\ Len(message.header) \in Nat
         /\ DOMAIN message.header = 1..Len(message.header)
<1>1. message.header \in Seq(Pairs) /\ message.detail \in Positions
      /\ message.isRequest \in BOOLEAN
  BY DEF Given, IsMessage
<1>2. /\ message.isRequest => LineAt(message, 1) = URLEnd(message) + 4
      /\ ~message.isRequest => LineAt(message, 1) = End(message.detail) + 2
  BY <1>1 DEF LineAt
<1>3. End(message.detail) \in Nat
  BY ONLY <1>1 DEF Positions, End
<1>4. message.isRequest => URLEnd(message) \in Nat
  BY URLEndIs
<1>5. LineAt(message, 1) \in Nat
  BY ONLY <1>1, <1>2, <1>3, <1>4
<1>6. Len(message.header) \in Nat /\ DOMAIN message.header = 1..Len(message.header)
  BY ONLY <1>1
<1> QED BY <1>2, <1>5, <1>6

\* A line in numbers.
LEMMA LineIs ==
  ASSUME Given, NEW i \in DOMAIN message.header,
         NEW key, key = message.header[i].key, NEW val, val = message.header[i].val
  PROVE  /\ i \in 1..Len(message.header) /\ Len(message.header) \in Nat
         /\ key[1] \in Nat /\ key[2] \in Nat \ {0}
         /\ val[1] \in Nat /\ val[2] \in Nat \ {0}
         /\ End(key) = key[1] + key[2] /\ End(val) = val[1] + val[2]
         /\ val[1] > End(key)
         /\ key[1] = LineAt(message, i) /\ LineAt(message, i + 1) = End(val) + 2
<1>0. message.header \in Seq(Pairs)
  BY DEF Given, IsMessage
<1>1. IsHeaderLine(message, i)
  BY DEF Given, IsMessage
<1>2. i \in 1..Len(message.header) /\ Len(message.header) \in Nat
  BY ONLY <1>0, i \in DOMAIN message.header
<1>3. message.header[i] \in Pairs
  BY ONLY <1>0, <1>2
<1>4. key \in Positions /\ val \in Positions
  BY <1>3 DEF Pairs
<1>5. /\ key[1] \in Nat /\ key[2] \in Nat /\ val[1] \in Nat /\ val[2] \in Nat
      /\ End(key) = key[1] + key[2] /\ End(val) = val[1] + val[2]
  BY ONLY <1>4 DEF Positions, End
<1>6. key[1] = LineAt(message, i) /\ key[2] > 0 /\ val[1] > End(key) /\ val[2] > 0
  BY <1>1 DEF IsHeaderLine, Given, Plain
<1>7. key[2] \in Nat \ {0} /\ val[2] \in Nat \ {0}
  BY ONLY <1>5, <1>6
<1>8. LineAt(message, i + 1) = End(val) + 2
  <2>1. i + 1 > 1 /\ (i + 1) - 1 = i
    BY ONLY <1>2
  <2> QED BY <2>1 DEF LineAt
<1> QED BY <1>2, <1>5, <1>6, <1>7, <1>8

\* Its characters.
LEMMA LineText ==
  ASSUME Given, NEW i \in DOMAIN message.header,
         NEW key, key = message.header[i].key, NEW val, val = message.header[i].val
  PROVE  /\ key \in Positions /\ val \in Positions
         /\ Free(message, key, {":", "CR"}) /\ Reads(message, End(key), {":"})
         /\ \A k \in End(key) + 1..val[1] - 1 : message.text[k + 1] = " "
         /\ Free(message, val, {"CR"}) /\ message.text[val[1] + 1] # " "
         /\ Reads(message, End(val), {"CR"}) /\ Reads(message, End(val) + 1, {"LF"})
<1>1. message.header \in Seq(Pairs) /\ IsHeaderLine(message, i)
  BY DEF Given, IsMessage
<1>2. message.header[i] \in Pairs
  BY ONLY <1>1, i \in DOMAIN message.header
<1>3. key \in Positions /\ val \in Positions
  BY <1>2 DEF Pairs
<1> QED BY <1>1, <1>3 DEF IsHeaderLine

\* Where the header ends: an empty line follows, and the body.
LEMMA HeaderEnd ==
  ASSUME Given
  PROVE  /\ HeaderEnds(message) \in Nat
         /\ HeaderEnds(message) = LineAt(message, Len(message.header) + 1)
         /\ Reads(message, HeaderEnds(message), {"CR"})
         /\ Reads(message, HeaderEnds(message) + 1, {"LF"})
<1>1. /\ LineAt(message, 1) \in Nat /\ Len(message.header) \in Nat
      /\ DOMAIN message.header = 1..Len(message.header)
  BY HeaderAt
<1>2. HeaderEnds(message) = LineAt(message, Len(message.header) + 1)
  BY DEF HeaderEnds
<1>3. CASE Len(message.header) = 0
  <2>1. Len(message.header) + 1 = 1
    BY ONLY <1>3
  <2>2. HeaderEnds(message) \in Nat
    BY <1>1, <1>2, <2>1
  <2> QED BY <1>2, <2>2 DEF Given, IsMessage
<1>4. CASE Len(message.header) # 0
  <2> DEFINE i == Len(message.header)
             val == message.header[i].val
  <2>1. i \in DOMAIN message.header
    BY ONLY <1>1, <1>4
  <2>2. /\ val[1] \in Nat /\ val[2] \in Nat \ {0} /\ End(val) = val[1] + val[2]
        /\ LineAt(message, i + 1) = End(val) + 2
    BY <2>1, LineIs
  <2>3. LineAt(message, i + 1) \in Nat
    BY ONLY <2>2
  <2>4. HeaderEnds(message) \in Nat
    BY <1>2, <2>3
  <2> QED BY <1>2, <2>4 DEF Given, IsMessage
<1> QED BY <1>3, <1>4

\* At the end of the start line nothing of the header is read.
LEMMA NothingRead ==
  ASSUME NEW q, StartRead(q), NoHeader(q)
  PROVE  HeaderRead(q, 0)
<1>1. Holds(q.header, message.header, 0)
  BY HoldsNone DEF NoHeader
<1>2. ~ \E i \in 1..0 : IsLength(i)
  OBVIOUS
<1> QED BY <1>1, <1>2 DEF HeaderRead, NoHeader

\* Behind a line, the next one begins, or the empty line.
LEMMA LineBegins ==
  ASSUME Given, NEW n \in 0..Len(message.header),
         NEW r, HeaderRead(r, n), r.nowLen = LineAt(message, n + 1),
         r.st.phase = "header", r.st.idx = 0, r.st.part = "key", ~r.st.emptyLine
  PROVE  Reading(r)
<1>1. Len(message.header) \in Nat /\ DOMAIN message.header = 1..Len(message.header)
  BY HeaderAt
<1>2. CASE n = Len(message.header)
  <2>1. HeaderEnds(message) = LineAt(message, n + 1) /\ HeaderEnds(message) \in Nat
    BY <1>2, HeaderEnd
  <2>2. r.nowLen = HeaderEnds(message) + r.st.idx
    BY ONLY <2>1, r.nowLen = LineAt(message, n + 1), r.st.idx = 0
  <2> QED BY <1>2, <2>2 DEF InEmptyLine, Reading
<1>3. CASE n # Len(message.header)
  <2> DEFINE i == n + 1
             key == message.header[i].key
  <2>1. i \in DOMAIN message.header /\ i - 1 = n
    BY ONLY <1>1, <1>3, n \in 0..Len(message.header)
  <2> HIDE DEF i
  <2>2. /\ key[1] \in Nat /\ key[2] \in Nat \ {0} /\ End(key) = key[1] + key[2]
        /\ key[1] = LineAt(message, i)
    BY <2>1, LineIs
  <2>k. key = message.header[i].key
    OBVIOUS
  <2> HIDE DEF key
  <2>3. r.nowLen = LineAt(message, i)
    BY DEF i
  <2>4. r.nowLen = LineAt(message, i) + r.st.idx /\ r.nowLen <= End(key) /\ ~(r.st.idx > 0)
    BY ONLY <2>2, <2>3, r.st.idx = 0
  <2>5. AtKey(r, i)
    BY <2>k, <2>4 DEF AtKey
  <2>6. InLine(r, i)
    BY <2>1, <2>4, <2>5 DEF InLine
  <2> QED BY <2>1, <2>6 DEF Reading
<1> QED BY <1>2, <1>3

\* The start line is read: the header begins.
LEMMA HeaderBegins ==
  ASSUME NEW q, Before(q), NEW q1, Members(q1), SameRest(q, q1),
         q1.nowLen = q.nowLen + 1, q.nowLen + 1 = LineAt(message, 1),
         StartRead(q1), NoHeader(q1), NEW r, r = Enter(q1, "header")
  PROVE  Parsing(r)
<1>1. /\ Same(q1, r) /\ r.nowLen = q.nowLen + 1
      /\ r.st.phase = "header" /\ r.st.idx = 0 /\ r.st.part = "key"
      /\ ~r.st.emptyLine /\ (Reading(r) => Parsing(r))
  BY Entered DEF Phases
<1>2. StartRead(r) /\ NoHeader(r)
  BY <1>1 DEF StartRead, QueryRead, NoHeader, Same, SameStart, SameHeader
<1>3. HeaderRead(r, 0) /\ Given
  BY <1>2, NothingRead DEF Before
<1>4. 0 \in 0..Len(message.header)
  BY <1>3, HeaderAt
<1>5. r.nowLen = LineAt(message, 0 + 1)
  BY <1>1
<1> QED BY <1>1, <1>3, <1>4, <1>5, LineBegins

-----------------------------------------------------------------------------
(* The rest of the start line.                                              *)

\* The members after the code was set.
LEMMA CodeIs ==
  ASSUME NEW q, Members(q), NEW c \in Codes, NEW r, r = [q EXCEPT !.code = c]
  PROVE  /\ Members(r) /\ SameHeader(q, r) /\ SameRest(q, r)
         /\ r.nowLen = q.nowLen /\ r.code = c /\ r.path = q.path /\ r.query = q.query
BY DEF Members, Shape, Types, SameHeader, SameRest

\* The members after the detail was noted.
LEMMA DetailIs ==
  ASSUME NEW q, Members(q), NEW detail, NEW r, r = [q EXCEPT !.detail = detail]
  PROVE  /\ Members(r) /\ Same(q, r) /\ r.nowLen = q.nowLen
BY DEF Members, Shape, Types, Same, SameStart, SameHeader, SameRest

\* The turns of StateVersion, for a request and for a response.
LEMMA VersionTurn ==
  ASSUME NEW q, Before(q), InVersion(q),
         NEW c, c = mem[q.nowLen + 1], NEW q1, q1 = Read(q), NEW r, r = Match(q, c)
  PROVE  Parsing(r)
<1> DEFINE s == q.st
           e == URLEnd(message)
<1>1. /\ Members(q1) /\ Same(q, q1) /\ SameRest(q, q1) /\ s \in StateObjects
      /\ s.phase = "version" /\ s.part = "key" /\ ~s.emptyLine
      /\ q1.isRequest = message.isRequest
  BY TurnBegins DEF Before, Parsing, Working, InVersion, Same, SameRest
<1>2. q1.nowLen = q.nowLen + 1 /\ q.nowLen \in Nat /\ s.idx \in 0..q.nowLen
  BY TurnBegins
<1>3. r = MatchVersion(q1, s, c)
  BY TurnBegins, <1>1 DEF Match, Read
<1>4. NoHeader(q) /\ Given /\ message.isRequest \in BOOLEAN
  BY DEF Before, InVersion, Given, IsMessage
<1>5. s.idx + 1 \in 0..q.nowLen + 1
  BY ONLY <1>2
<1>6. CASE message.isRequest
  <2>1. QueryRead(q, Len(message.query))
    BY <1>6 DEF InVersion
  <2>2. q.nowLen = e + 1 + s.idx /\ s.idx <= 2
    BY <1>6 DEF InVersion
  <2>3. e \in Nat
    BY <1>4, <1>6, URLEndIs
  <2>4. /\ Reads(message, e + 1, Versions)
        /\ Reads(message, e + 2, {"CR"}) /\ Reads(message, e + 3, {"LF"})
    BY <1>4, <1>6 DEF Given, IsMessage, IsRequestLine
  <2> HIDE DEF s, e
  <2>5. CASE s.idx < 2
    <3>1. r = Stay(q1, s)
      <4>1. CASE s.idx = 0
        <5>1. q.nowLen = e + 1
          BY ONLY <2>2, <2>3, <4>1
        <5>2. c \in Versions
          BY <1>2, <1>4, <2>4, <5>1, NextChar DEF Before
        <5> QED BY <1>3, <4>1, <5>2 DEF MatchVersion
      <4>2. CASE s.idx = 1
        <5>1. q.nowLen = e + 2
          BY ONLY <2>2, <2>3, <4>2
        <5>2. c = "CR"
          BY <1>2, <1>4, <2>4, <5>1, NextIs DEF Before
        <5> QED BY <1>1, <1>3, <1>6, <4>2, <5>2 DEF MatchVersion
      <4> QED BY ONLY <1>2, <2>5, <4>1, <4>2
    <3>2. Same(q1, r) /\ r.st.phase = "version" /\ (Reading(r) => Parsing(r))
      BY <1>1, <1>2, <1>5, <3>1, Stayed
    <3>3. r.nowLen = q.nowLen + 1 /\ r.st.idx = s.idx + 1
      BY <1>1, <1>2, <1>5, <3>1, Stayed
    <3>4. r.nowLen = e + 1 + r.st.idx /\ r.st.idx <= 2
      BY ONLY <1>2, <2>2, <2>3, <2>5, <3>3
    <3>5. InVersion(r)
      BY <1>1, <1>4, <1>6, <2>1, <3>2, <3>4
         DEF InVersion, QueryRead, NoHeader, Same, SameStart, SameHeader, e
    <3> QED BY <3>2, <3>5 DEF Reading
  <2>6. CASE s.idx = 2
    <3>1. q.nowLen = e + 3 /\ q.nowLen + 1 = e + 4
      BY ONLY <2>2, <2>3, <2>6
    <3>2. c = "LF"
      BY <1>2, <1>4, <2>4, <3>1, NextIs DEF Before
    <3>3. r = Enter(q1, "header")
      BY <1>1, <1>3, <1>6, <2>6, <3>2 DEF MatchVersion
    <3>4. q.nowLen + 1 = LineAt(message, 1)
      BY <1>4, <1>6, <3>1, HeaderAt DEF e
    <3>5. StartRead(q1) /\ NoHeader(q1)
      BY <1>1, <1>4, <1>6, <2>1
         DEF StartRead, QueryRead, NoHeader, Same, SameStart, SameHeader
    <3> QED BY <1>1, <1>2, <3>3, <3>4, <3>5, HeaderBegins
  <2> QED BY ONLY <1>2, <2>2, <2>5, <2>6
<1>7. CASE ~message.isRequest
  <2>1. q.nowLen = s.idx /\ s.idx <= 1
    BY <1>7 DEF InVersion
  <2>2. Reads(message, 0, Versions) /\ Reads(message, 1, {" "})
    BY <1>4, <1>7 DEF Given, IsMessage, IsStatusLine
  <2> HIDE DEF s
  <2>3. CASE s.idx = 0
    <3>1. c \in Versions
      BY <1>2, <1>4, <2>1, <2>2, <2>3, NextChar DEF Before
    <3>2. r = Stay(q1, s)
      BY <1>3, <2>3, <3>1 DEF MatchVersion
    <3>3. Same(q1, r) /\ r.st.phase = "version" /\ (Reading(r) => Parsing(r))
      BY <1>1, <1>2, <1>5, <3>2, Stayed
    <3>4. r.nowLen = r.st.idx /\ r.st.idx <= 1
      <4>1. r.nowLen = q.nowLen + 1 /\ r.st.idx = s.idx + 1
        BY <1>1, <1>2, <1>5, <3>2, Stayed
      <4> QED BY ONLY <2>1, <2>3, <4>1
    <3>5. InVersion(r)
      BY <1>1, <1>4, <1>7, <3>3, <3>4
         DEF InVersion, NoHeader, Same, SameStart, SameHeader
    <3> QED BY <3>3, <3>5 DEF Reading
  <2>4. CASE s.idx = 1
    <3>1. c = " "
      BY <1>2, <1>4, <2>1, <2>2, <2>4, NextIs DEF Before
    <3>2. r = Enter(q1, "code")
      BY <1>1, <1>3, <1>7, <2>4, <3>1 DEF MatchVersion, Versions
    <3>3. Same(q1, r) /\ r.st.phase = "code" /\ (Reading(r) => Parsing(r))
      BY <1>1, <1>2, <3>2, Entered DEF Phases
    <3>4. r.nowLen = 2 /\ r.st.idx = 0
      <4>1. r.nowLen = q.nowLen + 1 /\ r.st.idx = 0
        BY <1>1, <1>2, <3>2, Entered DEF Phases
      <4> QED BY ONLY <2>1, <2>4, <4>1
    <3>5. InCode(r)
      BY <1>1, <1>4, <1>7, <3>3, <3>4
         DEF InCode, NoHeader, Same, SameStart, SameHeader
    <3> QED BY <3>3, <3>5 DEF Reading
  <2> QED BY ONLY <1>2, <2>1, <2>3, <2>4
<1> QED BY <1>4, <1>6, <1>7

\* The turns of StateCode, which refuses a response if code is -1.
LEMMA CodeTurn ==
  ASSUME NEW q, Before(q), InCode(q),
         NEW c, c = mem[q.nowLen + 1], NEW q1, q1 = Read(q), NEW r, r = Match(q, c)
  PROVE  Parsing(r)
<1> DEFINE s == q.st
<1>1. /\ Members(q1) /\ Same(q, q1) /\ SameRest(q, q1) /\ s \in StateObjects
      /\ s.phase = "code" /\ s.part = "key" /\ ~s.emptyLine
  BY TurnBegins DEF Before, Parsing, Working, InCode, Same, SameRest
<1>2. q1.nowLen = q.nowLen + 1 /\ q.nowLen \in Nat /\ s.idx \in 0..q.nowLen
  BY TurnBegins
<1>3. r = MatchCode(q1, s, c)
  BY TurnBegins, <1>1 DEF Match, Read
<1>4. NoHeader(q) /\ Given /\ ~message.isRequest
  BY DEF Before, InCode
<1>5. s.idx + 1 \in 0..q.nowLen + 1
  BY ONLY <1>2
<1>6. /\ Reads(message, 2, Codes) /\ Reads(message, 3, {" "})
      /\ message.detail[1] = 4 /\ message.detail \in Positions
  BY <1>4 DEF Given, IsMessage, Plain, IsStatusLine
<1>7. q.nowLen = s.idx + 2 /\ s.idx <= 1 /\ (s.idx = 1 => q.code # "-1")
  BY DEF InCode
<1>8. CASE s.idx = 0 /\ q.code = "-1"
  <2>1. r = Mismatch(q1)
    BY <1>1, <1>3, <1>8 DEF MatchCode, Same, SameStart
  <2>2. /\ Members(r) /\ ~r.isMatch /\ r.st = q1.st /\ r.code = "-1" /\ r.totalLen = 0
        /\ r.isRequest = message.isRequest /\ r.begin = 0 /\ r.nowLen = q1.nowLen
    <3>1. /\ ~r.isMatch /\ r.st = q1.st
          /\ r.nowLen = q1.nowLen /\ r.code = q1.code /\ r.totalLen = q1.totalLen
          /\ r.isRequest = q1.isRequest /\ r.begin = q1.begin
      BY <1>1, <2>1 DEF Mismatch, Members, Shape
    <3>2. Members(r)
      BY <1>1, <2>1 DEF Mismatch, Members, Shape, Types
    <3>3. q1.code = "-1" /\ q1.totalLen = 0
      BY <1>1, <1>4, <1>8 DEF Same, SameStart, SameHeader, NoHeader
    <3>4. q1.isRequest = message.isRequest /\ q1.begin = 0
      BY <1>1 DEF Same, SameRest, Before, Parsing, Working
    <3> QED BY <3>1, <3>2, <3>3, <3>4
  <2>3. q1.st = s
    BY TurnBegins
  <2>4. r.st.idx \in 0..r.nowLen
    <3>1. r.st.idx = s.idx /\ r.nowLen = q1.nowLen
      BY <2>2, <2>3
    <3> HIDE DEF s
    <3> QED BY ONLY <1>2, <3>1
  <2> QED BY <1>1, <2>2, <2>3, <2>4 DEF Parsing, Working, Refused
<1>9. CASE s.idx = 0 /\ q.code # "-1"
  <2> DEFINE q2 == [q1 EXCEPT !.code = c]
  <2>1. c \in Codes
    <3>1. q.nowLen = 2
      BY <1>7, <1>9
    <3> QED BY <1>4, <1>6, <3>1, NextChar DEF Before
  <2>2. r = Stay(q2, s)
    BY <1>1, <1>3, <1>9, <2>1 DEF MatchCode, Same, SameStart
  <2>3. /\ Members(q2) /\ SameHeader(q1, q2) /\ SameRest(q1, q2)
        /\ q2.nowLen = q1.nowLen /\ q2.code = c
    BY <1>1, <2>1, CodeIs
  <2> HIDE DEF q2, s
  <2>4. SameRest(q, q2) /\ q2.nowLen = q.nowLen + 1 /\ q2.code # "-1"
    BY <1>1, <1>2, <2>1, <2>3 DEF SameRest, Codes
  <2>5. Same(q2, r) /\ r.st.phase = "code" /\ (Reading(r) => Parsing(r))
    BY <1>1, <1>5, <2>2, <2>3, <2>4, Stayed
  <2>6. r.nowLen = r.st.idx + 2 /\ r.st.idx <= 1
    <3>1. r.nowLen = q.nowLen + 1 /\ r.st.idx = s.idx + 1
      BY <1>1, <1>5, <2>2, <2>3, <2>4, Stayed
    <3>2. q.nowLen = s.idx + 2 /\ s.idx = 0
      BY <1>7, <1>9
    <3> QED BY ONLY <3>1, <3>2
  <2>7. InCode(r)
    BY <1>1, <1>4, <2>3, <2>4, <2>5, <2>6
       DEF InCode, NoHeader, Same, SameStart, SameHeader
  <2> QED BY <2>5, <2>7 DEF Reading
<1>10. CASE s.idx = 1
  <2>1. q.nowLen = 3 /\ q.code # "-1"
    BY <1>7, <1>10
  <2>2. c = " "
    BY <1>4, <1>6, <2>1, NextIs DEF Before
  <2>3. r = Enter(q1, "detail")
    <3>1. s.idx # 0
      BY <1>10
    <3> HIDE DEF s
    <3> QED BY <1>3, <1>10, <2>2, <3>1 DEF MatchCode, Codes
  <2>4. /\ Same(q1, r) /\ r.st.phase = "detail" /\ ~r.st.prefixR
        /\ Reading(r) => Parsing(r)
    BY <1>1, <1>2, <2>3, Entered DEF Phases
  <2>5. r.nowLen = 4
    BY <1>1, <1>2, <2>1, <2>3, Entered DEF Phases
  <2>6. 4 <= r.nowLen /\ r.nowLen <= End(message.detail) + 1
        /\ r.nowLen # End(message.detail) + 1
    <3>1. message.detail[1] = 4 /\ message.detail \in Positions
      BY <1>6
    <3>2. End(message.detail) \in Nat /\ End(message.detail) >= 4
      BY ONLY <3>1 DEF Positions, End
    <3> QED BY ONLY <2>5, <3>2
  <2>7. InDetail(r)
    BY <1>1, <1>4, <2>1, <2>4, <2>6
       DEF InDetail, StartRead, NoHeader, Same, SameStart, SameHeader
  <2> QED BY <2>4, <2>7 DEF Reading
<1> HIDE DEF s
<1>11. s.idx = 0 \/ s.idx = 1
  <2>1. s.idx <= 1
    BY <1>7
  <2> QED BY ONLY <1>2, <2>1
<1> QED BY <1>8, <1>9, <1>10, <1>11

\* The turns of StateDetail.
LEMMA DetailTurn ==
  ASSUME NEW q, Before(q), InDetail(q),
         NEW c, c = mem[q.nowLen + 1], NEW q1, q1 = Read(q), NEW r, r = Match(q, c)
  PROVE  Parsing(r)
<1> DEFINE s == q.st
           e == End(message.detail)
<1>1. /\ Members(q1) /\ Same(q, q1) /\ SameRest(q, q1) /\ s \in StateObjects
      /\ s.phase = "detail" /\ s.part = "key" /\ ~s.emptyLine
  BY TurnBegins DEF Before, Parsing, Working, InDetail, Same, SameRest
<1>2. q1.nowLen = q.nowLen + 1 /\ q.nowLen \in Nat /\ s.idx \in 0..q.nowLen
  BY TurnBegins
<1>3. r = MatchDetail(q1, s, c)
  BY TurnBegins, <1>1 DEF Match, Read
<1>4. NoHeader(q) /\ StartRead(q) /\ Given /\ ~message.isRequest
  BY DEF Before, InDetail
<1>5. s.idx + 1 \in 0..q.nowLen + 1
  BY ONLY <1>2
<1>6. /\ message.detail[1] = 4 /\ message.detail \in Positions
      /\ Free(message, message.detail, {"CR", "LF"})
      /\ Reads(message, e, {"CR"}) /\ Reads(message, e + 1, {"LF"})
  BY <1>4 DEF Given, IsMessage, IsStatusLine
<1>7. e \in Nat
  BY ONLY <1>6 DEF Positions, End
<1>8. 4 <= q.nowLen /\ q.nowLen <= e + 1
  BY DEF InDetail
<1>9. s.prefixR <=> q.nowLen = e + 1
  BY DEF InDetail
<1> HIDE DEF s
<1>10. ASSUME NEW s2 \in StateObjects, r = Stay(q1, s2), s2.idx = s.idx,
              s2.phase = "detail", s2.part = "key", ~s2.emptyLine,
              q.nowLen <= e, s2.prefixR <=> q.nowLen = e
       PROVE  Parsing(r)
  <2>0. s2.idx + 1 \in 0..q.nowLen + 1
    BY <1>5, <1>10
  <2>1. Same(q1, r) /\ r.st.phase = "detail" /\ (Reading(r) => Parsing(r))
    BY <1>1, <1>2, <1>10, <2>0, Stayed
  <2>2. r.nowLen = q.nowLen + 1
    BY <1>1, <1>2, <1>10, <2>0, Stayed
  <2>3. r.st.prefixR <=> s2.prefixR
    BY <1>1, <1>2, <1>10, <2>0, Stayed
  <2> HIDE DEF e
  <2>4. 4 <= r.nowLen /\ r.nowLen <= e + 1 /\ (r.nowLen = e + 1 <=> q.nowLen = e)
    BY ONLY <1>2, <1>7, <1>8, <1>10, <2>2
  <2>5. StartRead(r) /\ NoHeader(r)
    BY <1>1, <1>4, <2>1
       DEF StartRead, QueryRead, NoHeader, Same, SameStart, SameHeader
  <2>6. InDetail(r)
    BY <1>4, <1>10, <2>1, <2>3, <2>4, <2>5 DEF InDetail, e
  <2> QED BY <2>1, <2>6 DEF Reading
<1>11. CASE q.nowLen < e
  <2>1. message.detail[1] <= q.nowLen /\ e <= Len(message.text)
    <3>1. Len(message.text) \in Nat
      BY <1>4 DEF Given, IsMessage
    <3>2. e < Len(message.text)
      BY ONLY <1>6 DEF Reads
    <3> QED BY ONLY <1>6, <1>7, <1>8, <3>1, <3>2
  <2>2. c \notin {"CR", "LF"}
    BY <1>2, <1>4, <1>6, <1>11, <2>1, FreeChar DEF Before
  <2>3. r = Stay(q1, s)
    BY <1>3, <2>2 DEF MatchDetail
  <2>4. q.nowLen <= e /\ q.nowLen # e /\ q.nowLen # e + 1
    BY ONLY <1>2, <1>7, <1>11
  <2> QED BY <1>1, <1>9, <1>10, <2>3, <2>4
<1>12. CASE q.nowLen = e
  <2> DEFINE s2 == [s EXCEPT !.prefixR = TRUE]
  <2>1. c = "CR"
    BY <1>2, <1>4, <1>6, <1>12, NextIs DEF Before
  <2>2. r = Stay(q1, s2)
    BY <1>3, <2>1 DEF MatchDetail
  <2>3. /\ s2 \in StateObjects /\ s2.idx = s.idx /\ s2.phase = "detail"
        /\ s2.part = "key" /\ ~s2.emptyLine /\ s2.prefixR
    BY <1>1 DEF StateObjects
  <2> HIDE DEF s2
  <2>4. q.nowLen <= e
    BY ONLY <1>2, <1>12
  <2> QED BY <1>10, <1>12, <2>2, <2>3, <2>4
<1>13. CASE q.nowLen = e + 1
  <2> DEFINE detail == <<q1.nowLen - s.idx, s.idx + 1>>
             q2 == [q1 EXCEPT !.detail = detail]
  <2>1. c = "LF"
    BY <1>2, <1>4, <1>6, <1>13, NextIs DEF Before
  <2>2. r = Enter(q2, "header")
    BY <1>3, <1>9, <1>13, <2>1 DEF MatchDetail
  <2>3. Members(q2) /\ Same(q1, q2) /\ q2.nowLen = q1.nowLen
    BY <1>1, DetailIs
  <2> HIDE DEF q2
  <2>4. SameRest(q, q2) /\ q2.nowLen = q.nowLen + 1 /\ StartRead(q2) /\ NoHeader(q2)
    BY <1>1, <1>2, <1>4, <2>3
       DEF StartRead, QueryRead, NoHeader, Same, SameStart, SameHeader, SameRest
  <2>5. q.nowLen + 1 = LineAt(message, 1)
    <3>1. LineAt(message, 1) = e + 2
      BY <1>4, HeaderAt
    <3> QED BY ONLY <1>2, <1>7, <1>13, <3>1
  <2> QED BY <2>2, <2>3, <2>4, <2>5, HeaderBegins
<1> HIDE DEF e
<1>14. q.nowLen < e \/ q.nowLen = e \/ q.nowLen = e + 1
  BY ONLY <1>2, <1>7, <1>8
<1> QED BY <1>11, <1>12, <1>13, <1>14

-----------------------------------------------------------------------------
(* The lines of the header.                                                 *)

\* What was read of the header depends on these members.
LEMMA HeaderReadSame ==
  ASSUME NEW q, NEW r, SameStart(q, r), SameHeader(q, r), NEW n, HeaderRead(q, n)
  PROVE  HeaderRead(r, n)
BY DEF HeaderRead, StartRead, QueryRead, SameStart, SameHeader

\* The parser stays in the i-th line.
LEMMA LineStays ==
  ASSUME NEW q, Before(q), NEW i \in DOMAIN message.header, InLine(q, i),
         NEW q1, Members(q1), SameRest(q, q1), q1.nowLen = q.nowLen + 1,
         NEW n, HeaderRead(q1, n),
         NEW s \in StateObjects, s.idx = q.st.idx, s.phase = "header", ~s.emptyLine,
         NEW r, r = Stay(q1, s)
  PROVE  /\ r.nowLen = q.nowLen + 1 /\ r.st.idx = q.st.idx + 1
         /\ r.st.keyOff = s.keyOff /\ r.st.keyLen = s.keyLen /\ r.st.valOff = s.valOff
         /\ r.st.part = s.part
         /\ HeaderRead(r, n)
         /\ \/ (AtKey(r, i) \/ AtSplit(r, i) \/ AtValue(r, i)) /\ n = i - 1
            \/ AtEnd(r, i) /\ n = i
            => Parsing(r)
<1>1. q.nowLen \in Nat /\ q.st.idx \in 0..q.nowLen
  BY TurnBegins
<1>2. s.idx + 1 \in 0..q.nowLen + 1
  <2>1. q.st.idx + 1 \in 0..q.nowLen + 1
    BY ONLY <1>1
  <2> QED BY <2>1
<1>3. Same(q1, r) /\ r.st.phase = "header" /\ r.st.part = s.part /\ ~r.st.emptyLine
      /\ (Reading(r) => Parsing(r))
  BY <1>2, Stayed
<1>4. r.nowLen = q.nowLen + 1 /\ r.st.idx = q.st.idx + 1
      /\ r.st.keyOff = s.keyOff /\ r.st.keyLen = s.keyLen /\ r.st.valOff = s.valOff
  BY <1>2, Stayed
<1>5. HeaderRead(r, n)
  BY <1>3, HeaderReadSame DEF Same
<1>6. r.nowLen = LineAt(message, i) + r.st.idx
  <2>1. Given
    BY DEF Before
  <2>2. LineAt(message, i) \in Nat
    BY <2>1, LineIs
  <2>3. q.nowLen = LineAt(message, i) + q.st.idx
    BY DEF InLine
  <2> QED BY ONLY <1>1, <1>4, <2>2, <2>3
<1>7. ASSUME \/ (AtKey(r, i) \/ AtSplit(r, i) \/ AtValue(r, i)) /\ n = i - 1
             \/ AtEnd(r, i) /\ n = i
      PROVE  InLine(r, i)
  BY <1>3, <1>5, <1>6, <1>7 DEF InLine
<1> QED BY <1>3, <1>4, <1>5, <1>7 DEF Reading

\* The turns in the key of a line, ended by the colon.
LEMMA LineKeyTurn ==
  ASSUME NEW q, Before(q), NEW i \in DOMAIN message.header, InLine(q, i),
         AtKey(q, i), HeaderRead(q, i - 1),
         NEW c, c = mem[q.nowLen + 1], NEW q1, q1 = Read(q), NEW r, r = Match(q, c)
  PROVE  Parsing(r)
<1> DEFINE s == q.st
           key == message.header[i].key
           val == message.header[i].val
<1>1. /\ Members(q1) /\ Same(q, q1) /\ SameRest(q, q1) /\ s \in StateObjects
      /\ s.phase = "header" /\ s.part = "key" /\ ~s.emptyLine /\ Given
  BY TurnBegins DEF Before, Parsing, Working, InLine, AtKey, Same
<1>2. q1.nowLen = q.nowLen + 1 /\ q.nowLen \in Nat /\ s.idx \in 0..q.nowLen
  BY TurnBegins
<1>3. r = MatchKey(q1, s, c)
  BY TurnBegins, <1>1 DEF Match, MatchHeader, Read
<1>4. HeaderRead(q1, i - 1)
  BY <1>1, HeaderReadSame DEF Same
<1>k. key = message.header[i].key /\ val = message.header[i].val
  OBVIOUS
<1>5. /\ s.idx > 0 => s.keyOff = key[1]
      /\ q.nowLen = LineAt(message, i) + s.idx /\ q.nowLen <= End(key)
  BY DEF InLine, AtKey
<1> HIDE DEF s, key, val
<1>6. /\ key[1] \in Nat /\ key[2] \in Nat \ {0} /\ val[1] \in Nat
      /\ End(key) = key[1] + key[2] /\ val[1] > End(key) /\ key[1] = LineAt(message, i)
  BY <1>1, <1>k, LineIs
<1>7. key \in Positions /\ Free(message, key, {":", "CR"}) /\ Reads(message, End(key), {":"})
  BY <1>1, <1>k, LineText
<1>8. End(key) < Len(message.text) /\ Len(message.text) \in Nat
  BY <1>1, <1>7 DEF Given, IsMessage, Reads
<1>9. CASE q.nowLen < End(key)
  <2> DEFINE s2 == IF s.idx = 0 THEN [s EXCEPT !.keyOff = q1.nowLen - 1] ELSE s
  <2>1. key[1] <= q.nowLen /\ End(key) <= Len(message.text)
    <3>1. key[1] \in Nat /\ q.nowLen = key[1] + s.idx
      BY <1>5, <1>6
    <3>2. End(key) \in Nat
      BY ONLY <1>6
    <3> QED BY ONLY <1>2, <1>8, <3>1, <3>2
  <2>2. c \notin {":", "CR"}
    BY <1>1, <1>2, <1>7, <1>9, <2>1, FreeChar DEF Before
  <2>3. r = Stay(q1, s2)
    BY <1>3, <2>2 DEF MatchKey
  <2>4. q1.nowLen - 1 \in Int /\ (s.idx = 0 => q1.nowLen - 1 = key[1])
        /\ (s.idx # 0 => s.idx > 0)
    BY ONLY <1>2, <1>5, <1>6
  <2>5. /\ s2 \in StateObjects /\ s2.idx = s.idx /\ s2.phase = "header"
        /\ s2.part = "key" /\ ~s2.emptyLine
    <3>1. CASE s.idx = 0
      BY <1>1, <2>4, <3>1 DEF StateObjects
    <3>2. CASE s.idx # 0
      BY <1>1, <3>2
    <3> QED BY <3>1, <3>2
  <2>6. s2.keyOff = key[1]
    <3>1. CASE s.idx = 0
      BY <1>1, <2>4, <3>1 DEF StateObjects
    <3>2. CASE s.idx # 0
      BY <1>5, <2>4, <3>2
    <3> QED BY <3>1, <3>2
  <2> HIDE DEF s2
  <2>7. /\ r.nowLen = q.nowLen + 1 /\ r.st.keyOff = s2.keyOff /\ r.st.part = s2.part
        /\ AtKey(r, i) => Parsing(r)
    BY <1>1, <1>2, <1>4, <2>3, <2>5, LineStays DEF s
  <2>8. r.nowLen <= End(key)
    BY ONLY <1>2, <1>6, <1>9, <2>7
  <2> QED BY <1>k, <2>5, <2>6, <2>7, <2>8 DEF AtKey
<1>10. CASE q.nowLen = End(key)
  <2> DEFINE s2 == [s EXCEPT !.part = "split", !.keyLen = q1.nowLen - s.keyOff - 1]
  <2>1. c = ":"
    BY <1>1, <1>2, <1>7, <1>10, NextIs DEF Before
  <2>2. s.idx # 0 /\ s.idx > 0
    BY ONLY <1>2, <1>5, <1>6, <1>10
  <2>3. r = Stay(q1, s2)
    BY <1>3, <2>1, <2>2 DEF MatchKey
  <2>4. s.keyOff = key[1] /\ q1.nowLen - s.keyOff - 1 = key[2] /\ key[2] \in Int
    BY ONLY <1>2, <1>5, <1>6, <1>10, <2>2
  <2>5. /\ s2 \in StateObjects /\ s2.idx = s.idx /\ s2.phase = "header"
        /\ s2.part = "split" /\ ~s2.emptyLine
        /\ s2.keyOff = key[1] /\ s2.keyLen = key[2]
    BY <1>1, <2>4 DEF StateObjects
  <2> HIDE DEF s2
  <2>7. /\ r.nowLen = q.nowLen + 1 /\ r.st.keyOff = s2.keyOff /\ r.st.part = s2.part
        /\ r.st.keyLen = s2.keyLen
        /\ AtSplit(r, i) => Parsing(r)
    BY <1>1, <1>2, <1>4, <2>3, <2>5, LineStays DEF s
  <2>8. End(key) < r.nowLen /\ r.nowLen <= val[1]
    BY ONLY <1>2, <1>6, <1>10, <2>7
  <2> QED BY <1>k, <2>5, <2>7, <2>8 DEF AtSplit
<1> QED BY ONLY <1>2, <1>5, <1>6, <1>9, <1>10

\* The turns in the spaces behind the colon, ended by the first of the value.
LEMMA LineSplitTurn ==
  ASSUME NEW q, Before(q), NEW i \in DOMAIN message.header, InLine(q, i),
         AtSplit(q, i), HeaderRead(q, i - 1),
         NEW c, c = mem[q.nowLen + 1], NEW q1, q1 = Read(q), NEW r, r = Match(q, c)
  PROVE  Parsing(r)
<1> DEFINE s == q.st
           key == message.header[i].key
           val == message.header[i].val
<1>1. /\ Members(q1) /\ Same(q, q1) /\ SameRest(q, q1) /\ s \in StateObjects
      /\ s.phase = "header" /\ s.part = "split" /\ ~s.emptyLine /\ Given
  BY TurnBegins DEF Before, Parsing, Working, InLine, AtSplit, Same
<1>2. q1.nowLen = q.nowLen + 1 /\ q.nowLen \in Nat
  BY TurnBegins
<1>3. r = MatchSplit(q1, s, c)
  BY TurnBegins, <1>1 DEF Match, MatchHeader, Read
<1>4. HeaderRead(q1, i - 1)
  BY <1>1, HeaderReadSame DEF Same
<1>k. key = message.header[i].key /\ val = message.header[i].val
  OBVIOUS
<1>5. /\ s.keyOff = key[1] /\ s.keyLen = key[2]
      /\ End(key) < q.nowLen /\ q.nowLen <= val[1]
  BY DEF AtSplit
<1> HIDE DEF s, key, val
<1>6. /\ key[1] \in Nat /\ key[2] \in Nat \ {0} /\ val[1] \in Nat /\ val[2] \in Nat \ {0}
      /\ End(key) = key[1] + key[2] /\ End(val) = val[1] + val[2] /\ val[1] > End(key)
  BY <1>1, <1>k, LineIs
<1>7. /\ \A k \in End(key) + 1..val[1] - 1 : message.text[k + 1] = " "
      /\ message.text[val[1] + 1] # " "
  BY <1>1, <1>k, LineText
<1>8. End(val) < Len(message.text) /\ Len(message.text) \in Nat
  <2>1. Reads(message, End(val), {"CR"})
    BY <1>1, <1>k, LineText
  <2> QED BY <1>1, <2>1 DEF Given, IsMessage, Reads
<1>9. c = message.text[q.nowLen + 1]
  <2>1. q.nowLen + 1 \in 1..Len(message.text)
    BY ONLY <1>2, <1>5, <1>6, <1>8
  <2> QED BY <2>1 DEF Before, Sent
<1>10. CASE q.nowLen < val[1]
  <2>1. q.nowLen \in End(key) + 1..val[1] - 1
    BY ONLY <1>2, <1>5, <1>6, <1>10
  <2>2. c = " "
    BY <1>7, <1>9, <2>1
  <2>3. r = Stay(q1, s)
    BY <1>3, <2>2 DEF MatchSplit
  <2>4. /\ r.nowLen = q.nowLen + 1 /\ r.st.keyOff = s.keyOff /\ r.st.part = s.part
        /\ r.st.keyLen = s.keyLen
        /\ AtSplit(r, i) => Parsing(r)
    BY <1>1, <1>2, <1>4, <2>3, LineStays DEF s
  <2>5. End(key) < r.nowLen /\ r.nowLen <= val[1]
    BY ONLY <1>2, <1>5, <1>6, <1>10, <2>4
  <2> QED BY <1>k, <1>1, <1>5, <2>4, <2>5 DEF AtSplit
<1>11. CASE q.nowLen = val[1]
  <2> DEFINE s2 == [s EXCEPT !.part = "value", !.valOff = q1.nowLen - 1]
  <2>1. c # " "
    BY <1>7, <1>9, <1>11
  <2>2. r = Stay(q1, s2)
    BY <1>3, <2>1 DEF MatchSplit
  <2>3. q1.nowLen - 1 = val[1] /\ val[1] \in Int
    BY ONLY <1>2, <1>6, <1>11
  <2>4. /\ s2 \in StateObjects /\ s2.idx = s.idx /\ s2.phase = "header"
        /\ s2.part = "value" /\ ~s2.emptyLine
        /\ s2.keyOff = s.keyOff /\ s2.keyLen = s.keyLen /\ s2.valOff = val[1]
    BY <1>1, <2>3 DEF StateObjects
  <2> HIDE DEF s2
  <2>5. /\ r.nowLen = q.nowLen + 1 /\ r.st.keyOff = s2.keyOff /\ r.st.part = s2.part
        /\ r.st.keyLen = s2.keyLen /\ r.st.valOff = s2.valOff
        /\ AtValue(r, i) => Parsing(r)
    BY <1>1, <1>2, <1>4, <2>2, <2>4, LineStays DEF s
  <2>6. val[1] < r.nowLen /\ r.nowLen <= End(val)
    BY ONLY <1>2, <1>6, <1>11, <2>5
  <2> QED BY <1>k, <1>5, <2>4, <2>5, <2>6 DEF AtValue
<1> QED BY ONLY <1>2, <1>5, <1>6, <1>10, <1>11

\* A line that was read to its end goes into the map, and a Content-Length
\* sets total_len.
LEMMA LineRead ==
  ASSUME NEW q, Before(q), NEW q1, q1 = Read(q), NEW i \in DOMAIN message.header,
         AtValue(q, i), HeaderRead(q, i - 1), q.nowLen = End(message.header[i].val),
         NEW q2, q2 = HeaderPair(q1, q.st)
  PROVE  /\ Members(q2) /\ SameRest(q, q2) /\ q2.nowLen = q.nowLen + 1
         /\ HeaderRead(q2, i)
<1> DEFINE s == q.st
           key == message.header[i].key
           val == message.header[i].val
           len == q1.nowLen - s.valOff - 1
<1>1. Members(q1) /\ Same(q, q1) /\ q1.begin = 0 /\ Given
  BY TurnBegins DEF Before, Parsing, Working, Same, SameRest
<1>2. q1.nowLen = q.nowLen + 1 /\ q.nowLen \in Nat /\ q.nowLen = End(val)
  BY TurnBegins
<1>3. s.keyOff = key[1] /\ s.keyLen = key[2] /\ s.valOff = val[1]
  BY DEF AtValue
<1>4. HeaderRead(q1, i - 1)
  BY <1>1, HeaderReadSame DEF Same
<1>k. key = message.header[i].key /\ val = message.header[i].val
      /\ len = q1.nowLen - s.valOff - 1
  OBVIOUS
<1> HIDE DEF s, key, val, len
<1>5. /\ i \in 1..Len(message.header) /\ Len(message.header) \in Nat
      /\ key[1] \in Nat /\ key[2] \in Nat \ {0} /\ val[1] \in Nat /\ val[2] \in Nat \ {0}
      /\ End(key) = key[1] + key[2] /\ End(val) = val[1] + val[2] /\ val[1] > End(key)
  BY <1>1, <1>k, LineIs
<1>6. key \in Positions /\ val \in Positions /\ Reads(message, End(val), {"CR"})
  BY <1>1, <1>k, LineText
<1>7. End(key) <= Len(message.text) /\ End(val) <= Len(message.text)
  <2>1. End(val) < Len(message.text) /\ Len(message.text) \in Nat
    BY <1>1, <1>6 DEF Given, IsMessage, Reads
  <2> QED BY ONLY <1>5, <2>1
<1>8. Str(q1, s.keyOff, s.keyLen) = Part(message, key)
  BY <1>1, <1>3, <1>6, <1>7, StrIsPart DEF Before
<1>9. len = val[2]
  BY ONLY <1>2, <1>3, <1>5 DEF len
<1>10. Str(q1, s.valOff, len) = Part(message, val) /\ <<s.valOff, len>> = val
  <2>1. val = <<val[1], val[2]>>
    BY ONLY <1>6 DEF Positions
  <2>2. Str(q1, s.valOff, len) = Part(message, val)
    BY <1>1, <1>3, <1>6, <1>7, <1>9, StrIsPart DEF Before
  <2> QED BY <1>3, <1>9, <2>1, <2>2
<1>11. message.body[2] \in Nat /\ (IsLength(i) => Stoi(Part(message, val)) = message.body[2])
  <2>1. message.body \in Positions /\ IsBody(message)
    BY <1>1 DEF Given, IsMessage
  <2>2. message.body[2] \in Nat
    BY ONLY <2>1 DEF Positions
  <2>3. IsLength(i) => Stoi(Part(message, val)) = message.body[2]
    BY <2>1 DEF IsBody, IsLength, LengthNames, val
  <2> QED BY <2>2, <2>3
<1>12. IsLength(i) <=> Part(message, key) = LengthName
  BY DEF IsLength, key
<1>13. /\ Members(q2) /\ SameStart(q1, q2) /\ SameRest(q1, q2)
       /\ q2.nowLen = q1.nowLen /\ q2.body = q1.body
       /\ q2.header = Put(q1.header, Part(message, key), val)
       /\ q2.totalLen = IF IsLength(i) THEN message.body[2] ELSE q1.totalLen
  <2>1. LET x == HeaderPair(q1, s)
        IN  /\ Members(x) /\ SameStart(q1, x) /\ SameRest(q1, x)
            /\ x.nowLen = q1.nowLen /\ x.st = q1.st /\ x.body = q1.body
            /\ x.header = Put(q1.header, Part(message, key), <<s.valOff, len>>)
            /\ x.totalLen = IF Part(message, key) = LengthName
                            THEN Stoi(Str(q1, s.valOff, len)) ELSE q1.totalLen
    BY <1>1, <1>8, <1>k, HeaderPairIs
  <2> QED BY <1>10, <1>11, <1>12, <2>1 DEF s
<1>14. Holds(q2.header, message.header, i)
  <2> DEFINE n == i - 1
  <2>1. n \in Nat /\ n + 1 = i
    BY ONLY <1>5
  <2>2. Holds(q1.header, message.header, n)
    BY <1>4 DEF HeaderRead
  <2> HIDE DEF n
  <2>3. Distinct(message, message.header)
    BY <1>1 DEF Given, Plain
  <2>4. DOMAIN message.header = 1..Len(message.header) /\ Len(message.header) \in Nat
    BY <1>1, HeaderAt
  <2>5. Holds(Put(q1.header, Part(message, message.header[n + 1].key),
                  message.header[n + 1].val), message.header, n + 1)
    BY <2>1, <2>2, <2>3, <2>4, HoldsPut
  <2> QED BY <2>1, <2>5, <1>13 DEF key, val
<1>15. /\ (\E j \in 1..i : IsLength(j)) => q2.totalLen = message.body[2]
       /\ (\A j \in 1..i : ~IsLength(j)) => q2.totalLen = 0
  <2>1. 1..i = (1..i - 1) \cup {i}
    BY ONLY <1>5
  <2>2. /\ (\E j \in 1..i - 1 : IsLength(j)) => q1.totalLen = message.body[2]
        /\ (\A j \in 1..i - 1 : ~IsLength(j)) => q1.totalLen = 0
    BY <1>4 DEF HeaderRead
  <2> QED BY <1>13, <2>1, <2>2
<1>16. StartRead(q2) /\ q2.body = <<0, 0>>
  BY <1>4, <1>13 DEF HeaderRead, StartRead, QueryRead, SameStart
<1>17. HeaderRead(q2, i)
  BY <1>14, <1>15, <1>16 DEF HeaderRead
<1> QED BY <1>1, <1>2, <1>13, <1>17 DEF Same, SameRest

\* The turns in the value of a line, ended by CR.
LEMMA LineValueTurn ==
  ASSUME NEW q, Before(q), NEW i \in DOMAIN message.header, InLine(q, i),
         AtValue(q, i), HeaderRead(q, i - 1),
         NEW c, c = mem[q.nowLen + 1], NEW q1, q1 = Read(q), NEW r, r = Match(q, c)
  PROVE  Parsing(r)
<1> DEFINE s == q.st
           key == message.header[i].key
           val == message.header[i].val
<1>1. /\ Members(q1) /\ Same(q, q1) /\ SameRest(q, q1) /\ s \in StateObjects
      /\ s.phase = "header" /\ s.part = "value" /\ ~s.emptyLine /\ Given
  BY TurnBegins DEF Before, Parsing, Working, InLine, AtValue, Same
<1>2. q1.nowLen = q.nowLen + 1 /\ q.nowLen \in Nat
  BY TurnBegins
<1>3. r = MatchValue(q1, s, c)
  BY TurnBegins, <1>1 DEF Match, MatchHeader, Read
<1>4. HeaderRead(q1, i - 1)
  BY <1>1, HeaderReadSame DEF Same
<1>k. key = message.header[i].key /\ val = message.header[i].val
  OBVIOUS
<1>v. q.nowLen = End(message.header[i].val) <=> q.nowLen = End(val)
  OBVIOUS
<1>5. /\ s.keyOff = key[1] /\ s.keyLen = key[2] /\ s.valOff = val[1]
      /\ val[1] < q.nowLen /\ q.nowLen <= End(val)
  BY DEF AtValue
<1> HIDE DEF s, key, val
<1>6. /\ i \in 1..Len(message.header)
      /\ val[1] \in Nat /\ val[2] \in Nat \ {0} /\ End(val) = val[1] + val[2]
      /\ LineAt(message, i + 1) = End(val) + 2
  BY <1>1, <1>k, LineIs
<1>7. val \in Positions /\ Free(message, val, {"CR"}) /\ Reads(message, End(val), {"CR"})
  BY <1>1, <1>k, LineText
<1>8. End(val) < Len(message.text) /\ Len(message.text) \in Nat
  BY <1>1, <1>7 DEF Given, IsMessage, Reads
<1>9. CASE q.nowLen < End(val)
  <2>1. val[1] <= q.nowLen /\ End(val) <= Len(message.text)
    BY ONLY <1>2, <1>5, <1>6, <1>8
  <2>2. c \notin {"CR"}
    BY <1>1, <1>2, <1>7, <1>9, <2>1, FreeChar DEF Before
  <2>3. r = Stay(q1, s)
    BY <1>3, <2>2 DEF MatchValue
  <2>4. /\ r.nowLen = q.nowLen + 1 /\ r.st.keyOff = s.keyOff /\ r.st.part = s.part
        /\ r.st.keyLen = s.keyLen /\ r.st.valOff = s.valOff
        /\ AtValue(r, i) => Parsing(r)
    BY <1>1, <1>2, <1>4, <2>3, LineStays DEF s
  <2>5. val[1] < r.nowLen /\ r.nowLen <= End(val)
    BY ONLY <1>2, <1>5, <1>6, <1>9, <2>4
  <2> QED BY <1>k, <1>1, <1>5, <2>4, <2>5 DEF AtValue
<1>10. CASE q.nowLen = End(val)
  <2> DEFINE q2 == HeaderPair(q1, s)
             s2 == [s EXCEPT !.part = "end"]
  <2>1. c = "CR"
    BY <1>1, <1>2, <1>7, <1>10, NextIs DEF Before
  <2>2. r = Stay(q2, s2)
    BY <1>3, <2>1 DEF MatchValue
  <2>3. /\ Members(q2) /\ SameRest(q, q2) /\ q2.nowLen = q.nowLen + 1
        /\ HeaderRead(q2, i)
    BY <1>v, <1>10, LineRead DEF s
  <2>4. /\ s2 \in StateObjects /\ s2.idx = s.idx /\ s2.phase = "header"
        /\ s2.part = "end" /\ ~s2.emptyLine
    BY <1>1 DEF StateObjects
  <2> HIDE DEF q2, s2
  <2>5. /\ r.nowLen = q.nowLen + 1 /\ r.st.part = s2.part
        /\ AtEnd(r, i) => Parsing(r)
    BY <1>1, <1>2, <2>2, <2>3, <2>4, LineStays DEF s
  <2>6. r.nowLen = LineAt(message, i + 1) - 1
    BY ONLY <1>2, <1>6, <1>10, <2>5
  <2> QED BY <2>4, <2>5, <2>6 DEF AtEnd
<1> QED BY ONLY <1>2, <1>5, <1>6, <1>9, <1>10

\* The LF of a line.
LEMMA LineEndTurn ==
  ASSUME NEW q, Before(q), NEW i \in DOMAIN message.header, InLine(q, i),
         AtEnd(q, i), HeaderRead(q, i),
         NEW c, c = mem[q.nowLen + 1], NEW q1, q1 = Read(q), NEW r, r = Match(q, c)
  PROVE  Parsing(r)
<1> DEFINE s == q.st
           val == message.header[i].val
           s2 == [s EXCEPT !.part = "key", !.idx = -1]
<1>1. /\ Members(q1) /\ Same(q, q1) /\ SameRest(q, q1) /\ s \in StateObjects
      /\ s.phase = "header" /\ s.part = "end" /\ ~s.emptyLine /\ Given
  BY TurnBegins DEF Before, Parsing, Working, InLine, AtEnd, Same
<1>2. q1.nowLen = q.nowLen + 1 /\ q.nowLen \in Nat
  BY TurnBegins
<1>3. r = MatchEnd(q1, s, c)
  BY TurnBegins, <1>1 DEF Match, MatchHeader, Read
<1>k. val = message.header[i].val
  OBVIOUS
<1>4. q.nowLen = LineAt(message, i + 1) - 1
  BY DEF AtEnd
<1> HIDE DEF s, val
<1>5. /\ i \in 1..Len(message.header) /\ Len(message.header) \in Nat
      /\ val[1] \in Nat /\ val[2] \in Nat \ {0} /\ End(val) = val[1] + val[2]
      /\ LineAt(message, i + 1) = End(val) + 2
  BY <1>1, <1>k, LineIs
<1>6. c = "LF"
  <2>1. Reads(message, End(val) + 1, {"LF"})
    BY <1>1, <1>k, LineText
  <2>2. q.nowLen = End(val) + 1
    BY ONLY <1>2, <1>4, <1>5
  <2> QED BY <1>1, <1>2, <2>1, <2>2, NextIs DEF Before
<1>7. r = Stay(q1, s2)
  BY <1>1, <1>3, <1>6 DEF MatchEnd
<1>8. /\ s2 \in StateObjects /\ s2.idx = -1 /\ s2.phase = "header"
      /\ s2.part = "key" /\ ~s2.emptyLine
  <2>1. -1 \in Int
    OBVIOUS
  <2>2. s \in StateObjects /\ s.phase = "header" /\ ~s.emptyLine
    BY <1>1
  <2> QED BY ONLY <2>1, <2>2 DEF s2, StateObjects
<1> HIDE DEF s2
<1>9. s2.idx + 1 = 0 /\ s2.idx + 1 \in 0..q.nowLen + 1
  <2>1. s2.idx = -1
    BY <1>8
  <2> QED BY ONLY <1>2, <2>1
<1>10. /\ Same(q1, r) /\ r.st.phase = "header" /\ r.st.part = "key" /\ ~r.st.emptyLine
       /\ Reading(r) => Parsing(r)
  BY <1>1, <1>2, <1>7, <1>8, <1>9, Stayed
<1>11. r.nowLen = q.nowLen + 1 /\ r.st.idx = 0
  BY <1>1, <1>2, <1>7, <1>8, <1>9, Stayed
<1>12. r.nowLen = LineAt(message, i + 1) /\ i \in 0..Len(message.header)
  BY ONLY <1>2, <1>4, <1>5, <1>11
<1>13. HeaderRead(r, i)
  BY <1>1, <1>10, HeaderReadSame DEF Same
<1> QED BY <1>1, <1>10, <1>11, <1>12, <1>13, LineBegins

\* The two turns of the empty line.
LEMMA EmptyLineTurn ==
  ASSUME NEW q, Before(q), InEmptyLine(q),
         NEW c, c = mem[q.nowLen + 1], NEW q1, q1 = Read(q), NEW r, r = Match(q, c)
  PROVE  Parsing(r)
<1> DEFINE s == q.st
           h == HeaderEnds(message)
           n == Len(message.header)
<1>1. /\ Members(q1) /\ Same(q, q1) /\ SameRest(q, q1) /\ s \in StateObjects
      /\ s.phase = "header" /\ Given
  BY TurnBegins DEF Before, Parsing, Working, InEmptyLine, Same
<1>2. q1.nowLen = q.nowLen + 1 /\ q.nowLen \in Nat
  BY TurnBegins
<1>3. r = MatchHeader(q1, s, c)
  BY TurnBegins, <1>1 DEF Match, Read
<1>4. HeaderRead(q, n)
  BY DEF InEmptyLine
<1>5. HeaderRead(q1, n)
  BY <1>1, <1>4, HeaderReadSame DEF Same
<1>6. /\ \/ s.part = "key" /\ ~s.emptyLine /\ s.idx = 0
         \/ s.part = "end" /\ s.emptyLine /\ s.idx = 1
      /\ q.nowLen = h + s.idx
  BY DEF InEmptyLine
<1>7. h \in Nat
  BY <1>1, HeaderEnd
<1>8. Reads(message, h, {"CR"}) /\ Reads(message, h + 1, {"LF"})
  BY <1>1, HeaderEnd
<1> HIDE DEF s, h, n
<1>9. CASE s.part = "key" /\ ~s.emptyLine /\ s.idx = 0
  <2> DEFINE s2 == [s EXCEPT !.part = "end", !.emptyLine = TRUE]
  <2>1. q.nowLen = h
    BY ONLY <1>2, <1>6, <1>7, <1>9
  <2>2. c = "CR"
    BY <1>1, <1>2, <1>8, <2>1, NextIs DEF Before
  <2>3. r = Stay(q1, s2)
    BY <1>3, <1>9, <2>2 DEF MatchHeader, MatchKey
  <2>4. /\ s2 \in StateObjects /\ s2.idx = s.idx /\ s2.phase = "header"
        /\ s2.part = "end" /\ s2.emptyLine
    BY <1>1 DEF StateObjects
  <2> HIDE DEF s2
  <2>5. s2.idx + 1 \in 0..q.nowLen + 1
    <3>1. s2.idx = 0
      BY <1>9, <2>4
    <3> QED BY ONLY <1>2, <3>1
  <2>6. /\ Same(q1, r) /\ r.st.phase = "header" /\ r.st.part = "end" /\ r.st.emptyLine
        /\ Reading(r) => Parsing(r)
    BY <1>1, <1>2, <2>3, <2>4, <2>5, Stayed
  <2>7. r.nowLen = q.nowLen + 1 /\ r.st.idx = s2.idx + 1
    BY <1>1, <1>2, <2>3, <2>4, <2>5, Stayed
  <2>8. r.st.idx = 1 /\ r.nowLen = h + r.st.idx
    <3>1. s2.idx = 0
      BY <1>9, <2>4
    <3> QED BY ONLY <2>1, <2>7, <3>1, <1>7
  <2>9. HeaderRead(r, n)
    BY <1>5, <2>6, HeaderReadSame DEF Same
  <2> QED BY <2>6, <2>8, <2>9 DEF InEmptyLine, Reading, h, n
<1>10. CASE s.part = "end" /\ s.emptyLine /\ s.idx = 1
  <2>1. q.nowLen = h + 1
    BY ONLY <1>6, <1>10
  <2>2. c = "LF"
    BY <1>1, <1>2, <1>8, <2>1, NextIs DEF Before
  <2>3. r = Enter(q1, "body")
    BY <1>3, <1>10, <2>2 DEF MatchHeader, MatchEnd
  <2>4. Same(q1, r) /\ r.st.phase = "body" /\ (Reading(r) => Parsing(r))
    BY <1>1, <1>2, <2>3, Entered DEF Phases
  <2>5. r.nowLen = q.nowLen + 1 /\ r.st.idx = 0
    BY <1>1, <1>2, <2>3, Entered DEF Phases
  <2>6. IsBody(message) /\ message.body \in Positions
    BY <1>1 DEF Given, IsMessage
  <2>7. message.body[1] = h + 2
    BY <2>6 DEF IsBody, h
  <2>8. message.body[2] \in Nat
    BY ONLY <2>6 DEF Positions
  <2>9. r.nowLen = message.body[1] + r.st.idx /\ ~(r.st.idx > 0)
        /\ (r.st.idx >= message.body[2] => message.body[2] = 0)
    BY ONLY <1>7, <2>1, <2>5, <2>7, <2>8
  <2>10. HeaderRead(r, n)
    BY <1>5, <2>4, HeaderReadSame DEF Same
  <2>11. r.totalLen = message.body[2]
    <3>1. DOMAIN message.header = 1..n
      BY <1>1, HeaderAt DEF n
    <3>2. CASE \E i \in 1..n : IsLength(i)
      BY <2>10, <3>2 DEF HeaderRead
    <3>3. CASE \A i \in 1..n : ~IsLength(i)
      <4>1. r.totalLen = 0
        BY <2>10, <3>3 DEF HeaderRead
      <4>2. {i \in DOMAIN message.header :
               Part(message, message.header[i].key) \in LengthNames} = {}
        BY <1>1, <3>1, <3>3 DEF IsLength, Given, Plain
      <4>3. message.body[2] = 0
        BY ONLY <2>6, <4>2 DEF IsBody
      <4> QED BY <4>1, <4>3
    <3> QED BY <3>2, <3>3
  <2>12. /\ StartRead(r) /\ Holds(r.header, message.header, n) /\ r.body = <<0, 0>>
    BY <2>10 DEF HeaderRead
  <2>13. r.st.idx >= message.body[2] => r.body[2] = message.body[2]
    BY <2>9, <2>12
  <2>14. InBody(r)
    BY <2>4, <2>9, <2>11, <2>12, <2>13 DEF InBody, n
  <2> QED BY <2>4, <2>14 DEF Reading
<1> QED BY <1>6, <1>9, <1>10

-----------------------------------------------------------------------------
(* The body.                                                                *)

\* The members after the beginning or the end of the body was noted.
LEMMA BodyIs ==
  ASSUME NEW q, Members(q), NEW a \in Int, NEW b \in Int, NEW r,
         r = [q EXCEPT !.body = <<a, b>>]
  PROVE  /\ Members(r) /\ SameStart(q, r) /\ SameRest(q, r)
         /\ r.nowLen = q.nowLen /\ r.header = q.header /\ r.totalLen = q.totalLen
         /\ r.body = <<a, b>>
BY DEF Members, Shape, Types, SameStart, SameRest

\* The turns of StateBody, in the body and behind it.
LEMMA BodyTurn ==
  ASSUME NEW q, Before(q), InBody(q),
         NEW c, NEW q1, q1 = Read(q), NEW r, r = Match(q, c)
  PROVE  Parsing(r)
<1> DEFINE s == q.st
           body == message.body
<1>1. /\ Members(q1) /\ Same(q, q1) /\ SameRest(q, q1) /\ s \in StateObjects
      /\ s.phase = "body" /\ s.part = "key" /\ ~s.emptyLine /\ Given
  BY TurnBegins DEF Before, Parsing, Working, InBody, Same
<1>2. q1.nowLen = q.nowLen + 1 /\ q.nowLen \in Nat /\ s.idx \in 0..q.nowLen
  BY TurnBegins
<1>3. r = MatchBody(q1, s, c)
  BY TurnBegins, <1>1 DEF Match, Read
<1>4. /\ q.nowLen = body[1] + s.idx /\ q1.totalLen = body[2]
      /\ s.idx > 0 => q1.body[1] = body[1]
      /\ s.idx >= body[2] /\ body[2] # 1 => q1.body[2] = body[2]
  BY <1>1 DEF InBody, Same, SameHeader
<1>5. StartRead(q) /\ Holds(q.header, message.header, Len(message.header))
  BY DEF InBody
<1>6. body[1] \in Nat /\ body[2] \in Nat
  <2>1. body \in Positions
    BY <1>1 DEF Given, IsMessage
  <2> QED BY ONLY <2>1 DEF Positions
<1>7. q1.body \in Int \X Int
  BY <1>1 DEF Members, Types
<1>8. q1.body[1] \in Int /\ q1.body[2] \in Int /\ q1.body = <<q1.body[1], q1.body[2]>>
  BY ONLY <1>7
<1> HIDE DEF s, body
<1>9. PICK a \in Int, b \in Int :
         /\ r = Stay([q1 EXCEPT !.body = <<a, b>>], s)
         /\ a = body[1]
         /\ s.idx + 1 >= body[2] /\ body[2] # 1 => b = body[2]
  <2>1. CASE s.idx = 0
    <3>1. r = Stay([q1 EXCEPT !.body = <<q1.nowLen - 1, q1.body[2]>>], s)
      BY <1>1, <1>3, <2>1 DEF MatchBody, Members, Shape
    <3>2. q1.nowLen - 1 = body[1] /\ q1.nowLen - 1 \in Int
      BY ONLY <1>2, <1>4, <1>6, <2>1
    <3>3. s.idx + 1 >= body[2] /\ body[2] # 1 => q1.body[2] = body[2]
      BY ONLY <1>4, <1>6, <2>1
    <3> QED BY <1>8, <3>1, <3>2, <3>3
  <2>2. CASE s.idx # 0 /\ s.idx = q1.totalLen - 1
    <3>1. r = Stay([q1 EXCEPT !.body = <<q1.body[1], q1.nowLen - q1.body[1]>>], s)
      BY <1>3, <2>2 DEF MatchBody
    <3>2. s.idx > 0
      <4>1. s.idx # 0
        BY <2>2
      <4> QED BY ONLY <1>2, <4>1
    <3>3. q1.body[1] = body[1]
      BY <1>4, <3>2
    <3>4. q1.nowLen - q1.body[1] = body[2] /\ q1.nowLen - q1.body[1] \in Int
      BY ONLY <1>2, <1>4, <1>6, <2>2, <3>3
    <3> QED BY <1>8, <3>1, <3>3, <3>4
  <2>3. CASE s.idx # 0 /\ s.idx # q1.totalLen - 1
    <3>1. r = Stay(q1, s)
      BY <1>3, <2>3 DEF MatchBody
    <3>2. [q1 EXCEPT !.body = <<q1.body[1], q1.body[2]>>] = q1
      BY <1>1, <1>8 DEF Members, Shape
    <3>3. s.idx > 0
      BY ONLY <1>2, <2>3
    <3>4. q1.body[1] = body[1]
      BY <1>4, <3>3
    <3>5. s.idx + 1 >= body[2] /\ body[2] # 1 => q1.body[2] = body[2]
      BY ONLY <1>2, <1>4, <1>6, <2>3
    <3> QED BY <1>8, <3>1, <3>2, <3>4, <3>5
  <2> QED BY <2>1, <2>2, <2>3
<1> DEFINE q2 == [q1 EXCEPT !.body = <<a, b>>]
<1>10. /\ Members(q2) /\ SameStart(q1, q2) /\ SameRest(q1, q2)
       /\ q2.nowLen = q1.nowLen /\ q2.header = q1.header /\ q2.totalLen = q1.totalLen
       /\ q2.body = <<a, b>>
  BY <1>1, BodyIs
<1>11. r = Stay(q2, s)
  BY <1>9
<1> HIDE DEF q2
<1>12. SameRest(q, q2) /\ q2.nowLen = q.nowLen + 1
  BY <1>1, <1>2, <1>10 DEF SameRest
<1>13. s.idx + 1 \in 0..q.nowLen + 1
  BY ONLY <1>2
<1>14. Same(q2, r) /\ r.st.phase = "body" /\ (Reading(r) => Parsing(r))
  BY <1>1, <1>10, <1>11, <1>12, <1>13, Stayed
<1>15. r.nowLen = q.nowLen + 1 /\ r.st.idx = s.idx + 1
  BY <1>1, <1>10, <1>11, <1>12, <1>13, Stayed
<1>16. r.nowLen = body[1] + r.st.idx
  BY ONLY <1>2, <1>4, <1>6, <1>15
<1>17. r.body = <<a, b>> /\ r.totalLen = body[2]
  BY <1>4, <1>10, <1>14 DEF Same, SameHeader
<1>18. r.st.idx >= body[2] /\ body[2] # 1 => r.body[2] = body[2]
  BY <1>9, <1>15, <1>17
<1>19. StartRead(r) /\ Holds(r.header, message.header, Len(message.header))
  BY <1>1, <1>5, <1>10, <1>14
     DEF StartRead, QueryRead, Same, SameStart, SameHeader
<1>20. InBody(r)
  BY <1>9, <1>14, <1>16, <1>17, <1>18, <1>19 DEF InBody, body
<1> QED BY <1>14, <1>20 DEF Reading

-----------------------------------------------------------------------------
(* The invariant.                                                           *)

\* A turn of the loop keeps what is known of the parser.
LEMMA Turn ==
  ASSUME NEW q, Before(q)
  PROVE  Parsing(Match(q, mem[q.nowLen + 1]))
<1> DEFINE c == mem[q.nowLen + 1]
<1>1. Reading(q)
  BY DEF Before, Parsing, Working
<1>2. CASE \E i \in DOMAIN message.query : InQuery(q, i)
  <2>1. PICK i \in DOMAIN message.query : InQuery(q, i)
    BY <1>2
  <2>2. InKey(q, i) \/ InValue(q, i)
    BY <2>1 DEF InQuery
  <2> QED BY <2>1, <2>2, KeyTurn, ValueTurn
<1>3. CASE \E i \in DOMAIN message.header : InLine(q, i)
  <2>1. PICK i \in DOMAIN message.header : InLine(q, i)
    BY <1>3
  <2>2. \/ (AtKey(q, i) \/ AtSplit(q, i) \/ AtValue(q, i)) /\ HeaderRead(q, i - 1)
        \/ AtEnd(q, i) /\ HeaderRead(q, i)
    BY <2>1 DEF InLine
  <2> QED BY <2>1, <2>2, LineKeyTurn, LineSplitTurn, LineValueTurn, LineEndTurn
<1> QED BY <1>1, <1>2, <1>3, MethodTurn, PathTurn, VersionTurn, CodeTurn, DetailTurn,
           EmptyLineTurn, BodyTurn DEF Reading

\* A turn reads one character, whatever it is and whatever the message is.
LEMMA TurnWorks ==
  ASSUME NEW q, Working(q), q.st.phase # "aborted", NEW c
  PROVE  Working(Match(q, c)) /\ Match(q, c).nowLen = q.nowLen + 1
<1> DEFINE q1 == Read(q)
           s == q.st
           Ready(r) == /\ Members(r) /\ r.nowLen = q.nowLen + 1
                       /\ r.isRequest = message.isRequest /\ r.begin = 0
           Works(r) == Working(r) /\ r.nowLen = q.nowLen + 1
           Whole(x) == x.phase # "header" => x.part = "key" /\ ~x.emptyLine
           Next1(x) == x \in StateObjects /\ x.idx + 1 \in 0..q.nowLen + 1 /\ Whole(x)
<1>1. Ready(q1) /\ q1.st = s /\ q.nowLen \in Nat
  <2>1. Members(q) /\ q.isRequest = message.isRequest /\ q.begin = 0
    BY DEF Working
  <2>2. q.nowLen \in Nat
    BY <2>1 DEF Members, Types
  <2> QED BY <2>1, <2>2, ReadIs DEF Same, SameRest
<1>2. s \in StateObjects /\ s.idx \in 0..q.nowLen /\ Whole(s)
  BY DEF Working, Members, Types
<1>3. Next1(s)
  <2>1. s.idx + 1 \in 0..q.nowLen + 1
    BY ONLY <1>1, <1>2
  <2> QED BY <1>2, <2>1
<1>4. ASSUME NEW r, Ready(r), NEW x, Next1(x)
      PROVE  Works(Stay(r, x))
  <2>1. /\ Members(Stay(r, x)) /\ Same(r, Stay(r, x)) /\ Stay(r, x).nowLen = r.nowLen
        /\ Stay(r, x).st = [x EXCEPT !.idx = @ + 1]
    BY <1>4, StayIs
  <2>2. [x EXCEPT !.idx = @ + 1].idx = x.idx + 1 /\ Whole([x EXCEPT !.idx = @ + 1])
    BY <1>4 DEF StateObjects
  <2> QED BY <1>4, <2>1, <2>2 DEF Working, Same, SameRest
<1>5. ASSUME NEW r, Ready(r), NEW phase \in Phases
      PROVE  Works(Enter(r, phase))
  <2>1. /\ Members(Enter(r, phase)) /\ Same(r, Enter(r, phase))
        /\ Enter(r, phase).nowLen = r.nowLen /\ Enter(r, phase).st = Fresh(phase)
    BY <1>5, EnterIs
  <2>2. Fresh(phase).idx = 0 /\ Whole(Fresh(phase)) /\ 0 \in 0..q.nowLen + 1
    BY <1>1 DEF Fresh
  <2> QED BY <1>5, <2>1, <2>2 DEF Working, Same, SameRest
<1>6. ASSUME NEW r, r = Mismatch(q1)
      PROVE  Works(r)
  <2>1. /\ Members(r) /\ r.nowLen = q1.nowLen /\ r.st = q1.st
        /\ r.begin = q1.begin /\ r.isRequest = q1.isRequest
    BY <1>1, <1>6, MismatchIs
  <2>2. s.idx \in 0..q.nowLen + 1
    BY ONLY <1>1, <1>2
  <2> QED BY <1>1, <1>2, <2>1, <2>2 DEF Working
<1>7. ASSUME NEW r, Ready(r), NEW x
      PROVE  /\ Ready(PathBegins(r)) /\ Ready(PathEnds(r))
             /\ Ready(QueryPair(r, x)) /\ Ready(HeaderPair(r, x))
  <2>1. Members(r)
    BY <1>7
  <2>2. /\ Members(PathBegins(r)) /\ SameRest(r, PathBegins(r))
        /\ PathBegins(r).nowLen = r.nowLen
        /\ Members(PathEnds(r)) /\ SameRest(r, PathEnds(r))
        /\ PathEnds(r).nowLen = r.nowLen
    BY <2>1, PathIs
  <2>3. /\ Members(QueryPair(r, x)) /\ SameRest(r, QueryPair(r, x))
        /\ QueryPair(r, x).nowLen = r.nowLen
    BY <2>1, QueryPairIs
  <2>4. /\ Members(HeaderPair(r, x)) /\ SameRest(r, HeaderPair(r, x))
        /\ HeaderPair(r, x).nowLen = r.nowLen
    BY <2>1, HeaderPairIs
  <2> QED BY <1>7, <2>2, <2>3, <2>4 DEF SameRest
<1>8. ASSUME NEW x, x \in Codes
      PROVE  Ready([q1 EXCEPT !.code = x])
  BY <1>1, <1>8 DEF Members, Shape, Types
<1>9. ASSUME NEW x
      PROVE  Ready([q1 EXCEPT !.detail = x])
  BY <1>1 DEF Members, Shape, Types
<1>10. ASSUME NEW x, NEW y, x \in Int, y \in Int
       PROVE  Ready([q1 EXCEPT !.body = <<x, y>>])
  BY <1>1, <1>10 DEF Members, Shape, Types
<1>11. q1.nowLen \in Int /\ q1.body[1] \in Int /\ q1.body[2] \in Int
  BY <1>1 DEF Members, Types
<1>12. s.phase \in Phases /\ s.part \in {"key", "split", "value", "end"} /\ s.keyOff \in Int
  BY <1>2 DEF StateObjects
<1>13. Match(q, c) = CASE s.phase = "method"  -> MatchMethod(q1, s, c)
                       [] s.phase = "url"     -> MatchURL(q1, s, c)
                       [] s.phase = "version" -> MatchVersion(q1, s, c)
                       [] s.phase = "code"    -> MatchCode(q1, s, c)
                       [] s.phase = "detail"  -> MatchDetail(q1, s, c)
                       [] s.phase = "header"  -> MatchHeader(q1, s, c)
                       [] s.phase = "body"    -> MatchBody(q1, s, c)
  BY DEF Match, Read
\* The changes that the turns make to the state object.
<1>14. ASSUME NEW n \in Int, NEW k \in Int, NEW v \in Int
       PROVE  /\ Next1([s EXCEPT !.keyOff = n, !.hasQuery = TRUE])
              /\ Next1([s EXCEPT !.keyLen = n, !.valOff = v])
              /\ Next1([s EXCEPT !.keyOff = n, !.keyLen = k, !.valOff = v])
              /\ Next1([s EXCEPT !.keyOff = n])
  BY <1>3 DEF StateObjects
<1>15. ASSUME s.phase = "header", NEW n \in Int,
              NEW part \in {"key", "split", "value", "end"}
       PROVE  /\ Next1([s EXCEPT !.part = part])
              /\ Next1([s EXCEPT !.part = part, !.emptyLine = TRUE])
              /\ Next1([s EXCEPT !.part = part, !.keyLen = n])
              /\ Next1([s EXCEPT !.part = part, !.valOff = n])
  BY <1>3, <1>15 DEF StateObjects
<1>16. ASSUME s.phase = "header"
       PROVE  Next1([s EXCEPT !.part = "key", !.idx = -1])
  <2> DEFINE x == [s EXCEPT !.part = "key", !.idx = -1]
  <2>1. x \in StateObjects /\ x.idx = -1 /\ x.phase = "header"
    <3>1. -1 \in Int
      OBVIOUS
    <3>2. s \in StateObjects /\ s.phase = "header"
      BY <1>2, <1>16
    <3> HIDE DEF s
    <3> QED BY ONLY <3>1, <3>2 DEF x, StateObjects
  <2>2. -1 + 1 \in 0..q.nowLen + 1
    BY ONLY <1>1
  <2> HIDE DEF x
  <2>3. Next1(x)
    BY ONLY <2>1, <2>2
  <2> QED BY <2>3 DEF x
<1>p. Next1([s EXCEPT !.prefixR = TRUE])
  BY <1>3 DEF StateObjects
<1> HIDE DEF q1, s, Ready, Works, Next1
<1>17. CASE s.phase = "method"
  <2>1. Works(MatchMethod(q1, s, c))
    BY <1>1, <1>3, <1>4, <1>5, <1>6 DEF MatchMethod, Phases
  <2> QED BY <1>13, <1>17, <2>1 DEF Works
<1>18. CASE s.phase = "url"
  <2>1. Ready(PathBegins(q1)) /\ Ready(PathEnds(q1)) /\ Ready(QueryPair(q1, s))
    BY <1>1, <1>7
  <2>2. q1.nowLen - s.keyOff - 1 \in Int /\ -1 \in Int
    BY <1>11, <1>12
  <2>3. /\ Next1([s EXCEPT !.keyOff = q1.nowLen, !.hasQuery = TRUE])
        /\ Next1([s EXCEPT !.keyLen = q1.nowLen - s.keyOff - 1, !.valOff = q1.nowLen])
        /\ Next1([s EXCEPT !.keyOff = q1.nowLen, !.keyLen = -1, !.valOff = -1])
    BY <1>11, <1>14, <2>2
  <2>4. \A phase \in {"aborted", "version"} : /\ Works(Enter(q1, phase))
                                              /\ Works(Enter(PathEnds(q1), phase))
                                              /\ Works(Enter(QueryPair(q1, s), phase))
    BY <1>1, <1>5, <2>1 DEF Phases
  <2>5. Works(MatchURL(q1, s, c))
    BY <1>1, <1>3, <1>4, <2>1, <2>3, <2>4 DEF MatchURL, NoKey
  <2> QED BY <1>13, <1>18, <2>5 DEF Works
<1>19. CASE s.phase = "version"
  <2>1. Works(MatchVersion(q1, s, c))
    BY <1>1, <1>3, <1>4, <1>5, <1>6 DEF MatchVersion, Phases
  <2> QED BY <1>13, <1>19, <2>1 DEF Works
<1>20. CASE s.phase = "code"
  <2>1. Works(MatchCode(q1, s, c))
    BY <1>1, <1>3, <1>4, <1>5, <1>6, <1>8 DEF MatchCode, Phases
  <2> QED BY <1>13, <1>20, <2>1 DEF Works
<1>21. CASE s.phase = "detail"
  <2>1. Works(MatchDetail(q1, s, c))
    BY <1>1, <1>3, <1>4, <1>5, <1>9, <1>p DEF MatchDetail, Phases
  <2> QED BY <1>13, <1>21, <2>1 DEF Works
<1>22. CASE s.phase = "header"
  <2>1. /\ q1.nowLen - s.keyOff - 1 \in Int /\ q1.nowLen - 1 \in Int
    BY <1>11, <1>12
  <2>2. Works(MatchKey(q1, s, c))
    <3>1. /\ Next1([s EXCEPT !.part = "end", !.emptyLine = TRUE])
          /\ Next1([s EXCEPT !.keyOff = q1.nowLen - 1])
          /\ Next1([s EXCEPT !.part = "split", !.keyLen = q1.nowLen - s.keyOff - 1])
      BY <1>14, <1>15, <1>22, <2>1
    <3> QED BY <1>1, <1>3, <1>4, <3>1 DEF MatchKey
  <2>3. Works(MatchSplit(q1, s, c))
    <3>1. Next1([s EXCEPT !.part = "value", !.valOff = q1.nowLen - 1])
      BY <1>15, <1>22, <2>1
    <3> QED BY <1>1, <1>3, <1>4, <3>1 DEF MatchSplit
  <2>4. Works(MatchValue(q1, s, c))
    <3>1. Next1([s EXCEPT !.part = "end"]) /\ Ready(HeaderPair(q1, s))
      BY <1>1, <1>7, <1>15, <1>22, <2>1
    <3> QED BY <1>1, <1>3, <1>4, <3>1 DEF MatchValue
  <2>5. Works(MatchEnd(q1, s, c))
    BY <1>1, <1>4, <1>5, <1>6, <1>16, <1>22 DEF MatchEnd, Phases
  <2>6. Works(MatchHeader(q1, s, c))
    BY <1>12, <2>2, <2>3, <2>4, <2>5 DEF MatchHeader
  <2> QED BY <1>13, <1>22, <2>6 DEF Works
<1>23. CASE s.phase = "body"
  <2>1. q1.nowLen - 1 \in Int /\ q1.nowLen - q1.body[1] \in Int
    BY <1>11
  <2>2. /\ Ready([q1 EXCEPT !.body = <<q1.nowLen - 1, q1.body[2]>>])
        /\ Ready([q1 EXCEPT !.body = <<q1.body[1], q1.nowLen - q1.body[1]>>])
    BY <1>10, <1>11, <2>1
  <2>3. /\ [q1 EXCEPT !.body = <<q1.nowLen - 1, @[2]>>]
               = [q1 EXCEPT !.body = <<q1.nowLen - 1, q1.body[2]>>]
        /\ [q1 EXCEPT !.body = <<@[1], q1.nowLen - @[1]>>]
               = [q1 EXCEPT !.body = <<q1.body[1], q1.nowLen - q1.body[1]>>]
    OBVIOUS
  <2>4. Works(MatchBody(q1, s, c))
    BY <1>1, <1>3, <1>4, <2>2, <2>3 DEF MatchBody
  <2> QED BY <1>13, <1>23, <2>4 DEF Works
<1> QED BY <1>12, <1>17, <1>18, <1>19, <1>20, <1>21, <1>22, <1>23 DEF Phases, s

\* The parser as it is constructed.
LEMMA NewIs ==
  ASSUME NEW isRequest \in BOOLEAN, NEW code \in Codes \cup {"unset", "-1"},
         NEW q, q = NewParser(isRequest, code)
  PROVE  /\ Members(q) /\ NoHeader(q) /\ DOMAIN q.query = {}
         /\ q.isMatch /\ q.isRequest = isRequest /\ q.begin = 0 /\ q.nowLen = 0
         /\ q.st = Fresh(IF isRequest THEN "method" ELSE "version")
<1>1. Fresh(IF isRequest THEN "method" ELSE "version") \in StateObjects
  BY DEF Fresh, StateObjects, Phases
<1>2. Shape(q)
  BY DEF NewParser, Shape
<1>3. Types(q)
  BY <1>1 DEF NewParser, Types
<1> QED BY <1>2, <1>3 DEF NewParser, NoHeader, Members

\* The invariant holds when the parser is new.
LEMMA Initially == Init => IInv
<1> SUFFICES ASSUME Init PROVE IInv
  OBVIOUS
<1>1. message \in Messages /\ IsMessage(message) /\ upto = 0
  BY ParserAssumption DEF Init
<1>2. PICK extra \in Extra : mem = message.text \o extra
  BY DEF Init
<1>3. message.text \in Seq(STRING) /\ extra \in Seq(STRING) /\ message.isRequest \in BOOLEAN
  BY <1>1, ParserAssumption DEF IsMessage
<1>4. Sent
  <2>1. mem \in Seq(STRING) /\ Len(message.text) <= Len(mem)
    BY <1>2, <1>3
  <2>2. \A k \in 1..Len(message.text) : mem[k] = message.text[k]
    BY <1>2, <1>3
  <2> QED BY <1>1, <2>1, <2>2 DEF Sent
<1>5. PICK code \in Codes \cup {"unset", "-1"} : p = NewParser(message.isRequest, code)
  BY DEF Init
<1>6. /\ Members(p) /\ NoHeader(p) /\ DOMAIN p.query = {}
      /\ p.isMatch /\ p.isRequest = message.isRequest /\ p.begin = 0 /\ p.nowLen = 0
      /\ p.st = Fresh(IF message.isRequest THEN "method" ELSE "version")
  BY <1>3, <1>5, NewIs
<1>7. /\ p.st.phase = (IF message.isRequest THEN "method" ELSE "version")
      /\ p.st.idx = 0 /\ p.st.part = "key" /\ ~p.st.emptyLine
  BY <1>6 DEF Fresh
<1>8. Reading(p)
  <2>1. CASE message.isRequest
    BY <1>6, <1>7, <2>1 DEF InMethod, Reading
  <2>2. CASE ~message.isRequest
    BY <1>6, <1>7, <2>2 DEF InVersion, Reading
  <2> QED BY <2>1, <2>2
<1>9. Parsing(p)
  <2>1. p.st.idx \in 0..p.nowLen
    BY <1>6, <1>7
  <2> QED BY <1>3, <1>6, <1>7, <1>8, <2>1 DEF Parsing, Working
<1>10. upto \in 0..Len(mem) /\ p.nowLen <= upto
  <2>1. Len(mem) \in Nat
    BY <1>4 DEF Sent
  <2> QED BY <1>1, <1>6, <2>1
<1> QED BY <1>4, <1>9, <1>10 DEF IInv, Parsing

\* No step changes the message.
LEMMA SameMessage ==
  ASSUME message' = message
  PROVE  (Working(p)' <=> Working(p')) /\ (Parsing(p)' <=> Parsing(p'))
<1>1. \A n : QueryRead(p, n)' <=> QueryRead(p', n)
  BY DEF QueryRead, Holds
<1>2. StartRead(p)' <=> StartRead(p')
  BY <1>1 DEF StartRead
<1>3. \A n : HeaderRead(p, n)' <=> HeaderRead(p', n)
  <2>1. \A n : Holds(p.header, message.header, n)' <=> Holds(p'.header, message.header, n)
    BY DEF Holds
  <2>2. \A i : IsLength(i)' <=> IsLength(i)
    BY DEF IsLength
  <2> QED BY <1>2, <2>1, <2>2 DEF HeaderRead
<1>4. InMethod(p)' <=> InMethod(p')
  BY DEF InMethod, NoHeader
<1>5. InPath(p)' <=> InPath(p')
  BY DEF InPath, NoHeader
<1>6. \A i : InQuery(p, i)' <=> InQuery(p', i)
  BY <1>1 DEF InQuery, InKey, InValue, NoHeader
<1>7. InVersion(p)' <=> InVersion(p')
  BY <1>1 DEF InVersion, NoHeader
<1>8. InCode(p)' <=> InCode(p')
  BY DEF InCode, NoHeader
<1>9. InDetail(p)' <=> InDetail(p')
  BY <1>2 DEF InDetail, NoHeader
<1>10. \A i : InLine(p, i)' <=> InLine(p', i)
  BY <1>3 DEF InLine, AtKey, AtSplit, AtValue, AtEnd
<1>11. InEmptyLine(p)' <=> InEmptyLine(p')
  BY <1>3 DEF InEmptyLine
<1>12. InBody(p)' <=> InBody(p')
  BY <1>2 DEF InBody, Holds
<1>13. Reading(p)' <=> Reading(p')
  BY <1>4, <1>5, <1>6, <1>7, <1>8, <1>9, <1>10, <1>11, <1>12 DEF Reading
<1>14. Members(p)' <=> Members(p')
  BY DEF Members, Shape, Types
<1> QED BY <1>13, <1>14 DEF Parsing, Working, Refused

\* A piece that arrives leaves begin_ptr where the message began.
LEMMA ReceiveKeeps ==
  ASSUME IInv, NEW n \in 1..Len(mem), Receive(n)
  PROVE  IInv'
<1>1. UNCHANGED <<message, mem>>
  BY DEF Receive
<1>2. Members(p) /\ p.nowLen = upto /\ p.begin = 0
  BY DEF IInv, Parsing, Working, Receive
<1>3. p.nowLen \in Nat
  BY <1>2 DEF Members, Types
<1>4. p' = p
  <2>1. upto - p.nowLen = 0
    BY ONLY <1>2, <1>3
  <2>2. p' = [p EXCEPT !.begin = 0]
    BY <2>1 DEF Receive
  <2> QED BY <1>2, <2>2 DEF Members, Shape
<1>5. upto' \in 0..Len(mem) /\ p.nowLen <= upto'
  <2>1. upto' = upto + n /\ upto' <= Len(mem)
    BY DEF Receive
  <2>2. upto \in 0..Len(mem) /\ p.nowLen <= upto
    BY DEF IInv
  <2>3. mem \in Seq(STRING)
    BY DEF IInv, Sent
  <2> QED BY <1>3, <2>1, <2>2, <2>3
<1>6. Sent'
  BY <1>1 DEF IInv, Sent
<1>7. Working(p)' /\ (Plain(message)' => Parsing(p)')
  BY <1>1, <1>4, SameMessage DEF IInv
<1> QED BY <1>1, <1>4, <1>5, <1>6, <1>7 DEF IInv

\* A turn keeps the invariant.
LEMMA ParseKeeps ==
  ASSUME IInv, Parse
  PROVE  IInv'
<1>1. UNCHANGED <<message, mem, upto>> /\ p' = Match(p, mem[p.nowLen + 1])
      /\ p.isMatch /\ p.st.phase # "aborted" /\ p.nowLen < upto
  BY DEF Parse
<1>2. Sent /\ Working(p) /\ upto \in 0..Len(mem) /\ IsMessage(message)
  BY ParserAssumption DEF IInv, Sent
<1>3. p.nowLen \in Nat /\ Len(mem) \in Nat
  BY <1>2 DEF Working, Members, Types, Sent
<1>4. p.nowLen < Len(mem) /\ p.nowLen + 1 <= upto
  <2>1. upto \in 0..Len(mem) /\ p.nowLen < upto
    BY <1>1, <1>2
  <2> QED BY ONLY <1>3, <2>1
<1>5. Working(p') /\ p'.nowLen = p.nowLen + 1
  BY <1>1, <1>2, TurnWorks
<1>6. ASSUME Plain(message) PROVE Parsing(p')
  <2>1. Before(p)
    BY <1>1, <1>2, <1>4, <1>6 DEF Before, Given, IInv
  <2> QED BY <1>1, <2>1, Turn
<1>7. Sent'
  BY <1>1, <1>2 DEF Sent
<1>8. Working(p)' /\ (Plain(message)' => Parsing(p)')
  BY <1>1, <1>5, <1>6, SameMessage
<1> QED BY <1>1, <1>2, <1>4, <1>5, <1>7, <1>8 DEF IInv

\* Every step keeps the invariant.
LEMMA Keeps == IInv /\ [Next]_vars => IInv'
<1> SUFFICES ASSUME IInv, [Next]_vars PROVE IInv'
  OBVIOUS
<1>1. CASE \E n \in 1..Len(mem) : Receive(n)
  BY <1>1, ReceiveKeeps
<1>2. CASE Parse
  BY <1>2, ParseKeeps
<1>3. CASE UNCHANGED vars
  <2>1. message' = message /\ mem' = mem /\ upto' = upto /\ p' = p
    BY <1>3 DEF vars
  <2>2. Working(p)' /\ (Plain(message)' => Parsing(p)')
    BY <2>1, SameMessage DEF IInv
  <2> QED BY <2>1, <2>2 DEF IInv, Sent
<1> QED BY <1>1, <1>2, <1>3 DEF Next, Done

-----------------------------------------------------------------------------
(* What the invariant says of the properties.                               *)

\* Before the body there is a character that the message still has.
LEMMA Unfinished ==
  ASSUME NEW q, Sent, Given, Parsing(q), q.isMatch, ~InBody(q)
  PROVE  q.nowLen < Len(message.text)
<1>1. Reading(q) /\ q.nowLen \in Nat /\ q.st.idx \in 0..q.nowLen
  BY DEF Parsing, Working, Members, Types
<1>2. Len(message.text) \in Nat
  BY DEF Given, IsMessage
<1>3. ASSUME NEW k \in Nat, NEW chars, Reads(message, k, chars), q.nowLen <= k
      PROVE  q.nowLen < Len(message.text)
  <2>1. k < Len(message.text)
    BY <1>3 DEF Reads
  <2> QED BY ONLY <1>1, <1>2, <1>3, <2>1
<1>4. CASE InMethod(q)
  <2>1. q.nowLen <= 1 /\ message.isRequest
    BY <1>4 DEF InMethod
  <2>2. Reads(message, 1, {" "})
    BY <2>1 DEF Given, IsMessage, IsRequestLine
  <2> QED BY <1>3, <2>1, <2>2
<1>5. CASE InPath(q)
  <2>1. q.nowLen <= End(message.path) /\ message.isRequest
    BY <1>5 DEF InPath
  <2>2. End(message.path) \in Nat
    <3>1. message.path[2] \in Nat \ {0} /\ End(message.path) = 2 + message.path[2]
      BY <2>1, PathAt
    <3> QED BY ONLY <3>1
  <2>3. Len(message.query) = 0 \/ Len(message.query) > 0
    <3>1. Len(message.query) \in Nat
      BY <2>1, PathAt
    <3> QED BY ONLY <3>1
  <2>4. \/ Reads(message, End(message.path), {" "})
        \/ Reads(message, End(message.path), {"?"})
    BY <2>1, <2>3, PathAt
  <2> QED BY <1>3, <2>1, <2>2, <2>4
<1>6. CASE InVersion(q)
  <2>0. message.isRequest \in BOOLEAN
    BY DEF Given, IsMessage
  <2>1. CASE message.isRequest
    <3> DEFINE e == URLEnd(message)
    <3>1. q.nowLen = e + 1 + q.st.idx /\ q.st.idx <= 2
      BY <1>6, <2>1 DEF InVersion
    <3>2. e \in Nat
      BY <2>1, URLEndIs
    <3>3. Reads(message, e + 3, {"LF"})
      BY <2>1 DEF Given, IsMessage, IsRequestLine
    <3> HIDE DEF e
    <3>4. q.nowLen <= e + 3 /\ e + 3 \in Nat
      BY ONLY <1>1, <3>1, <3>2
    <3> QED BY <1>3, <3>3, <3>4
  <2>2. CASE ~message.isRequest
    <3>1. q.nowLen <= 1
      BY <1>6, <2>2 DEF InVersion
    <3>2. Reads(message, 1, {" "})
      BY <2>2 DEF Given, IsMessage, IsStatusLine
    <3> QED BY <1>3, <3>1, <3>2
  <2> QED BY <2>0, <2>1, <2>2
<1>7. CASE InCode(q)
  <2>1. ~message.isRequest /\ q.nowLen = q.st.idx + 2 /\ q.st.idx <= 1
    BY <1>7 DEF InCode
  <2>2. Reads(message, 3, {" "})
    BY <2>1 DEF Given, IsMessage, IsStatusLine
  <2>3. q.nowLen <= 3
    BY ONLY <1>1, <2>1
  <2> QED BY <1>3, <2>2, <2>3
<1>8. CASE InDetail(q)
  <2> DEFINE e == End(message.detail)
  <2>1. ~message.isRequest /\ q.nowLen <= e + 1
    BY <1>8 DEF InDetail
  <2>2. Reads(message, e + 1, {"LF"})
    BY <2>1 DEF Given, IsMessage, IsStatusLine
  <2>3. message.detail \in Positions
    BY DEF Given, IsMessage
  <2>4. e + 1 \in Nat
    BY ONLY <2>3 DEF Positions, End
  <2> QED BY <1>3, <2>1, <2>2, <2>4
<1>9. CASE \E i \in DOMAIN message.query : InQuery(q, i)
  <2>1. PICK i \in DOMAIN message.query : InQuery(q, i)
    BY <1>9
  <2> DEFINE key == message.query[i].key
             val == message.query[i].val
  <2>2. message.isRequest /\ (q.nowLen <= End(key) \/ q.nowLen <= End(val))
    BY <2>1 DEF InQuery, InKey, InValue
  <2>k. key = message.query[i].key /\ val = message.query[i].val
    OBVIOUS
  <2> HIDE DEF key, val
  <2>3. /\ i \in 1..Len(message.query) /\ Len(message.query) \in Nat
        /\ key[1] \in Nat /\ key[2] \in Nat /\ val[1] \in Nat /\ val[2] \in Nat
        /\ End(key) = key[1] + key[2] /\ End(val) = val[1] + val[2]
    BY <2>k, <2>2, PairAt
  <2>4. End(key) \in Nat /\ End(val) \in Nat
    BY ONLY <2>3
  <2>n. i < Len(message.query) \/ i = Len(message.query)
    BY ONLY <2>3
  <2>5. /\ Reads(message, End(key), {"="})
        /\ Reads(message, End(val), {"&"}) \/ Reads(message, End(val), {" "})
    BY <2>k, <2>2, <2>n, PairText
  <2> QED BY <1>3, <2>2, <2>4, <2>5
<1>10. CASE \E i \in DOMAIN message.header : InLine(q, i)
  <2>1. PICK i \in DOMAIN message.header : InLine(q, i)
    BY <1>10
  <2> DEFINE key == message.header[i].key
             val == message.header[i].val
  <2>2. \/ q.nowLen <= End(key) \/ q.nowLen <= val[1] \/ q.nowLen <= End(val)
        \/ q.nowLen = LineAt(message, i + 1) - 1
    BY <2>1 DEF InLine, AtKey, AtSplit, AtValue, AtEnd
  <2>k. key = message.header[i].key /\ val = message.header[i].val
    OBVIOUS
  <2> HIDE DEF key, val
  <2>3. /\ key[1] \in Nat /\ key[2] \in Nat \ {0}
        /\ val[1] \in Nat /\ val[2] \in Nat \ {0}
        /\ End(key) = key[1] + key[2] /\ End(val) = val[1] + val[2]
        /\ val[1] > End(key) /\ LineAt(message, i + 1) = End(val) + 2
    BY <2>k, LineIs
  <2>4. End(val) + 1 \in Nat /\ q.nowLen <= End(val) + 1
    BY ONLY <1>1, <2>2, <2>3
  <2>5. Reads(message, End(val) + 1, {"LF"})
    BY <2>k, LineText
  <2> QED BY <1>3, <2>4, <2>5
<1>11. CASE InEmptyLine(q)
  <2> DEFINE h == HeaderEnds(message)
  <2>1. q.nowLen = h + q.st.idx /\ (q.st.idx = 0 \/ q.st.idx = 1)
    BY <1>11 DEF InEmptyLine
  <2>2. h \in Nat
    BY HeaderEnd
  <2>3. Reads(message, h + 1, {"LF"})
    BY HeaderEnd
  <2> HIDE DEF h
  <2>4. q.nowLen <= h + 1 /\ h + 1 \in Nat
    BY ONLY <2>1, <2>2
  <2> QED BY <1>3, <2>3, <2>4
<1> QED BY <1>1, <1>4, <1>5, <1>6, <1>7, <1>8, <1>9, <1>10, <1>11 DEF Reading

\* The parser enters the body with the length that the header says, and has
\* none before.
LEMMA TotalIs ==
  ASSUME NEW q, Parsing(q), Given
  PROVE  q.totalLen = 0 \/ q.totalLen = message.body[2]
<1>1. ASSUME NEW n, HeaderRead(q, n)
      PROVE  q.totalLen = 0 \/ q.totalLen = message.body[2]
  BY <1>1 DEF HeaderRead
<1>2. CASE ~q.isMatch
  BY <1>2 DEF Parsing, Working, Refused
<1>3. CASE q.isMatch
  <2>1. Reading(q)
    BY <1>3 DEF Parsing, Working
  <2>2. CASE InBody(q)
    BY <2>2 DEF InBody
  <2>3. CASE InEmptyLine(q) \/ \E i \in DOMAIN message.header : InLine(q, i)
    BY <1>1, <2>3 DEF InEmptyLine, InLine
  <2>4. CASE NoHeader(q)
    BY <2>4 DEF NoHeader
  <2> QED BY <2>1, <2>2, <2>3, <2>4
             DEF Reading, InMethod, InPath, InVersion, InCode, InDetail, InQuery
<1> QED BY <1>2, <1>3

\* The invariant gives the types.
LEMMA TypesHold == IInv => TypeOK
<1> SUFFICES ASSUME IInv PROVE TypeOK
  OBVIOUS
<1>1. Working(p) /\ upto \in 0..Len(mem) /\ p.nowLen <= upto /\ IsMessage(message)
  BY ParserAssumption DEF IInv, Sent
<1>2. /\ p.isMatch \in BOOLEAN /\ p.code \in Codes \cup {"unset", "-1"}
      /\ p.nowLen \in Nat /\ p.st \in StateObjects
      /\ p.st.idx \in 0..p.nowLen
      /\ p.st.phase # "header" => p.st.part = "key" /\ ~p.st.emptyLine
  BY <1>1 DEF Working, Members, Types
<1>3. p.st.phase \in Phases /\ p.st.part \in {"key", "split", "value", "end"}
  BY <1>2 DEF StateObjects
<1>4. p.nowLen \in 0..upto
  <2>1. mem \in Seq(STRING)
    BY DEF IInv, Sent
  <2> QED BY <1>1, <1>2, <2>1
<1>5. ASSUME Plain(message) PROVE p.totalLen \in 0..message.body[2]
  <2>1. message.body \in Positions
    BY <1>1 DEF IsMessage
  <2>2. message.body[2] \in Nat
    BY ONLY <2>1 DEF Positions
  <2>3. p.totalLen = 0 \/ p.totalLen = message.body[2]
    BY <1>1, <1>5, TotalIs DEF IInv, Given
  <2> QED BY ONLY <2>2, <2>3
<1> QED BY <1>1, <1>2, <1>3, <1>4, <1>5 DEF TypeOK

\* The body is the end of the text.
LEMMA BodyAt ==
  ASSUME Given
  PROVE  /\ message.body \in Positions
         /\ message.body[1] \in Nat /\ message.body[2] \in Nat
         /\ message.body[1] + message.body[2] = Len(message.text)
<1>1. message.body \in Positions /\ End(message.body) = Len(message.text)
  BY DEF Given, IsMessage, IsBody
<1>2. message.body[1] \in Nat /\ message.body[2] \in Nat
  BY ONLY <1>1 DEF Positions
<1>3. End(message.body) = message.body[1] + message.body[2]
  BY DEF End
<1> QED BY <1>1, <1>2, <1>3

\* Only in the body is the message complete.
LEMMA CompletedInBody ==
  ASSUME NEW q, Parsing(q), IsCompleted(q)
  PROVE  InBody(q) /\ q.st.idx = message.body[2]
<1>1. q.st.phase = "body" /\ q.st.idx = q.totalLen
  BY DEF IsCompleted
<1>2. q.isMatch /\ Reading(q)
  BY <1>1 DEF Parsing, Working, Refused
<1>3. InBody(q)
  BY <1>1, <1>2 DEF Reading, InMethod, InPath, InVersion, InCode, InDetail, InQuery,
     InKey, InValue, InLine, InEmptyLine
<1> QED BY <1>1, <1>3 DEF InBody

\* The invariant gives the completion, at the last character and not before.
LEMMA CompletedHolds == IInv => CompletedExactly
<1> SUFFICES ASSUME IInv, Plain(message), p.code # "-1"
             PROVE  /\ p.isMatch /\ p.st.phase # "aborted"
                    /\ IsCompleted(p) <=> p.nowLen = Len(message.text)
  BY DEF CompletedExactly
<1>1. Sent /\ Parsing(p) /\ Given
  BY ParserAssumption DEF IInv, Sent, Given
<1>2. p.isMatch
  BY <1>1 DEF Parsing, Working, Refused
<1>3. /\ p.nowLen \in Nat /\ p.st.idx \in 0..p.nowLen
      /\ message.body[1] \in Nat /\ message.body[2] \in Nat
      /\ message.body[1] + message.body[2] = Len(message.text)
  BY <1>1, BodyAt DEF Parsing, Working, Members, Types
<1>4. ASSUME IsCompleted(p) PROVE p.nowLen = Len(message.text)
  <2>1. p.nowLen = message.body[1] + p.st.idx /\ p.st.idx = message.body[2]
    BY <1>1, <1>4, CompletedInBody DEF InBody
  <2> QED BY ONLY <1>3, <2>1
<1>5. ASSUME p.nowLen = Len(message.text) PROVE IsCompleted(p)
  <2>1. InBody(p)
    <3>1. ~(p.nowLen < Len(message.text))
      BY ONLY <1>3, <1>5
    <3> QED BY <1>1, <1>2, <3>1, Unfinished
  <2>2. p.nowLen = message.body[1] + p.st.idx
    BY <2>1 DEF InBody
  <2>3. p.st.idx = message.body[2]
    BY ONLY <1>3, <1>5, <2>2
  <2> QED BY <2>1, <2>3 DEF InBody, IsCompleted
<1>6. p.st.phase # "aborted"
  BY <1>1, <1>2 DEF Parsing, Reading, InMethod, InPath, InVersion, InCode, InDetail,
     InQuery, InKey, InValue, InLine, InEmptyLine, InBody
<1> QED BY <1>2, <1>4, <1>5, <1>6

\* A map that holds the positions of the values of pairs, as the message it was
\* read from has them.
LEMMA HandedOut ==
  ASSUME Sent, Given, p.begin = 0, NEW pairs,
         DOMAIN pairs = 1..Len(pairs),
         NEW f, Holds(f, pairs, Len(pairs)),
         \A i \in DOMAIN pairs : /\ pairs[i].val \in Positions
                                 /\ End(pairs[i].val) <= Len(message.text)
  PROVE  HoldsPairs([k \in DOMAIN f |-> Str(p, f[k][1], f[k][2])], pairs)
<1> DEFINE K(i) == Part(message, pairs[i].key)
           g == [k \in DOMAIN f |-> Str(p, f[k][1], f[k][2])]
<1>1. DOMAIN f = {K(i) : i \in DOMAIN pairs}
  BY DEF Holds
<1>2. ASSUME NEW i \in DOMAIN pairs
      PROVE  g[K(i)] = Part(message, pairs[i].val)
  <2>1. f[K(i)] = pairs[i].val /\ K(i) \in DOMAIN f
    BY <1>1 DEF Holds
  <2>2. Str(p, pairs[i].val[1], pairs[i].val[2]) = Part(message, pairs[i].val)
    BY StrIsPart
  <2> QED BY <2>1, <2>2
<1> QED BY <1>1, <1>2 DEF HoldsPairs

\* The invariant gives the answer.
LEMMA UnderstoodHolds == IInv => Understood
<1> DEFINE got == GetMessage(p)
           view(pos) == Str(p, pos[1], pos[2])
<1> SUFFICES ASSUME IInv, Plain(message), IsCompleted(p)
             PROVE  /\ message.isRequest => /\ got.path = Part(message, message.path)
                                            /\ HoldsPairs(got.query, message.query)
                    /\ HoldsPairs(got.header, message.header)
                    /\ message.body[2] # 1 => got.body = Part(message, message.body)
  BY DEF Understood
<1>1. Sent /\ Parsing(p) /\ Given /\ p.begin = 0
  BY ParserAssumption DEF IInv, Sent, Given, Working
<1>2. InBody(p) /\ p.st.idx = message.body[2]
  BY <1>1, CompletedInBody
<1>3. /\ got.path = view(p.path) /\ got.body = view(p.body)
      /\ got.query = [k \in DOMAIN p.query |-> view(p.query[k])]
      /\ got.header = [k \in DOMAIN p.header |-> view(p.header[k])]
  BY DEF GetMessage
<1>4. Len(message.text) \in Nat
  BY <1>1 DEF Given, IsMessage
<1>5. ASSUME NEW k, NEW chars, Reads(message, k, chars)
      PROVE  k < Len(message.text)
  BY ONLY <1>5 DEF Reads
<1> HIDE DEF got
<1>6. ASSUME message.isRequest PROVE got.path = Part(message, message.path)
  <2>1. p.path = message.path
    BY <1>2, <1>6 DEF InBody, StartRead, QueryRead
  <2>2. message.path \in Positions
    BY <1>1, <1>6, PathAt
  <2>3. End(message.path) <= Len(message.text)
    <3>1. message.path[2] \in Nat \ {0} /\ End(message.path) = 2 + message.path[2]
      BY <1>1, <1>6, PathAt
    <3>2. Len(message.query) \in Nat
      BY <1>1, <1>6, PathAt
    <3>3. Len(message.query) = 0 \/ Len(message.query) > 0
      BY ONLY <3>2
    <3>4. \/ Reads(message, End(message.path), {" "})
          \/ Reads(message, End(message.path), {"?"})
      BY <1>1, <1>6, <3>3, PathAt
    <3>5. End(message.path) < Len(message.text)
      BY <1>5, <3>4
    <3> QED BY ONLY <1>4, <3>1, <3>5
  <2> QED BY <1>1, <1>3, <2>1, <2>2, <2>3, StrIsPart
<1>7. ASSUME message.isRequest PROVE HoldsPairs(got.query, message.query)
  <2>1. Holds(p.query, message.query, Len(message.query))
    BY <1>2, <1>7 DEF InBody, StartRead, QueryRead
  <2>2. ASSUME NEW i \in DOMAIN message.query, NEW val, val = message.query[i].val
        PROVE  val \in Positions /\ End(val) <= Len(message.text)
    <3>1. /\ i \in 1..Len(message.query) /\ Len(message.query) \in Nat
          /\ val[1] \in Nat /\ val[2] \in Nat /\ End(val) = val[1] + val[2]
      BY <1>1, <1>7, <2>2, PairAt
    <3>2. i < Len(message.query) \/ i = Len(message.query)
      BY ONLY <3>1
    <3>3. /\ val \in Positions
          /\ Reads(message, End(val), {"&"}) \/ Reads(message, End(val), {" "})
      BY <1>1, <1>7, <2>2, <3>2, PairText
    <3>4. End(val) < Len(message.text)
      BY <1>5, <3>3
    <3>5. End(val) <= Len(message.text)
      BY ONLY <1>4, <3>1, <3>4
    <3> QED BY <3>3, <3>5
  <2>3. DOMAIN message.query = 1..Len(message.query)
    BY <1>1, <1>7, PathAt
  <2>4. HoldsPairs([k \in DOMAIN p.query |-> view(p.query[k])], message.query)
    BY <1>1, <2>1, <2>2, <2>3, HandedOut
  <2> QED BY <1>3, <2>4
<1>8. HoldsPairs(got.header, message.header)
  <2>1. Holds(p.header, message.header, Len(message.header))
    BY <1>2 DEF InBody
  <2>2. ASSUME NEW i \in DOMAIN message.header, NEW val, val = message.header[i].val
        PROVE  val \in Positions /\ End(val) <= Len(message.text)
    <3>1. val[1] \in Nat /\ val[2] \in Nat \ {0} /\ End(val) = val[1] + val[2]
      BY <1>1, <2>2, LineIs
    <3>2. val \in Positions /\ Reads(message, End(val), {"CR"})
      BY <1>1, <2>2, LineText
    <3>3. End(val) < Len(message.text)
      BY <1>5, <3>2
    <3>4. End(val) <= Len(message.text)
      BY ONLY <1>4, <3>1, <3>3
    <3> QED BY <3>2, <3>4
  <2>3. DOMAIN message.header = 1..Len(message.header)
    BY <1>1, HeaderAt
  <2>4. HoldsPairs([k \in DOMAIN p.header |-> view(p.header[k])], message.header)
    BY <1>1, <2>1, <2>2, <2>3, HandedOut
  <2> QED BY <1>3, <2>4
<1>9. ASSUME message.body[2] # 1 PROVE got.body = Part(message, message.body)
  <2>1. /\ message.body \in Positions /\ message.body[2] \in Nat /\ message.body[1] \in Nat
        /\ message.body[1] + message.body[2] = Len(message.text)
    BY <1>1, BodyAt
  <2>2. p.body[2] = message.body[2]
    <3>1. p.st.idx >= message.body[2]
      BY <1>2, <2>1
    <3> QED BY <1>2, <1>9, <3>1 DEF InBody
  <2>3. CASE message.body[2] = 0
    <3>1. view(p.body) = Part(message, message.body)
      BY ONLY <2>2, <2>3 DEF Str, Part
    <3> QED BY <1>3, <3>1
  <2>4. CASE message.body[2] > 0
    <3>1. p.body[1] = message.body[1]
      BY <1>2, <2>4 DEF InBody
    <3>2. End(message.body) <= Len(message.text)
      BY ONLY <2>1 DEF End
    <3>3. view(message.body) = Part(message, message.body)
      BY <1>1, <2>1, <3>2, StrIsPart
    <3> QED BY <1>3, <2>2, <3>1, <3>3
  <2> QED BY ONLY <2>1, <2>3, <2>4
<1> QED BY <1>6, <1>7, <1>8, <1>9

-----------------------------------------------------------------------------
(* The theorems.                                                            *)

\* The inductive invariant: at every character of a plain message the parser is
\* at the place that the character has in it.
THEOREM Inductive == Spec => []IInv
BY Initially, Keeps, PTL DEF Spec

\* The parser and its state object are well typed, and a state object that
\* next_state puts in starts afresh, whatever the messages are, plain or not.
THEOREM TypeCorrect == Spec => []TypeOK
BY Inductive, TypesHold, PTL

\* Every plain message is accepted, however it is cut into pieces, and is
\* complete at its last character: for messages of any length, with any number
\* of query pairs and header lines, and whatever follows them.
THEOREM AcceptsEveryMessage == Spec => []CompletedExactly
BY Inductive, CompletedHolds, PTL

\* What the parser hands out of such a message is what was sent.
THEOREM UnderstandsEveryMessage == Spec => []Understood
BY Inductive, UnderstoodHolds, PTL
=============================================================================
