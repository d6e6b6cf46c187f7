----------------------------- MODULE MCHttpParser -----------------------------
(* Requests with none, one and two pairs in the query, responses, and header *)
(* lists with Content-Length first, last or absent; bodies of 0 to 10        *)
(* characters, separators among them; and messages that are not plain, each  *)
(* in one respect.                                                           *)
EXTENDS HttpParser

Paths == {<<"/">>, <<"/", "a">>}

\* A key, what stands behind it, and a value.
Pair(k, v) == <<k, <<"=">>, v>>
Bare(k) == <<k, <<>>, <<>> >>
Line(k, v) == <<k, <<":", " ">>, v>>

Queries == {<<>>,
            <<Pair(<<"k">>, <<"v", "w">>)>>,
            <<Pair(<<"k">>, <<>>), Pair(<<"l", "m">>, <<"v">>)>>,
            <<Pair(<<"l", "m">>, <<"v">>), Pair(<<"k">>, <<>>)>>}

\* No "=" in the only, the first or the last pair; a separator in a value; a
\* key twice.
OddQueries == {<<Bare(<<"k">>)>>,
               <<Bare(<<"k">>), Pair(<<"l">>, <<"v">>)>>,
               <<Pair(<<"l">>, <<"v">>), Bare(<<"k">>)>>,
               <<Pair(<<"k">>, <<"v", "=">>)>>, <<Pair(<<"k">>, <<"?", "v">>)>>,
               <<Pair(<<"k">>, <<"v">>), Pair(<<"k">>, <<"w">>)>>}

OtherHeaders == {<<>>, <<Line(<<"H", "s">>, <<"h", " ", ":", "i">>)>>,
                 <<Line(<<"A">>, <<"j">>), Line(<<"H", "s">>, <<"h">>)>>}

BodyText == <<"x", "CR", "LF", " ", "y", ":", "z", "?", "GET", "t">>
Bodies == {SubSeq(BodyText, 1, n) : n \in {0, 1, 2, 10}}

LengthOf(name, n) == Line(<<name>>, CASE n = 0 -> <<"0">> [] n = 1 -> <<"1">>
                                       [] n = 2 -> <<"2">> [] n = 10 -> <<"1", "0">>)
Length(n) == LengthOf("Content-Length", n)

HeadersFor(body) ==
    LET l == Length(Len(body))
    IN  {Append(o, l) : o \in OtherHeaders} \cup {<<l>> \o o : o \in OtherHeaders}
          \cup (IF body = <<>> THEN OtherHeaders ELSE {})

\* An empty value, before the length and behind it; another spelling of the
\* length's name; a name twice.
OddHeaders ==
    {<<Line(<<"A">>, <<>>)>>,
     <<Line(<<"A">>, <<>>), Length(2)>>, <<Length(2), Line(<<"A">>, <<>>)>>,
     <<LengthOf("content-length", 2)>>,
     <<Line(<<"A">>, <<"j">>), Line(<<"A">>, <<"h">>), Length(2)>>}

\* Pairs written behind a text, and where key and value lie in it.
Written(text, pairs, end) ==
    FoldLeft(LAMBDA w, kv :
               LET at == Len(w.text)
               IN  [text |-> w.text \o kv[1] \o kv[2] \o kv[3] \o end,
                    pairs |-> Append(w.pairs,
                        [key |-> <<at, Len(kv[1])>>,
                         val |-> <<at + Len(kv[1] \o kv[2]), Len(kv[3])>>])],
             [text |-> text, pairs |-> <<>>], pairs)

\* What follows the start line.
Rest(m, header, body) ==
    LET lines == Written(m.text, header, <<"CR", "LF">>)
    IN  [m EXCEPT !.text = lines.text \o <<"CR", "LF">> \o body,
                  !.header = lines.pairs,
                  !.body = <<Len(lines.text) + 2, Len(body)>>]

Request(method, path, query, header, body) ==
    LET head == <<method, " ">> \o path
        url == Written(head \o <<"?">>, query, <<"&">>)
    IN  Rest([isRequest |-> TRUE, path |-> <<2, Len(path)>>, query |-> url.pairs,
              detail |-> <<0, 0>>, header |-> <<>>, body |-> <<0, 0>>,
              text |-> (IF query = <<>> THEN head ELSE Front(url.text))
                         \o <<" ", "HTTP/1.1", "CR", "LF">>], header, body)

Response(code, detail, header, body) ==
    Rest([isRequest |-> FALSE, path |-> <<0, 0>>, query |-> <<>>,
          detail |-> <<4, Len(detail)>>, header |-> <<>>, body |-> <<0, 0>>,
          text |-> <<"HTTP/1.1", " ", code, " ">> \o detail \o <<"CR", "LF">>],
         header, body)

PlainMessages ==
    UNION {{Request("GET", pt, q, h, b) :
              pt \in Paths, q \in Queries, h \in HeadersFor(b)} : b \in Bodies}
    \cup UNION {{Response("200", <<"O", "k">>, h, b) : h \in HeadersFor(b)} : b \in Bodies}

\* The body of a header that tells of one.
BodyOf(header) ==
    IF \E i \in DOMAIN header : header[i][3] = <<"2">> THEN SubSeq(BodyText, 1, 2) ELSE <<>>

OddMessages ==
    {Request("GET", <<"/">>, q, <<>>, <<>>) : q \in OddQueries}
    \cup {Request("PUT", <<"/">>, <<>>, <<>>, <<>>)}
    \cup {Request("GET", <<"/", c>>, q, <<>>, <<>>) : c \in {"=", "&"}, q \in Queries}
    \cup {Request("GET", <<"/">>, <<>>, h, BodyOf(h)) : h \in OddHeaders}
    \cup {Response("200", <<"O", "k">>, h, BodyOf(h)) : h \in OddHeaders}
    \cup {Response("299", <<"O", "k">>, <<>>, <<>>)}

ASSUME OddOnes == /\ \A m \in PlainMessages : Plain(m)
                  /\ \A m \in OddMessages : ~Plain(m)

MCMessages == PlainMessages \cup OddMessages

MCExtra == {<<>>, <<"GET", " ">>}
=============================================================================
