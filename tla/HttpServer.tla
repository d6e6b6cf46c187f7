------------------------------ MODULE HttpServer ------------------------------
(***************************************************************************)
(* HTTPServer2's coroutine for one connection: it reads into a Buffer,     *)
(* gives what it read to HttpParser's parser until the request is          *)
(* complete, and writes the answer through the same Buffer.                *)
(*                                                                         *)
(* The parser is given the beginning of the buffer and the length of the   *)
(* last read.  HttpParser's mem is here what the client sends; the first   *)
(* got characters of it have been read, lie in the buffer, and are never   *)
(* popped.  The answer is three or four pieces of text: the status line,   *)
(* the header and, before a body, an empty line.                           *)
(***************************************************************************)
EXTENDS HttpParser

CONSTANTS
    Bound,      \* the paths of path_cb_map
    Bodies      \* the bodies that the callbacks of the user put into an answer

VARIABLES
    hpc,        \* where the coroutine is: "read", "write" or "closed"
    got,        \* characters read from the connection
    code,       \* the local variable of that name
    buf,        \* the characters of the buffer that were not popped
    answer,     \* the pieces that the writer has still to give to its callback
    sent        \* what the connection has taken

serverVars == <<hpc, got, code, buf, answer, sent>>
allVars == <<vars, serverVars>>

\* What the client sends is a plain request to a bound path, without more.
HttpInit ==
    /\ Init /\ Plain(message)
    /\ message.isRequest /\ Part(message, message.path) \in Bound /\ mem = message.text
    /\ hpc = "read" /\ got = 0 /\ code = 200
    /\ buf = <<>> /\ answer = <<>> /\ sent = <<>>

-----------------------------------------------------------------------------
(* The loop that reads.                                                     *)

\* write_message: start line, header, then an empty line and the body if there
\* is one.  Of the answer of a callback the code and the version are those
\* that happened to lie in the memory of res, unless the callback set them, and
\* the header is what it set, here nothing; write_error_response_message sets a
\* header of its own.
Pieces(status, body) ==
    << <<status>>, IF status \in {"400", "404"} THEN <<"User-Agent">> ELSE <<>> >>
      \o (IF body = <<>> THEN <<>> ELSE << <<"CR", "LF">>, body >>)

\* What follows the loop: an answer, an error message or nothing.
Reply(q, c) ==
    \/ /\ c = 200
       /\ \E status \in {"200", "any"}, body \in Bodies : answer' = Pieces(status, body)
    \/ /\ c \in {400, 404}
       /\ answer' = Pieces(IF c = 400 THEN "400" ELSE "404", <<>>)

\* parser_message of the n characters of mem from position s; a mismatch ends
\* its loop.
ParserMessage(s, n) ==
    FoldLeft(LAMBDA q, c : IF q.isMatch THEN Match(q, c) ELSE q,
             [p EXCEPT !.begin = s - p.nowLen], SubSeq(mem, s + 1, s + n))

\* push_from read n characters, and parser_message is called on the first n of
\* the buffer.
Read(n) ==
    LET q == ParserMessage(0, n)
        c == IF ~q.isMatch THEN 400
             ELSE IF GetMessage(q).path \in Bound THEN 200 ELSE 404
    IN  /\ hpc = "read"
        /\ n \in 1..Len(mem) - got
        /\ got' = got + n
        /\ buf' = buf \o SubSeq(mem, got + 1, got + n)
        /\ p' = q
        /\ \/ /\ q.isMatch /\ ~IsCompleted(q)
              /\ UNCHANGED <<hpc, code, answer>>
           \/ /\ ~q.isMatch \/ IsCompleted(q)
              /\ hpc' = "write" /\ code' = c
              /\ Reply(q, c)
        /\ UNCHANGED <<message, mem, upto, sent>>

\* The read returns 0 or fails: the client closed the connection.
ReadEnd == /\ hpc = "read"
           /\ hpc' = "closed" /\ code' = -1
           /\ UNCHANGED <<vars, got, buf, answer, sent>>

-----------------------------------------------------------------------------
(* The writer's callback, and the end.                                      *)

\* push of the next piece; pop_to writes as much as the connection takes.  What
\* it leaves is offered again with the next piece, and not after the last.
Write ==
    LET full == buf \o Head(answer)
    IN  /\ hpc = "write" /\ answer # <<>>
        /\ \E n \in 0..Len(full) : /\ buf' = SubSeq(full, n + 1, Len(full))
                                   /\ sent' = sent \o SubSeq(full, 1, n)
        /\ answer' = Tail(answer)
        /\ UNCHANGED <<vars, hpc, got, code>>

\* The write fails: the code says so, and the writer goes on.
WriteFails == /\ hpc = "write" /\ answer # <<>>
              /\ buf' = buf \o Head(answer)
              /\ answer' = Tail(answer)
              /\ code' = -1
              /\ UNCHANGED <<vars, hpc, got, sent>>

\* co_close.
CloseConn == /\ hpc = "write" /\ answer = <<>>
             /\ hpc' = "closed"
             /\ UNCHANGED <<vars, got, code, buf, answer, sent>>

Closed == hpc = "closed" /\ UNCHANGED allVars

HttpNext == \/ \E n \in 1..Len(mem) : Read(n)
            \/ ReadEnd
            \/ Write \/ WriteFails \/ CloseConn \/ Closed

HttpSpec == HttpInit /\ [][HttpNext]_allVars

-----------------------------------------------------------------------------
(* Correctness.                                                             *)

\* A well-formed request for a path that was bound is answered with what its
\* callback made, in however many pieces it arrives: TCP is a stream, and the
\* buffer keeps what was read until the message is complete.
Accepted == hpc = "write" => code \in {200, -1}
=============================================================================
