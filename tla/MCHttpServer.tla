----------------------------- MODULE MCHttpServer -----------------------------
(* One request without a body, to a bound path.                              *)
EXTENDS HttpServer

MCMessages == {[isRequest |-> TRUE, path |-> <<2, 2>>, query |-> <<>>, detail |-> <<0, 0>>,
                header |-> <<[key |-> <<8, 1>>, val |-> <<11, 1>>]>>, body |-> <<16, 0>>,
                text |-> <<"GET", " ", "/", "a", " ", "HTTP/1.1", "CR", "LF",
                           "H", ":", " ", "h", "CR", "LF", "CR", "LF">>]}
MCExtra == {<<>>}
MCBound == {<<"/", "a">>}
MCBodies == {<<"b">>}
=============================================================================
