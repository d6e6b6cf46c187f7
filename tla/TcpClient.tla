------------------------------- MODULE TcpClient -------------------------------
(***************************************************************************)
(* TCPClient and its TCPConnector: a socket that is connected with retries *)
(* on the client's own loop, the connection that is made of it, and the    *)
(* end of both.  Each of the two owns a Channel for the same fd, and a     *)
(* Channel closes its fd as it is destroyed.                               *)
(*                                                                         *)
(* The socket is non-blocking, so the first connect() always fails; sock   *)
(* is what the kernel makes of the attempt (Linux): while it is under way  *)
(* connect() fails, a refusal is reported by the next connect(), and only  *)
(* the one after that tries again.  run() is called once, as in            *)
(* test/tcp.  Time is not counted: a retry timer is due at some time.      *)
(***************************************************************************)
EXTENDS Naturals

CONSTANTS
    FirstDelay,  \* retry_delay_ms at first
    MaxDelay     \* max_retry_delay_ms

ASSUME ClientAssumption ==
    FirstDelay \in Nat \ {0} /\ MaxDelay \in Nat /\ FirstDelay <= MaxDelay

VARIABLES
    pc,      \* the client's thread: "new", "check", "handle", "left" (run
             \* returned), "threw", "connGone" and "gone" (the destructor)
    isLoop,  \* is_loop of main_loop
    due,     \* how connect_peer is due: as a "callback", by a "timer", or "no"
    delay,   \* retry_delay_ms
    conn,    \* the connection: "none", "open", or "closed" but not destroyed
    sock,    \* the socket: "idle", "connecting", "refused", "established"
    up,      \* does the server listen
    holder   \* who has the number fd: "client", "other" or "nobody"

vars == <<pc, isLoop, due, delay, conn, sock, up, holder>>

\* The connector was made by run(): the socket opened, connect_peer handed to
\* the loop that does not run yet.
Init ==
    /\ pc = "new" /\ isLoop = FALSE
    /\ due = "callback" /\ delay = FirstDelay
    /\ conn = "none" /\ sock = "idle" /\ up \in BOOLEAN
    /\ holder = "client"

-----------------------------------------------------------------------------
(* The loop, one handler per turn.                                          *)

\* main_loop->run() sets is_loop whatever happened before.
Run == /\ pc = "new"
       /\ pc' = "check" /\ isLoop' = TRUE
       /\ UNCHANGED <<due, delay, conn, sock, up, holder>>

Check == /\ pc = "check"
         /\ pc' = IF isLoop THEN "handle" ELSE "left"
         /\ UNCHANGED <<isLoop, due, delay, conn, sock, up, holder>>

\* A turn in which nothing was ready.
Idle == /\ pc = "handle"
        /\ pc' = "check"
        /\ UNCHANGED <<isLoop, due, delay, conn, sock, up, holder>>

\* TCPConnection::full_close calls remove_conn, which stops the loop.
ConnCloses == /\ pc = "handle" /\ conn = "open"
              /\ conn' = "closed" /\ isLoop' = FALSE
              /\ pc' = "check"
              /\ UNCHANGED <<due, delay, sock, up, holder>>

\* stop() of another thread.
Stop == /\ isLoop
        /\ isLoop' = FALSE
        /\ UNCHANGED <<pc, due, delay, conn, sock, up, holder>>

-----------------------------------------------------------------------------
(* connect_peer.                                                            *)

\* What a connect() that fails leaves of the socket; an error may also come at
\* once (the network is unreachable).
AfterFailure == CASE sock = "idle"       -> {"idle", "connecting"}
                  [] sock = "connecting" -> {"connecting"}
                  [] sock = "refused"    -> {"idle"}

\* (mistake) the connector never gives up.
Retry_NoLimit == /\ due' = "timer" /\ delay' = 2 * delay
                 /\ pc' = "check"

\* (mistake) the delay stays what it was.
Retry_Same == /\ delay <= MaxDelay
              /\ due' = "timer" /\ UNCHANGED delay
              /\ pc' = "check"

\* Tried again later, after twice the time; above the limit the exception
\* leaves run().
Retry == \/ /\ delay <= MaxDelay
            /\ due' = "timer" /\ delay' = 2 * delay
            /\ pc' = "check"
         \/ /\ delay > MaxDelay
            /\ pc' = "threw"
            /\ due' = "no" /\ UNCHANGED delay

ConnectFails ==
    /\ pc = "handle" /\ due # "no"
    /\ sock # "established"
    /\ sock' \in AfterFailure
    /\ Retry
    /\ UNCHANGED <<isLoop, conn, up, holder>>

\* create_conn makes the connection at once, for this is the loop's thread; the
\* user's open_cb may close it before it returns.
Connects ==
    /\ pc = "handle" /\ due # "no"
    /\ sock = "established"
    /\ due' = "no"
    /\ \/ conn' = "open" /\ UNCHANGED isLoop
       \/ conn' = "closed" /\ isLoop' = FALSE
    /\ pc' = "check"
    /\ UNCHANGED <<delay, sock, up, holder>>

ConnectPeer == ConnectFails \/ Connects

-----------------------------------------------------------------------------
(* ~TCPClient: the members in the reverse of their order.                   *)

\* (mistake) the connector is declared after the connection.
DestroyConn_Last == /\ pc = "left"
                    /\ holder' = "nobody"
                    /\ pc' = "connGone"
                    /\ UNCHANGED <<isLoop, due, delay, conn, sock, up>>

\* The connection goes, and with it its Channel, which closes the fd.
DestroyConn == /\ pc = "left"
               /\ conn' = "none"
               /\ holder' = IF conn = "none" THEN holder ELSE "nobody"
               /\ pc' = "connGone"
               /\ UNCHANGED <<isLoop, due, delay, sock, up>>

\* The connector's Channel closes the fd, whoever has the number now.
DestroyConnector == /\ pc = "connGone"
                    /\ holder' = "nobody"
                    /\ pc' = "gone"
                    /\ UNCHANGED <<isLoop, due, delay, conn, sock, up>>

-----------------------------------------------------------------------------
(* The kernel, the server and the other threads of the program.             *)

Answer == /\ sock = "connecting"
          /\ sock' = IF up THEN "established" ELSE "refused"
          /\ UNCHANGED <<pc, isLoop, due, delay, conn, up, holder>>

\* The server resets the connection before connect() has seen it.
PeerResets == /\ sock = "established" /\ conn = "none"
              /\ sock' = "refused"
              /\ UNCHANGED <<pc, isLoop, due, delay, conn, up, holder>>

ServerChanges == /\ up' = ~up
                 /\ UNCHANGED <<pc, isLoop, due, delay, conn, sock, holder>>

\* Another thread opens a file and gets a number that is free, or closes it.
OtherOpens == /\ holder = "nobody" /\ holder' = "other"
              /\ UNCHANGED <<pc, isLoop, due, delay, conn, sock, up>>
OtherCloses == /\ holder = "other" /\ holder' = "nobody"
               /\ UNCHANGED <<pc, isLoop, due, delay, conn, sock, up>>

-----------------------------------------------------------------------------
ClientStep == \/ Run \/ Check \/ Idle \/ ConnCloses \/ ConnectPeer
              \/ DestroyConn \/ DestroyConnector

Next == \/ ClientStep
        \/ Stop
        \/ Answer \/ PeerResets \/ ServerChanges
        \/ OtherOpens \/ OtherCloses

Spec == Init /\ [][Next]_vars

\* The client's thread runs, and a timer or a callback that is due is handled
\* although the loop may turn without it many times.
FairSpec == Spec /\ WF_vars(ClientStep) /\ SF_vars(ConnectPeer)

-----------------------------------------------------------------------------
(* Correctness.                                                             *)

\* The delay is bounded (it is an int), and the rest has its type.
TypeOK ==
    /\ pc \in {"new", "check", "handle", "left", "threw", "connGone", "gone"}
    /\ isLoop \in BOOLEAN /\ up \in BOOLEAN
    /\ due \in {"callback", "timer", "no"}
    /\ delay \in FirstDelay..2 * MaxDelay
    /\ conn \in {"none", "open", "closed"}
    /\ sock \in {"idle", "connecting", "refused", "established"}
    /\ holder \in {"client", "other", "nobody"}

\* While the client runs without a connection one attempt is due, and once
\* there is a connection none is, so no second one replaces it; a connection
\* has its fd as long as it lives, although the connector owns that fd too.
OneConnection ==
    /\ pc \in {"check", "handle"} => (conn = "none" <=> due # "no")
    /\ conn # "none" => holder = "client"

\* The attempts end: with a connection, with the exception, or because the
\* client was stopped.
Settles == pc = "check" ~> conn # "none" \/ pc \in {"threw", "left"}
=============================================================================
