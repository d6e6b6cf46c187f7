---------------------------- MODULE TcpConnection ----------------------------
(***************************************************************************)
(* The callback-style TCP layer: TCPServer with its conn_map, TCPAcceptor  *)
(* and the TCPConnections, on the loop they share (EventloopPool::getLoop  *)
(* gives every connection the loop that main_loop is, so all of this is    *)
(* one thread).  An iteration of the loop handles a batch of ready         *)
(* channels and then runs the callbacks handed over meanwhile, which are   *)
(* the removals of closed connections.  Of the poller there is event_list, *)
(* the memory that poll() reads the batch from while the handlers register *)
(* channels and so resize it.                                              *)
(*                                                                         *)
(* A connection is named by its fd, the key of conn_map.  What was read    *)
(* plays no part here; of the output only the number of bytes is kept.     *)
(* The user's callbacks make any calls a user may make: send_data and      *)
(* half_close on a connection it has not closed, full_close on one whose   *)
(* close_cb has not been called, each on any connection it knows.  SIGPIPE *)
(* is taken to be blocked, as HTTPServer2 does for its own server.         *)
(***************************************************************************)
EXTENDS Naturals, Sequences, FiniteSets

CONSTANTS
    Fds,         \* fd numbers that accept may return
    Listen,      \* the acceptor's channel
    None,
    Sizes,       \* lengths of the messages given to send_data
    MaxWrite,    \* max_write_buf_size
    MaxConns,    \* max_conn_num
    MaxCalls,    \* bound: calls by user callbacks altogether
    MaxAccepts   \* bound: connections accepted altogether

ASSUME TcpAssumption ==
    /\ Listen \notin Fds /\ None \notin Fds \cup {Listen}
    /\ IsFiniteSet(Fds)
    /\ Sizes \subseteq Nat
    /\ MaxWrite \in Nat \ {0} /\ MaxConns \in Nat
    /\ MaxCalls \in Nat /\ MaxAccepts \in Nat

VARIABLES
    state,      \* state of each connection, "none" when not in conn_map
    pending,    \* write_buf->get_size()
    armed,      \* is WRITE enabled on its channel
    shut,       \* which directions were shut down: "no", "wr", "rdwr"
    open,       \* the fds that the kernel holds open
    batch,      \* the events of this iteration still to be handled
    cur,        \* the channel in handle_event
    pc,         \* where the loop's thread is
    ret,        \* where it goes on when the user callback returns
    removals,   \* cb_list: the remove_conn callbacks
    listSize,   \* the poller's event_list.size(), eventfd and timerfd left out
    nBatch,     \* the channels that epoll_wait reported, while they are handled
    nCalls, nAccepts

connVars == <<state, pending, armed, shut, open>>
pollVars == <<listSize, nBatch>>
vars == <<connVars, batch, cur, pc, ret, removals, pollVars, nCalls, nAccepts>>

InMap == {c \in Fds : state[c] # "none"}

\* Poller::update_channel resizes event_list to the number of fds registered:
\* those of the connections and the acceptor's.
Registered == Cardinality(InMap) + 1
UpdateChannel == listSize' = Registered' /\ UNCHANGED nBatch

Init ==
    /\ state = [c \in Fds |-> "none"]
    /\ pending = [c \in Fds |-> 0]
    /\ armed = [c \in Fds |-> FALSE]
    /\ shut = [c \in Fds |-> "no"]
    /\ open = {}
    /\ batch = {} /\ cur = None
    /\ pc = "poll" /\ ret = "dispatch"
    /\ removals = <<>>
    /\ listSize = 1 /\ nBatch = 0
    /\ nCalls = 0 /\ nAccepts = 0

-----------------------------------------------------------------------------
(* The loop.                                                                *)

Ready == {<<c, "READ">> : c \in InMap}
           \cup {<<c, "WRITE">> : c \in {d \in InMap : armed[d]}}
           \cup {<<l, "READ">> : l \in IF nAccepts < MaxAccepts THEN {Listen} ELSE {}}

\* epoll_wait returns as many ready channels as event_list has room for; an
\* empty batch is the timeout or EINTR.
PollReturn(events) ==
    /\ pc = "poll"
    /\ nBatch' = Cardinality({e[1] : e \in events})
    /\ nBatch' <= listSize
    /\ batch' = events
    /\ pc' = "dispatch"
    /\ UNCHANGED <<connVars, cur, ret, removals, listSize, nCalls, nAccepts>>

PickChannel(c) ==
    /\ pc = "dispatch" /\ cur = None
    /\ \E e \in batch : e[1] = c
    /\ cur' = c
    /\ UNCHANGED <<connVars, batch, pc, ret, removals, pollVars, nCalls, nAccepts>>

\* handle_event calls the READ handler first, then the WRITE handler, if they
\* were triggered when epoll_wait returned.
Handles(c, event) ==
    /\ pc = "dispatch" /\ cur = c
    /\ <<c, event>> \in batch
    /\ event = "WRITE" => <<c, "READ">> \notin batch
    /\ batch' = batch \ {<<c, event>>}

ChannelDone == /\ pc = "dispatch" /\ cur # None
               /\ \A e \in batch : e[1] # cur
               /\ cur' = None
               /\ UNCHANGED <<connVars, batch, pc, ret, removals, pollVars, nCalls,
                              nAccepts>>

BatchDone == /\ pc = "dispatch" /\ cur = None
             /\ batch = {}
             /\ pc' = "exec"
             /\ nBatch' = 0
             /\ UNCHANGED <<connVars, batch, cur, ret, removals, listSize,
                            nCalls, nAccepts>>

\* TCPServer::remove_conn: on its own thread add_callback runs the erase at
\* once.  The destructor of the connection's channel closes the fd.
RemoveConn ==
    LET c == Head(removals)
    IN  /\ pc = "exec"
        /\ removals # <<>>
        /\ removals' = Tail(removals)
        /\ state' = [state EXCEPT ![c] = "none"]
        /\ open' = open \ {c}
        /\ pending' = [pending EXCEPT ![c] = 0]
        /\ armed' = [armed EXCEPT ![c] = FALSE]
        /\ shut' = [shut EXCEPT ![c] = "no"]
        /\ UNCHANGED <<batch, cur, pc, ret, pollVars, nCalls, nAccepts>>

ExecDone == /\ pc = "exec"
            /\ removals = <<>>
            /\ pc' = "poll"
            /\ UNCHANGED <<connVars, batch, cur, ret, removals, pollVars, nCalls,
                           nAccepts>>

-----------------------------------------------------------------------------
(* TCPAcceptor::handle_read and TCPServer::create_conn.                     *)

\* Room in conn_map: the connection is made and its open_cb called.
AcceptConn(fd) ==
    /\ Handles(Listen, "READ")
    /\ fd \notin open
    /\ Cardinality(InMap) < MaxConns
    /\ state' = [state EXCEPT ![fd] = "CONNECTING"]
    /\ open' = open \cup {fd}
    /\ nAccepts' = nAccepts + 1
    /\ pc' = "user" /\ ret' = "dispatch"
    /\ UpdateChannel
    /\ UNCHANGED <<pending, armed, shut, cur, removals, nCalls>>

\* The table is full: the fd is closed again.
RefuseConn == /\ Handles(Listen, "READ")
              /\ Cardinality(InMap) >= MaxConns
              /\ nAccepts' = nAccepts + 1
              /\ UNCHANGED <<connVars, cur, pc, ret, removals, pollVars, nCalls>>

-----------------------------------------------------------------------------
(* TCPConnection.                                                           *)

\* (mistake) the connection is destroyed at once, inside its own handler.
FullClose_Now(c, next) ==
    IF state[c] = "FULL_CLOSE"
    THEN pc' = "aborted" /\ UNCHANGED <<connVars, removals>>
    ELSE /\ state' = [state EXCEPT ![c] = "none"]
         /\ open' = open \ {c}
         /\ pending' = [pending EXCEPT ![c] = 0]
         /\ armed' = [armed EXCEPT ![c] = FALSE]
         /\ pc' = next
         /\ UNCHANGED <<shut, removals>>

\* (mistake) a connection may be closed again.
FullClose_Again(c, next) ==
    /\ state' = [state EXCEPT ![c] = "FULL_CLOSE"]
    /\ shut' = [shut EXCEPT ![c] = "rdwr"]
    /\ removals' = Append(removals, c)
    /\ pc' = next
    /\ UNCHANGED <<pending, armed, open>>

\* full_close: assertm throws out of run() on a connection already closed.
\* The caller goes on at next: in close_cb, which may call on the other
\* connections, or in the callback that made the call.
FullClose(c, next) ==
    IF state[c] = "FULL_CLOSE"
    THEN pc' = "aborted" /\ UNCHANGED <<connVars, removals>>
    ELSE /\ state' = [state EXCEPT ![c] = "FULL_CLOSE"]
         /\ shut' = [shut EXCEPT ![c] = "rdwr"]
         /\ removals' = Append(removals, c)
         /\ pc' = next
         /\ UNCHANGED <<pending, armed, open>>

\* handle_read got data: message_cb.
ReadData(c) == /\ Handles(c, "READ")
               /\ pc' = "user" /\ ret' = "dispatch"
               /\ UNCHANGED <<connVars, cur, removals, pollVars, nCalls, nAccepts>>

\* EAGAIN or EINTR.
ReadNothing(c) == /\ Handles(c, "READ")
                  /\ shut[c] # "rdwr"
                  /\ UNCHANGED <<connVars, cur, pc, ret, removals, pollVars, nCalls,
                                 nAccepts>>

\* End of file or an error.
ReadClosed(c) == /\ Handles(c, "READ")
                 /\ FullClose(c, "user")
                 /\ ret' = "dispatch"
                 /\ UNCHANGED <<cur, pollVars, nCalls, nAccepts>>

\* handle_write sends n bytes; with the last one WRITE is disabled and
\* write_lower called.  (write_high is never called: send_data closes the
\* connection before the buffer holds that much.)
WriteSome(c, n) ==
    /\ Handles(c, "WRITE")
    /\ shut[c] = "no"
    /\ n \in 1..pending[c]
    /\ pending' = [pending EXCEPT ![c] = @ - n]
    /\ armed' = [armed EXCEPT ![c] = n < pending[c]]
    /\ UNCHANGED <<state, shut, open, cur, removals, nCalls, nAccepts>>
    /\ IF n = pending[c] THEN pc' = "user" /\ ret' = "tail" /\ UpdateChannel
                         ELSE UNCHANGED <<pc, ret, pollVars>>

\* EAGAIN or EINTR.
WriteNothing(c) == /\ Handles(c, "WRITE")
                   /\ shut[c] = "no" /\ pending[c] > 0
                   /\ UNCHANGED <<connVars, cur, pc, ret, removals, pollVars, nCalls,
                                  nAccepts>>

\* An error, EPIPE among them when this side was shut down.
WriteClosed(c) == /\ Handles(c, "WRITE")
                  /\ pending[c] > 0
                  /\ FullClose(c, "user")
                  /\ ret' = "dispatch"
                  /\ UNCHANGED <<cur, pollVars, nCalls, nAccepts>>

\* assertm: there must be something to write.
WriteEmpty(c) == /\ Handles(c, "WRITE")
                 /\ pending[c] = 0
                 /\ pc' = "aborted"
                 /\ UNCHANGED <<connVars, cur, ret, removals, pollVars, nCalls, nAccepts>>

\* (mistake) handle_write forgets that a half close was waiting for it.
WriteTail_Open == /\ pc = "tail"
                  /\ pc' = "dispatch"
                  /\ UNCHANGED <<connVars, batch, cur, ret, removals, pollVars, nCalls,
                                 nAccepts>>

\* (mistake) WRITE is disabled after write_lower instead of before it.
WriteTail_Disarms == /\ pc = "tail"
                     /\ armed' = [armed EXCEPT ![cur] = FALSE]
                     /\ pc' = "dispatch"
                     /\ UNCHANGED <<state, pending, shut, open, batch, cur, ret,
                                    removals, pollVars, nCalls, nAccepts>>

\* handle_write after write_lower: the half close that waited for the output.
WriteTail == /\ pc = "tail"
             /\ shut' = IF state[cur] = "HALF_CLOSE"
                        THEN [shut EXCEPT ![cur] = "wr"] ELSE shut
             /\ pc' = "dispatch"
             /\ UNCHANGED <<state, pending, armed, open, batch, cur, ret,
                            removals, pollVars, nCalls, nAccepts>>

-----------------------------------------------------------------------------
(* What a user callback does, one call at a time.                           *)

UserCall == /\ pc = "user"
            /\ nCalls < MaxCalls
            /\ nCalls' = nCalls + 1

\* (mistake) the limit of the output buffer is not looked at.
SendData_NoLimit(c, n) ==
    /\ UserCall /\ state[c] = "CONNECTING"
    /\ pending' = [pending EXCEPT ![c] = @ + n]
    /\ armed' = [armed EXCEPT ![c] = TRUE]
    /\ UNCHANGED <<state, shut, open, batch, cur, pc, ret, removals, nAccepts>>
    /\ UpdateChannel

SendData(c, n) ==
    /\ UserCall
    /\ state[c] = "CONNECTING"
    /\ \/ /\ pending[c] + n < MaxWrite
          /\ pending' = [pending EXCEPT ![c] = @ + n]
          /\ armed' = [armed EXCEPT ![c] = TRUE]
          /\ UNCHANGED <<state, shut, open, pc, removals>>
          /\ UpdateChannel
       \/ /\ pending[c] + n >= MaxWrite
          /\ FullClose(c, "user")
          /\ UNCHANGED pollVars
    /\ UNCHANGED <<batch, cur, ret, nAccepts>>

HalfClose(c) ==
    /\ UserCall
    /\ state[c] = "CONNECTING"
    /\ state' = [state EXCEPT ![c] = "HALF_CLOSE"]
    /\ shut' = IF pending[c] = 0 /\ ~armed[c]
               THEN [shut EXCEPT ![c] = "wr"] ELSE shut
    /\ UNCHANGED <<pending, armed, open, batch, cur, pc, ret, removals, pollVars,
                   nAccepts>>

UserFullClose(c) ==
    /\ UserCall
    /\ state[c] \in {"CONNECTING", "HALF_CLOSE"}
    /\ FullClose(c, "user")
    /\ UNCHANGED <<batch, cur, ret, pollVars, nAccepts>>

CallbackReturns ==
    /\ pc = "user"
    /\ pc' = ret
    /\ UNCHANGED <<connVars, batch, cur, ret, removals, pollVars, nCalls, nAccepts>>

-----------------------------------------------------------------------------
\* An assertion threw out of run(): the thread, and with it the program, ends.
Aborted == pc = "aborted" /\ UNCHANGED vars

Handle(c) == \/ ReadData(c) \/ ReadNothing(c) \/ ReadClosed(c)
             \/ (\E n \in 1..MaxWrite : WriteSome(c, n))
             \/ WriteNothing(c) \/ WriteClosed(c) \/ WriteEmpty(c)

LoopStep == \/ \E c \in Fds \cup {Listen} : PickChannel(c)
            \/ ChannelDone \/ BatchDone \/ RemoveConn \/ ExecDone
            \/ (\E fd \in Fds : AcceptConn(fd)) \/ RefuseConn
            \/ WriteTail \/ CallbackReturns
            \/ \E c \in Fds : Handle(c)

Next == \/ \E events \in SUBSET Ready : PollReturn(events)
        \/ LoopStep
        \/ \E c \in Fds :
              \/ HalfClose(c) \/ UserFullClose(c)
              \/ \E n \in Sizes : SendData(c, n)
        \/ Aborted

Spec == Init /\ [][Next]_vars

\* The loop's thread runs and user callbacks return.  The peer goes on reading:
\* an armed channel becomes writable and then some bytes can be written.
FairSpec ==
    /\ Spec
    /\ WF_vars(LoopStep)
    /\ \A c \in Fds :
          /\ SF_vars(\E events \in SUBSET Ready :
                        <<c, "WRITE">> \in events /\ PollReturn(events))
          /\ SF_vars(\E n \in 1..MaxWrite : WriteSome(c, n))

-----------------------------------------------------------------------------
(* Correctness.                                                             *)

\* Every variable has its type.
TypeOK ==
    /\ state \in [Fds -> {"none", "CONNECTING", "HALF_CLOSE", "FULL_CLOSE"}]
    /\ pending \in [Fds -> 0..MaxWrite - 1]
    /\ armed \in [Fds -> BOOLEAN]
    /\ shut \in [Fds -> {"no", "wr", "rdwr"}]
    /\ open \subseteq Fds
    /\ batch \subseteq (Fds \cup {Listen}) \X {"READ", "WRITE"}
    /\ cur \in Fds \cup {Listen, None}
    /\ pc \in {"poll", "dispatch", "user", "tail", "exec", "aborted"}
    /\ ret \in {"dispatch", "tail"}
    /\ removals \in Seq(Fds)
    /\ listSize \in Nat /\ nBatch \in Nat
    /\ nCalls \in 0..MaxCalls /\ nAccepts \in 0..MaxAccepts

\* No handler runs on a connection that was destroyed and no fd number comes
\* back while its connection is in conn_map: whatever the callbacks close,
\* the events still to be handled are those of living connections, and the
\* fds held open are exactly the keys of conn_map (create_conn asserts it).
\* Nor is event_list resized below the batch that poll() still iterates over.
NoDangling ==
    /\ \A e \in batch : e[1] \in InMap \cup {Listen}
    /\ cur \in InMap \cup {Listen, None}
    /\ open = InMap
    /\ nBatch <= listSize

\* Each closed connection has exactly one removal under way, and is gone
\* before the loop polls again, so that its fd is not reported once more.
RemovedOnce ==
    /\ {removals[i] : i \in DOMAIN removals} = {c \in Fds : state[c] = "FULL_CLOSE"}
    /\ \A i, j \in DOMAIN removals : removals[i] = removals[j] => i = j
    /\ pc = "poll" => removals = <<>>

\* Output never stalls: while bytes are buffered WRITE is enabled, through
\* write_lower callbacks that send again and half closes that wait.
OutputArmed == \A c \in Fds : pending[c] > 0 => armed[c]

\* A half close takes effect: once the buffered output is written the write
\* side is shut down, unless the connection is closed altogether.
HalfCloseCompletes ==
    \A c \in Fds : state[c] = "HALF_CLOSE"
                     ~> shut[c] # "no" \/ state[c] = "none" \/ pc = "aborted"

\* full_close is never reached on a connection that is already closed, nor
\* handle_write without output: the assertions of TCPConnection hold.
NeverAborts == pc # "aborted"
=============================================================================
