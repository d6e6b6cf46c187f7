-------------------------------- MODULE CoIo --------------------------------
(***************************************************************************)
(* Coroutine I/O: the functions of co_fun, the one-shot channels they keep *)
(* in fd_map and the readiness that epoll reports, on top of CoScheduler,  *)
(* whose Block and Wake get here the reason for which a coroutine parks    *)
(* and the event that wakes it.  The acceptor of TCPServer2 is the         *)
(* coroutine of the first task, and hands each connection over as a task.  *)
(*                                                                         *)
(* One scheduler, so fd_map and the epoll set are those of its loop.  A    *)
(* task is given one fd to work with (or none) and ends with co_close: fds *)
(* are not shared between coroutines, as they are not in the servers and   *)
(* the tests.  Sockets that accept returns are left blocking by            *)
(* TCPServer2, so on them the system call itself waits, and the loop's     *)
(* thread with it; the other fds are non-blocking, an end of a pipe        *)
(* (test/co) or the listening socket.  Each is used in one direction, Dir: *)
(* a pipe has only one, and HTTPServer2, which reads a socket and then     *)
(* writes it, does not write once a read has failed.                       *)
(*                                                                         *)
(* Whatever the reason, a call that returns -1 parks the coroutine.  What  *)
(* the kernel has for an fd, besides READ and WRITE: "HUP", the peer is    *)
(* gone, and "ERR", the error of a reset connection, which the next call   *)
(* returns once.                                                           *)
(***************************************************************************)
EXTENDS CoScheduler

CONSTANTS
    Listen,     \* the listening socket
    Pipes,      \* fd numbers for non-blocking fds that tasks are given
    Socks,      \* fd numbers that accept may return
    Dir         \* the event each fd is waited on: "READ" or "WRITE"

Fds == {Listen} \cup Pipes \cup Socks
Events == {"READ", "WRITE"}

ASSUME IoAssumption ==
    /\ \E s \in Scheds : Scheds = {s}
    /\ Listen \notin Pipes \cup Socks /\ Pipes \cap Socks = {}
    /\ None \notin Fds /\ {"no", "wait", "timer", "dropped"} \cap Fds = {}
    /\ Dir \in [Fds -> Events] /\ Dir[Listen] = "READ"

VARIABLES
    chan,     \* fd_map: the enable bits and the callback of each channel
    armed,    \* the events epoll still watches, none after a one-shot report
    kready,   \* what the kernel has ready on each fd
    open,     \* fds held open
    fdOf,     \* the fd each task was given and has not closed
    want      \* what a coroutine is waiting for: an fd it is parked on, a timer,
              \* a call that blocks its thread, or nothing

ioVars == <<chan, armed, kready, open, fdOf, want>>
allVars == <<vars, ioVars>>

Running(s) == pc[s] = "co" /\ ~InCall(s)
FdOf(c) == fdOf[body[c]]
Reasons == {"no", "wait", "timer", "dropped"} \cup Fds

\* fd_map has no entry for the fd, or one for which nothing was enabled.
NoChannel == [has |-> FALSE, en |-> {}, cb |-> None]
GetChannelOf(fd) == chan' = [chan EXCEPT ![fd].has = TRUE]

\* The system call on fd returns -1 at once: the error of a reset connection
\* is pending, or there is nobody to write to (EPIPE).
Fails(fd) == \/ "ERR" \in kready[fd]
             \/ Dir[fd] = "WRITE" /\ "HUP" \in kready[fd]

\* It succeeds without waiting: there is something to do, or the end of what
\* can be read.
CanDo(fd) == ~Fails(fd) /\ {Dir[fd], "HUP"} \cap kready[fd] # {}

\* What a call on fd leaves ready.  The error is returned once; a connection
\* that was reset stays readable and writable.
Called(fd) ==
    IF Fails(fd) THEN {[kready EXCEPT ![fd] = @ \ {"ERR"}]}
    ELSE IF fd \in Socks /\ "HUP" \in kready[fd] THEN {kready}
    ELSE {kready, [kready EXCEPT ![fd] = @ \ {Dir[fd]}]}

IoInit ==
    /\ Init
    /\ chan = [fd \in Fds |-> NoChannel]
    /\ armed = [fd \in Fds |-> {}]
    /\ kready = [fd \in Fds |-> {}]
    /\ open = {Listen}
    /\ fdOf = [n \in 0..MaxTasks |-> None]
    /\ want = [c \in Cos |-> "no"]

-----------------------------------------------------------------------------
(* Tasks and their fds.                                                     *)

\* The fd a new task can be given, which is opened for it.
NewFds == {None} \cup (Pipes \ open)

\* Bound: the task of a connection that waits to be accepted is set aside, as
\* is an fd for it (PeerReady).
Room == nTasks + Cardinality(kready[Listen]) < MaxTasks

Give(fd) == /\ fdOf' = [fdOf EXCEPT ![nTasks + 1] = fd]
            /\ open' = IF fd = None THEN open ELSE open \cup {fd}

\* Before run(): the acceptor first (TCPServer2::run), then tasks with a pipe
\* or without an fd.
IoBootAdd(s) ==
    /\ BootAdd(s) /\ Room
    /\ \E fd \in IF nTasks = 0 THEN {Listen} ELSE NewFds : Give(fd)
    /\ UNCHANGED <<chan, armed, kready, want>>

\* A coroutine other than the acceptor adds a task.
IoCoAdd(s, u) ==
    /\ CoAdd(s, u) /\ Room
    /\ want[now[s]] = "no" /\ FdOf(now[s]) # Listen
    /\ \E fd \in NewFds : Give(fd)
    /\ UNCHANGED <<chan, armed, kready, want>>

\* accept_cb: accept succeeds and the connection is handed over.  Bound: there
\* are fewer coroutines than max_conn_num.
Accept(s, fd) ==
    /\ CoAdd(s, s)
    /\ FdOf(now[s]) = Listen /\ want[now[s]] \in {"no", Listen}
    /\ CanDo(Listen)
    /\ fd \in Socks \ open
    /\ fdOf' = [fdOf EXCEPT ![nTasks + 1] = fd]
    /\ open' = open \cup {fd}
    /\ kready' \in {[kready EXCEPT ![Listen] = {}]}
                     \cup IF nTasks' < MaxTasks /\ Socks \ open' # {} THEN {kready} ELSE {}
    /\ GetChannelOf(Listen)
    /\ want' = [want EXCEPT ![now[s]] = "no"]
    /\ UNCHANGED armed

\* (mistake) the fd is closed and fd_map keeps its channel.
Close_KeepsEntry(s) ==
    LET fd == FdOf(now[s])
    IN  /\ Running(s) /\ want[now[s]] = "no"
        /\ fd \notin {None, Listen}
        /\ open' = open \ {fd}
        /\ armed' = [armed EXCEPT ![fd] = {}]
        /\ kready' = [kready EXCEPT ![fd] = {}]
        /\ fdOf' = [fdOf EXCEPT ![body[now[s]]] = None]
        /\ UNCHANGED <<vars, chan, want>>

\* co_close: the channel in fd_map removes the fd from epoll and closes it as
\* it is destroyed.  When there is none, the fd stays open for ever.
Close(s) ==
    LET fd == FdOf(now[s])
    IN  /\ Running(s) /\ want[now[s]] = "no"
        /\ fd \notin {None, Listen}
        /\ open' = IF chan[fd].has THEN open \ {fd} ELSE open
        /\ chan' = [chan EXCEPT ![fd] = NoChannel]
        /\ armed' = [armed EXCEPT ![fd] = {}]
        /\ kready' = [kready EXCEPT ![fd] = {}]
        /\ fdOf' = [fdOf EXCEPT ![body[now[s]]] = None]
        /\ UNCHANGED <<vars, want>>

\* The callback returns, its fd closed.
IoFinish(s) == /\ Finish(s)
               /\ want[now[s]] = "no" /\ FdOf(now[s]) = None
               /\ UNCHANGED ioVars

-----------------------------------------------------------------------------
(* _co_io_fun.                                                              *)

\* The first f() succeeds, at once or after it has blocked the thread.
IoNow(s) ==
    LET fd == FdOf(now[s])
    IN  /\ Running(s) /\ want[now[s]] \in {"no", "wait"}
        /\ fd \notin {None, Listen}
        /\ CanDo(fd)
        /\ GetChannelOf(fd)
        /\ want' = [want EXCEPT ![now[s]] = "no"]
        /\ kready' \in Called(fd)
        /\ UNCHANGED <<vars, armed, open, fdOf>>

\* f() waits on a blocking fd, and the thread with it.
IoWait(s) ==
    LET fd == FdOf(now[s])
    IN  /\ Running(s) /\ want[now[s]] = "no"
        /\ fd \in Socks /\ ~CanDo(fd) /\ ~Fails(fd)
        /\ GetChannelOf(fd)
        /\ want' = [want EXCEPT ![now[s]] = "wait"]
        /\ UNCHANGED <<vars, armed, kready, open, fdOf>>

\* f() returns -1: it fails, or would wait on a non-blocking fd.
ReturnsError(s) ==
    LET fd == FdOf(now[s])
    IN  /\ want[now[s]] \in {"no", "wait"}
        /\ fd # None
        /\ Fails(fd) \/ (fd \notin Socks /\ ~CanDo(fd))
        /\ kready' = [kready EXCEPT ![fd] = @ \ {"ERR"}]

\* (mistake) a channel that is already enabled is not put into epoll again.
IoPark_EnabledOnly(s) ==
    LET c == now[s]
        fd == FdOf(c)
        old == chan[fd]
    IN  /\ Block(s)
        /\ ReturnsError(s)
        /\ chan' = [chan EXCEPT ![fd] =
                       [has |-> TRUE, en |-> old.en \cup {Dir[fd]},
                        cb |-> IF Dir[fd] \in old.en THEN old.cb ELSE c]]
        /\ armed' = IF Dir[fd] \in old.en THEN armed
                    ELSE [armed EXCEPT ![fd] = old.en \cup {Dir[fd]}]
        /\ want' = [want EXCEPT ![c] = fd]
        /\ UNCHANGED <<open, fdOf>>

\* Whatever errno says, the callback is set unless the event was enabled
\* before, the channel armed again with all its events, and the coroutine
\* yields.  Bound: accept does not run out of descriptors.
IoPark(s) ==
    LET c == now[s]
        fd == FdOf(c)
        old == chan[fd]
        en == old.en \cup {Dir[fd]}
    IN  /\ Block(s)
        /\ ReturnsError(s)
        /\ chan' = [chan EXCEPT ![fd] =
                       [has |-> TRUE, en |-> en,
                        cb |-> IF Dir[fd] \in old.en THEN old.cb ELSE c]]
        /\ armed' = [armed EXCEPT ![fd] = en]
        /\ want' = [want EXCEPT ![c] = fd]
        /\ UNCHANGED <<open, fdOf>>

\* The coroutine was resumed: the second f(), whose result it returns whatever
\* it is, or the end of co_sleep (the second accept is in Accept).
IoRetry(s) ==
    LET c == now[s]
    IN  /\ Running(s) /\ want[c] \notin {"no", "wait", Listen}
        /\ want' = [want EXCEPT ![c] = "no"]
        /\ kready' \in IF want[c] \in Fds THEN Called(want[c]) ELSE {kready}
        /\ UNCHANGED <<vars, chan, armed, open, fdOf>>

\* (mistake) the report of an event leaves it armed.
FdEvent_Level(s, fd) ==
    /\ armed[fd] \cap kready[fd] # {}
    /\ pc[s] = "loop" /\ ~InCall(s)
    /\ ready' = [ready EXCEPT ![s] = Append(@, chan[fd].cb)]
    /\ waiting' = [waiting EXCEPT ![s] = @ \ {chan[fd].cb}]
    /\ call' = [call EXCEPT ![s] = Call("check", s, chan[fd].cb, 0)]
    /\ UNCHANGED <<isSchedule, handed, poolVars, now, pc, histVars, ioVars>>

\* epoll_wait reports the fd, which disarms it, and handle_event calls the
\* callback: schedule_co of the coroutine it was made for.
FdEvent(s, fd) ==
    /\ armed[fd] \cap kready[fd] # {}
    /\ pc[s] = "loop" /\ ~InCall(s)
    /\ ready' = [ready EXCEPT ![s] = Append(@, chan[fd].cb)]
    /\ waiting' = [waiting EXCEPT ![s] = @ \ {chan[fd].cb}]
    /\ call' = [call EXCEPT ![s] = Call("check", s, chan[fd].cb, 0)]
    /\ armed' = [armed EXCEPT ![fd] = {}]
    /\ UNCHANGED <<isSchedule, handed, poolVars, now, pc, histVars, chan,
                   kready, open, fdOf, want>>

\* Only EPOLLHUP or EPOLLERR: poll() triggers nothing, and the fd is disarmed.
HupEvent(s, fd) ==
    /\ armed[fd] # {} /\ armed[fd] \cap kready[fd] = {} /\ "HUP" \in kready[fd]
    /\ pc[s] = "loop" /\ ~InCall(s)
    /\ armed' = [armed EXCEPT ![fd] = {}]
    /\ UNCHANGED <<vars, chan, kready, open, fdOf, want>>

-----------------------------------------------------------------------------
(* co_sleep and the kernel.                                                 *)

\* The wheel drops a delay over its limit, and the coroutine yields all the
\* same.
Sleep(s, reason) ==
    /\ Block(s)
    /\ want[now[s]] = "no" /\ FdOf(now[s]) # Listen
    /\ want' = [want EXCEPT ![now[s]] = reason]
    /\ UNCHANGED <<chan, armed, kready, open, fdOf>>

IoSleepDue(s) == /\ SleepDue(s)
                 /\ want[now[s]] = "no" /\ FdOf(now[s]) # Listen
                 /\ UNCHANGED ioVars

TimerEvent(s, c) == /\ Wake(s, c)
                    /\ want[c] = "timer"
                    /\ UNCHANGED ioVars

\* The fds that a task has: what happens on one that was leaked (see Close)
\* concerns nobody any more.
Held == {fdOf[n] : n \in 1..nTasks} \ {None}

PeerReady(fd) ==
    /\ fd \in Held /\ {Dir[fd], "HUP"} \cap kready[fd] = {}
    /\ fd = Listen => nTasks < MaxTasks /\ Socks \ open # {}
    /\ kready' = [kready EXCEPT ![fd] = @ \cup {Dir[fd]}]
    /\ UNCHANGED <<vars, chan, armed, open, fdOf, want>>

\* The peer of a pipe closes, which epoll reports as EPOLLHUP or EPOLLERR and
\* nothing else, or a client resets its connection, which is readable and
\* writable then.
PeerGone(fd) ==
    /\ fd \in Held \ {Listen} /\ "HUP" \notin kready[fd]
    /\ kready' = [kready EXCEPT ![fd] = @ \cup IF fd \in Pipes THEN {"HUP"}
                                              ELSE {Dir[fd], "HUP", "ERR"}]
    /\ UNCHANGED <<vars, chan, armed, open, fdOf, want>>

-----------------------------------------------------------------------------
\* What ends a coroutine's run, and what it does before.
Yields(s) == IoPark(s) \/ IoFinish(s) \/ Sleep(s, "timer") \/ Sleep(s, "dropped")
IoStep(s) == \/ Yields(s) \/ IoNow(s) \/ IoWait(s) \/ IoRetry(s) \/ Close(s)
             \/ IoSleepDue(s)
             \/ \E fd \in Socks : Accept(s, fd)

IoNext ==
    \/ (\E t \in Threads : CallStep(t)) /\ UNCHANGED ioVars
    \/ Start /\ UNCHANGED ioVars
    \/ \E s \in Scheds :
          \/ HandleStep(s) /\ UNCHANGED ioVars
          \/ IoBootAdd(s) \/ IoStep(s)
          \/ \E u \in Scheds : IoCoAdd(s, u)
          \/ \E c \in Cos : TimerEvent(s, c)
          \/ \E fd \in Fds : FdEvent(s, fd) \/ HupEvent(s, fd)
    \/ \E fd \in Fds : PeerReady(fd) \/ PeerGone(fd)
    \/ Idle /\ UNCHANGED ioVars

IoSpec == IoInit /\ [][IoNext]_allVars

\* As in CoScheduler; besides, timers fire, a ready fd that is watched is
\* reported, the acceptor accepts, a call that blocks returns when it can, and
\* the client of a blocking socket makes it ready in the end: without that
\* assumption one silent client holds up every coroutine of the loop.
IoFairSpec ==
    /\ IoSpec
    /\ WF_allVars(Start /\ UNCHANGED ioVars)
    /\ \A t \in Threads : WF_allVars(CallStep(t) /\ UNCHANGED ioVars)
    /\ \A s \in Scheds :
          /\ WF_allVars(HandleStep(s) /\ UNCHANGED ioVars)
          /\ SF_allVars(Yields(s)) /\ WF_allVars(IoRetry(s))
          /\ WF_allVars(\E fd \in Socks : Accept(s, fd))
          /\ WF_allVars(Running(s) /\ want[now[s]] = "wait" /\ IoNow(s))
          /\ \A c \in Cos : SF_allVars(TimerEvent(s, c))
          /\ \A fd \in Fds : SF_allVars(FdEvent(s, fd))
    /\ \A fd \in Socks : WF_allVars(PeerReady(fd))

-----------------------------------------------------------------------------
(* Correctness, besides the properties of CoScheduler.                      *)

\* Every variable has its type.
IoTypeOK ==
    /\ TypeOK
    /\ chan \in [Fds -> [has : BOOLEAN, en : SUBSET Events, cb : Cos \cup {None}]]
    /\ armed \in [Fds -> SUBSET Events]
    /\ kready \in [Fds -> SUBSET (Events \cup {"HUP", "ERR"})]
    /\ open \subseteq Fds
    /\ fdOf \in [0..MaxTasks -> Fds \cup {None}]
    /\ want \in [Cos -> Reasons]

\* A coroutine parked on an fd can be woken: epoll watches the event, and the
\* callback is its own, not that of a coroutine that waited on this fd, or on
\* one with the same number, before.  The exception is a pipe whose peer is
\* gone: its hang-up is swallowed, and nobody is left to cause an event.
IoArmed ==
    \A s \in Scheds : \A c \in waiting[s] :
        want[c] \in Fds =>
            /\ chan[want[c]].cb = c
            /\ \/ Dir[want[c]] \in armed[want[c]]
               \/ want[c] \in Pipes /\ "HUP" \in kready[want[c]]

\* The wake-up is not in vain, whether the first call would have waited or
\* failed: the second accept succeeds, as accept_cb asserts, and so does the
\* second read, if only with the end of what can be read (co_fun.cpp:43).  A
\* second write may fail, but only because its peer is gone; nothing that was
\* waited for is taken away between the report and the second call.
NotSpurious ==
    \A s \in Scheds :
        LET fd == want[now[s]]
        IN  pc[s] = "co" /\ fd \in Fds =>
                CanDo(fd) \/ (Dir[fd] = "WRITE" /\ Fails(fd))

\* A coroutine that waits for an fd that has become ready, or for a timer, runs
\* again, as long as handle_co returns to the loop (a coroutine that sleeps
\* for no time at all, again and again, keeps it from doing so).
Resumed ==
    (\A s \in Scheds : []<>(pc[s] = "loop")) =>
        \A c \in Cos :
            (want[c] = "timer" \/ (want[c] \in Fds /\ Dir[want[c]] \in kready[want[c]]))
                ~> (want[c] = "no")
=============================================================================
