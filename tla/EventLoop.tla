------------------------------ MODULE EventLoop ------------------------------
(***************************************************************************)
(* One reactor: EventLoop, its Activater (an eventfd) and the part of the  *)
(* poller it blocks in.  One thread, Loop, executes run(); any thread may  *)
(* call add_callback, add_callback_after, stop and the calls that hold the *)
(* mutex (timers and channels).  The loop's own thread makes them from     *)
(* inside the callbacks it runs.                                           *)
(*                                                                         *)
(* is_loop is a plain bool that stop() writes from other threads.  It is a *)
(* member that the opaque calls of the loop may change, so the build       *)
(* re-reads it in every iteration; the model reads and writes it           *)
(* atomically and lets the two sides interleave freely.                    *)
(***************************************************************************)
EXTENDS Naturals, Sequences

CONSTANTS
    Clients,      \* the threads other than the loop's
    Loop,         \* the thread that executes run()
    Nobody,       \* "the mutex is free"
    Calls,        \* the callbacks, each handed over at most once
    DueTimerPosts \* a timer already due on arrival may hand over a callback

Threads == Clients \cup {Loop}

ASSUME ThreadsAssumption ==
    /\ Loop \notin Clients
    /\ Nobody \notin Threads
    /\ DueTimerPosts \in BOOLEAN

VARIABLES
    isLoop,     \* is_loop
    mu,         \* the holder of mu
    cbList,     \* cb_list
    nowCbList,  \* now_cb_list, a local of run(): what is left of it
    efd,        \* is the eventfd's counter non-zero
    batch,      \* the ready channels that poll() has still to handle
    pc,         \* where the loop's thread is in run()
    op,         \* what each thread is doing inside a call
    made,       \* the callbacks already handed over
    accepted,   \* history: the order in which they entered cb_list
    ran,        \* history: the order in which they left now_cb_list
    stopped     \* history: the threads that called stop()

vars == <<isLoop, mu, cbList, nowCbList, efd, batch, pc, op, made, accepted,
          ran, stopped>>

Labels == {"start", "check", "poll", "dispatch", "infd", "swap", "exec",
           "incb", "done"}
Ops == {"idle", "activate", "unlock", "locked", "relock", "stop"}

Init ==
    /\ isLoop = FALSE
    /\ mu = Nobody
    /\ cbList = <<>> /\ nowCbList = <<>>
    /\ efd = FALSE
    /\ batch = {}
    /\ pc = "start"
    /\ op = [t \in Threads |-> "idle"]
    /\ made = {} /\ accepted = <<>> /\ ran = <<>> /\ stopped = {}

\* A client is free to call between its calls, the loop's thread only from
\* within a callback (of a channel or of the callback list).
MayCall(t) == /\ op[t] = "idle"
              /\ t = Loop => pc \in {"infd", "incb"}

-----------------------------------------------------------------------------
(* run(), executed by Loop; op[Loop] = "idle": no call is in progress.      *)

At(l) == pc = l /\ op[Loop] = "idle"

Run == /\ At("start")
       /\ isLoop' = TRUE
       /\ pc' = "check"
       /\ UNCHANGED <<mu, cbList, nowCbList, efd, batch, op, made, accepted,
                      ran, stopped>>

Check == /\ At("check")
         /\ pc' = IF isLoop THEN "poll" ELSE "done"
         /\ UNCHANGED <<isLoop, mu, cbList, nowCbList, efd, batch, op, made,
                        accepted, ran, stopped>>

\* epoll_wait returns: the Activater's channel is in the batch exactly when
\* its counter is non-zero, some other channel may be, and with neither it is
\* the timeout or EINTR.
PollReturn(other) ==
    /\ At("poll")
    /\ batch' = (IF efd THEN {"activater"} ELSE {}) \cup other
    /\ pc' = "dispatch"
    /\ UNCHANGED <<isLoop, mu, cbList, nowCbList, efd, op, made, accepted,
                   ran, stopped>>

\* Activater::handle_read empties the counter.
HandleRead == /\ At("dispatch")
              /\ "activater" \in batch
              /\ efd' = FALSE
              /\ batch' = batch \ {"activater"}
              /\ UNCHANGED <<isLoop, mu, cbList, nowCbList, pc, op, made,
                             accepted, ran, stopped>>

BeginChannelCb == /\ At("dispatch")
                  /\ "other" \in batch
                  /\ batch' = batch \ {"other"}
                  /\ pc' = "infd"
                  /\ UNCHANGED <<isLoop, mu, cbList, nowCbList, efd, op, made,
                                 accepted, ran, stopped>>

EndChannelCb == /\ At("infd")
                /\ pc' = "dispatch"
                /\ UNCHANGED <<isLoop, mu, cbList, nowCbList, efd, batch, op,
                               made, accepted, ran, stopped>>

EndDispatch == /\ At("dispatch")
               /\ batch = {}
               /\ pc' = "swap"
               /\ UNCHANGED <<isLoop, mu, cbList, nowCbList, efd, batch, op,
                              made, accepted, ran, stopped>>

\* (mistake) the list is copied where it should be swapped.
Swap_Copy == /\ At("swap") /\ mu = Nobody
             /\ nowCbList' = cbList
             /\ pc' = "exec"
             /\ UNCHANGED <<isLoop, mu, cbList, efd, batch, op, made, accepted,
                            ran, stopped>>

\* now_cb_list is a fresh local: the swap leaves cb_list empty.
Swap == /\ At("swap")
        /\ mu = Nobody
        /\ nowCbList' = cbList
        /\ cbList' = <<>>
        /\ pc' = "exec"
        /\ UNCHANGED <<isLoop, mu, efd, batch, op, made, accepted, ran,
                       stopped>>

BeginCb == /\ At("exec")
           /\ nowCbList # <<>>
           /\ ran' = Append(ran, Head(nowCbList))
           /\ nowCbList' = Tail(nowCbList)
           /\ pc' = "incb"
           /\ UNCHANGED <<isLoop, mu, cbList, efd, batch, op, made, accepted,
                          stopped>>

EndCb == /\ At("incb")
         /\ pc' = "exec"
         /\ UNCHANGED <<isLoop, mu, cbList, nowCbList, efd, batch, op, made,
                        accepted, ran, stopped>>

EndExec == /\ At("exec")
           /\ nowCbList = <<>>
           /\ pc' = "check"
           /\ UNCHANGED <<isLoop, mu, cbList, nowCbList, efd, batch, op, made,
                          accepted, ran, stopped>>

-----------------------------------------------------------------------------
(* The calls.                                                               *)

\* add_callback by the loop's own thread while is_loop: the callback runs
\* inside the call and touches neither the list nor the eventfd.
AddCallbackNow(k) ==
    /\ MayCall(Loop)
    /\ isLoop
    /\ k \notin made
    /\ made' = made \cup {k}
    /\ UNCHANGED <<isLoop, mu, cbList, nowCbList, efd, batch, pc, op,
                   accepted, ran, stopped>>

\* (mistake) the new callback goes to the front of the list.
AddCallbackAfter_Front(t, k) ==
    /\ MayCall(t) /\ mu = Nobody /\ k \notin made
    /\ mu' = t
    /\ cbList' = <<k>> \o cbList
    /\ op' = [op EXCEPT ![t] = "activate"]
    /\ made' = made \cup {k}
    /\ accepted' = Append(accepted, k)
    /\ UNCHANGED <<isLoop, nowCbList, efd, batch, pc, ran, stopped>>

\* (mistake) the lock_guard of add_callback_after is missing.
AddCallbackAfter_NoLock(t, k) ==
    /\ MayCall(t) /\ k \notin made
    /\ cbList' = Append(cbList, k)
    /\ op' = [op EXCEPT ![t] = "activate"]
    /\ made' = made \cup {k}
    /\ accepted' = Append(accepted, k)
    /\ UNCHANGED <<isLoop, mu, nowCbList, efd, batch, pc, ran, stopped>>

\* add_callback_after, also what add_callback does for every other caller:
\* lock, push_back; activate() and the unlock are steps of their own.
AddCallbackAfter(t, k) ==
    /\ MayCall(t)
    /\ mu = Nobody
    /\ k \notin made
    /\ mu' = t
    /\ cbList' = Append(cbList, k)
    /\ op' = [op EXCEPT ![t] = "activate"]
    /\ made' = made \cup {k}
    /\ accepted' = Append(accepted, k)
    /\ UNCHANGED <<isLoop, nowCbList, efd, batch, pc, ran, stopped>>

\* (mistake) the eventfd is written only when the loop is seen blocking.
Activate_IfBlocked(t) ==
    /\ op[t] = "activate"
    /\ efd' = (efd \/ pc = "poll")
    /\ op' = [op EXCEPT ![t] = "unlock"]
    /\ UNCHANGED <<isLoop, mu, cbList, nowCbList, batch, pc, made, accepted,
                   ran, stopped>>

Activate(t) ==
    /\ op[t] = "activate"
    /\ efd' = TRUE
    /\ op' = [op EXCEPT ![t] = "unlock"]
    /\ UNCHANGED <<isLoop, mu, cbList, nowCbList, batch, pc, made, accepted,
                   ran, stopped>>

Unlock(t) ==
    /\ op[t] \in {"unlock", "locked"}
    /\ mu' = Nobody
    /\ op' = [op EXCEPT ![t] = "idle"]
    /\ UNCHANGED <<isLoop, cbList, nowCbList, efd, batch, pc, made, accepted,
                   ran, stopped>>

\* add_timer, remove_timer, update_channel, remove_channel: a lock_guard
\* around work that leaves this module's state alone.
LockedCall(t) ==
    /\ MayCall(t)
    /\ mu = Nobody
    /\ mu' = t
    /\ op' = [op EXCEPT ![t] = "locked"]
    /\ UNCHANGED <<isLoop, cbList, nowCbList, efd, batch, pc, made, accepted,
                   ran, stopped>>

\* add_timer finds the timer already due and calls its callback under mu; the
\* callback calls add_callback_after, which locks mu again.  std::mutex is
\* not recursive: the thread waits for itself.
DueTimerPost(t) ==
    /\ DueTimerPosts
    /\ op[t] = "locked"
    /\ op' = [op EXCEPT ![t] = "relock"]
    /\ UNCHANGED <<isLoop, mu, cbList, nowCbList, efd, batch, pc, made,
                   accepted, ran, stopped>>

\* (mistake) the flag is cleared and the loop is not woken.
Stop_NoWake(t) ==
    /\ MayCall(t) /\ t \notin stopped
    /\ isLoop' = FALSE
    /\ stopped' = stopped \cup {t}
    /\ UNCHANGED <<mu, cbList, nowCbList, efd, batch, pc, op, made, accepted, ran>>

\* stop(): the flag first, the wake-up second, neither under mu.
Stop(t) ==
    /\ MayCall(t)
    /\ t \notin stopped
    /\ isLoop' = FALSE
    /\ op' = [op EXCEPT ![t] = "stop"]
    /\ stopped' = stopped \cup {t}
    /\ UNCHANGED <<mu, cbList, nowCbList, efd, batch, pc, made, accepted, ran>>

\* (mistake) stop() wakes the loop only while a callback is waiting.
StopActivate_IfWork(t) ==
    /\ op[t] = "stop"
    /\ efd' = (efd \/ cbList # <<>>)
    /\ op' = [op EXCEPT ![t] = "idle"]
    /\ UNCHANGED <<isLoop, mu, cbList, nowCbList, batch, pc, made, accepted,
                   ran, stopped>>

StopActivate(t) ==
    /\ op[t] = "stop"
    /\ efd' = TRUE
    /\ op' = [op EXCEPT ![t] = "idle"]
    /\ UNCHANGED <<isLoop, mu, cbList, nowCbList, batch, pc, made, accepted,
                   ran, stopped>>

-----------------------------------------------------------------------------
\* Nothing is left to do: run() has returned and no call is in progress.
Finished == /\ pc = "done"
            /\ \A t \in Threads : op[t] = "idle"
            /\ UNCHANGED vars

LoopStep == \/ Run \/ Check
            \/ HandleRead \/ BeginChannelCb \/ EndChannelCb \/ EndDispatch
            \/ Swap \/ BeginCb \/ EndCb \/ EndExec

CallStep(t) == Activate(t) \/ Unlock(t) \/ StopActivate(t)

Next ==
    \/ LoopStep
    \/ \E other \in {{}, {"other"}} : PollReturn(other)
    \/ \E k \in Calls : AddCallbackNow(k)
    \/ \E t \in Threads :
          \/ CallStep(t)
          \/ LockedCall(t) \/ DueTimerPost(t) \/ Stop(t)
          \/ \E k \in Calls : AddCallbackAfter(t, k)
    \/ Finished

Spec == Init /\ [][Next]_vars

\* Both sides run on threads that the operating system schedules: a step that
\* stays possible is taken.  epoll_wait must return when the eventfd is
\* readable; its return on the timeout or for another channel is not relied
\* on.  Strong fairness of the loop's thread says that a callback makes only
\* finitely many calls before it returns, and that other threads which keep
\* taking the mutex do not keep the loop's thread from it for ever.  Nobody
\* has to make a call.
Fairness ==
    /\ SF_vars(LoopStep)
    /\ WF_vars(efd /\ PollReturn({}))
    /\ \A t \in Threads : WF_vars(CallStep(t))

FairSpec == Spec /\ Fairness

-----------------------------------------------------------------------------
(* Correctness.                                                             *)

Typed ==
    /\ isLoop \in BOOLEAN
    /\ mu \in Threads \cup {Nobody}
    /\ cbList \in Seq(Calls) /\ nowCbList \in Seq(Calls)
    /\ efd \in BOOLEAN
    /\ batch \subseteq {"activater", "other"}
    /\ pc \in Labels
    /\ op \in [Threads -> Ops]
    /\ made \subseteq Calls
    /\ accepted \in Seq(Calls) /\ ran \in Seq(Calls)
    /\ stopped \subseteq Threads

\* The mutex is held by the one thread that is inside a lock_guard's scope,
\* and cb_list only changes hands there.
MutexHeld ==
    \A t \in Threads :
        op[t] \in {"activate", "unlock", "locked", "relock"} <=> mu = t

\* Every variable has its type, and the mutex and the threads' places agree:
\* two threads that are both inside a section are a state outside the type
\* (the lock_guards of EventLoop.cpp).
TypeOK == Typed /\ MutexHeld

\* Callbacks begin in the order in which their pushes took the mutex, each
\* exactly once, and none is lost between the two lists: what was accepted is
\* what has begun, then what was swapped out, then what is still in cb_list
\* (the push under mu of add_callback_after against the swap in run()).
InOrder == accepted = ran \o nowCbList \o cbList

\* The loop never goes to sleep on a callback: while cb_list is non-empty the
\* eventfd is readable, or the push that filled it is about to write it, or
\* the loop is past epoll_wait and will swap the list before the next one.
\* Reading the eventfd after the swap, or writing it before the push, breaks
\* it.  Nor is stop() missed by a loop that is already in its while: when it
\* is blocked with is_loop cleared, the eventfd is readable or the stopping
\* thread is about to write it.
NoLostWakeup ==
    /\ cbList # <<>> => \/ efd
                        \/ \E t \in Threads : op[t] = "activate"
                        \/ pc \in {"dispatch", "infd", "swap"}
    /\ pc = "poll" /\ ~isLoop => efd \/ \E t \in Threads : op[t] = "stop"

\* What the loop implements: a first-in first-out executor.
Executor == INSTANCE TaskExecutor WITH
                queue <- nowCbList \o cbList,
                phase <- CASE pc = "start" -> "new"
                           [] pc = "done"  -> "finished"
                           [] OTHER        -> "running"

\* Each step of the threads is a step of the abstract executor or none.
RefinesExecutor == Executor!TSpec

\* A thread waits for the mutex it holds (see DueTimerPost).
Wedged == \E t \in Threads : op[t] = "relock"

\* A callback that entered the list of a running loop is run, unless somebody
\* stops the loop first: the activate() that follows every push interrupts
\* the blocking epoll_wait.
CallbackRuns ==
    \A k \in Calls :
        (\E i \in DOMAIN accepted : accepted[i] = k) /\ pc # "start"
            ~> (\E i \in DOMAIN ran : ran[i] = k) \/ stopped # {} \/ Wedged

\* A loop whose flag was cleared while it runs leaves run(), whoever cleared
\* it and wherever the loop was: blocked, dispatching or running callbacks.
\* (A stop() before run() is forgotten: run() sets the flag again.)
LoopEnds == pc # "start" /\ ~isLoop ~> pc = "done" \/ Wedged
=============================================================================
