----------------------------- MODULE CoScheduler -----------------------------
(***************************************************************************)
(* The coroutine layer: one CorouteScheduler per event-loop thread, the    *)
(* CoroutinePool they share, and the call by which a coroutine of one      *)
(* thread hands a callback to the scheduler of another (TCPServer2 does so *)
(* for every connection it accepts).                                       *)
(*                                                                         *)
(* The event loop below is the executor of TaskExecutor: handed[s] counts  *)
(* the handle_co callbacks waiting in loop s's list, whose mutex makes     *)
(* add_callback_after atomic here.  is_schedule, ready_queue and co_map    *)
(* have no mutex, so schedule_co is cut into the read of is_schedule, the  *)
(* hand-over and the write of is_schedule.  Each access is atomic: what a  *)
(* torn list operation would do beyond that is not modelled.               *)
(***************************************************************************)
EXTENDS Naturals, Sequences, FiniteSets

CONSTANTS
    Scheds,     \* the schedulers, each the thread of its event loop
    Boot,       \* the thread that fills the schedulers before the loops start
    Cos,        \* the Coroutine objects that can be allocated
    None,
    Posts,      \* <<s, u>>: coroutines of s may call add_callback of u
    DueSleeps,  \* a co_sleep may find its timer already due
    MaxTasks    \* bound: callbacks handed to add_callback altogether

Threads == Scheds \cup {Boot}

ASSUME CoAssumption ==
    /\ Boot \notin Scheds
    /\ None \notin Cos
    /\ Posts \subseteq Scheds \X Scheds
    /\ DueSleeps \in BOOLEAN
    /\ MaxTasks \in Nat

VARIABLES
    ready,       \* ready_queue of each scheduler
    isSchedule,  \* is_schedule of each scheduler
    handed,      \* handle_co callbacks in each loop's callback list
    coMap,       \* the keys of co_map of each scheduler
    waiting,     \* coroutines of each scheduler parked on an fd or a timer
    now,         \* now_co of each scheduler
    pc,          \* where each loop thread is
    call,        \* the add_callback or schedule_co each thread is inside
    free,        \* the pool's queue
    count,       \* the pool's count
    body,        \* the task each Coroutine object was last given
    nTasks,      \* tasks created so far
    added,       \* history: tasks pushed to each scheduler's queue, in order
    begun        \* history: tasks whose callback began there, in order

schedVars == <<ready, isSchedule, handed>>
poolVars == <<free, count, body, coMap>>
histVars == <<nTasks, added, begun>>
vars == <<ready, isSchedule, handed, coMap, waiting, now, pc, call, free,
          count, body, nTasks, added, begun>>

NoCall == [at |-> "none", to |-> None, co |-> None, task |-> 0]
Call(at, s, c, n) == [at |-> at, to |-> s, co |-> c, task |-> n]
InCall(t) == call[t].at # "none"

\* The coroutines a scheduler or a queue refers to.
Queued(s) == {ready[s][i] : i \in DOMAIN ready[s]}
Free == {free[i] : i \in DOMAIN free}
Started(c, s) == \E i \in DOMAIN begun[s] : begun[s][i] = body[c]

Init ==
    /\ ready = [s \in Scheds |-> <<>>]
    /\ isSchedule = [s \in Scheds |-> FALSE]
    /\ handed = [s \in Scheds |-> 0]
    /\ coMap = [s \in Scheds |-> {}]
    /\ waiting = [s \in Scheds |-> {}]
    /\ now = [s \in Scheds |-> None]
    /\ pc = [s \in Scheds |-> "new"]
    /\ call = [t \in Threads |-> NoCall]
    /\ free = <<>> /\ count = 0
    /\ body = [c \in Cos |-> 0]
    /\ nTasks = 0
    /\ added = [s \in Scheds |-> <<>>]
    /\ begun = [s \in Scheds |-> <<>>]

-----------------------------------------------------------------------------
(* CorouteScheduler::add_callback(s) executed by thread t.                  *)

BeginAdd(t, s) ==
    /\ nTasks < MaxTasks
    /\ nTasks' = nTasks + 1
    /\ call' = [call EXCEPT ![t] = Call("get", s, None, nTasks')]
    /\ UNCHANGED <<schedVars, poolVars, waiting, now, pc, added, begun>>

\* The thread that builds the server calls add_callback before run().
BootAdd(s) == /\ ~InCall(Boot)
              /\ \A u \in Scheds : pc[u] = "new"
              /\ BeginAdd(Boot, s)

\* A running coroutine calls add_callback.
CoAdd(s, u) == /\ pc[s] = "co" /\ ~InCall(s)
               /\ <<s, u>> \in Posts
               /\ BeginAdd(s, u)

\* get_channel(), under the pool's mutex: the oldest idle Coroutine or a new
\* one (which of the names in Cos a new one gets does not matter).
Unused == Cos \ (Free \cup UNION {coMap[s] : s \in Scheds}
                      \cup {call[t].co : t \in Threads})
Obtained == IF free # <<>> THEN Head(free) ELSE CHOOSE c \in Unused : TRUE

\* (mistake) get_channel does not count.
GetChannel_Uncounted(t) ==
    /\ call[t].at = "get"
    /\ free # <<>> \/ Unused # {}
    /\ call' = [call EXCEPT ![t].at = "push", ![t].co = Obtained]
    /\ free' = IF free # <<>> THEN Tail(free) ELSE free
    /\ UNCHANGED <<schedVars, coMap, count, body, waiting, now, pc, histVars>>

GetChannel(t) ==
    /\ call[t].at = "get"
    /\ count' = count + 1
    /\ free # <<>> \/ Unused # {}
    /\ call' = [call EXCEPT ![t].at = "push", ![t].co = Obtained]
    /\ free' = IF free # <<>> THEN Tail(free) ELSE free
    /\ UNCHANGED <<schedVars, coMap, body, waiting, now, pc, histVars>>

\* co_map.insert, set_callback (which resets the registers and the stack) and
\* ready_queue.push_back.
PushNew(t) ==
    LET s == call[t].to
        c == call[t].co
    IN  /\ call[t].at = "push"
        /\ coMap' = [coMap EXCEPT ![s] = @ \cup {c}]
        /\ body' = [body EXCEPT ![c] = call[t].task]
        /\ added' = [added EXCEPT ![s] = Append(@, call[t].task)]
        /\ ready' = [ready EXCEPT ![s] = Append(@, c)]
        /\ call' = [call EXCEPT ![t].at = "check"]
        /\ UNCHANGED <<isSchedule, handed, waiting, now, pc, free, count,
                       nTasks, begun>>

(* schedule_co() of scheduler call[t].to, executed by thread t.             *)

CheckFlag(t) ==
    /\ call[t].at = "check"
    /\ call' = [call EXCEPT ![t] =
                   IF isSchedule[@.to] THEN NoCall ELSE [@ EXCEPT !.at = "hand"]]
    /\ UNCHANGED <<schedVars, poolVars, waiting, now, pc, histVars>>

\* (mistake) handle_co is handed over only while the loops run.
HandOver_IfRunning(t) ==
    /\ call[t].at = "hand"
    /\ handed' = [handed EXCEPT ![call[t].to] =
                     IF pc[call[t].to] = "new" THEN @ ELSE @ + 1]
    /\ call' = [call EXCEPT ![t].at = "flag"]
    /\ UNCHANGED <<ready, isSchedule, poolVars, waiting, now, pc, histVars>>

HandOver(t) ==
    /\ call[t].at = "hand"
    /\ handed' = [handed EXCEPT ![call[t].to] = @ + 1]
    /\ call' = [call EXCEPT ![t].at = "flag"]
    /\ UNCHANGED <<ready, isSchedule, poolVars, waiting, now, pc, histVars>>

SetFlag(t) ==
    /\ call[t].at = "flag"
    /\ isSchedule' = [isSchedule EXCEPT ![call[t].to] = TRUE]
    /\ call' = [call EXCEPT ![t] = NoCall]
    /\ UNCHANGED <<ready, handed, poolVars, waiting, now, pc, histVars>>

-----------------------------------------------------------------------------
(* The loop thread of scheduler s.                                          *)

\* CoroutineSchedulerEventLoopPool::run: the loops start, the set-up is over.
Start == /\ \A s \in Scheds : pc[s] = "new"
         /\ ~InCall(Boot)
         /\ pc' = [s \in Scheds |-> "loop"]
         /\ UNCHANGED <<schedVars, poolVars, waiting, now, call, histVars>>

\* The callback of an fd or of a timer: schedule_co(c).
Wake(s, c) ==
    /\ pc[s] = "loop" /\ ~InCall(s)
    /\ c \in waiting[s]
    /\ waiting' = [waiting EXCEPT ![s] = @ \ {c}]
    /\ ready' = [ready EXCEPT ![s] = Append(@, c)]
    /\ call' = [call EXCEPT ![s] = Call("check", s, c, 0)]
    /\ UNCHANGED <<isSchedule, handed, poolVars, now, pc, histVars>>

\* The loop takes a handle_co from its callback list.
BeginHandle(s) ==
    /\ pc[s] = "loop" /\ ~InCall(s)
    /\ handed[s] > 0
    /\ handed' = [handed EXCEPT ![s] = @ - 1]
    /\ pc' = [pc EXCEPT ![s] = "handle"]
    /\ UNCHANGED <<ready, isSchedule, poolVars, waiting, now, call, histVars>>

\* ready_queue.front, pop_front, main_co->resume(now_co).
Resume(s) ==
    LET c == Head(ready[s])
    IN  /\ pc[s] = "handle"
        /\ ready[s] # <<>>
        /\ ready' = [ready EXCEPT ![s] = Tail(@)]
        /\ now' = [now EXCEPT ![s] = c]
        /\ begun' = IF Started(c, s) THEN begun
                    ELSE [begun EXCEPT ![s] = Append(@, body[c])]
        /\ pc' = [pc EXCEPT ![s] = "co"]
        /\ UNCHANGED <<isSchedule, handed, poolVars, waiting, call, nTasks,
                       added>>

\* The queue is seen empty; is_schedule is cleared in a step of its own.
SeeEmpty(s) == /\ pc[s] = "handle"
               /\ ready[s] = <<>>
               /\ pc' = [pc EXCEPT ![s] = "clear"]
               /\ UNCHANGED <<schedVars, poolVars, waiting, now, call,
                              histVars>>

\* (mistake) is_schedule is never cleared.
ClearFlag_Never(s) ==
    /\ pc[s] = "clear"
    /\ pc' = [pc EXCEPT ![s] = "loop"]
    /\ UNCHANGED <<schedVars, poolVars, waiting, now, call, histVars>>

ClearFlag(s) ==
    /\ pc[s] = "clear"
    /\ isSchedule' = [isSchedule EXCEPT ![s] = FALSE]
    /\ pc' = [pc EXCEPT ![s] = "loop"]
    /\ UNCHANGED <<ready, handed, poolVars, waiting, now, call, histVars>>

\* co_read, co_write, co_accept or co_sleep finds nothing to do: the
\* coroutine parks itself and yields.
Block(s) == /\ pc[s] = "co" /\ ~InCall(s)
            /\ waiting' = [waiting EXCEPT ![s] = @ \cup {now[s]}]
            /\ pc' = [pc EXCEPT ![s] = "handle"]
            /\ UNCHANGED <<schedVars, poolVars, now, call, histVars>>

\* co_sleep whose timer is already due: EventLoop::add_timer calls
\* schedule_co(now_co) while it holds the loop's mutex.  With is_schedule
\* cleared, schedule_co calls add_callback_after, which locks it again.
SleepDue(s) ==
    /\ DueSleeps
    /\ pc[s] = "co" /\ ~InCall(s)
    /\ ready' = [ready EXCEPT ![s] = Append(@, now[s])]
    /\ pc' = [pc EXCEPT ![s] = IF isSchedule[s] THEN "handle" ELSE "relock"]
    /\ UNCHANGED <<isSchedule, handed, poolVars, waiting, now, call, histVars>>

\* The callback returns: co_map.erase destroys the pool channel, whose
\* destructor gives the Coroutine back without the pool's mutex.  The thread
\* is still on that coroutine's stack.
Finish(s) ==
    /\ pc[s] = "co" /\ ~InCall(s)
    /\ coMap' = [coMap EXCEPT ![s] = @ \ {now[s]}]
    /\ free' = Append(free, now[s])
    /\ count' = count - 1
    /\ pc' = [pc EXCEPT ![s] = "finishing"]
    /\ UNCHANGED <<schedVars, body, waiting, now, call, histVars>>

\* co->yield() of co_fun leaves that stack for the last time.
LastYield(s) == /\ pc[s] = "finishing"
                /\ pc' = [pc EXCEPT ![s] = "handle"]
                /\ UNCHANGED <<schedVars, poolVars, waiting, now, call,
                               histVars>>

-----------------------------------------------------------------------------
CallStep(t) == GetChannel(t) \/ PushNew(t) \/ CheckFlag(t) \/ HandOver(t)
                 \/ SetFlag(t)

HandleStep(s) == BeginHandle(s) \/ Resume(s) \/ SeeEmpty(s) \/ ClearFlag(s)
                   \/ LastYield(s)

\* Every loop sleeps in epoll_wait with nothing left to run: not a deadlock.
Idle == /\ \A s \in Scheds : pc[s] = "loop" /\ ready[s] = <<>> /\ handed[s] = 0
        /\ \A t \in Threads : ~InCall(t)
        /\ UNCHANGED vars

Next ==
    \/ \E t \in Threads : CallStep(t)
    \/ Start
    \/ \E s \in Scheds :
          \/ BootAdd(s) \/ HandleStep(s)
          \/ Block(s) \/ SleepDue(s) \/ Finish(s)
          \/ \E u \in Scheds : CoAdd(s, u)
          \/ \E c \in Cos : Wake(s, c)
    \/ Idle

Spec == Init /\ [][Next]_vars

\* The threads run, a coroutine that is resumed blocks or returns in the end
\* (a coroutine that is not woken may park for ever), and an event loop runs
\* the callbacks it was handed.
Fairness ==
    /\ WF_vars(Start)
    /\ \A t \in Threads : WF_vars(CallStep(t))
    /\ \A s \in Scheds : WF_vars(HandleStep(s)) /\ WF_vars(Block(s) \/ Finish(s))

FairSpec == Spec /\ Fairness

-----------------------------------------------------------------------------
(* Correctness.                                                             *)

\* Every variable has its type.
TypeOK ==
    /\ ready \in [Scheds -> Seq(Cos)]
    /\ isSchedule \in [Scheds -> BOOLEAN]
    /\ handed \in [Scheds -> Nat]
    /\ coMap \in [Scheds -> SUBSET Cos]
    /\ waiting \in [Scheds -> SUBSET Cos]
    /\ now \in [Scheds -> Cos \cup {None}]
    /\ pc \in [Scheds -> {"new", "loop", "handle", "co", "finishing", "clear",
                          "relock"}]
    /\ call \in [Threads -> [at : {"none", "get", "push", "check", "hand",
                                   "flag"},
                             to : Scheds \cup {None}, co : Cos \cup {None},
                             task : Nat]]
    /\ free \in Seq(Cos)
    /\ count \in Nat
    /\ body \in [Cos -> Nat]
    /\ nTasks \in 0..MaxTasks
    /\ added \in [Scheds -> Seq(Nat)] /\ begun \in [Scheds -> Seq(Nat)]

\* A scheduler that has coroutines to run will run them: unless its handle_co
\* is in the loop's list or running, or a schedule_co for it is in progress,
\* the ready queue is empty (the drain of handle_co against schedule_co).  Nor
\* does is_schedule outlive the handle_co it stands for: were it left set, no
\* later schedule_co would hand one over again.
Scheduling(s) == \/ handed[s] > 0
                 \/ pc[s] \in {"handle", "co", "finishing"}
                 \/ \E t \in Threads : call[t].at \in {"check", "hand"}
                                          /\ call[t].to = s
NoStuckQueue ==
    \A s \in Scheds :
        /\ ready[s] # <<>> => Scheduling(s)
        /\ isSchedule[s] => handed[s] > 0
                              \/ pc[s] \in {"handle", "co", "finishing", "clear"}

\* A coroutine that is resumed is one the scheduler owns, parked nowhere else
\* and queued once: no stack is entered twice or after its callback returned.
\* So callbacks begin in the order of their add_callback, each once.
ResumesOwned ==
    \A s \in Scheds :
        /\ Queued(s) \subseteq coMap[s]
        /\ waiting[s] \subseteq coMap[s]
        /\ Queued(s) \cap waiting[s] = {}
        /\ \A i, j \in DOMAIN ready[s] : ready[s][i] = ready[s][j] => i = j
        /\ begun[s] = SubSeq(added[s], 1, Len(begun[s]))

\* Every callback given to add_callback begins.
TaskBegins ==
    \A s \in Scheds : \A n \in 1..MaxTasks :
        (\E i \in DOMAIN added[s] : added[s][i] = n)
            ~> (\E i \in DOMAIN begun[s] : begun[s][i] = n)

-----------------------------------------------------------------------------
(* Two things the code needs and does not have once a second thread adds    *)
(* tasks.  No run claims them: with the constants of co_across and          *)
(* DueSleeps = TRUE, TLC finds a state against each as an INVARIANT.        *)

\* A co_sleep whose timer is already due makes the loop's thread lock the
\* mutex it holds, unless is_schedule is set.  The other thread's schedule_co
\* has handed handle_co over and not yet set the flag when it begins.
NoSelfDeadlock == \A s \in Scheds : pc[s] # "relock"

\* set_callback resets the registers and the stack of a Coroutine from the
\* pool, on which its last thread may still be, before the yield of co_fun.
StackExclusive ==
    \A s \in Scheds :
        pc[s] = "finishing" =>
            /\ \A u \in Scheds : now[s] \notin coMap[u]
            /\ \A t \in Threads : call[t].at = "push" => call[t].co # now[s]
=============================================================================
