------------------------------ MODULE CoIoProofs ------------------------------
(***************************************************************************)
(* Theorems about CoScheduler and CoIo for one scheduler, as a server with *)
(* one thread has it, any set of coroutines and any number of tasks.       *)
(*                                                                         *)
(* First the scheduler by itself: its queue is never left with nobody to   *)
(* drain it, each coroutine is in one place and callbacks begin in order.  *)
(* Then the coroutine I/O: CoIo implements CoScheduler, so all of this     *)
(* holds with the fds, and a coroutine that waits on an fd is the one its  *)
(* channel calls, and finds what it waited for.                            *)
(***************************************************************************)
EXTENDS CoIo, FiniteSetTheorems, TLAPS

-----------------------------------------------------------------------------
(* The scheduler.                                                           *)

\* What a thread may be inside of.
CallRecs == [at : {"none", "get", "push", "check", "hand", "flag"},
             to : Scheds \cup {None}, co : Cos \cup {None}, task : Nat]

\* TypeOK without the pool's count, which is a number for another reason
\* (CoTyped).
Types ==
    /\ ready \in [Scheds -> Seq(Cos)]
    /\ isSchedule \in [Scheds -> BOOLEAN]
    /\ handed \in [Scheds -> Nat]
    /\ coMap \in [Scheds -> SUBSET Cos]
    /\ waiting \in [Scheds -> SUBSET Cos]
    /\ now \in [Scheds -> Cos \cup {None}]
    /\ pc \in [Scheds -> {"new", "loop", "handle", "co", "finishing", "clear",
                          "relock"}]
    /\ call \in [Threads -> CallRecs]
    /\ free \in Seq(Cos)
    /\ body \in [Cos -> Nat]
    /\ nTasks \in 0..MaxTasks
    /\ added \in [Scheds -> Seq(Nat)] /\ begun \in [Scheds -> Seq(Nat)]

Elems(q) == {q[i] : i \in DOMAIN q}
Distinct(q) == \A i, j \in DOMAIN q : q[i] = q[j] => i = j

\* One thread at a time is inside a call, the one that fills the scheduler or
\* the loop's; is_schedule is set exactly while a handle_co is handed over or
\* runs, but for the step between the two statements of schedule_co.
Flags ==
    \A s \in Scheds :
        /\ \A t \in Threads :
              InCall(t) => /\ call[t].to = s
                           /\ t = Boot => pc[s] = "new"
                           /\ t = s => pc[s] \in {"loop", "co"}
        /\ isSchedule[s] =>
              /\ \/ handed[s] = 1 /\ pc[s] \in {"new", "loop"}
                 \/ handed[s] = 0 /\ pc[s] \in {"handle", "co", "finishing", "clear"}
              /\ \A t \in Threads : call[t].at \notin {"hand", "flag"}
        /\ ~isSchedule[s] =>
              /\ pc[s] \in {"new", "loop"}
              /\ handed[s] = 1 \/ \A t \in Threads : call[t].at # "flag"
              /\ handed[s] = 0 \/ \E t \in Threads : call[t].at = "flag"
        /\ ready[s] # <<>> =>
              \/ isSchedule[s] /\ pc[s] # "clear"
              \/ \E t \in Threads : call[t].at \in {"check", "hand", "flag"}

\* A coroutine is in one place: in the pool, about to be pushed, or in co_map
\* and there queued once, parked, or running.
PlacesOf(s) ==
    /\ Elems(ready[s]) \subseteq coMap[s]
    /\ waiting[s] \subseteq coMap[s]
    /\ Elems(ready[s]) \cap waiting[s] = {}
    /\ Distinct(ready[s])
    /\ pc[s] = "co" => now[s] \in coMap[s] \ (Elems(ready[s]) \cup waiting[s])
    /\ pc[s] = "finishing" => now[s] \in Cos \ coMap[s]
    /\ Elems(free) \cap coMap[s] = {}
    /\ Distinct(free)
    /\ \A t \in Threads :
          call[t].at = "push" => call[t].co \in Cos \ (coMap[s] \cup Elems(free))

Places == \A s \in Scheds : PlacesOf(s)

\* The tasks are numbered in the order of add_callback.  Those that have not
\* begun are queued, in that order.
InOrder(s) ==
    /\ \A n \in Len(begun[s]) + 1..Len(added[s]) :
          \E j \in DOMAIN ready[s] : body[ready[s][j]] = n
    /\ \A j, k \in DOMAIN ready[s] :
          j < k /\ body[ready[s][k]] > Len(begun[s]) =>
              body[ready[s][j]] < body[ready[s][k]]

TasksOf(s) ==
    /\ \A i \in DOMAIN added[s] : added[s][i] = i
    /\ \A i \in DOMAIN begun[s] : begun[s][i] = i
    /\ Len(begun[s]) <= Len(added[s])
    /\ \A t \in Threads :
          call[t].at \in {"get", "push"} =>
              call[t].task = nTasks /\ nTasks = Len(added[s]) + 1
    /\ (\A t \in Threads : call[t].at \notin {"get", "push"}) =>
          nTasks = Len(added[s])
    /\ \A c \in coMap[s] : body[c] \in 1..Len(added[s])
    /\ \A c, d \in coMap[s] : body[c] = body[d] => c = d
    /\ \A c \in waiting[s] : body[c] <= Len(begun[s])
    /\ pc[s] = "co" => body[now[s]] <= Len(begun[s])
    /\ InOrder(s)

Tasks == \A s \in Scheds : TasksOf(s)

\* The pool's count: the coroutines in co_map, and one about to be pushed.
Pushers == {t \in Threads : call[t].at = "push"}
PoolOf(s) ==
    /\ IsFiniteSet(coMap[s])
    /\ count = Cardinality(coMap[s]) + Cardinality(Pushers)
Pool == \A s \in Scheds : PoolOf(s)

CoInv == Types /\ Flags /\ Places /\ Tasks /\ Pool

-----------------------------------------------------------------------------
(* The queues.                                                              *)

LEMMA TailOf ==
  ASSUME NEW S, NEW q \in Seq(S), q # <<>>
  PROVE  /\ Head(q) \in S /\ Head(q) = q[1] /\ Len(q) \in Nat \ {0}
         /\ Tail(q) \in Seq(S) /\ Len(Tail(q)) = Len(q) - 1
         /\ DOMAIN q = 1..Len(q) /\ DOMAIN Tail(q) = 1..Len(q) - 1
         /\ \A i \in 1..Len(q) - 1 : Tail(q)[i] = q[i + 1]
OBVIOUS

LEMMA TailElems ==
  ASSUME NEW S, NEW q \in Seq(S), q # <<>>, Distinct(q)
  PROVE  /\ Head(q) \in Elems(q) /\ Elems(Tail(q)) = Elems(q) \ {Head(q)}
         /\ Distinct(Tail(q))
<1> DEFINE p == Tail(q)
           n == Len(q)
<1>1. /\ Head(q) = q[1] /\ n \in Nat \ {0} /\ DOMAIN q = 1..n
      /\ DOMAIN p = 1..n - 1 /\ \A i \in 1..n - 1 : p[i] = q[i + 1]
  BY TailOf
<1> HIDE DEF p, n
<1>2. Head(q) \in Elems(q)
  BY <1>1 DEF Elems
<1>3. Elems(p) \subseteq Elems(q) \ {Head(q)}
  BY <1>1 DEF Elems, Distinct
<1>4. ASSUME NEW x \in Elems(q) \ {Head(q)} PROVE x \in Elems(p)
  <2>1. PICK i \in 1..n : x = q[i]
    BY <1>1 DEF Elems
  <2>2. i - 1 \in 1..n - 1 /\ x = p[i - 1]
    BY <1>1, <2>1
  <2>3. QED
    BY <1>1, <2>2 DEF Elems
<1>5. Distinct(p)
  <2>1. ASSUME NEW i \in 1..n - 1, NEW j \in 1..n - 1, p[i] = p[j] PROVE i = j
    <3>1. i + 1 \in 1..n /\ j + 1 \in 1..n /\ q[i + 1] = q[j + 1]
      BY <1>1, <2>1
    <3>2. i + 1 = j + 1
      BY <1>1, <3>1 DEF Distinct
    <3>3. QED
      BY <3>2
  <2>2. QED
    BY <1>1, <2>1 DEF Distinct
<1>6. QED
  BY <1>2, <1>3, <1>4, <1>5 DEF p

LEMMA AppendOf ==
  ASSUME NEW S, NEW q \in Seq(S), NEW c \in S
  PROVE  /\ Append(q, c) \in Seq(S) /\ Len(Append(q, c)) = Len(q) + 1
         /\ Len(q) \in Nat /\ DOMAIN q = 1..Len(q)
         /\ DOMAIN Append(q, c) = 1..Len(q) + 1
         /\ \A i \in 1..Len(q) : Append(q, c)[i] = q[i]
         /\ Append(q, c)[Len(q) + 1] = c
OBVIOUS

LEMMA AppendElems ==
  ASSUME NEW S, NEW q \in Seq(S), NEW c \in S
  PROVE  /\ Elems(Append(q, c)) = Elems(q) \cup {c}
         /\ Distinct(q) /\ c \notin Elems(q) => Distinct(Append(q, c))
<1> DEFINE p == Append(q, c)
           n == Len(q)
<1>1. /\ n \in Nat /\ DOMAIN q = 1..n /\ DOMAIN p = 1..n + 1
      /\ p[n + 1] = c /\ \A i \in 1..n : p[i] = q[i]
  BY AppendOf
<1> HIDE DEF p, n
<1>2. Elems(p) = Elems(q) \cup {c}
  BY <1>1 DEF Elems
<1>3. ASSUME Distinct(q), c \notin Elems(q) PROVE Distinct(p)
  <2>1. \A i \in 1..n : q[i] # c
    BY <1>1, <1>3 DEF Elems
  <2>2. QED
    BY <1>1, <1>3, <2>1 DEF Distinct
<1>4. QED
  BY <1>2, <1>3 DEF p

-----------------------------------------------------------------------------
(* What each step of a call does to it.                                     *)

Others(t) == \A r \in Threads : r # t => call'[r] = call[r]

LEMMA GiveCo ==
  ASSUME NEW f \in [Threads -> CallRecs], NEW t \in Threads, NEW c \in Cos,
         NEW g, g = [f EXCEPT ![t].co = c]
  PROVE  /\ g \in [Threads -> CallRecs]
         /\ g[t].at = f[t].at /\ g[t].co = c
         /\ g[t].to = f[t].to /\ g[t].task = f[t].task
         /\ \A r \in Threads : r # t => g[r] = f[r]
BY DEF CallRecs

LEMMA GetChannelCall ==
  ASSUME call \in [Threads -> CallRecs], NEW t \in Threads, GetChannel(t),
         Obtained \in Cos
  PROVE  /\ call' \in [Threads -> CallRecs] /\ Others(t)
         /\ call[t].at = "get" /\ call'[t].at = "push" /\ call'[t].co = Obtained
         /\ call'[t].to = call[t].to /\ call'[t].task = call[t].task
<1> DEFINE h == [call EXCEPT ![t].at = "push"]
<1>1. /\ h \in [Threads -> CallRecs]
      /\ h[t].at = "push" /\ h[t].to = call[t].to /\ h[t].task = call[t].task
      /\ \A r \in Threads : r # t => h[r] = call[r]
  BY DEF CallRecs
<1>2. call[t].at = "get" /\ call' = [h EXCEPT ![t].co = Obtained]
  BY DEF GetChannel
<1> HIDE DEF h
<1>3. QED
  BY <1>1, <1>2, GiveCo DEF Others

LEMMA PushNewCall ==
  ASSUME call \in [Threads -> CallRecs], NEW t \in Threads, PushNew(t)
  PROVE  /\ call' \in [Threads -> CallRecs] /\ Others(t)
         /\ call[t].at = "push" /\ call'[t].at = "check" 
         /\ call'[t].to = call[t].to /\ call'[t].task = call[t].task
BY DEF PushNew, CallRecs, Others

LEMMA HandOverCall ==
  ASSUME call \in [Threads -> CallRecs], NEW t \in Threads, HandOver(t)
  PROVE  /\ call' \in [Threads -> CallRecs] /\ Others(t)
         /\ call[t].at = "hand" /\ call'[t].at = "flag" 
         /\ call'[t].to = call[t].to /\ call'[t].task = call[t].task
BY DEF HandOver, CallRecs, Others

LEMMA CheckFlagCall ==
  ASSUME call \in [Threads -> CallRecs], NEW t \in Threads, CheckFlag(t)
  PROVE  /\ call' \in [Threads -> CallRecs] /\ Others(t)
         /\ call[t].at = "check"
         /\ IF isSchedule[call[t].to] THEN call'[t] = NoCall
            ELSE call'[t].at = "hand" /\ call'[t].to = call[t].to
<1>1. CASE isSchedule[call[t].to]
  <2>1. call' = [call EXCEPT ![t] = NoCall] /\ call[t].at = "check"
    BY <1>1 DEF CheckFlag
  <2>2. NoCall \in CallRecs
    BY DEF NoCall, CallRecs
  <2>3. QED
    BY <1>1, <2>1, <2>2 DEF Others
<1>2. CASE ~isSchedule[call[t].to]
  <2>1. call' = [call EXCEPT ![t].at = "hand"] /\ call[t].at = "check"
    BY <1>2 DEF CheckFlag
  <2>2. QED
    BY <1>2, <2>1 DEF Others, CallRecs
<1>3. QED
  BY <1>1, <1>2

LEMMA SetFlagCall ==
  ASSUME call \in [Threads -> CallRecs], NEW t \in Threads, SetFlag(t)
  PROVE  /\ call' \in [Threads -> CallRecs] /\ Others(t)
         /\ call[t].at = "flag" /\ call'[t] = NoCall
<1>1. NoCall \in CallRecs
  BY DEF NoCall, CallRecs
<1>2. QED
  BY <1>1 DEF SetFlag, Others
-----------------------------------------------------------------------------
LEMMA CoInit == ASSUME NEW s, Scheds = {s}, Init PROVE CoInv
<1> USE CoAssumption DEF Init, Threads
<1>1. Types
  <2>1. /\ ready \in [Scheds -> Seq(Cos)] /\ free \in Seq(Cos)
        /\ added \in [Scheds -> Seq(Nat)] /\ begun \in [Scheds -> Seq(Nat)]
    OBVIOUS
  <2>2. nTasks \in 0..MaxTasks /\ body \in [Cos -> Nat]
    OBVIOUS
  <2>3. call \in [Threads -> CallRecs]
    BY DEF NoCall, CallRecs
  <2>4. /\ isSchedule \in [Scheds -> BOOLEAN] /\ handed \in [Scheds -> Nat]
        /\ coMap \in [Scheds -> SUBSET Cos] /\ waiting \in [Scheds -> SUBSET Cos]
        /\ now \in [Scheds -> Cos \cup {None}]
        /\ pc \in [Scheds -> {"new", "loop", "handle", "co", "finishing", "clear",
                              "relock"}]
    OBVIOUS
  <2>5. QED
    BY <2>1, <2>2, <2>3, <2>4 DEF Types
<1>2. Flags
  BY DEF Flags, InCall, NoCall
<1>3. Places
  BY DEF Places, PlacesOf, NoCall, Elems, Distinct
<1>4. Tasks
  BY DEF Tasks, TasksOf, InOrder, NoCall
<1>5. Pool
  <2>1. Pushers = {} /\ coMap[s] = {}
    BY DEF Pushers, NoCall
  <2>2. IsFiniteSet({}) /\ Cardinality({}) = 0
    BY FS_EmptySet
  <2>3. count = 0
    OBVIOUS
  <2>4. /\ IsFiniteSet(coMap[s]) /\ Cardinality(coMap[s]) = 0
        /\ Cardinality(Pushers) = 0
    BY <2>1, <2>2
  <2>5. PoolOf(s)
    BY <2>3, <2>4 DEF PoolOf
  <2>6. QED
    BY <2>5 DEF Pool
<1>6. QED
  BY <1>1, <1>2, <1>3, <1>4, <1>5 DEF CoInv

-----------------------------------------------------------------------------
(* The discipline of is_schedule.                                           *)

LEMMA ObtainedType ==
  ASSUME free \in Seq(Cos), NEW t \in Threads, GetChannel(t)
  PROVE  Obtained \in Cos
BY DEF GetChannel, Obtained, Unused

LEMMA FlagsCall ==
  ASSUME NEW s, Scheds = {s}, CoInv, NEW t \in Threads, CallStep(t)
  PROVE  Flags'
<1> USE CoAssumption DEF CoInv, Threads, InCall, NoCall, Types, Flags,
        Others, schedVars, poolVars, histVars
<1>1. CASE GetChannel(t)
  <2>1. /\ call[t].at = "get" /\ call'[t].at = "push"
        /\ call'[t].to = call[t].to
        /\ \A r \in Threads : r # t => call'[r] = call[r]
    BY <1>1, ObtainedType, GetChannelCall
  <2>2. UNCHANGED <<ready, isSchedule, handed, pc>>
    BY <1>1 DEF GetChannel
  <2>3. \A r \in Threads : call'[r].at \in {"check", "hand", "flag"}
                             <=> call[r].at \in {"check", "hand", "flag"}
    BY <2>1
  <2>4. QED
    BY <2>1, <2>2, <2>3
<1>2. CASE PushNew(t)
  <2>1. /\ call[t].at = "push" /\ call'[t].at = "check"
        /\ call'[t].to = call[t].to
        /\ \A r \in Threads : r # t => call'[r] = call[r]
    BY <1>2, PushNewCall
  <2>2. isSchedule' = isSchedule /\ handed' = handed /\ pc' = pc
    BY <1>2 DEF PushNew
  <2>3. \A r \in Threads : call'[r].at = "flag" <=> call[r].at = "flag"
    BY <2>1
  <2>4. QED
    BY <2>1, <2>2, <2>3
<1>3. CASE CheckFlag(t)
  BY <1>3, CheckFlagCall DEF CheckFlag
<1>4. CASE HandOver(t)
  BY <1>4, HandOverCall DEF HandOver
<1>5. CASE SetFlag(t)
  BY <1>5, SetFlagCall DEF SetFlag
<1>6. QED
  BY <1>1, <1>2, <1>3, <1>4, <1>5 DEF CallStep

LEMMA FlagsLoop ==
  ASSUME NEW s, Scheds = {s}, CoInv,
         \/ HandleStep(s) \/ Start \/ BootAdd(s) \/ CoAdd(s, s)
         \/ Block(s) \/ SleepDue(s) \/ Finish(s) \/ \E c \in Cos : Wake(s, c)
  PROVE  Flags'
<1> USE CoAssumption DEF CoInv, Threads, InCall, NoCall, Types, Flags,
        CallRecs, schedVars, poolVars, histVars
<1>1. CASE BeginHandle(s)
  BY <1>1 DEF BeginHandle
<1>2. CASE Resume(s)
  BY <1>2 DEF Resume
<1>3. CASE SeeEmpty(s) \/ ClearFlag(s) \/ LastYield(s)
  BY <1>3 DEF SeeEmpty, ClearFlag, LastYield
<1>4. CASE Start
  BY <1>4, SMTT(30) DEF Start
<1>5. CASE BootAdd(s) \/ CoAdd(s, s)
  <2>1. ASSUME NEW t \in Threads, BeginAdd(t, s), ~InCall(t),
               \/ t = Boot /\ pc[s] = "new"
               \/ t = s /\ pc[s] = "co"
        PROVE  Flags'
    <3>1. UNCHANGED <<ready, isSchedule, handed, pc>>
      BY <2>1 DEF BeginAdd
    <3>2. /\ call'[t].at = "get" /\ call'[t].to = s /\ call[t].at = "none"
          /\ \A r \in Threads : r # t => call'[r] = call[r]
      BY <2>1 DEF BeginAdd, Call
    <3>3. QED
      BY <2>1, <3>1, <3>2, SMTT(30)
  <2>2. CASE BootAdd(s)
    <3>1. Boot \in Threads /\ pc[s] = "new" /\ BeginAdd(Boot, s) /\ ~InCall(Boot)
      BY <2>2 DEF BootAdd
    <3>2. QED
      BY <2>1, <3>1
  <2>3. CASE CoAdd(s, s)
    <3>1. s \in Threads /\ pc[s] = "co" /\ BeginAdd(s, s) /\ ~InCall(s)
      BY <2>3 DEF CoAdd
    <3>2. QED
      BY <2>1, <3>1
  <2>4. QED
    BY <1>5, <2>2, <2>3
<1>6. CASE Block(s) \/ Finish(s)
  BY <1>6, SMTT(30) DEF Block, Finish
<1>7. CASE SleepDue(s)
  BY <1>7 DEF SleepDue
<1>8. ASSUME NEW c \in Cos, Wake(s, c) PROVE Flags'
  BY <1>8 DEF Wake, Call
<1>9. QED
  BY <1>1, <1>2, <1>3, <1>4, <1>5, <1>6, <1>7, <1>8 DEF HandleStep

-----------------------------------------------------------------------------
(* Types.                                                                   *)

LEMMA TypesCall ==
  ASSUME NEW s, Scheds = {s}, CoInv, NEW t \in Threads, CallStep(t)
  PROVE  Types'
<1> USE CoAssumption DEF CoInv, Threads, Types, schedVars, poolVars, histVars
<1>1. CASE GetChannel(t)
  <2>1. free' \in Seq(Cos)
    BY <1>1, TailOf DEF GetChannel
  <2>2. call' \in [Threads -> CallRecs]
    BY <1>1, ObtainedType, GetChannelCall
  <2>3. UNCHANGED <<ready, isSchedule, handed, coMap, waiting, now, pc, body,
                    nTasks, added, begun>>
    BY <1>1 DEF GetChannel
  <2>4. QED
    BY <2>1, <2>2, <2>3
<1>2. CASE PushNew(t)
  <2>1. call[t].to = s /\ call[t].co \in Cos /\ call[t].task \in Nat
    <3>1. call[t].at = "push" /\ call[t] \in CallRecs
      BY <1>2 DEF PushNew
    <3>2. call[t].to = s
      BY <3>1 DEF Flags, InCall
    <3>3. call[t].co \in Cos
      BY <3>1 DEF Places, PlacesOf
    <3>4. QED
      BY <3>1, <3>2, <3>3 DEF CallRecs
  <2>2. /\ Append(ready[s], call[t].co) \in Seq(Cos)
        /\ Append(added[s], call[t].task) \in Seq(Nat)
    BY <2>1, AppendOf
  <2>3. call' \in [Threads -> CallRecs]
    BY <1>2, PushNewCall
  <2>4. QED
    BY <1>2, <2>1, <2>2, <2>3 DEF PushNew
<1>3. CASE CheckFlag(t)
  BY <1>3, CheckFlagCall DEF CheckFlag
<1>4. CASE HandOver(t)
  <2>1. call[t].to = s
    BY <1>4 DEF HandOver, Flags, InCall
  <2>2. handed' \in [Scheds -> Nat]
    BY <1>4, <2>1 DEF HandOver
  <2>3. call' \in [Threads -> CallRecs]
    BY <1>4, HandOverCall
  <2>4. QED
    BY <1>4, <2>2, <2>3 DEF HandOver
<1>5. CASE SetFlag(t)
  BY <1>5, SetFlagCall DEF SetFlag
<1>6. QED
  BY <1>1, <1>2, <1>3, <1>4, <1>5 DEF CallStep

LEMMA TypesLoop ==
  ASSUME NEW s, Scheds = {s}, CoInv,
         \/ HandleStep(s) \/ Start \/ BootAdd(s) \/ CoAdd(s, s)
         \/ Block(s) \/ SleepDue(s) \/ Finish(s) \/ \E c \in Cos : Wake(s, c)
  PROVE  Types'
<1> USE CoAssumption DEF CoInv, Threads, Types, schedVars, poolVars, histVars
<1>1. CASE BeginHandle(s)
  BY <1>1 DEF BeginHandle
<1>2. CASE Resume(s)
  <2>1. Head(ready[s]) \in Cos /\ Tail(ready[s]) \in Seq(Cos)
    BY <1>2 DEF Resume
  <2>2. begun' \in [Scheds -> Seq(Nat)]
    BY <1>2, <2>1 DEF Resume
  <2>3. QED
    BY <1>2, <2>1, <2>2 DEF Resume
<1>3. CASE SeeEmpty(s) \/ ClearFlag(s) \/ LastYield(s)
  BY <1>3 DEF SeeEmpty, ClearFlag, LastYield
<1>4. CASE Start
  BY <1>4 DEF Start
<1>5. CASE BootAdd(s) \/ CoAdd(s, s)
  <2>1. nTasks' \in 0..MaxTasks /\ nTasks' \in Nat
    BY <1>5 DEF BootAdd, CoAdd, BeginAdd
  <2>2. PICK t \in Threads :
          call' = [call EXCEPT ![t] = Call("get", s, None, nTasks + 1)]
    BY <1>5 DEF BootAdd, CoAdd, BeginAdd
  <2>3. Call("get", s, None, nTasks + 1) \in CallRecs
    BY DEF Call, CallRecs
  <2>4. call' \in [Threads -> CallRecs]
    BY <2>2, <2>3
  <2>5. QED
    BY <1>5, <2>1, <2>4 DEF BootAdd, CoAdd, BeginAdd
<1>6. CASE Block(s) \/ Finish(s) \/ SleepDue(s)
  <2>1. now[s] \in Cos
    BY <1>6 DEF Block, Finish, SleepDue, Places, PlacesOf
  <2>2. CASE Block(s)
    BY <2>1, <2>2 DEF Block
  <2>3. CASE Finish(s)
    BY <2>1, <2>3 DEF Finish
  <2>4. CASE SleepDue(s)
    BY <2>1, <2>4 DEF SleepDue
  <2>5. QED
    BY <1>6, <2>2, <2>3, <2>4
<1>7. ASSUME NEW c \in Cos, Wake(s, c) PROVE Types'
  <2>1. Call("check", s, c, 0) \in CallRecs
    BY DEF Call, CallRecs
  <2>2. call' \in [Threads -> CallRecs]
    BY <1>7, <2>1 DEF Wake
  <2>3. Append(ready[s], c) \in Seq(Cos)
    OBVIOUS
  <2>4. QED
    BY <1>7, <2>2, <2>3 DEF Wake
<1>8. QED
  BY <1>1, <1>2, <1>3, <1>4, <1>5, <1>6, <1>7 DEF HandleStep

-----------------------------------------------------------------------------
(* Where the coroutines are.                                                *)

LEMMA PlacesCall ==
  ASSUME NEW s, Scheds = {s}, CoInv, NEW t \in Threads, CallStep(t)
  PROVE  Places'
<1> SUFFICES PlacesOf(s)'
  BY DEF Places
<1> USE CoAssumption DEF CoInv, Threads, Types, Places, PlacesOf, Others, schedVars,
        poolVars, histVars
<1>1. CASE GetChannel(t)
  <2>1. \A r \in Threads : r # t => call[r].at # "push"
    BY <1>1 DEF GetChannel, Flags, InCall
  <2>2. /\ Obtained \in Cos \ (coMap[s] \cup Elems(free'))
        /\ Elems(free') \subseteq Elems(free) /\ Distinct(free')
    <3>1. CASE free # <<>>
      BY <1>1, <3>1, TailElems, ObtainedType DEF GetChannel, Obtained
    <3>2. CASE free = <<>>
      BY <1>1, <3>2, ObtainedType DEF GetChannel, Obtained, Unused, Elems
    <3>3. QED
      BY <3>1, <3>2
  <2>3. /\ call'[t].co = Obtained /\ Others(t)
        /\ UNCHANGED <<ready, coMap, waiting, now, pc>>
    BY <1>1, ObtainedType, GetChannelCall DEF GetChannel
  <2>4. QED
    BY <2>1, <2>2, <2>3
<1>2. CASE PushNew(t)
  <2>1. /\ call[t].to = s /\ call[t].co \in Cos \ (coMap[s] \cup Elems(free))
        /\ \A r \in Threads : r # t => call[r].at # "push"
        /\ pc[s] \in {"new", "loop", "co"}
    <3>1. call[t].at = "push"
      BY <1>2 DEF PushNew
    <3>2. /\ call[t].to = s /\ pc[s] \in {"new", "loop", "co"}
          /\ \A r \in Threads : r # t => call[r].at # "push"
      BY <3>1 DEF Flags, InCall
    <3>3. QED
      BY <3>1, <3>2
  <2>2. /\ ready'[s] = Append(ready[s], call[t].co)
        /\ coMap'[s] = coMap[s] \cup {call[t].co}
        /\ UNCHANGED <<waiting, pc, now, free>>
        /\ call'[t].at = "check" /\ Others(t)
    BY <1>2, <2>1, PushNewCall DEF PushNew
  <2>3. /\ Elems(ready'[s]) = Elems(ready[s]) \cup {call[t].co}
        /\ Distinct(ready'[s])
    <3>1. ready[s] \in Seq(Cos) /\ call[t].co \in Cos \ Elems(ready[s])
      BY <2>1
    <3>2. QED
      BY <2>2, <3>1, AppendElems
  <2>4. \A r \in Threads : call'[r].at # "push"
    BY <2>1, <2>2
  <2>5. QED
    BY <2>1, <2>2, <2>3, <2>4
<1>3. CASE CheckFlag(t)
  BY <1>3, CheckFlagCall DEF CheckFlag, NoCall
<1>4. CASE HandOver(t)
  BY <1>4, HandOverCall DEF HandOver
<1>5. CASE SetFlag(t)
  BY <1>5, SetFlagCall DEF SetFlag, NoCall
<1>6. QED
  BY <1>1, <1>2, <1>3, <1>4, <1>5 DEF CallStep

LEMMA PlacesLoop ==
  ASSUME NEW s, Scheds = {s}, CoInv,
         \/ HandleStep(s) \/ Start \/ BootAdd(s) \/ CoAdd(s, s)
         \/ Block(s) \/ SleepDue(s) \/ Finish(s) \/ \E c \in Cos : Wake(s, c)
  PROVE  Places'
<1> SUFFICES PlacesOf(s)'
  BY DEF Places
<1> USE CoAssumption DEF CoInv, Threads, Types, Places, PlacesOf, schedVars,
        poolVars, histVars
<1>1. CASE BeginHandle(s) \/ SeeEmpty(s) \/ ClearFlag(s) \/ LastYield(s)
  BY <1>1 DEF BeginHandle, SeeEmpty, ClearFlag, LastYield
<1>2. CASE Resume(s)
  <2>1. /\ ready'[s] = Tail(ready[s]) /\ now'[s] = Head(ready[s])
        /\ pc'[s] = "co" /\ UNCHANGED <<coMap, waiting, free, call>>
    BY <1>2 DEF Resume
  <2>2. /\ Head(ready[s]) \in Elems(ready[s])
        /\ Elems(ready'[s]) = Elems(ready[s]) \ {Head(ready[s])}
        /\ Distinct(ready'[s])
    BY <1>2, <2>1, TailElems DEF Resume
  <2>3. QED
    BY <2>1, <2>2
<1>3. CASE Start
  BY <1>3 DEF Start
<1>4. CASE BootAdd(s) \/ CoAdd(s, s)
  BY <1>4 DEF BootAdd, CoAdd, BeginAdd, Call
<1>5. CASE Block(s)
  BY <1>5 DEF Block
<1>6. CASE SleepDue(s)
  <2>1. /\ ready'[s] = Append(ready[s], now[s]) /\ now[s] \in Cos
        /\ pc'[s] \in {"handle", "relock"}
        /\ now[s] \in coMap[s] \ (Elems(ready[s]) \cup waiting[s])
        /\ UNCHANGED <<coMap, waiting, free, call, now>>
    BY <1>6 DEF SleepDue
  <2>2. /\ Elems(ready'[s]) = Elems(ready[s]) \cup {now[s]}
        /\ Distinct(ready'[s])
    BY <2>1, AppendElems
  <2>3. QED
    BY <2>1, <2>2
<1>7. CASE Finish(s)
  <2>1. /\ free' = Append(free, now[s]) /\ now[s] \in Cos
        /\ pc'[s] = "finishing" /\ coMap'[s] = coMap[s] \ {now[s]}
        /\ now[s] \in coMap[s] \ (Elems(ready[s]) \cup waiting[s])
        /\ UNCHANGED <<ready, waiting, call, now>>
    BY <1>7 DEF Finish
  <2>2. Elems(free') = Elems(free) \cup {now[s]} /\ Distinct(free')
    BY <2>1, AppendElems
  <2>3. \A t \in Threads : call[t].at # "push"
    BY <1>7 DEF Finish, Flags, InCall
  <2>4. QED
    BY <2>1, <2>2, <2>3
<1>8. ASSUME NEW c \in Cos, Wake(s, c) PROVE PlacesOf(s)'
  <2>1. /\ ready'[s] = Append(ready[s], c) /\ c \in waiting[s]
        /\ waiting'[s] = waiting[s] \ {c}
        /\ pc[s] = "loop" /\ UNCHANGED <<coMap, free, pc, now>>
    BY <1>8 DEF Wake
  <2>2. /\ Elems(ready'[s]) = Elems(ready[s]) \cup {c}
        /\ Distinct(ready'[s])
    BY <2>1, AppendElems
  <2>3. \A t \in Threads : call'[t].at = "push" => call'[t] = call[t]
    BY <1>8 DEF Wake, Call
  <2>4. QED
    BY <2>1, <2>2, <2>3
<1>9. QED
  BY <1>1, <1>2, <1>3, <1>4, <1>5, <1>6, <1>7, <1>8 DEF HandleStep

-----------------------------------------------------------------------------
(* The order of the tasks.                                                  *)

\* A set whose members carry different numbers up to m still does when one more
\* member joins it and carries m + 1: the task push() gives a Coroutine.
LEMMA FreshNumber ==
  ASSUME NEW D, NEW E, NEW b, NEW h, NEW c, NEW m \in Nat,
         c \notin D, E = D \cup {c}, h[c] = m + 1,
         \A d \in D : h[d] = b[d] /\ b[d] \in 1..m,
         \A d, e \in D : b[d] = b[e] => d = e
  PROVE  /\ \A d \in E : h[d] \in 1..m + 1
         /\ \A d, e \in E : h[d] = h[e] => d = e
<1>1. \A d \in D : h[d] \in 1..m
  OBVIOUS
<1>2. m + 1 \in 1..m + 1 /\ \A k \in 1..m : k \in 1..m + 1 /\ k # m + 1
  OBVIOUS
<1>3. \A d \in E : d = c \/ d \in D
  OBVIOUS
<1>4. QED
  BY <1>1, <1>2, <1>3

LEMMA TasksCall ==
  ASSUME NEW s, Scheds = {s}, CoInv, NEW t \in Threads, CallStep(t)
  PROVE  Tasks'
<1> SUFFICES TasksOf(s)'
  BY DEF Tasks
<1> USE CoAssumption DEF CoInv, Threads, Types, Tasks, TasksOf, Others,
        schedVars, poolVars, histVars
<1>1. CASE GetChannel(t)
  <2>1. /\ call[t].at = "get" /\ call'[t].at = "push"
        /\ call'[t].task = call[t].task /\ Others(t)
    BY <1>1, ObtainedType, GetChannelCall
  <2>2. UNCHANGED <<ready, coMap, waiting, now, pc, body, nTasks, added, begun>>
    BY <1>1 DEF GetChannel
  <2>3. QED
    BY <2>1, <2>2 DEF InOrder
<1>2. CASE PushNew(t)
  <2> DEFINE c == call[t].co
             n == Len(ready[s])
             m == Len(added[s])
  <2>1. /\ call[t].to = s /\ c \in Cos \ coMap[s] /\ call[t].task = m + 1
        /\ nTasks = m + 1 /\ pc[s] \in {"new", "loop", "co"}
        /\ \A r \in Threads : r # t => call[r].at \notin {"get", "push"}
    <3>1. call[t].at = "push"
      BY <1>2 DEF PushNew
    <3>2. /\ call[t].to = s /\ pc[s] \in {"new", "loop", "co"}
          /\ \A r \in Threads : r # t => call[r].at = "none"
      BY <3>1 DEF Flags, InCall
    <3>3. c \in Cos \ coMap[s]
      BY <3>1 DEF Places, PlacesOf
    <3>4. QED
      BY <3>1, <3>2, <3>3
  <2>2. /\ call'[t].at = "check" /\ Others(t)
    BY <1>2, PushNewCall
  <2>3. /\ ready'[s] = Append(ready[s], c) /\ added'[s] = Append(added[s], m + 1)
        /\ coMap'[s] = coMap[s] \cup {c}
        /\ body'[c] = m + 1 /\ \A d \in Cos : d # c => body'[d] = body[d]
        /\ UNCHANGED <<waiting, now, pc, nTasks, begun>>
    BY <1>2, <2>1 DEF PushNew
  <2>4. /\ n \in Nat /\ DOMAIN ready[s] = 1..n /\ DOMAIN ready'[s] = 1..n + 1
        /\ ready'[s][n + 1] = c /\ \A i \in 1..n : ready'[s][i] = ready[s][i]
    BY <2>1, <2>3, AppendOf
  <2>5. /\ m \in Nat /\ DOMAIN added[s] = 1..m /\ DOMAIN added'[s] = 1..m + 1
        /\ Len(added'[s]) = m + 1
        /\ added'[s][m + 1] = m + 1 /\ \A i \in 1..m : added'[s][i] = added[s][i]
    BY <2>3, AppendOf
  <2>6. /\ \A i \in 1..n : ready[s][i] \in coMap[s] /\ ready[s][i] # c
        /\ waiting[s] \subseteq coMap[s]
        /\ pc[s] = "co" => now[s] \in coMap[s]
    <3>1. /\ Elems(ready[s]) \subseteq coMap[s] /\ waiting[s] \subseteq coMap[s]
          /\ pc[s] = "co" => now[s] \in coMap[s]
      BY DEF Places, PlacesOf
    <3>2. \A i \in 1..n : ready[s][i] \in Elems(ready[s])
      BY <2>4 DEF Elems
    <3>3. QED
      BY <2>1, <3>1, <3>2
  <2>7. /\ \A d \in coMap[s] : d \in Cos /\ body'[d] = body[d] /\ body[d] \in 1..m
        /\ Len(begun[s]) \in Nat /\ Len(begun[s]) <= m
        /\ \A i \in 1..m : added[s][i] = i
    <3>1. \A d \in coMap[s] : d \in Cos /\ body[d] \in 1..m
      OBVIOUS
    <3>2. \A d \in coMap[s] : body'[d] = body[d]
      BY <2>1, <2>3, <3>1
    <3>3. begun[s] \in Seq(Nat) /\ added[s] \in Seq(Nat)
      OBVIOUS
    <3>4. Len(begun[s]) \in Nat /\ Len(begun[s]) <= m
      BY <3>3
    <3>5. \A i \in 1..m : added[s][i] = i
      BY <3>3
    <3>6. QED
      BY <3>1, <3>2, <3>4, <3>5
  <2> HIDE DEF c, n, m
  <2>8. /\ body'[ready'[s][n + 1]] = m + 1
        /\ \A i \in 1..n : /\ body'[ready'[s][i]] = body[ready[s][i]]
                          /\ body[ready[s][i]] \in 1..m
    BY <2>3, <2>4, <2>6, <2>7
  <2>9. InOrder(s)'
    <3>1. ASSUME NEW k \in Len(begun[s]) + 1..m + 1
          PROVE  \E j \in 1..n + 1 : body'[ready'[s][j]] = k
      <4>1. CASE k = m + 1
        <5>1. n + 1 \in 1..n + 1
          BY <2>4
        <5>2. QED
          BY <2>8, <4>1, <5>1
      <4>2. CASE k # m + 1
        <5>1. k \in Len(begun[s]) + 1..m
          BY <2>5, <2>7, <4>2
        <5>2. PICK j \in 1..n : body[ready[s][j]] = k
          BY <2>4, <5>1 DEF InOrder, m
        <5>3. j \in 1..n + 1
          BY <2>4
        <5>4. QED
          BY <2>8, <5>2, <5>3
      <4>3. QED
        BY <4>1, <4>2
    <3>2. ASSUME NEW j \in 1..n + 1, NEW k \in 1..n + 1, j < k,
                 body'[ready'[s][k]] > Len(begun[s])
          PROVE  body'[ready'[s][j]] < body'[ready'[s][k]]
      <4>1. j \in 1..n
        BY <2>4, <3>2
      <4>2. CASE k = n + 1
        <5>1. body'[ready'[s][j]] \in 1..m
          BY <2>8, <4>1
        <5>2. body'[ready'[s][k]] = m + 1 /\ m \in Nat
          BY <2>5, <2>8, <4>2
        <5>3. QED
          BY ONLY <5>1, <5>2
      <4>3. CASE k # n + 1
        <5>1. k \in 1..n
          BY <2>4, <4>3
        <5>2. body[ready[s][k]] > Len(begun[s])
          BY <2>8, <3>2, <5>1
        <5>3. body[ready[s][j]] < body[ready[s][k]]
          BY <2>4, <3>2, <4>1, <5>1, <5>2 DEF InOrder
        <5>4. QED
          BY <2>8, <4>1, <5>1, <5>3
      <4>4. QED
        BY <4>2, <4>3
    <3>3. QED
      BY <2>3, <2>4, <2>5, <3>1, <3>2 DEF InOrder
  <2>10. /\ \A d \in coMap'[s] : body'[d] \in 1..m + 1
         /\ \A d, e \in coMap'[s] : body'[d] = body'[e] => d = e
    <3>1. \A d, e \in coMap[s] : body[d] = body[e] => d = e
      OBVIOUS
    <3>2. c \notin coMap[s] /\ coMap'[s] = coMap[s] \cup {c} /\ body'[c] = m + 1
      BY <2>1, <2>3
    <3>3. m \in Nat /\ \A d \in coMap[s] : body'[d] = body[d] /\ body[d] \in 1..m
      BY <2>5, <2>7
    <3>4. QED
      BY ONLY <3>1, <3>2, <3>3, FreshNumber
  <2>11. /\ \A d \in waiting'[s] : body'[d] <= Len(begun[s])
         /\ pc'[s] = "co" => body'[now'[s]] <= Len(begun[s])
    BY <2>3, <2>6, <2>7
  <2>12. \A i \in DOMAIN added'[s] : added'[s][i] = i
    <3>1. ASSUME NEW i \in 1..m + 1 PROVE added'[s][i] = i
      <4>1. CASE i = m + 1
        BY <2>5, <4>1
      <4>2. CASE i # m + 1
        <5>1. i \in 1..m
          BY <2>5, <4>2
        <5>2. QED
          BY <2>5, <2>7, <5>1
      <4>3. QED
        BY <4>1, <4>2
    <3>2. QED
      BY <2>5, <3>1
  <2>13. \A r \in Threads : call'[r].at \notin {"get", "push"}
    BY <2>1, <2>2
  <2>14. Len(begun[s]) <= m + 1
    BY <2>5, <2>7
  <2>15. QED
    BY <2>1, <2>3, <2>5, <2>9, <2>10, <2>11, <2>12, <2>13, <2>14, SMTT(30)
<1>3. CASE CheckFlag(t)
  <2>1. /\ call[t].at = "check" /\ call'[t].at \in {"none", "hand"} /\ Others(t)
    BY <1>3, CheckFlagCall DEF NoCall
  <2>2. UNCHANGED <<ready, coMap, waiting, now, pc, body, nTasks, added, begun>>
    BY <1>3 DEF CheckFlag
  <2>3. \A r \in Threads : call'[r].at \in {"get", "push"} \/ call[r].at \in {"get", "push"}
                            => call'[r] = call[r]
    BY <2>1
  <2>4. InOrder(s)'
    BY <2>2 DEF InOrder
  <2>5. QED
    BY <2>2, <2>3, <2>4
<1>4. CASE HandOver(t)
  <2>1. /\ call[t].at = "hand" /\ call'[t].at = "flag" /\ Others(t)
    BY <1>4, HandOverCall
  <2>2. UNCHANGED <<ready, coMap, waiting, now, pc, body, nTasks, added, begun>>
    BY <1>4 DEF HandOver
  <2>3. \A r \in Threads : call'[r].at \in {"get", "push"} \/ call[r].at \in {"get", "push"}
                            => call'[r] = call[r]
    BY <2>1
  <2>4. InOrder(s)'
    BY <2>2 DEF InOrder
  <2>5. QED
    BY <2>2, <2>3, <2>4
<1>5. CASE SetFlag(t)
  <2>1. /\ call[t].at = "flag" /\ call'[t].at = "none" /\ Others(t)
    BY <1>5, SetFlagCall DEF NoCall
  <2>2. UNCHANGED <<ready, coMap, waiting, now, pc, body, nTasks, added, begun>>
    BY <1>5 DEF SetFlag
  <2>3. \A r \in Threads : call'[r].at \in {"get", "push"} \/ call[r].at \in {"get", "push"}
                            => call'[r] = call[r]
    BY <2>1
  <2>4. InOrder(s)'
    BY <2>2 DEF InOrder
  <2>5. QED
    BY <2>2, <2>3, <2>4
<1>6. QED
  BY <1>1, <1>2, <1>3, <1>4, <1>5 DEF CallStep

\* The head of the queue is a coroutine that began or the next to begin.
LEMMA TasksResume ==
  ASSUME NEW s, Scheds = {s}, CoInv, Resume(s)
  PROVE  Tasks'
<1> USE CoAssumption DEF CoInv, Threads
<1> DEFINE c == Head(ready[s])
           n == Len(ready[s])
           m == Len(added[s])
           b == Len(begun[s])
<1>1. /\ n \in Nat \ {0} /\ DOMAIN ready[s] = 1..n /\ DOMAIN ready'[s] = 1..n - 1
      /\ c \in Cos /\ c = ready[s][1]
      /\ \A i \in 1..n - 1 : ready'[s][i] = ready[s][i + 1]
  <2>1. ready'[s] = Tail(ready[s]) /\ ready[s] \in Seq(Cos) /\ ready[s] # <<>>
    BY DEF Resume, Types
  <2>2. QED
    BY <2>1, TailOf
<1>2. /\ now'[s] = c
      /\ UNCHANGED <<call, coMap, waiting, body, nTasks, added>>
  BY DEF Resume, poolVars, Types
<1>3. /\ m \in Nat /\ b \in Nat /\ b <= m /\ body[c] \in 1..m /\ DOMAIN begun[s] = 1..b
      /\ \A i \in 1..b : begun[s][i] = i
      /\ \A d \in waiting[s] : d \in Cos /\ body[d] \in Nat /\ body[d] <= b
      /\ \A i \in 1..n : ready[s][i] \in coMap[s] /\ body[ready[s][i]] \in 1..m
  <2>1. /\ added[s] \in Seq(Nat) /\ begun[s] \in Seq(Nat)
        /\ body \in [Cos -> Nat] /\ coMap[s] \subseteq Cos
    BY DEF Types
  <2>2. /\ b <= m /\ \A i \in DOMAIN begun[s] : begun[s][i] = i
        /\ \A d \in coMap[s] : body[d] \in 1..m
        /\ \A d \in waiting[s] : body[d] <= b
    BY DEF Tasks, TasksOf
  <2>3. /\ Elems(ready[s]) \subseteq coMap[s] /\ waiting[s] \subseteq coMap[s]
    BY DEF Places, PlacesOf
  <2>4. \A i \in 1..n : ready[s][i] \in coMap[s]
    BY <1>1, <2>3 DEF Elems
  <2>5. c \in coMap[s]
    BY <1>1, <2>4
  <2>6. m \in Nat /\ b \in Nat /\ DOMAIN begun[s] = 1..b
    BY <2>1
  <2> HIDE DEF c, n, m, b
  <2>7. QED
    BY <2>1, <2>2, <2>3, <2>4, <2>5, <2>6
<1>4. /\ \A k \in b + 1..m : \E j \in 1..n : body[ready[s][j]] = k
      /\ \A j, k \in 1..n : j < k /\ body[ready[s][k]] > b =>
                               body[ready[s][j]] < body[ready[s][k]]
  BY <1>1 DEF Tasks, TasksOf, InOrder
<1>5. Started(c, s) => begun'[s] = begun[s]
  BY DEF Resume, Types
<1>6. ~Started(c, s) => begun'[s] = Append(begun[s], body[c])
  BY DEF Resume, Types
<1>7. begun[s] \in Seq(Nat)
  BY DEF Types
<1>8. Started(c, s) <=> body[c] <= b
  <2>1. Started(c, s) <=> \E i \in 1..b : begun[s][i] = body[c]
    BY <1>3 DEF Started
  <2>2. (\E i \in 1..b : begun[s][i] = body[c]) <=> body[c] <= b
    BY <1>3
  <2>3. QED
    BY <2>1, <2>2
<1> HIDE DEF c, n, m, b
<1>9. body[c] <= b \/ body[c] = b + 1
  <2>1. SUFFICES ASSUME body[c] > b PROVE body[c] = b + 1
    BY <1>3
  <2>2. PICK j \in 1..n : body[ready[s][j]] = b + 1
    BY <1>3, <1>4, <2>1
  <2>3. ASSUME j # 1 PROVE FALSE
    <3>1. 1 \in 1..n /\ 1 < j
      BY <1>1, <2>3
    <3>2. body[ready[s][j]] > b
      BY <1>3, <2>2
    <3>3. body[ready[s][1]] < body[ready[s][j]]
      BY <1>4, <3>1, <3>2
    <3>4. QED
      BY <1>1, <1>3, <2>1, <2>2, <3>3
  <2>4. QED
    BY <1>1, <2>2, <2>3
<1>10. /\ Len(begun'[s]) \in Nat /\ b <= Len(begun'[s]) /\ Len(begun'[s]) <= m
       /\ body[c] <= Len(begun'[s])
       /\ \A i \in DOMAIN begun'[s] : begun'[s][i] = i
  <2>1. CASE body[c] <= b
    BY <1>3, <1>5, <1>8, <2>1 DEF b
  <2>2. CASE body[c] = b + 1
    <3>1. begun'[s] = Append(begun[s], b + 1)
      BY <1>3, <1>6, <1>8, <2>2
    <3>2. /\ Len(begun'[s]) = b + 1 /\ DOMAIN begun'[s] = 1..b + 1
          /\ begun'[s][b + 1] = b + 1
          /\ \A i \in 1..b : begun'[s][i] = begun[s][i]
      BY <1>3, <1>7, <3>1, AppendOf DEF b
    <3>3. QED
      BY <1>3, <2>2, <3>2
  <2>3. QED
    BY <1>9, <2>1, <2>2
<1>11. InOrder(s)'
  <2>1. ASSUME NEW k \in Len(begun'[s]) + 1..m
        PROVE  \E j \in 1..n - 1 : body[ready'[s][j]] = k
    <3>1. k \in b + 1..m /\ k # body[c]
      BY <1>3, <1>10
    <3>2. PICK j \in 1..n : body[ready[s][j]] = k
      BY <1>4, <3>1
    <3>3. j # 1
      BY <1>1, <3>1, <3>2
    <3>4. j - 1 \in 1..n - 1 /\ (j - 1) + 1 = j
      BY <1>1, <3>3
    <3>5. ready'[s][j - 1] = ready[s][j]
      BY <1>1, <3>4
    <3>6. QED
      BY <3>2, <3>4, <3>5
  <2>2. ASSUME NEW j \in 1..n - 1, NEW k \in 1..n - 1, j < k,
               body[ready'[s][k]] > Len(begun'[s])
        PROVE  body[ready'[s][j]] < body[ready'[s][k]]
    <3>1. /\ j + 1 \in 1..n /\ k + 1 \in 1..n /\ j + 1 < k + 1
          /\ ready'[s][j] = ready[s][j + 1] /\ ready'[s][k] = ready[s][k + 1]
      <4>1. j + 1 \in 1..n /\ k + 1 \in 1..n /\ j + 1 < k + 1
        BY <1>1, <2>2
      <4>2. QED
        BY <1>1, <4>1
    <3>2. body[ready[s][k + 1]] > b
      BY <1>3, <1>10, <2>2, <3>1
    <3>3. QED
      BY <1>4, <3>1, <3>2
  <2>3. QED
    BY <1>1, <1>2, <2>1, <2>2 DEF InOrder, m
<1>12. /\ body'[now'[s]] <= Len(begun'[s])
       /\ \A d \in waiting'[s] : body'[d] <= Len(begun'[s])
       /\ Len(begun'[s]) <= Len(added'[s])
  BY <1>2, <1>3, <1>10 DEF m
<1>13. TasksOf(s)'
  BY <1>2, <1>10, <1>11, <1>12 DEF Tasks, TasksOf
<1>14. QED
  BY <1>13 DEF Tasks

\* A coroutine that began before goes to the end of the queue.
LEMMA AppendStarted ==
  ASSUME NEW s, InOrder(s), NEW d \in Cos, ready[s] \in Seq(Cos),
         ready'[s] = Append(ready[s], d), body[d] <= Len(begun[s]),
         body[d] \in Nat, Len(begun[s]) \in Nat, UNCHANGED <<body, added, begun>>
  PROVE  InOrder(s)'
<1> DEFINE n == Len(ready[s])
<1>1. /\ n \in Nat /\ DOMAIN ready[s] = 1..n /\ DOMAIN ready'[s] = 1..n + 1
      /\ ready'[s][n + 1] = d /\ \A i \in 1..n : ready'[s][i] = ready[s][i]
  BY AppendOf
<1> HIDE DEF n
<1>2. \A i \in Len(begun[s]) + 1..Len(added[s]) :
          \E j \in DOMAIN ready'[s] : body[ready'[s][j]] = i
  <2>1. 1..n \subseteq 1..n + 1
    BY <1>1
  <2>2. QED
    BY <1>1, <2>1 DEF InOrder
<1>3. ASSUME NEW j \in 1..n + 1, NEW k \in 1..n + 1, j < k,
             body[ready'[s][k]] > Len(begun[s])
      PROVE  body[ready'[s][j]] < body[ready'[s][k]]
  <2>1. k # n + 1
    BY <1>1, <1>3
  <2>2. j \in 1..n /\ k \in 1..n
    BY <1>1, <1>3, <2>1
  <2>3. QED
    BY <1>1, <1>3, <2>2 DEF InOrder
<1>4. QED
  BY <1>1, <1>2, <1>3 DEF InOrder

LEMMA TasksLoop ==
  ASSUME NEW s, Scheds = {s}, CoInv,
         \/ HandleStep(s) \/ Start \/ BootAdd(s) \/ CoAdd(s, s)
         \/ Block(s) \/ SleepDue(s) \/ Finish(s) \/ \E c \in Cos : Wake(s, c)
  PROVE  Tasks'
<1> SUFFICES TasksOf(s)'
  BY DEF Tasks
<1> USE CoAssumption DEF CoInv, Threads, Types, Tasks, TasksOf, schedVars,
        poolVars, histVars
<1>1. CASE BeginHandle(s) \/ SeeEmpty(s) \/ ClearFlag(s) \/ LastYield(s)
  <2>1. /\ UNCHANGED <<ready, coMap, waiting, now, body, nTasks, added, begun>>
        /\ UNCHANGED call /\ pc'[s] # "co"
    BY <1>1 DEF BeginHandle, SeeEmpty, ClearFlag, LastYield
  <2>2. QED
    BY <2>1 DEF InOrder
<1>2. CASE Resume(s)
  BY <1>2, TasksResume
<1>3. CASE Start
  BY <1>3 DEF Start, InOrder
<1>4. CASE BootAdd(s) \/ CoAdd(s, s)
  <2>1. PICK t \in Threads :
          /\ call' = [call EXCEPT ![t] = Call("get", s, None, nTasks + 1)]
          /\ nTasks' = nTasks + 1
    BY <1>4 DEF BootAdd, CoAdd, BeginAdd
  <2>2. \A r \in Threads : call[r].at = "none"
    BY <1>4 DEF BootAdd, CoAdd, Flags, InCall
  <2>3. UNCHANGED <<ready, coMap, waiting, now, pc, body, added, begun>>
    BY <1>4 DEF BootAdd, CoAdd, BeginAdd
  <2>4. InOrder(s)'
    BY <2>3 DEF InOrder
  <2>5. /\ call'[t].at = "get" /\ call'[t].task = nTasks'
        /\ \A r \in Threads : r # t => call'[r].at = "none"
    BY <2>1, <2>2 DEF Call
  <2>6. nTasks = Len(added[s])
    BY <2>2
  <2>7. QED
    BY <2>1, <2>3, <2>4, <2>5, <2>6
<1>5. CASE Block(s)
  BY <1>5 DEF Block, InOrder
<1>6. CASE SleepDue(s)
  <2>1. InOrder(s)'
    <3>1. /\ ready'[s] = Append(ready[s], now[s]) /\ now[s] \in Cos
          /\ body[now[s]] <= Len(begun[s]) /\ body[now[s]] \in Nat
          /\ UNCHANGED <<body, added, begun>>
      BY <1>6 DEF SleepDue, Places, PlacesOf
    <3>2. ready[s] \in Seq(Cos) /\ Len(begun[s]) \in Nat /\ InOrder(s)
      OBVIOUS
    <3>3. QED
      BY ONLY <3>1, <3>2, AppendStarted
  <2>2. QED
    BY <1>6, <2>1 DEF SleepDue
<1>7. CASE Finish(s)
  BY <1>7 DEF Finish, InOrder
<1>8. ASSUME NEW c \in Cos, Wake(s, c) PROVE TasksOf(s)'
  <2>1. InOrder(s)'
    <3>1. /\ ready'[s] = Append(ready[s], c)
          /\ body[c] <= Len(begun[s]) /\ body[c] \in Nat
          /\ UNCHANGED <<body, added, begun>>
      BY <1>8 DEF Wake
    <3>2. ready[s] \in Seq(Cos) /\ Len(begun[s]) \in Nat /\ InOrder(s)
      OBVIOUS
    <3>3. QED
      BY <3>1, <3>2, AppendStarted
  <2>2. /\ call'[s].at = "check" /\ call[s].at = "none"
        /\ \A r \in Threads : r # s => call'[r] = call[r]
    BY <1>8 DEF Wake, Call, InCall
  <2>3. /\ waiting'[s] \subseteq waiting[s] /\ pc[s] = "loop"
        /\ UNCHANGED <<coMap, pc, now, body, nTasks, added, begun>>
    BY <1>8 DEF Wake
  <2>4. QED
    BY <2>1, <2>2, <2>3
<1>9. QED
  BY <1>1, <1>2, <1>3, <1>4, <1>5, <1>6, <1>7, <1>8 DEF HandleStep

-----------------------------------------------------------------------------
(* The pool.                                                                *)

LEMMA PushersFinite ==
  ASSUME NEW s, Scheds = {s}
  PROVE  IsFiniteSet(Pushers) /\ Cardinality(Pushers) \in Nat
<1>1. IsFiniteSet({s} \cup {Boot})
  BY FS_Singleton, FS_AddElement
<1>2. Pushers \in SUBSET ({s} \cup {Boot})
  BY DEF Pushers, Threads
<1>3. QED
  BY <1>1, <1>2, FS_Subset, FS_CardinalityType

LEMMA PoolCall ==
  ASSUME NEW s, Scheds = {s}, CoInv, NEW t \in Threads, CallStep(t)
  PROVE  Pool'
<1> SUFFICES PoolOf(s)'
  BY DEF Pool
<1>1. /\ IsFiniteSet(coMap[s]) /\ Cardinality(coMap[s]) \in Nat
      /\ count = Cardinality(coMap[s]) + Cardinality(Pushers)
      /\ Cardinality(Pushers) \in Nat /\ IsFiniteSet(Pushers)
  BY PushersFinite, FS_CardinalityType DEF CoInv, Pool, PoolOf
<1>2. /\ call \in [Threads -> CallRecs] /\ free \in Seq(Cos) /\ Distinct(free)
      /\ coMap \in [Scheds -> SUBSET Cos]
  BY DEF CoInv, Types, Places, PlacesOf
<1>3. CASE GetChannel(t)
  <2>1. /\ call[t].at = "get" /\ call'[t].at = "push" /\ Others(t)
        /\ count' = count + 1 /\ UNCHANGED coMap
    BY <1>2, <1>3, ObtainedType, GetChannelCall DEF GetChannel
  <2>2. t \notin Pushers /\ Pushers' = Pushers \cup {t}
    BY <2>1 DEF Pushers, Others
  <2>3. Cardinality(Pushers') = Cardinality(Pushers) + 1
    BY <1>1, <2>2, FS_AddElement
  <2>4. QED
    BY <1>1, <2>1, <2>3 DEF PoolOf
<1>4. CASE PushNew(t)
  <2>1. call[t].to = s /\ call[t].co \notin coMap[s]
    BY <1>4 DEF PushNew, CoInv, Flags, Places, PlacesOf, InCall
  <2>2. /\ call[t].at = "push" /\ call'[t].at = "check" /\ Others(t)
        /\ coMap'[s] = coMap[s] \cup {call[t].co} /\ UNCHANGED count
    BY <1>2, <1>4, <2>1, PushNewCall DEF PushNew
  <2>3. t \in Pushers /\ Pushers' = Pushers \ {t}
    BY <2>2 DEF Pushers, Others
  <2>4. Cardinality(Pushers') = Cardinality(Pushers) - 1
    BY <1>1, <2>3, FS_RemoveElement
  <2>5. /\ IsFiniteSet(coMap'[s])
        /\ Cardinality(coMap'[s]) = Cardinality(coMap[s]) + 1
    <3>1. LET S == coMap[s] \cup {call[t].co}
          IN  IsFiniteSet(S) /\ Cardinality(S) = Cardinality(coMap[s]) + 1
      BY <1>1, <2>1, FS_AddElement
    <3>2. QED
      BY <2>2, <3>1
  <2>6. QED
    BY <1>1, <2>2, <2>4, <2>5 DEF PoolOf
<1>5. CASE CheckFlag(t) \/ HandOver(t) \/ SetFlag(t)
  <2>1. /\ call[t].at # "push" /\ call'[t].at # "push" /\ Others(t)
    BY <1>2, <1>5, CheckFlagCall, HandOverCall, SetFlagCall DEF NoCall
  <2>2. UNCHANGED <<coMap, count>>
    BY <1>5 DEF CheckFlag, HandOver, SetFlag, poolVars
  <2>3. Pushers' = Pushers
    BY <2>1 DEF Pushers, Others
  <2>4. QED
    BY <1>1, <2>2, <2>3 DEF PoolOf
<1>6. QED
  BY <1>3, <1>4, <1>5 DEF CallStep

LEMMA PoolLoop ==
  ASSUME NEW s, Scheds = {s}, CoInv,
         \/ HandleStep(s) \/ Start \/ BootAdd(s) \/ CoAdd(s, s)
         \/ Block(s) \/ SleepDue(s) \/ Finish(s) \/ \E c \in Cos : Wake(s, c)
  PROVE  Pool'
<1> SUFFICES PoolOf(s)'
  BY DEF Pool
<1>1. /\ IsFiniteSet(coMap[s]) /\ Cardinality(coMap[s]) \in Nat
      /\ count = Cardinality(coMap[s]) + Cardinality(Pushers)
      /\ Cardinality(Pushers) \in Nat
  BY PushersFinite, FS_CardinalityType DEF CoInv, Pool, PoolOf
<1>2. /\ call \in [Threads -> CallRecs] /\ coMap \in [Scheds -> SUBSET Cos]
      /\ free \in Seq(Cos)
  BY DEF CoInv, Types
<1>3. Pushers' = Pushers
  <2>1. CASE UNCHANGED call
    BY <2>1 DEF Pushers
  <2>2. ASSUME NEW t \in Threads, NEW r, r.at # "push", ~InCall(t),
               call' = [call EXCEPT ![t] = r]
        PROVE  Pushers' = Pushers
    BY <1>2, <2>2 DEF Pushers, InCall
  <2>3. CASE BootAdd(s)
    BY <2>2, <2>3 DEF BootAdd, BeginAdd, Call, Threads
  <2>4. CASE CoAdd(s, s)
    BY <2>2, <2>4 DEF CoAdd, BeginAdd, Call, Threads
  <2>5. CASE \E c \in Cos : Wake(s, c)
    BY <2>2, <2>5 DEF Wake, Call, Threads
  <2>6. QED
    BY <2>1, <2>3, <2>4, <2>5 DEF HandleStep, BeginHandle, Resume, SeeEmpty,
       ClearFlag, LastYield, Start, Block, SleepDue, Finish
<1>4. CASE Finish(s)
  <2>1. now[s] \in coMap[s]
    BY <1>4 DEF Finish, CoInv, Types, Places, PlacesOf
  <2>2. coMap'[s] = coMap[s] \ {now[s]} /\ count' = count - 1
    BY <1>2, <1>4 DEF Finish
  <2>3. /\ IsFiniteSet(coMap'[s])
        /\ Cardinality(coMap'[s]) = Cardinality(coMap[s]) - 1
    <3>1. LET S == coMap[s] \ {now[s]}
          IN  IsFiniteSet(S) /\ Cardinality(S) = Cardinality(coMap[s]) - 1
      BY <1>1, <2>1, FS_RemoveElement
    <3>2. QED
      BY <2>2, <3>1
  <2>4. QED
    BY <1>1, <1>3, <2>2, <2>3 DEF PoolOf
<1>5. CASE ~Finish(s)
  <2>1. UNCHANGED <<coMap, count>>
    BY <1>5 DEF HandleStep, BeginHandle, Resume, SeeEmpty, ClearFlag, LastYield,
       Start, BootAdd, CoAdd, BeginAdd, Block, SleepDue, Wake, poolVars
  <2>2. QED
    BY <1>1, <1>3, <2>1 DEF PoolOf
<1>6. QED
  BY <1>4, <1>5

-----------------------------------------------------------------------------
(* The theorems.                                                            *)

LEMMA CoStep ==
  ASSUME NEW s, Scheds = {s}, CoInv, [Next]_vars
  PROVE  CoInv'
<1>1. CASE UNCHANGED vars
  <2>1. /\ Types' = Types /\ Flags' = Flags
    BY <1>1 DEF vars, Types, Flags, InCall
  <2>2. /\ Places' = Places /\ Tasks' = Tasks
    BY <1>1 DEF vars, Places, PlacesOf, Elems, Distinct, Tasks, TasksOf, InOrder
  <2>3. Pool' = Pool
    BY <1>1 DEF vars, Pool, PoolOf, Elems, Pushers
  <2>4. QED
    BY <2>1, <2>2, <2>3 DEF CoInv
<1>2. ASSUME NEW t \in Threads, CallStep(t) PROVE CoInv'
  BY <1>2, TypesCall, FlagsCall, PlacesCall, TasksCall, PoolCall DEF CoInv
<1>3. CASE \/ HandleStep(s) \/ Start \/ BootAdd(s) \/ CoAdd(s, s)
           \/ Block(s) \/ SleepDue(s) \/ Finish(s) \/ \E c \in Cos : Wake(s, c)
  BY <1>3, TypesLoop, FlagsLoop, PlacesLoop, TasksLoop, PoolLoop DEF CoInv
<1>4. QED
  BY <1>1, <1>2, <1>3 DEF Next, Idle

\* The strengthened invariant of one scheduler: types, the discipline of
\* is_schedule, the place of each coroutine, the order of the tasks and the
\* pool's count.
THEOREM Inductive == ASSUME NEW s, Scheds = {s} PROVE Spec => []CoInv
<1>1. Init => CoInv
  BY CoInit
<1>2. CoInv /\ [Next]_vars => CoInv'
  BY CoStep
<1>3. QED
  BY <1>1, <1>2, PTL DEF Spec

\* What the invariant says in the words of CoScheduler.
LEMMA CoTyped == ASSUME NEW s, Scheds = {s}, CoInv PROVE TypeOK
<1>1. count \in Nat
  <2>1. Cardinality(Pushers) \in Nat
    BY PushersFinite
  <2>2. Cardinality(coMap[s]) \in Nat
    BY FS_CardinalityType DEF CoInv, Pool, PoolOf
  <2>3. count = Cardinality(coMap[s]) + Cardinality(Pushers)
    BY DEF CoInv, Pool, PoolOf
  <2>4. QED
    BY <2>1, <2>2, <2>3
<1>2. QED
  BY <1>1 DEF CoInv, Types, TypeOK, CallRecs

LEMMA CoScheduling ==
  ASSUME NEW s, Scheds = {s}, CoInv PROVE NoStuckQueue
<1>1. ASSUME ready[s] # <<>> PROVE Scheduling(s)
  BY <1>1 DEF CoInv, Types, Flags, InCall, Scheduling
<1>2. ASSUME isSchedule[s]
      PROVE  handed[s] > 0 \/ pc[s] \in {"handle", "co", "finishing", "clear"}
  BY <1>2 DEF CoInv, Types, Flags
<1>3. QED
  BY <1>1, <1>2 DEF NoStuckQueue

LEMMA CoOwned == ASSUME NEW s, Scheds = {s}, CoInv PROVE ResumesOwned
<1>1. begun[s] = SubSeq(added[s], 1, Len(begun[s]))
  <2>1. /\ begun[s] \in Seq(Nat) /\ added[s] \in Seq(Nat)
        /\ Len(begun[s]) <= Len(added[s])
        /\ \A i \in DOMAIN added[s] : added[s][i] = i
        /\ \A i \in DOMAIN begun[s] : begun[s][i] = i
    BY DEF CoInv, Types, Tasks, TasksOf
  <2>2. QED
    BY <2>1
<1>2. QED
  BY <1>1 DEF CoInv, Places, PlacesOf, Elems, Distinct, Queued, ResumesOwned

\* Every variable has its type.
THEOREM TypeCorrect == ASSUME NEW s, Scheds = {s} PROVE Spec => []TypeOK
BY Inductive, CoTyped, PTL

\* schedule_co and the drain of handle_co never leave a coroutine queued with
\* nobody to run it, nor is_schedule set with no handle_co behind it.
THEOREM QueueDrained == ASSUME NEW s, Scheds = {s} PROVE Spec => []NoStuckQueue
BY Inductive, CoScheduling, PTL

\* handle_co resumes a coroutine it owns, parked nowhere and queued once, and
\* callbacks begin in the order of add_callback.
THEOREM ResumedOwned == ASSUME NEW s, Scheds = {s} PROVE Spec => []ResumesOwned
BY Inductive, CoOwned, PTL

-----------------------------------------------------------------------------
(* The coroutine I/O.                                                       *)

IoTypes ==
    /\ chan \in [Fds -> [has : BOOLEAN, en : SUBSET Events, cb : Cos \cup {None}]]
    /\ armed \in [Fds -> SUBSET Events]
    /\ kready \in [Fds -> SUBSET (Events \cup {"HUP", "ERR"})]
    /\ open \subseteq Fds
    /\ fdOf \in [0..MaxTasks -> Fds \cup {None}]
    /\ want \in [Cos -> Reasons]

\* An fd that is open belongs to one task at most.
Owns ==
    /\ \A n \in 0..MaxTasks :
          fdOf[n] # None => n \in 1..nTasks /\ fdOf[n] \in open
    /\ \A n, m \in 0..MaxTasks : fdOf[n] = fdOf[m] /\ fdOf[n] # None => n = m

\* A channel that is enabled calls the coroutine whose fd it is; one that is
\* armed calls a coroutine that waits for it.
Chans(s) ==
    \A fd \in Fds :
        /\ chan[fd].en \subseteq {Dir[fd]} /\ armed[fd] \subseteq chan[fd].en
        /\ chan[fd].en # {} => chan[fd].cb \in coMap[s] /\ FdOf(chan[fd].cb) = fd
        /\ armed[fd] # {} => chan[fd].cb \in waiting[s] /\ want[chan[fd].cb] = fd

\* A coroutine waits for its own fd, and one in the pool for nothing.
Wants(s) ==
    /\ \A c \in Cos \ coMap[s] : want[c] = "no"
    /\ \A c \in coMap[s] : want[c] \in Fds => FdOf(c) = want[c]

Waits(s) ==
    \A c \in waiting[s] :
        want[c] \in Fds =>
            /\ chan[want[c]].cb = c
            /\ \/ Dir[want[c]] \in armed[want[c]]
               \/ want[c] \in Pipes /\ "HUP" \in kready[want[c]]

\* Only a socket has an error, and then or with a hang-up it is ready as well.
Sound(fd, k) ==
    /\ "ERR" \in k => fd \in Socks /\ "HUP" \in k
    /\ "HUP" \in k => fd \in Pipes \/ (fd \in Socks /\ Dir[fd] \in k)

\* Who is parked on a socket has been told the error of its reset connection.
Resets ==
    /\ \A fd \in Fds : Sound(fd, kready[fd])
    /\ \A c \in Cos : want[c] \in Socks =>
          "HUP" \in kready[want[c]] /\ "ERR" \notin kready[want[c]]

\* From the report of the event to the second system call nobody else takes
\* what was waited for.
Awake(s, c) == c \in Elems(ready[s]) \/ (pc[s] = "co" /\ now[s] = c)
Found(fd) == CanDo(fd) \/ (Dir[fd] = "WRITE" /\ Fails(fd))
Finds(s) == \A c \in Cos : Awake(s, c) /\ want[c] \in Fds => Found(want[c])

IoParts(s) ==
    /\ IoTypes /\ Owns /\ Chans(s) /\ Wants(s)
    /\ Waits(s) /\ Resets /\ Finds(s)

IoInv == CoInv /\ \A s \in Scheds : IoParts(s)

-----------------------------------------------------------------------------
\* What is needed of CoInv.
CoFacts(s) ==
    /\ coMap[s] \subseteq Cos /\ waiting[s] \subseteq coMap[s]
    /\ Elems(ready[s]) \subseteq coMap[s] \ waiting[s]
    /\ pc[s] = "co" => now[s] \in coMap[s] \ (Elems(ready[s]) \cup waiting[s])
    /\ nTasks \in 0..MaxTasks
    /\ \A c \in coMap[s] : body[c] \in 1..nTasks
    /\ \A c, d \in coMap[s] : body[c] = body[d] => c = d

LEMMA FactsHold == ASSUME NEW s, Scheds = {s}, CoInv PROVE CoFacts(s)
<1>1. /\ coMap[s] \subseteq Cos /\ waiting[s] \subseteq coMap[s]
      /\ Elems(ready[s]) \subseteq coMap[s] \ waiting[s]
      /\ pc[s] = "co" => now[s] \in coMap[s] \ (Elems(ready[s]) \cup waiting[s])
  BY DEF CoInv, Types, Places, PlacesOf
<1>2. nTasks \in 0..MaxTasks /\ Len(added[s]) \in Nat
  BY DEF CoInv, Types
<1>3. Len(added[s]) <= nTasks
  <2>1. CASE \A t \in Threads : call[t].at \notin {"get", "push"}
    BY <1>2, <2>1 DEF CoInv, Tasks, TasksOf
  <2>2. CASE \E t \in Threads : call[t].at \in {"get", "push"}
    BY <1>2, <2>2 DEF CoInv, Tasks, TasksOf
  <2>3. QED
    BY <2>1, <2>2
<1>4. /\ \A c \in coMap[s] : body[c] \in 1..Len(added[s])
      /\ \A c, d \in coMap[s] : body[c] = body[d] => c = d
  BY DEF CoInv, Tasks, TasksOf
<1>5. \A c \in coMap[s] : body[c] \in 1..nTasks
  BY <1>2, <1>3, <1>4, CoAssumption
<1>6. QED
  BY <1>1, <1>2, <1>4, <1>5 DEF CoFacts

\* Two coroutines do not have one fd.
LEMMA OneOwner ==
  ASSUME NEW s, CoFacts(s), Owns, CoAssumption,
         NEW c \in coMap[s], NEW d \in coMap[s],
         FdOf(c) = FdOf(d), FdOf(c) # None
  PROVE  c = d
<1>1. body[c] \in 0..MaxTasks /\ body[d] \in 0..MaxTasks
  BY DEF CoFacts, CoAssumption
<1>2. body[c] = body[d]
  BY <1>1 DEF Owns, FdOf
<1>3. QED
  BY <1>2 DEF CoFacts

\* So nobody else waits for the fd of the coroutine that runs.
LEMMA OthersWait ==
  ASSUME NEW s, CoFacts(s), Owns, Wants(s), pc[s] = "co", FdOf(now[s]) \in Fds,
         NEW d \in Cos, d # now[s]
  PROVE  want[d] # FdOf(now[s])
<1>1. now[s] \in coMap[s]
  BY DEF CoFacts
<1>2. FdOf(now[s]) # None /\ "no" \notin Fds
  BY IoAssumption
<1>3. CASE d \notin coMap[s]
  BY <1>2, <1>3 DEF Wants
<1>4. CASE d \in coMap[s]
  BY <1>1, <1>2, <1>4, OneOwner, CoAssumption DEF Wants
<1>5. QED
  BY <1>3, <1>4

-----------------------------------------------------------------------------
(* The steps of CoScheduler that leave the fds alone.                       *)

Moves(s) ==
    /\ UNCHANGED <<chan, armed, kready, open, fdOf, want, nTasks>>
    /\ coMap'[s] \subseteq Cos
    /\ \A c \in coMap[s] : c \in coMap'[s] => body'[c] = body[c]
    /\ \A c \in coMap[s] \ coMap'[s] : want[c] = "no" /\ FdOf(c) = None
    /\ waiting'[s] \subseteq waiting[s]
    /\ \A c \in waiting[s] \ waiting'[s] : want[c] \notin Fds
    /\ \A c \in Cos : Awake(s, c)' => Awake(s, c) \/ want[c] \notin Fds

LEMMA PartsOfMoves ==
  ASSUME NEW s, CoFacts(s), IoParts(s), Moves(s) PROVE IoParts(s)'
<1>1. IoTypes' /\ Owns'
  BY DEF IoParts, IoTypes, Owns, Moves
<1>2. Chans(s)'
  <2>1. ASSUME NEW fd \in Fds, chan[fd].en # {}
        PROVE  chan[fd].cb \in coMap'[s] /\ fdOf[body'[chan[fd].cb]] = fd
    <3>1. chan[fd].cb \in coMap[s] /\ FdOf(chan[fd].cb) = fd /\ fd # None
      BY <2>1, IoAssumption DEF IoParts, Chans
    <3>2. QED
      BY <3>1 DEF Moves, FdOf
  <2>2. ASSUME NEW fd \in Fds, armed[fd] # {}
        PROVE  chan[fd].cb \in waiting'[s] /\ want[chan[fd].cb] = fd
    BY <2>2 DEF IoParts, Chans, Moves
  <2>3. QED
    BY <2>1, <2>2 DEF IoParts, Chans, Moves, FdOf
<1>3. Wants(s)'
  <2>1. "no" \notin Fds
    BY IoAssumption
  <2>2. ASSUME NEW c \in Cos \ coMap'[s] PROVE want[c] = "no"
    BY DEF IoParts, Wants, Moves
  <2>3. ASSUME NEW c \in coMap'[s], want[c] \in Fds PROVE fdOf[body'[c]] = want[c]
    <3>1. c \in coMap[s]
      BY <2>1, <2>3 DEF IoParts, Wants, Moves
    <3>2. QED
      BY <2>3, <3>1 DEF IoParts, Wants, Moves, FdOf
  <2>4. QED
    BY <2>2, <2>3 DEF Wants, Moves, FdOf
<1>4. Waits(s)'
  BY DEF IoParts, Waits, Moves
<1>5. Resets'
  BY DEF IoParts, Resets, Moves
<1>6. Finds(s)'
  BY DEF IoParts, Finds, Moves, Found, CanDo, Fails
<1>7. QED
  BY <1>1, <1>2, <1>3, <1>4, <1>5, <1>6 DEF IoParts

LEMMA CallMoves ==
  ASSUME NEW s, Scheds = {s}, CoInv, CoFacts(s), IoParts(s), NEW t \in Threads, CallStep(t),
         UNCHANGED ioVars
  PROVE  Moves(s)
<1>1. "no" \notin Fds
  BY IoAssumption
<1>2. CASE PushNew(t)
  <2>1. /\ call[t].to = s /\ call[t].co \in Cos \ coMap[s]
    BY <1>2 DEF CoInv, Flags, Places, PlacesOf, InCall, PushNew
  <2>2. /\ coMap'[s] = coMap[s] \cup {call[t].co}
        /\ ready'[s] = Append(ready[s], call[t].co)
        /\ \A c \in Cos : c # call[t].co => body'[c] = body[c]
        /\ coMap[s] \subseteq Cos /\ ready[s] \in Seq(Cos)
        /\ UNCHANGED <<waiting, now, pc, nTasks>>
    BY <1>2, <2>1 DEF PushNew, CoInv, Types
  <2>3. Elems(ready'[s]) = Elems(ready[s]) \cup {call[t].co}
    BY <2>1, <2>2, AppendElems
  <2>4. want[call[t].co] = "no"
    BY <2>1 DEF IoParts, Wants
  <2>5. QED
    BY <1>1, <2>1, <2>2, <2>3, <2>4 DEF Moves, Awake, CoFacts, ioVars
<1>3. CASE ~PushNew(t)
  <2>1. UNCHANGED <<coMap, ready, waiting, now, pc, body, nTasks>>
    BY <1>3 DEF CallStep, GetChannel, CheckFlag, HandOver, SetFlag, schedVars,
       poolVars, histVars
  <2>2. QED
    BY <2>1 DEF Moves, Awake, CoFacts, ioVars
<1>4. QED
  BY <1>2, <1>3

LEMMA LoopMoves ==
  ASSUME NEW s, Scheds = {s}, CoInv, CoFacts(s), IoParts(s), UNCHANGED ioVars,
         HandleStep(s) \/ Start \/ Idle
  PROVE  Moves(s)
<1>1. CASE Resume(s)
  <2>1. /\ ready[s] \in Seq(Cos) /\ Distinct(ready[s]) /\ ready[s] # <<>>
        /\ ready'[s] = Tail(ready[s]) /\ now'[s] = Head(ready[s])
        /\ UNCHANGED <<coMap, waiting, body, nTasks>>
    BY <1>1 DEF Resume, poolVars, CoInv, Types, Places, PlacesOf
  <2>2. Elems(ready'[s]) \cup {now'[s]} \subseteq Elems(ready[s])
    BY <2>1, TailElems
  <2>3. QED
    BY <2>1, <2>2 DEF Moves, Awake, CoFacts, ioVars
<1>2. CASE ~Resume(s)
  <2>1. UNCHANGED <<coMap, ready, waiting, now, body, nTasks>>
    BY <1>2 DEF HandleStep, BeginHandle, SeeEmpty, ClearFlag, LastYield, Start,
       Idle, vars, schedVars, poolVars, histVars
  <2>2. pc'[s] = "co" => pc[s] = "co"
    BY <1>2 DEF HandleStep, BeginHandle, SeeEmpty, ClearFlag, LastYield, Start,
       Idle, vars, CoInv, Types
  <2>3. QED
    BY <2>1, <2>2 DEF Moves, Awake, CoFacts, ioVars
<1>3. QED
  BY <1>1, <1>2

LEMMA CoroutineMoves ==
  ASSUME NEW s, Scheds = {s}, CoInv, CoFacts(s), IoParts(s),
         IoFinish(s) \/ IoSleepDue(s) \/ \E c \in Cos : TimerEvent(s, c)
  PROVE  Moves(s)
<1>1. {"no", "timer"} \cap Fds = {}
  BY IoAssumption
<1>2. CASE IoFinish(s)
  <2>1. /\ coMap'[s] = coMap[s] \ {now[s]} /\ pc'[s] = "finishing"
        /\ want[now[s]] = "no" /\ FdOf(now[s]) = None
        /\ UNCHANGED <<ready, waiting, now, body, nTasks, chan, armed, kready,
                       open, fdOf, want>>
    BY <1>2 DEF IoFinish, Finish, schedVars, histVars, ioVars, CoInv, Types
  <2>2. QED
    BY <2>1 DEF Moves, Awake, CoFacts
<1>3. CASE IoSleepDue(s)
  <2>1. /\ ready'[s] = Append(ready[s], now[s]) /\ want[now[s]] = "no"
        /\ now[s] \in Cos /\ ready[s] \in Seq(Cos) /\ pc'[s] # "co"
        /\ UNCHANGED <<coMap, waiting, now, body, nTasks, chan, armed, kready,
                       open, fdOf, want>>
    BY <1>3 DEF IoSleepDue, SleepDue, poolVars, histVars, ioVars, CoInv, Types,
       CoFacts
  <2>2. Elems(ready'[s]) = Elems(ready[s]) \cup {now[s]}
    BY <2>1, AppendElems
  <2>3. QED
    BY <1>1, <2>1, <2>2 DEF Moves, Awake, CoFacts
<1>4. ASSUME NEW c \in Cos, TimerEvent(s, c) PROVE Moves(s)
  <2>1. /\ ready'[s] = Append(ready[s], c) /\ want[c] = "timer"
        /\ waiting'[s] = waiting[s] \ {c} /\ ready[s] \in Seq(Cos)
        /\ UNCHANGED <<coMap, now, pc, body, nTasks, chan, armed, kready,
                       open, fdOf, want>>
    BY <1>4 DEF TimerEvent, Wake, poolVars, histVars, ioVars, CoInv, Types
  <2>2. Elems(ready'[s]) = Elems(ready[s]) \cup {c}
    BY <2>1, AppendElems
  <2>3. QED
    BY <1>1, <2>1, <2>2 DEF Moves, Awake, CoFacts
<1>5. QED
  BY <1>2, <1>3, <1>4

-----------------------------------------------------------------------------
(* The steps of the coroutine that runs, on the fd it has.                  *)

Acts(s) ==
    /\ pc[s] = "co" /\ UNCHANGED <<ready, coMap, now, body>>
    /\ waiting[s] \subseteq waiting'[s] /\ waiting'[s] \subseteq waiting[s] \cup {now[s]}
    /\ \A g \in Fds :
          \/ chan'[g].en = chan[g].en /\ chan'[g].cb = chan[g].cb /\ armed'[g] = armed[g]
          \/ chan'[g].en = {} /\ armed'[g] = {} /\ g = FdOf(now[s])
    /\ \A g \in Fds : g # FdOf(now[s]) => kready'[g] = kready[g]
    /\ \A g \in Fds : Sound(g, kready'[g])
    /\ \A d \in Cos : d # now[s] => want'[d] = want[d]
    /\ want'[now[s]] \notin Fds
    /\ \A d \in coMap[s] : d # now[s] => fdOf'[body[d]] = FdOf(d)
    /\ \/ fdOf'[body[now[s]]] = FdOf(now[s])
       \/ \A g \in Fds : g = FdOf(now[s]) => chan'[g].en = {}

LEMMA PartsOfActs ==
  ASSUME NEW s, CoFacts(s), IoParts(s), Acts(s)
  PROVE  Chans(s)' /\ Wants(s)' /\ Waits(s)' /\ Resets' /\ Finds(s)'
<1>1. /\ now[s] \in coMap[s] /\ now[s] \notin waiting[s] /\ coMap[s] \subseteq Cos
      /\ waiting[s] \subseteq coMap[s] /\ Elems(ready[s]) \subseteq coMap[s]
  BY DEF CoFacts, Acts
<1>2. ASSUME NEW d \in Cos, d # now[s], want[d] \in Fds PROVE want[d] # FdOf(now[s])
  BY <1>2, OthersWait DEF Acts, IoParts
<1>3. Chans(s)'
  <2>1. ASSUME NEW g \in Fds
        PROVE  /\ chan'[g].en \subseteq {Dir[g]} /\ armed'[g] \subseteq chan'[g].en
    BY DEF IoParts, Chans, Acts
  <2>2. ASSUME NEW g \in Fds, chan'[g].en # {}
        PROVE  chan'[g].cb \in coMap'[s] /\ fdOf'[body'[chan'[g].cb]] = g
    <3>1. /\ chan'[g].cb = chan[g].cb /\ chan[g].cb \in coMap[s]
          /\ FdOf(chan[g].cb) = g
      BY <2>2 DEF IoParts, Chans, Acts
    <3>2. fdOf'[body[chan[g].cb]] = g
      BY <2>2, <3>1 DEF Acts
    <3>3. QED
      BY <3>1, <3>2 DEF Acts
  <2>3. ASSUME NEW g \in Fds, armed'[g] # {}
        PROVE  chan'[g].cb \in waiting'[s] /\ want'[chan'[g].cb] = g
    <3>1. /\ chan'[g].cb = chan[g].cb /\ chan[g].cb \in waiting[s]
          /\ want[chan[g].cb] = g
      BY <2>3 DEF IoParts, Chans, Acts
    <3>2. QED
      BY <1>1, <3>1 DEF Acts
  <2>4. QED
    BY <2>1, <2>2, <2>3 DEF Chans, FdOf
<1>4. Wants(s)'
  <2>1. ASSUME NEW d \in Cos \ coMap'[s] PROVE want'[d] = "no"
    BY <1>1 DEF IoParts, Wants, Acts
  <2>2. ASSUME NEW d \in coMap'[s], want'[d] \in Fds PROVE fdOf'[body'[d]] = want'[d]
    <3>1. CASE d = now[s]
      BY <2>2, <3>1 DEF Acts
    <3>2. CASE d # now[s]
      BY <1>1, <2>2, <3>2 DEF IoParts, Wants, Acts
    <3>3. QED
      BY <3>1, <3>2
  <2>3. QED
    BY <2>1, <2>2 DEF Wants, FdOf
<1>5. Waits(s)'
  <2>1. ASSUME NEW d \in waiting'[s], want'[d] \in Fds
        PROVE  /\ chan'[want'[d]].cb = d
               /\ \/ Dir[want'[d]] \in armed'[want'[d]]
                  \/ want'[d] \in Pipes /\ "HUP" \in kready'[want'[d]]
    <3>1. d \in waiting[s] /\ d # now[s]
      BY <1>1, <2>1 DEF Acts
    <3>2. want'[d] = want[d] /\ want[d] # FdOf(now[s])
      BY <1>1, <1>2, <2>1, <3>1 DEF Acts
    <3>3. QED
      BY <2>1, <3>1, <3>2 DEF IoParts, Waits, Acts
  <2>2. QED
    BY <2>1 DEF Waits
<1>6. Finds(s)'
  <2>1. ASSUME NEW d \in Cos, Awake(s, d)', want'[d] \in Fds
        PROVE  Found(want[d])'
    <3>1. d # now[s]
      BY <2>1 DEF Acts
    <3>2. Awake(s, d)
      BY <2>1, <3>1 DEF Acts, Awake
    <3>3. want'[d] = want[d] /\ want[d] # FdOf(now[s])
      BY <1>2, <2>1, <3>1 DEF Acts
    <3>4. kready'[want[d]] = kready[want[d]] /\ Found(want[d])
      BY <2>1, <3>2, <3>3 DEF IoParts, Finds, Acts
    <3>5. QED
      BY <3>3, <3>4 DEF Found, CanDo, Fails
  <2>2. QED
    BY <2>1 DEF Finds
<1>7. Resets'
  <2>1. ASSUME NEW d \in Cos, want'[d] \in Socks
        PROVE  "HUP" \in kready'[want'[d]] /\ "ERR" \notin kready'[want'[d]]
    <3>1. want'[d] \in Fds /\ d # now[s]
      BY <2>1 DEF Acts, Fds
    <3>2. want'[d] = want[d] /\ want[d] # FdOf(now[s])
      BY <1>2, <3>1 DEF Acts
    <3>3. QED
      BY <2>1, <3>1, <3>2 DEF IoParts, Resets, Acts
  <2>2. QED
    BY <2>1 DEF Resets, Acts
<1>8. QED
  BY <1>3, <1>4, <1>5, <1>6, <1>7

\* The channel of an fd is looked up, or made.
LEMMA GotChannel ==
  ASSUME IoTypes, NEW fd \in Fds, GetChannelOf(fd)
  PROVE  /\ chan' \in [Fds -> [has : BOOLEAN, en : SUBSET Events, cb : Cos \cup {None}]]
         /\ \A g \in Fds : chan'[g].en = chan[g].en /\ chan'[g].cb = chan[g].cb
<1>1. /\ chan' = [chan EXCEPT ![fd] = [chan[fd] EXCEPT !.has = TRUE]]
      /\ chan[fd] \in [has : BOOLEAN, en : SUBSET Events, cb : Cos \cup {None}]
  BY DEF IoTypes, GetChannelOf
<1>2. /\ [chan[fd] EXCEPT !.has = TRUE]
             \in [has : BOOLEAN, en : SUBSET Events, cb : Cos \cup {None}]
      /\ [chan[fd] EXCEPT !.has = TRUE].en = chan[fd].en
      /\ [chan[fd] EXCEPT !.has = TRUE].cb = chan[fd].cb
  BY <1>1
<1>3. QED
  BY <1>1, <1>2 DEF IoTypes

\* What a system call leaves of the fd's state.
LEMMA CalledKeeps ==
  ASSUME IoTypes, Resets, NEW fd \in Fds, kready' \in Called(fd)
  PROVE  /\ kready' \in [Fds -> SUBSET (Events \cup {"HUP", "ERR"})]
         /\ \A g \in Fds : g # fd => kready'[g] = kready[g]
         /\ \A g \in Fds : Sound(g, kready'[g])
<1>1. PICK k \in SUBSET (Events \cup {"HUP", "ERR"}) :
         Sound(fd, k) /\ kready' = [kready EXCEPT ![fd] = k]
  <2>1. kready[fd] \in SUBSET (Events \cup {"HUP", "ERR"}) /\ Sound(fd, kready[fd])
    BY DEF IoTypes, Resets
  <2>2. kready = [kready EXCEPT ![fd] = kready[fd]]
    BY DEF IoTypes
  <2>3. CASE Fails(fd)
    <3>1. Sound(fd, kready[fd] \ {"ERR"})
      BY <2>1, IoAssumption DEF Sound, Events
    <3>2. QED
      BY <2>1, <2>3, <3>1 DEF Called
  <2>4. CASE ~Fails(fd) /\ kready' # kready
    <3>1. /\ kready' = [kready EXCEPT ![fd] = kready[fd] \ {Dir[fd]}]
          /\ ~(fd \in Socks /\ "HUP" \in kready[fd])
      BY <2>4 DEF Called
    <3>2. "ERR" \notin kready[fd]
      BY <2>4 DEF Fails
    <3>3. Sound(fd, kready[fd] \ {Dir[fd]})
      BY <2>1, <3>1, <3>2 DEF Sound
    <3>4. QED
      BY <2>1, <3>1, <3>3
  <2>5. QED
    BY <2>1, <2>2, <2>3, <2>4
<1>2. QED
  BY <1>1 DEF IoTypes, Resets

\* The system call that succeeds at once, or waits on a blocking fd.
LEMMA NowParts ==
  ASSUME NEW s, CoFacts(s), IoParts(s), IoNow(s) PROVE IoParts(s)'
<1> DEFINE fd == FdOf(now[s])
<1>1. now[s] \in coMap[s] /\ body[now[s]] \in 0..MaxTasks
  BY CoAssumption DEF IoNow, Running, CoFacts
<1>2. fd \in Fds
  BY <1>1 DEF IoNow, IoParts, IoTypes, FdOf
<1>3. /\ chan' \in [Fds -> [has : BOOLEAN, en : SUBSET Events, cb : Cos \cup {None}]]
      /\ \A g \in Fds : chan'[g].en = chan[g].en /\ chan'[g].cb = chan[g].cb
  BY <1>2, GotChannel DEF IoNow, IoParts
<1>4. /\ UNCHANGED <<ready, coMap, now, body, waiting, pc, nTasks, armed, open,
                     fdOf>>
      /\ want' = [want EXCEPT ![now[s]] = "no"] /\ pc[s] = "co"
  BY DEF IoNow, vars, Running
<1>5. /\ kready' \in [Fds -> SUBSET (Events \cup {"HUP", "ERR"})]
      /\ \A g \in Fds : g # fd => kready'[g] = kready[g]
      /\ \A g \in Fds : Sound(g, kready'[g])
  BY <1>2, CalledKeeps DEF IoNow, IoParts
<1>6. /\ want' \in [Cos -> Reasons] /\ want'[now[s]] = "no"
      /\ \A d \in Cos : d # now[s] => want'[d] = want[d]
  BY <1>1, <1>4 DEF IoParts, IoTypes, Reasons, CoFacts
<1>7. Acts(s)
  BY <1>3, <1>4, <1>5, <1>6, IoAssumption DEF Acts, FdOf
<1>8. Owns' /\ IoTypes'
  BY <1>3, <1>4, <1>5, <1>6 DEF IoParts, IoTypes, Owns
<1>9. QED
  BY <1>7, <1>8, PartsOfActs DEF IoParts

LEMMA WaitParts ==
  ASSUME NEW s, CoFacts(s), IoParts(s), IoWait(s) PROVE IoParts(s)'
<1> DEFINE fd == FdOf(now[s])
<1>1. now[s] \in coMap[s] /\ now[s] \in Cos /\ now[s] \notin waiting[s]
  BY DEF IoWait, Running, CoFacts
<1>2. fd \in Socks /\ fd \in Fds
  BY DEF IoWait, Fds
<1>3. /\ chan' \in [Fds -> [has : BOOLEAN, en : SUBSET Events, cb : Cos \cup {None}]]
      /\ \A g \in Fds : chan'[g].en = chan[g].en /\ chan'[g].cb = chan[g].cb
  BY <1>2, GotChannel DEF IoWait, IoParts
<1>4. /\ UNCHANGED <<ready, coMap, now, body, waiting, pc, nTasks, armed, open,
                     fdOf, kready>>
      /\ want' = [want EXCEPT ![now[s]] = "wait"] /\ pc[s] = "co"
  BY DEF IoWait, vars, Running
<1>5. /\ want' \in [Cos -> Reasons] /\ want'[now[s]] = "wait"
      /\ \A d \in Cos : d # now[s] => want'[d] = want[d]
  BY <1>1, <1>4 DEF IoParts, IoTypes, Reasons
<1>6. Acts(s)
  BY <1>1, <1>3, <1>4, <1>5, IoAssumption DEF Acts, FdOf, IoParts, Resets
<1>7. Owns' /\ IoTypes'
  BY <1>3, <1>4, <1>5 DEF IoParts, IoTypes, Owns
<1>8. QED
  BY <1>6, <1>7, PartsOfActs DEF IoParts

\* The second system call.
LEMMA RetryParts ==
  ASSUME NEW s, CoFacts(s), IoParts(s), IoRetry(s) PROVE IoParts(s)'
<1>1. now[s] \in coMap[s] /\ now[s] \in Cos /\ now[s] \notin waiting[s]
  BY DEF IoRetry, Running, CoFacts
<1>2. /\ UNCHANGED <<ready, coMap, now, body, waiting, pc, nTasks, chan, armed,
                     open, fdOf>>
      /\ want' = [want EXCEPT ![now[s]] = "no"] /\ pc[s] = "co"
  BY DEF IoRetry, vars, Running
<1>3. /\ want' \in [Cos -> Reasons] /\ want'[now[s]] = "no"
      /\ \A d \in Cos : d # now[s] => want'[d] = want[d]
  BY <1>1, <1>2 DEF IoParts, IoTypes, Reasons
<1>4. /\ kready' \in [Fds -> SUBSET (Events \cup {"HUP", "ERR"})]
      /\ \A g \in Fds : g # FdOf(now[s]) => kready'[g] = kready[g]
      /\ \A g \in Fds : Sound(g, kready'[g])
  <2>1. CASE want[now[s]] \in Fds
    <3>1. FdOf(now[s]) = want[now[s]]
      BY <1>1, <2>1 DEF IoParts, Wants
    <3>2. kready' \in Called(want[now[s]])
      BY <2>1 DEF IoRetry
    <3>3. QED
      BY <2>1, <3>1, <3>2, CalledKeeps DEF IoParts
  <2>2. CASE want[now[s]] \notin Fds
    BY <2>2 DEF IoRetry, IoParts, IoTypes, Resets
  <2>3. QED
    BY <2>1, <2>2
<1>5. Acts(s)
  BY <1>1, <1>2, <1>3, <1>4, IoAssumption DEF Acts, FdOf
<1>6. Owns' /\ IoTypes'
  BY <1>2, <1>3, <1>4 DEF IoParts, IoTypes, Owns
<1>7. QED
  BY <1>5, <1>6, PartsOfActs DEF IoParts

\* co_sleep, for a time or for good.
LEMMA SleepParts ==
  ASSUME NEW s, Scheds = {s}, CoInv, CoFacts(s), IoParts(s),
         NEW reason \in {"timer", "dropped"}, Sleep(s, reason)
  PROVE  IoParts(s)'
<1>1. now[s] \in coMap[s] /\ now[s] \in Cos /\ now[s] \notin waiting[s]
  BY DEF Sleep, Block, CoFacts
<1>2. /\ UNCHANGED <<ready, coMap, now, body, nTasks, chan, armed, open, fdOf,
                     kready>>
      /\ want' = [want EXCEPT ![now[s]] = reason] /\ pc[s] = "co"
      /\ waiting'[s] = waiting[s] \cup {now[s]}
  BY DEF Sleep, Block, schedVars, poolVars, histVars, CoInv, Types
<1>3. /\ want' \in [Cos -> Reasons] /\ want'[now[s]] = reason
      /\ \A d \in Cos : d # now[s] => want'[d] = want[d]
  BY <1>1, <1>2 DEF IoParts, IoTypes, Reasons
<1>4. reason \notin Fds
  BY IoAssumption
<1>5. Acts(s)
  BY <1>1, <1>2, <1>3, <1>4 DEF Acts, FdOf, IoParts, Resets
<1>6. Owns' /\ IoTypes'
  BY <1>2, <1>3 DEF IoParts, IoTypes, Owns
<1>7. QED
  BY <1>5, <1>6, PartsOfActs DEF IoParts

\* co_close gives up the fd, and its channel with it.
LEMMA CloseParts ==
  ASSUME NEW s, CoFacts(s), IoParts(s), Close(s) PROVE IoParts(s)'
<1> DEFINE fd == FdOf(now[s])
           b == body[now[s]]
<1>1. /\ now[s] \in coMap[s] /\ now[s] \in Cos /\ now[s] \notin waiting[s]
      /\ b \in 0..MaxTasks
  BY CoAssumption DEF Close, Running, CoFacts
<1>2. fd \in Fds /\ fd # None
  BY <1>1 DEF Close, IoParts, IoTypes, FdOf
<1>3. /\ UNCHANGED <<ready, coMap, now, body, waiting, pc, nTasks, want>>
      /\ fdOf' = [fdOf EXCEPT ![b] = None] /\ pc[s] = "co"
      /\ want[now[s]] = "no" /\ open \ {fd} \subseteq open' /\ open' \subseteq open
  BY DEF Close, vars, Running
<1>4. /\ chan' \in [Fds -> [has : BOOLEAN, en : SUBSET Events, cb : Cos \cup {None}]]
      /\ \A g \in Fds : g # fd => chan'[g] = chan[g]
      /\ chan'[fd].en = {}
  BY <1>2 DEF Close, NoChannel, IoParts, IoTypes
<1>5. /\ armed' \in [Fds -> SUBSET Events] /\ armed'[fd] = {}
      /\ \A g \in Fds : g # fd => armed'[g] = armed[g]
  BY <1>2 DEF Close, IoParts, IoTypes
<1>6. /\ kready' \in [Fds -> SUBSET (Events \cup {"HUP", "ERR"})]
      /\ \A g \in Fds : g # fd => kready'[g] = kready[g]
      /\ \A g \in Fds : Sound(g, kready'[g])
  BY <1>2 DEF Close, IoParts, IoTypes, Resets, Sound
<1>7. /\ fdOf' \in [0..MaxTasks -> Fds \cup {None}] /\ fdOf'[b] = None
      /\ \A n \in 0..MaxTasks : n # b => fdOf'[n] = fdOf[n]
  BY <1>1, <1>3 DEF IoParts, IoTypes
<1>8. Owns'
  <2>1. ASSUME NEW n \in 0..MaxTasks, fdOf'[n] # None
        PROVE  n \in 1..nTasks /\ fdOf'[n] \in open'
    <3>1. n # b /\ fdOf'[n] = fdOf[n]
      BY <1>7, <2>1
    <3>2. n \in 1..nTasks /\ fdOf[n] \in open /\ fdOf[n] # fd
      BY <1>1, <2>1, <3>1 DEF IoParts, Owns, FdOf
    <3>3. QED
      BY <1>3, <3>1, <3>2
  <2>2. ASSUME NEW n \in 0..MaxTasks, NEW m \in 0..MaxTasks,
               fdOf'[n] = fdOf'[m], fdOf'[n] # None
        PROVE  n = m
    BY <1>7, <2>2 DEF IoParts, Owns
  <2>3. QED
    BY <1>3, <2>1, <2>2 DEF Owns
<1>9. Acts(s)
  <2>1. ASSUME NEW d \in coMap[s], d # now[s] PROVE fdOf'[body[d]] = FdOf(d)
    <3>1. body[d] # b /\ body[d] \in 0..MaxTasks
      BY <1>1, <2>1, CoAssumption DEF CoFacts
    <3>2. QED
      BY <1>7, <3>1 DEF FdOf
  <2>2. "no" \notin Fds
    BY IoAssumption
  <2>3. QED
    BY <1>1, <1>3, <1>4, <1>5, <1>6, <2>1, <2>2 DEF Acts
<1>10. IoTypes'
  BY <1>3, <1>4, <1>5, <1>6, <1>7 DEF IoParts, IoTypes
<1>11. QED
  BY <1>8, <1>9, <1>10, PartsOfActs DEF IoParts

-----------------------------------------------------------------------------
(* New tasks and their fds.                                                 *)

LEMMA Given ==
  ASSUME NEW s, CoFacts(s), IoTypes, Owns, NEW fd \in Fds \cup {None},
         fd # None => \A n \in 0..MaxTasks : fdOf[n] # fd,
         nTasks < MaxTasks, nTasks' = nTasks + 1,
         fdOf' = [fdOf EXCEPT ![nTasks + 1] = fd],
         open' = IF fd = None THEN open ELSE open \cup {fd}
  PROVE  /\ Owns' /\ open' \subseteq Fds
         /\ fdOf' \in [0..MaxTasks -> Fds \cup {None}]
         /\ \A d \in coMap[s] : fdOf'[body[d]] = FdOf(d)
<1>1. nTasks \in 0..MaxTasks /\ nTasks + 1 \in 0..MaxTasks
  BY CoAssumption DEF CoFacts
<1>2. /\ fdOf' \in [0..MaxTasks -> Fds \cup {None}] /\ fdOf'[nTasks + 1] = fd
      /\ \A n \in 0..MaxTasks : n # nTasks + 1 => fdOf'[n] = fdOf[n]
  BY <1>1 DEF IoTypes
<1>3. /\ open \subseteq open' /\ fd # None => fd \in open'
      /\ open' \subseteq Fds
  BY DEF IoTypes
<1>4. Owns'
  <2>1. ASSUME NEW n \in 0..MaxTasks, fdOf'[n] # None
        PROVE  n \in 1..nTasks + 1 /\ fdOf'[n] \in open'
    <3>1. CASE n = nTasks + 1
      BY <1>1, <1>2, <1>3, <2>1, <3>1
    <3>2. CASE n # nTasks + 1
      <4>1. n \in 1..nTasks /\ fdOf[n] \in open
        BY <1>2, <2>1, <3>2 DEF Owns
      <4>2. QED
        BY <1>1, <1>2, <1>3, <3>2, <4>1
    <3>3. QED
      BY <3>1, <3>2
  <2>2. ASSUME NEW n \in 0..MaxTasks, NEW m \in 0..MaxTasks,
               fdOf'[n] = fdOf'[m], fdOf'[n] # None
        PROVE  n = m
    BY <1>2, <2>2 DEF Owns
  <2>3. QED
    BY <2>1, <2>2 DEF Owns
<1>5. ASSUME NEW d \in coMap[s] PROVE fdOf'[body[d]] = FdOf(d)
  <2>1. body[d] \in 0..MaxTasks /\ body[d] # nTasks + 1
    BY CoAssumption DEF CoFacts
  <2>2. QED
    BY <1>2, <2>1 DEF FdOf
<1>6. QED
  BY <1>2, <1>3, <1>4, <1>5

LEMMA AddParts ==
  ASSUME NEW s, Scheds = {s}, CoFacts(s), IoParts(s),
         IoBootAdd(s) \/ IoCoAdd(s, s)
  PROVE  IoParts(s)'
<1>1. /\ nTasks < MaxTasks /\ nTasks' = nTasks + 1
      /\ UNCHANGED <<ready, coMap, body, waiting, now, pc, chan, armed, kready,
                     want>>
  BY DEF IoBootAdd, IoCoAdd, BootAdd, CoAdd, BeginAdd, schedVars, poolVars
<1>2. PICK fd \in Fds \cup {None} :
        /\ fd # None => \A n \in 0..MaxTasks : fdOf[n] # fd
        /\ Give(fd)
  <2>1. PICK fd \in IF nTasks = 0 THEN {Listen} ELSE NewFds : Give(fd)
    <3>1. CASE IoBootAdd(s)
      BY <3>1 DEF IoBootAdd
    <3>2. CASE IoCoAdd(s, s)
      <4>1. nTasks # 0
        <5>1. now[s] \in coMap[s]
          BY <3>2 DEF IoCoAdd, CoAdd, CoFacts
        <5>2. body[now[s]] \in 1..nTasks
          BY <5>1 DEF CoFacts
        <5>3. QED
          BY <5>2, CoAssumption DEF CoFacts
      <4>2. QED
        BY <3>2, <4>1 DEF IoCoAdd
    <3>3. QED
      BY <3>1, <3>2
  <2>2. fd \in Fds \cup {None}
    BY <2>1 DEF NewFds, Fds
  <2>3. ASSUME NEW n \in 0..MaxTasks, fdOf[n] = fd, fd # None PROVE FALSE
    <3>1. n \in 1..nTasks /\ fd \in open
      BY <2>3 DEF IoParts, Owns
    <3>2. nTasks # 0
      BY <3>1
    <3>3. QED
      BY <2>1, <2>3, <3>1, <3>2 DEF NewFds
  <2>4. QED
    BY <2>1, <2>2, <2>3
<1>3. /\ Owns' /\ open' \subseteq Fds
      /\ fdOf' \in [0..MaxTasks -> Fds \cup {None}]
      /\ \A d \in coMap[s] : fdOf'[body[d]] = FdOf(d)
  BY <1>1, <1>2, Given DEF Give, IoParts
<1>4. IoTypes'
  BY <1>1, <1>3 DEF IoParts, IoTypes
<1>5. Chans(s)' /\ Wants(s)'
  BY <1>1, <1>3 DEF IoParts, Chans, Wants, FdOf
<1>6. Waits(s)' /\ Resets' /\ Finds(s)'
  BY <1>1 DEF IoParts, Waits, Resets, Finds, Awake, Found, CanDo, Fails
<1>7. QED
  BY <1>3, <1>4, <1>5, <1>6 DEF IoParts

LEMMA AcceptParts ==
  ASSUME NEW s, Scheds = {s}, CoFacts(s), IoParts(s), NEW fd \in Socks, Accept(s, fd)
  PROVE  IoParts(s)'
<1>1. /\ nTasks < MaxTasks /\ nTasks' = nTasks + 1 /\ pc[s] = "co"
      /\ UNCHANGED <<ready, coMap, body, waiting, now, pc, armed>>
  BY DEF Accept, CoAdd, BeginAdd, schedVars, poolVars
<1>2. now[s] \in coMap[s] /\ now[s] \in Cos /\ now[s] \notin waiting[s]
  BY <1>1 DEF CoFacts
<1>3. fd \in Fds /\ Listen \in Fds /\ fd # None /\ "no" \notin Fds
  BY IoAssumption DEF Fds
<1>4. /\ Owns' /\ open' \subseteq Fds
      /\ fdOf' \in [0..MaxTasks -> Fds \cup {None}]
      /\ \A d \in coMap[s] : fdOf'[body[d]] = FdOf(d)
  <2>1. \A n \in 0..MaxTasks : fdOf[n] # fd
    BY <1>3 DEF Accept, IoParts, Owns
  <2>2. QED
    BY <1>1, <1>3, <2>1, Given DEF Accept, IoParts
<1>5. /\ chan' \in [Fds -> [has : BOOLEAN, en : SUBSET Events, cb : Cos \cup {None}]]
      /\ \A g \in Fds : chan'[g].en = chan[g].en /\ chan'[g].cb = chan[g].cb
  BY <1>3, GotChannel DEF Accept, IoParts
<1>6. /\ want' \in [Cos -> Reasons] /\ want'[now[s]] = "no"
      /\ \A d \in Cos : d # now[s] => want'[d] = want[d]
  BY <1>2 DEF Accept, IoParts, IoTypes, Reasons
<1>7. /\ kready' \in [Fds -> SUBSET (Events \cup {"HUP", "ERR"})]
      /\ \A g \in Fds : g # FdOf(now[s]) => kready'[g] = kready[g]
      /\ \A g \in Fds : Sound(g, kready'[g])
  <2>1. FdOf(now[s]) = Listen
    BY DEF Accept
  <2>2. kready' = kready \/ kready' = [kready EXCEPT ![Listen] = {}]
    BY DEF Accept
  <2>3. QED
    BY <1>3, <2>1, <2>2 DEF IoParts, IoTypes, Resets, Sound
<1>8. Acts(s)
  BY <1>1, <1>2, <1>3, <1>4, <1>5, <1>6, <1>7 DEF Acts
<1>9. IoTypes'
  BY <1>1, <1>4, <1>5, <1>6, <1>7 DEF IoParts, IoTypes
<1>10. QED
  BY <1>4, <1>8, <1>9, PartsOfActs DEF IoParts

-----------------------------------------------------------------------------
(* Waiting for an fd, and the reports of epoll.                             *)

\* The callback of a channel that is enabled already is that of the coroutine
\* which waits on it again.
LEMMA ParkParts ==
  ASSUME NEW s, Scheds = {s}, CoInv, CoFacts(s), IoParts(s), IoPark(s)
  PROVE  IoParts(s)'
<1> DEFINE c == now[s]
           fd == FdOf(c)
<1>1. /\ pc[s] = "co" /\ pc'[s] = "handle" /\ waiting'[s] = waiting[s] \cup {c}
      /\ UNCHANGED <<ready, coMap, now, body, nTasks, open, fdOf>>
  BY DEF IoPark, Block, schedVars, poolVars, histVars, CoInv, Types
<1>2. /\ c \in coMap[s] /\ c \in Cos /\ c \notin waiting[s]
      /\ coMap[s] \subseteq Cos /\ waiting[s] \subseteq coMap[s]
      /\ body[c] \in 0..MaxTasks
  BY <1>1, CoAssumption DEF CoFacts
<1>3. fd \in Fds /\ fd # None
  BY <1>2 DEF IoPark, ReturnsError, IoParts, IoTypes, FdOf
<1>4. /\ chan[fd] \in [has : BOOLEAN, en : SUBSET Events, cb : Cos \cup {None}]
      /\ Dir[fd] \in Events /\ chan[fd].en \cup {Dir[fd]} = {Dir[fd]}
  BY <1>3, IoAssumption DEF IoParts, IoTypes, Chans
<1>5. Dir[fd] \in chan[fd].en => chan[fd].cb = c
  BY <1>2, <1>3, OneOwner, CoAssumption DEF IoParts, Chans
<1>6. /\ chan' = [chan EXCEPT ![fd] = [has |-> TRUE, en |-> {Dir[fd]}, cb |-> c]]
      /\ armed' = [armed EXCEPT ![fd] = {Dir[fd]}]
      /\ want' = [want EXCEPT ![c] = fd]
  BY <1>4, <1>5 DEF IoPark
<1>7. /\ chan' \in [Fds -> [has : BOOLEAN, en : SUBSET Events, cb : Cos \cup {None}]]
      /\ chan'[fd].en = {Dir[fd]} /\ chan'[fd].cb = c
      /\ \A g \in Fds : g # fd => chan'[g] = chan[g]
  BY <1>2, <1>3, <1>4, <1>6 DEF IoParts, IoTypes
<1>8. /\ armed' \in [Fds -> SUBSET Events] /\ armed'[fd] = {Dir[fd]}
      /\ \A g \in Fds : g # fd => armed'[g] = armed[g]
  BY <1>3, <1>4, <1>6 DEF IoParts, IoTypes
<1>9. /\ want' \in [Cos -> Reasons] /\ want'[c] = fd
      /\ \A d \in Cos : d # c => want'[d] = want[d]
  BY <1>2, <1>3, <1>6 DEF IoParts, IoTypes, Reasons
<1>10. FdOf(c) = fd /\ \A d \in Cos : d # c => want[d] # fd
  BY <1>1, <1>3, OthersWait DEF IoParts
<1>11. \A d \in coMap[s] : fdOf'[body'[d]] = FdOf(d)
  BY <1>1 DEF FdOf
<1> HIDE DEF c, fd
<1>12. /\ kready' = [kready EXCEPT ![fd] = kready[fd] \ {"ERR"}]
       /\ kready' \in [Fds -> SUBSET (Events \cup {"HUP", "ERR"})]
       /\ \A g \in Fds : g # fd => kready'[g] = kready[g]
       /\ fd \in Socks => Fails(fd)
  BY <1>3 DEF IoPark, ReturnsError, IoParts, IoTypes, fd, c
<1>13. IoTypes' /\ Owns'
  BY <1>1, <1>7, <1>8, <1>9, <1>12 DEF IoParts, IoTypes, Owns
<1>14. Chans(s)'
  <2>1. ASSUME NEW g \in Fds
        PROVE  /\ chan'[g].en \subseteq {Dir[g]} /\ armed'[g] \subseteq chan'[g].en
               /\ chan'[g].en # {} => chan'[g].cb \in coMap'[s]
                                       /\ fdOf'[body'[chan'[g].cb]] = g
               /\ armed'[g] # {} => chan'[g].cb \in waiting'[s]
                                     /\ want'[chan'[g].cb] = g
    <3>1. CASE g = fd
      BY <1>1, <1>2, <1>7, <1>8, <1>9, <1>10, <1>11, <3>1
    <3>2. CASE g # fd
      <4>1. chan'[g] = chan[g] /\ armed'[g] = armed[g]
        BY <1>7, <1>8, <3>2
      <4>2. /\ chan[g].en \subseteq {Dir[g]} /\ armed[g] \subseteq chan[g].en
            /\ chan[g].en # {} => chan[g].cb \in coMap[s] /\ FdOf(chan[g].cb) = g
            /\ armed[g] # {} => chan[g].cb \in waiting[s] /\ want[chan[g].cb] = g
        BY DEF IoParts, Chans
      <4>3. QED
        BY <1>1, <1>2, <1>9, <1>11, <4>1, <4>2
    <3>3. QED
      BY <3>1, <3>2
  <2>2. QED
    BY <2>1 DEF Chans, FdOf
<1>15. Wants(s)'
  BY <1>1, <1>2, <1>9, <1>10, <1>11 DEF IoParts, Wants, FdOf
<1>16. Waits(s)'
  <2>1. ASSUME NEW d \in waiting'[s], want'[d] \in Fds
        PROVE  /\ chan'[want'[d]].cb = d
               /\ \/ Dir[want'[d]] \in armed'[want'[d]]
                  \/ want'[d] \in Pipes /\ "HUP" \in kready'[want'[d]]
    <3>1. CASE d = c
      BY <1>7, <1>8, <1>9, <3>1
    <3>2. CASE d # c
      <4>1. /\ d \in waiting[s] /\ want'[d] = want[d] /\ want[d] # fd
        BY <1>1, <1>2, <1>9, <1>10, <3>2
      <4>2. QED
        BY <1>7, <1>8, <1>12, <2>1, <4>1 DEF IoParts, Waits
    <3>3. QED
      BY <3>1, <3>2
  <2>2. QED
    BY <2>1 DEF Waits
<1>17. Finds(s)'
  <2>1. ASSUME NEW d \in Cos, Awake(s, d)', want'[d] \in Fds
        PROVE  Found(want[d])'
    <3>1. d # c /\ Awake(s, d)
      BY <1>1, <1>2, <2>1 DEF Awake, CoFacts, c
    <3>2. want'[d] = want[d] /\ want[d] # fd /\ Found(want[d])
      BY <1>9, <1>10, <2>1, <3>1 DEF IoParts, Finds
    <3>3. kready'[want[d]] = kready[want[d]]
      BY <1>12, <2>1, <3>2
    <3>4. QED
      BY <3>2, <3>3 DEF Found, CanDo, Fails
  <2>2. QED
    BY <2>1 DEF Finds
<1>18. Resets'
  <2>1. ASSUME NEW g \in Fds PROVE Sound(g, kready'[g])
    <3>1. kready'[g] \in {kready[g], kready[g] \ {"ERR"}}
      BY <1>12
    <3>2. QED
      BY <3>1, IoAssumption DEF IoParts, Resets, Sound, Events
  <2>2. ASSUME NEW d \in Cos, want'[d] \in Socks
        PROVE  "HUP" \in kready'[want'[d]] /\ "ERR" \notin kready'[want'[d]]
    <3>1. CASE d = c
      <4>1. want'[d] = fd /\ fd \in Socks
        BY <1>9, <2>2, <3>1
      <4>2. "HUP" \in kready[fd]
        BY <1>3, <1>12, <4>1 DEF Fails, IoParts, Resets, Sound
      <4>3. QED
        BY <1>3, <1>12, <4>1, <4>2 DEF IoParts, IoTypes
    <3>2. CASE d # c
      <4>1. want'[d] = want[d] /\ want[d] # fd /\ want[d] \in Fds
        BY <1>9, <1>10, <2>2, <3>2 DEF Fds
      <4>2. QED
        BY <1>12, <2>2, <4>1 DEF IoParts, Resets
    <3>3. QED
      BY <3>1, <3>2
  <2>3. QED
    BY <2>1, <2>2 DEF Resets
<1>19. QED
  BY <1>13, <1>14, <1>15, <1>16, <1>17, <1>18 DEF IoParts

\* The report wakes the coroutine that waits for the fd.
LEMMA EventWakes ==
  ASSUME NEW s, IoParts(s), NEW fd \in Fds, FdEvent(s, fd)
  PROVE  /\ chan[fd].cb \in waiting[s] /\ want[chan[fd].cb] = fd
         /\ Dir[fd] \in kready[fd]
<1>1. armed[fd] \subseteq {Dir[fd]} /\ armed[fd] \cap kready[fd] # {}
  BY DEF FdEvent, IoParts, Chans
<1>2. QED
  BY <1>1 DEF IoParts, Chans

LEMMA EventParts ==
  ASSUME NEW s, Scheds = {s}, CoInv, CoFacts(s), IoParts(s),
         NEW fd \in Fds, FdEvent(s, fd)
  PROVE  IoParts(s)'
<1> DEFINE c == chan[fd].cb
<1>1. c \in waiting[s] /\ want[c] = fd /\ Dir[fd] \in kready[fd]
  BY EventWakes
<1>2. c \in Cos /\ waiting[s] \subseteq Cos /\ ready[s] \in Seq(Cos)
  BY <1>1 DEF CoFacts, CoInv, Types
<1>3. /\ ready'[s] = Append(ready[s], c) /\ waiting'[s] = waiting[s] \ {c}
      /\ UNCHANGED <<coMap, now, pc, body, nTasks, chan, kready, open, fdOf, want>>
      /\ armed' = [armed EXCEPT ![fd] = {}]
  BY DEF FdEvent, poolVars, histVars, CoInv, Types
<1>4. /\ armed' \in [Fds -> SUBSET Events] /\ armed'[fd] = {}
      /\ \A g \in Fds : g # fd => armed'[g] = armed[g]
  BY <1>3 DEF IoParts, IoTypes
<1>5. Elems(ready'[s]) = Elems(ready[s]) \cup {c}
  BY <1>2, <1>3, AppendElems
<1> HIDE DEF c
<1>6. IoTypes' /\ Owns'
  BY <1>3, <1>4 DEF IoParts, IoTypes, Owns
<1>7. Chans(s)'
  <2>1. ASSUME NEW g \in Fds
        PROVE  /\ armed'[g] \subseteq chan[g].en
               /\ armed'[g] # {} => chan[g].cb \in waiting'[s] /\ want[chan[g].cb] = g
    BY <1>1, <1>3, <1>4 DEF IoParts, Chans
  <2>2. QED
    BY <1>3, <2>1 DEF IoParts, Chans, FdOf
<1>8. Wants(s)'
  BY <1>3 DEF IoParts, Wants, FdOf
<1>9. Waits(s)'
  <2>1. ASSUME NEW d \in waiting[s], d # c, want[d] \in Fds PROVE want[d] # fd
    BY <2>1 DEF IoParts, Waits, c
  <2>2. QED
    BY <1>3, <1>4, <2>1 DEF IoParts, Waits
<1>10. Finds(s)'
  <2>1. Dir[fd] = "READ" => ~Fails(fd)
    <3>1. "ERR" \notin kready[fd]
      BY <1>1, <1>2 DEF IoParts, Resets, Sound
    <3>2. QED
      BY <3>1 DEF Fails
  <2>2. Found(want[c])
    BY <1>1, <2>1, IoAssumption DEF Found, CanDo, Events
  <2>3. QED
    BY <1>3, <1>5, <2>2 DEF IoParts, Finds, Awake, Found, CanDo, Fails
<1>11. Resets'
  BY <1>3 DEF IoParts, Resets
<1>12. QED
  BY <1>6, <1>7, <1>8, <1>9, <1>10, <1>11 DEF IoParts

\* A hang-up without the event, and the kernel's own steps.
LEMMA HupParts ==
  ASSUME NEW s, IoParts(s), NEW fd \in Fds, HupEvent(s, fd) PROVE IoParts(s)'
<1>1. /\ UNCHANGED <<ready, coMap, now, pc, body, waiting, nTasks, chan, kready,
                     open, fdOf, want>>
      /\ armed' = [armed EXCEPT ![fd] = {}] /\ "HUP" \in kready[fd]
      /\ armed[fd] # {} /\ armed[fd] \cap kready[fd] = {}
  BY DEF HupEvent, vars
<1>2. /\ armed' \in [Fds -> SUBSET Events] /\ armed'[fd] = {}
      /\ \A g \in Fds : g # fd => armed'[g] = armed[g]
  BY <1>1 DEF IoParts, IoTypes
<1>3. IoTypes' /\ Owns'
  BY <1>1, <1>2 DEF IoParts, IoTypes, Owns
<1>4. Chans(s)'
  BY <1>1, <1>2 DEF IoParts, Chans, FdOf
<1>5. fd \in Pipes
  <2>1. Dir[fd] \in armed[fd]
    BY <1>1 DEF IoParts, Chans
  <2>2. QED
    BY <1>1, <2>1 DEF IoParts, Resets, Sound
<1>6. Wants(s)' /\ Waits(s)'
  BY <1>1, <1>2, <1>5 DEF IoParts, Wants, Waits, FdOf
<1>7. Resets' /\ Finds(s)'
  BY <1>1 DEF IoParts, Resets, Finds, Awake, Found, CanDo, Fails
<1>8. QED
  BY <1>3, <1>4, <1>6, <1>7 DEF IoParts

LEMMA PeerParts ==
  ASSUME NEW s, IoParts(s), NEW fd \in Fds, PeerReady(fd) \/ PeerGone(fd)
  PROVE  IoParts(s)'
<1>1. /\ UNCHANGED <<ready, coMap, now, pc, body, waiting, nTasks, chan, armed,
                     open, fdOf, want>>
  BY DEF PeerReady, PeerGone, vars
<1>2. PICK k \in SUBSET (Events \cup {"HUP", "ERR"}) :
         /\ kready[fd] \subseteq k /\ kready' = [kready EXCEPT ![fd] = k]
         /\ Sound(fd, k) /\ "HUP" \notin kready[fd]
         /\ "ERR" \in k => fd \in Socks
  <2>1. /\ kready[fd] \in SUBSET (Events \cup {"HUP", "ERR"})
        /\ Sound(fd, kready[fd])
        /\ Dir[fd] \in Events
    BY IoAssumption DEF IoParts, IoTypes, Resets
  <2>2. CASE PeerReady(fd)
    <3>1. Sound(fd, kready[fd] \cup {Dir[fd]})
      BY <2>1 DEF Sound, Events
    <3>2. "ERR" \notin kready[fd] /\ "HUP" \notin kready[fd]
      BY <2>1, <2>2 DEF PeerReady, Sound
    <3>3. kready[fd] \cup {Dir[fd]} \in SUBSET (Events \cup {"HUP", "ERR"})
      BY <2>1
    <3>4. kready' = [kready EXCEPT ![fd] = kready[fd] \cup {Dir[fd]}]
      BY <2>2 DEF PeerReady
    <3>5. "ERR" \notin kready[fd] \cup {Dir[fd]}
      BY <2>1, <3>2 DEF Events
    <3>6. QED
      BY <3>1, <3>2, <3>3, <3>4, <3>5
  <2>3. CASE PeerGone(fd) /\ fd \in Pipes
    <3>1. Sound(fd, kready[fd] \cup {"HUP"})
      BY <2>1, <2>3 DEF Sound
    <3>2. QED
      BY <2>1, <2>3, <3>1 DEF PeerGone, Sound
  <2>4. CASE PeerGone(fd) /\ fd \notin Pipes
    <3>1. fd \in Socks
      BY <2>4 DEF PeerGone, Fds
    <3>2. Sound(fd, kready[fd] \cup {Dir[fd], "HUP", "ERR"})
      BY <3>1 DEF Sound
    <3>3. QED
      BY <2>1, <2>4, <3>1, <3>2 DEF PeerGone
  <2>5. QED
    BY <2>2, <2>3, <2>4
<1>3. /\ kready' \in [Fds -> SUBSET (Events \cup {"HUP", "ERR"})]
      /\ \A g \in Fds : g # fd => kready'[g] = kready[g]
      /\ kready'[fd] = k /\ \A g \in Fds : kready[g] \subseteq kready'[g]
  BY <1>2 DEF IoParts, IoTypes
<1>4. IoTypes' /\ Owns'
  BY <1>1, <1>3 DEF IoParts, IoTypes, Owns
<1>5. Chans(s)' /\ Wants(s)'
  BY <1>1 DEF IoParts, Chans, Wants, FdOf
<1>6. Waits(s)'
  BY <1>1, <1>3 DEF IoParts, Waits
<1>7. Resets'
  <2>1. \A g \in Fds : Sound(g, kready'[g])
    BY <1>2, <1>3 DEF IoParts, Resets
  <2>2. ASSUME NEW c \in Cos, want[c] \in Socks
        PROVE  "HUP" \in kready'[want[c]] /\ "ERR" \notin kready'[want[c]]
    <3>1. want[c] \in Fds /\ "HUP" \in kready[want[c]] /\ "ERR" \notin kready[want[c]]
      BY <2>2 DEF IoParts, Resets, Fds
    <3>2. want[c] # fd
      BY <1>2, <3>1
    <3>3. QED
      BY <1>3, <3>1, <3>2
  <2>3. QED
    BY <1>1, <2>1, <2>2 DEF Resets
<1>8. Finds(s)'
  <2>1. ASSUME NEW c \in Cos, Awake(s, c), want[c] \in Fds PROVE Found(want[c])'
    <3>1. Found(want[c])
      BY <2>1 DEF IoParts, Finds
    <3>2. CASE want[c] # fd
      BY <1>1, <1>3, <2>1, <3>1, <3>2 DEF Found, CanDo, Fails
    <3>3. CASE want[c] = fd
      <4>1. fd \notin Socks
        BY <1>2, <2>1, <3>3 DEF IoParts, Resets
      <4>2. "ERR" \notin k
        BY <1>2, <4>1
      <4>3. {Dir[fd], "HUP"} \cap k # {}
        BY <1>2, <2>1, <3>1, <3>3, <4>2 DEF Found, CanDo, Fails
      <4>4. CASE Dir[fd] = "WRITE"
        BY <1>1, <1>3, <3>3, <4>3, <4>4 DEF Found, CanDo
      <4>5. CASE Dir[fd] # "WRITE"
        BY <1>1, <1>3, <3>3, <4>2, <4>3, <4>5 DEF Found, CanDo, Fails
      <4>6. QED
        BY <4>4, <4>5
    <3>4. QED
      BY <3>2, <3>3
  <2>2. QED
    BY <1>1, <2>1 DEF Finds, Awake, Elems
<1>9. QED
  BY <1>4, <1>5, <1>6, <1>7, <1>8 DEF IoParts

-----------------------------------------------------------------------------
(* The invariant and the theorems.                                          *)

LEMMA PartsInit == ASSUME NEW s, Scheds = {s}, IoInit PROVE IoParts(s)
<1>1. Scheds = {s} /\ Listen \in Fds /\ coMap[s] = {} /\ waiting[s] = {}
      /\ ready[s] = <<>> /\ pc[s] = "new"
  BY DEF IoInit, Init, Fds
<1>2. IoTypes
  BY <1>1 DEF IoInit, IoTypes, NoChannel, Reasons
<1>3. Owns
  BY DEF IoInit, Owns
<1>4. Chans(s) /\ Wants(s) /\ Waits(s)
  BY <1>1 DEF IoInit, NoChannel, Chans, Wants, Waits
<1>5. Finds(s)
  BY <1>1 DEF Finds, Awake, Elems
<1>6. Resets
  BY IoAssumption DEF IoInit, Resets, Sound, Fds
<1>7. QED
  BY <1>2, <1>3, <1>4, <1>5, <1>6 DEF IoParts

LEMMA PartsStep ==
  ASSUME NEW s, Scheds = {s}, IoInv, [IoNext]_allVars
  PROVE  IoParts(s)'
<1> CoInv /\ CoFacts(s) /\ IoParts(s)
  BY FactsHold DEF IoInv
<1>1. CASE UNCHANGED allVars
  <2>1. Moves(s)
    BY <1>1 DEF allVars, vars, ioVars, Moves, Awake, CoFacts
  <2>2. QED
    BY <2>1, PartsOfMoves
<1>2. CASE /\ UNCHANGED ioVars
           /\ (\E t \in Threads : CallStep(t)) \/ HandleStep(s) \/ Start \/ Idle
  BY <1>2, CallMoves, LoopMoves, PartsOfMoves
<1>3. CASE IoFinish(s) \/ IoSleepDue(s) \/ \E c \in Cos : TimerEvent(s, c)
  BY <1>3, CoroutineMoves, PartsOfMoves
<1>4. CASE IoBootAdd(s) \/ IoCoAdd(s, s)
  BY <1>4, AddParts
<1>5. ASSUME NEW fd \in Socks, Accept(s, fd) PROVE IoParts(s)'
  BY <1>5, AcceptParts
<1>6. CASE IoPark(s)
  BY <1>6, ParkParts
<1>7. CASE IoNow(s) \/ IoWait(s) \/ IoRetry(s) \/ Close(s)
  BY <1>7, NowParts, WaitParts, RetryParts, CloseParts
<1>8. CASE Sleep(s, "timer") \/ Sleep(s, "dropped")
  BY <1>8, SleepParts
<1>9. ASSUME NEW fd \in Fds, FdEvent(s, fd) \/ HupEvent(s, fd) PROVE IoParts(s)'
  BY <1>9, EventParts, HupParts
<1>10. ASSUME NEW fd \in Fds, PeerReady(fd) \/ PeerGone(fd) PROVE IoParts(s)'
  BY <1>10, PeerParts
<1>11. QED
  BY <1>1, <1>2, <1>3, <1>4, <1>5, <1>6, <1>7, <1>8, <1>9, <1>10
     DEF IoNext, IoStep, Yields

\* Every step is a step of CoScheduler or leaves its variables alone.
LEMMA StepOfScheduler ==
  ASSUME NEW s, Scheds = {s}, IoInv, [IoNext]_allVars
  PROVE  [Next]_vars
<1>1. CASE UNCHANGED allVars
  BY <1>1 DEF allVars
<1>2. CASE \/ IoNow(s) \/ IoWait(s) \/ IoRetry(s) \/ Close(s)
           \/ \E fd \in Fds : HupEvent(s, fd) \/ PeerReady(fd) \/ PeerGone(fd)
  BY <1>2 DEF IoNow, IoWait, IoRetry, Close, HupEvent, PeerReady, PeerGone
<1>3. CASE \/ IoBootAdd(s) \/ IoCoAdd(s, s) \/ IoFinish(s) \/ IoSleepDue(s)
           \/ IoPark(s) \/ Sleep(s, "timer") \/ Sleep(s, "dropped")
           \/ \E fd \in Socks : Accept(s, fd)
           \/ \E c \in Cos : TimerEvent(s, c)
  <2>1. \/ BootAdd(s) \/ CoAdd(s, s) \/ Finish(s) \/ SleepDue(s) \/ Block(s)
        \/ \E c \in Cos : Wake(s, c)
    BY <1>3 DEF IoBootAdd, IoCoAdd, IoFinish, IoSleepDue, IoPark, Sleep, Accept,
       TimerEvent
  <2>2. QED
    BY <2>1 DEF Next
<1>4. ASSUME NEW fd \in Fds, FdEvent(s, fd) PROVE [Next]_vars
  <2>1. chan[fd].cb \in waiting[s] /\ chan[fd].cb \in Cos
    BY <1>4, EventWakes, FactsHold DEF IoInv, CoFacts
  <2>2. Wake(s, chan[fd].cb)
    BY <1>4, <2>1 DEF FdEvent, Wake
  <2>3. QED
    BY <2>1, <2>2 DEF Next
<1>5. CASE (\E t \in Threads : CallStep(t)) \/ HandleStep(s) \/ Start \/ Idle
  BY <1>5 DEF Next
<1>6. QED
  BY <1>1, <1>2, <1>3, <1>4, <1>5 DEF IoNext, IoStep, Yields

\* The strengthened invariant: each fd has one owner, an enabled channel calls
\* the owner of its fd, an armed one a coroutine that is parked on it, and who
\* is parked on a socket has been told its error.
THEOREM IoInductive == IoSpec => []IoInv
<1>1. PICK s : Scheds = {s}
  BY IoAssumption
<1>2. IoInit => IoInv
  BY <1>1, CoInit, PartsInit DEF IoInv, IoInit
<1>3. IoInv /\ [IoNext]_allVars => IoInv'
  BY <1>1, CoStep, StepOfScheduler, PartsStep DEF IoInv
<1>4. QED
  BY <1>2, <1>3, PTL DEF IoSpec

\* Coroutine I/O implements the scheduler: whatever epoll and the fds do, the
\* scheduler sees coroutines that park, are woken once each and resume.
THEOREM IoImplements == IoSpec => Spec
<1>1. PICK s : Scheds = {s}
  BY IoAssumption
<1>2. IoInit => Init
  BY DEF IoInit
<1>3. IoInv /\ [IoNext]_allVars => [Next]_vars
  BY <1>1, StepOfScheduler
<1>4. QED
  BY <1>2, <1>3, IoInductive, PTL DEF IoSpec, Spec

\* Every variable has its type.
THEOREM IoTypeCorrect == IoSpec => []IoTypeOK
<1>1. IoInv => IoTypeOK
  <2>1. PICK s : Scheds = {s}
    BY IoAssumption
  <2>2. IoInv => TypeOK /\ IoTypes
    BY <2>1, CoTyped DEF IoInv, IoParts
  <2>3. QED
    BY <2>2 DEF IoTypes, IoTypeOK
<1>2. QED
  BY <1>1, IoInductive, PTL

\* A coroutine parked on an fd is the one its channel calls, and epoll watches
\* the event, unless the hang-up of a pipe was swallowed.
THEOREM ParkedIsArmed == IoSpec => []IoArmed
<1>1. IoInv => IoArmed
  BY DEF IoInv, IoParts, Waits, IoArmed
<1>2. QED
  BY <1>1, IoInductive, PTL

\* Whatever made the first call of _co_io_fun return an error, EAGAIN or a
\* reset, the second accept and the second read succeed, and a second write
\* fails only because there is nobody to read what it writes.
THEOREM RetrySucceeds == IoSpec => []NotSpurious
<1>1. IoInv => NotSpurious
  <2>1. PICK s : Scheds = {s}
    BY IoAssumption
  <2>2. ASSUME IoInv, pc[s] = "co" PROVE now[s] \in Cos /\ Awake(s, now[s])
    BY <2>1, <2>2, FactsHold DEF IoInv, CoFacts, Awake
  <2>3. QED
    BY <2>1, <2>2 DEF IoInv, IoParts, Finds, Found, NotSpurious
<1>2. QED
  BY <1>1, IoInductive, PTL

\* What holds of the scheduler holds with the fds: it drains its queue and
\* resumes what it owns, in order.
THEOREM IoScheduling == IoSpec => [](NoStuckQueue /\ ResumesOwned)
<1>1. IoInv => NoStuckQueue /\ ResumesOwned
  <2>1. PICK s : Scheds = {s}
    BY IoAssumption
  <2>2. QED
    BY <2>1, CoScheduling, CoOwned DEF IoInv
<1>2. QED
  BY <1>1, IoInductive, PTL
=============================================================================
