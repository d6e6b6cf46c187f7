-------------------------- MODULE EventLoopProofs --------------------------
(***************************************************************************)
(* Theorems about EventLoop for every set of threads and callbacks: type   *)
(* correctness, the mutex discipline, the order and conservation of the    *)
(* callbacks, the two wake-up invariants, and that the loop implements     *)
(* the first-in first-out executor of TaskExecutor.                        *)
(***************************************************************************)
EXTENDS EventLoop, SequenceTheorems, TLAPS

\* Every variable keeps its type, whatever the number of threads that call.
THEOREM TypesKept == Spec => []Typed
<1>1. Init => Typed
  <2>1. <<>> \in Seq(Calls)
    BY EmptySeq
  <2>2. Init => op \in [Threads -> Ops]
    BY DEF Init, Ops
  <2>3. QED
    BY <2>1, <2>2 DEF Init, Typed, Labels
<1>2. Typed /\ [Next]_vars => Typed'
  <2> SUFFICES ASSUME Typed, [Next]_vars PROVE Typed'
    OBVIOUS
  <2> USE DEF Typed, Labels, Ops
  <2>1. CASE Run \/ Check \/ HandleRead \/ BeginChannelCb \/ EndChannelCb
               \/ EndDispatch \/ EndCb \/ EndExec
    BY <2>1 DEF Run, Check, HandleRead, BeginChannelCb, EndChannelCb,
                EndDispatch, EndCb, EndExec
  <2>2. CASE Swap
    BY <2>2 DEF Swap
  <2>3. CASE BeginCb
    <3>1. Head(nowCbList) \in Calls /\ Tail(nowCbList) \in Seq(Calls)
      BY <2>3, HeadTailProperties DEF BeginCb
    <3>2. ran' \in Seq(Calls)
      BY <2>3, <3>1 DEF BeginCb
    <3>3. QED
      BY <2>3, <3>1, <3>2 DEF BeginCb
  <2>4. ASSUME NEW other \in {{}, {"other"}}, PollReturn(other)
        PROVE  Typed'
    BY <2>4 DEF PollReturn
  <2>5. ASSUME NEW k \in Calls, AddCallbackNow(k)
        PROVE  Typed'
    BY <2>5 DEF AddCallbackNow
  <2>6. ASSUME NEW t \in Threads, CallStep(t)
        PROVE  Typed'
    BY <2>6 DEF CallStep, Activate, Unlock, StopActivate
  <2>7. ASSUME NEW t \in Threads, LockedCall(t) \/ DueTimerPost(t) \/ Stop(t)
        PROVE  Typed'
    BY <2>7 DEF LockedCall, DueTimerPost, Stop
  <2>8. ASSUME NEW t \in Threads, NEW k \in Calls, AddCallbackAfter(t, k)
        PROVE  Typed'
    BY <2>8 DEF AddCallbackAfter
  <2>9. CASE UNCHANGED vars
    BY <2>9 DEF vars
  <2>10. QED
    BY <2>1, <2>2, <2>3, <2>4, <2>5, <2>6, <2>7, <2>8, <2>9
       DEF Next, LoopStep, Finished
<1>3. QED
  BY <1>1, <1>2, PTL DEF Spec

\* The mutex has one holder, the thread inside a lock_guard's scope: the
\* push of add_callback_after and the swap of run() exclude each other.
THEOREM MutexDiscipline == Spec => []MutexHeld
<1>1. Init => MutexHeld
  BY ThreadsAssumption DEF Init, MutexHeld
<1>2. Typed /\ MutexHeld /\ [Next]_vars => MutexHeld'
  <2> SUFFICES ASSUME Typed, MutexHeld, [Next]_vars PROVE MutexHeld'
    OBVIOUS
  <2> USE ThreadsAssumption DEF Typed, MutexHeld
  <2>1. CASE UNCHANGED <<op, mu>>
    BY <2>1
  <2>2. ASSUME NEW t \in Threads, CallStep(t)
        PROVE  MutexHeld'
    BY <2>2 DEF CallStep, Activate, Unlock, StopActivate
  <2>3. ASSUME NEW t \in Threads, LockedCall(t) \/ DueTimerPost(t) \/ Stop(t)
        PROVE  MutexHeld'
    BY <2>3 DEF LockedCall, DueTimerPost, Stop, MayCall
  <2>4. ASSUME NEW t \in Threads, NEW k \in Calls, AddCallbackAfter(t, k)
        PROVE  MutexHeld'
    BY <2>4 DEF AddCallbackAfter, MayCall
  <2>5. QED
    BY <2>1, <2>2, <2>3, <2>4
       DEF Next, LoopStep, Finished, vars, Run, Check, PollReturn, HandleRead,
           BeginChannelCb, EndChannelCb, EndDispatch, Swap, BeginCb, EndCb,
           EndExec, AddCallbackNow
<1>3. QED
  BY <1>1, <1>2, TypesKept, PTL DEF Spec

\* Each state reachable by the event loop's steps is well typed, the holder of
\* the mutex included: no two threads are inside a section at once, whatever
\* the number of threads that call.
THEOREM TypeCorrect == Spec => []TypeOK
BY TypesKept, MutexDiscipline, PTL DEF TypeOK

-----------------------------------------------------------------------------
\* Neither wake-up is lost: the loop never blocks in epoll_wait on a callback
\* it was handed or on a stop() it did not see, unless the caller has still
\* to write the eventfd.
THEOREM Wakeup == Spec => []NoLostWakeup
<1> DEFINE Inv == NoLostWakeup
<1>1. Init => Inv
  BY DEF Init, NoLostWakeup
<1>2. Typed /\ Inv /\ [Next]_vars => Inv'
  <2> SUFFICES ASSUME Typed, Inv, [Next]_vars PROVE Inv'
    OBVIOUS
  <2> USE ThreadsAssumption DEF Typed, NoLostWakeup, At, Threads
  <2>1. CASE Run \/ Check
    BY <2>1 DEF Run, Check
  <2>2. CASE HandleRead \/ BeginChannelCb \/ EndChannelCb \/ EndDispatch
    BY <2>2 DEF HandleRead, BeginChannelCb, EndChannelCb, EndDispatch
  <2>3. CASE Swap \/ BeginCb \/ EndCb \/ EndExec
    BY <2>3 DEF Swap, BeginCb, EndCb, EndExec
  <2>4. ASSUME NEW other \in {{}, {"other"}}, PollReturn(other)
        PROVE  Inv'
    BY <2>4 DEF PollReturn
  <2>5. ASSUME NEW k \in Calls, AddCallbackNow(k)
        PROVE  Inv'
    BY <2>5 DEF AddCallbackNow
  <2>6. ASSUME NEW t \in Threads, CallStep(t)
        PROVE  Inv'
    BY <2>6 DEF CallStep, Activate, Unlock, StopActivate
  <2>7. ASSUME NEW t \in Threads, LockedCall(t) \/ DueTimerPost(t) \/ Stop(t)
        PROVE  Inv'
    BY <2>7 DEF LockedCall, DueTimerPost, Stop, MayCall
  <2>8. ASSUME NEW t \in Threads, NEW k \in Calls, AddCallbackAfter(t, k)
        PROVE  Inv'
    BY <2>8 DEF AddCallbackAfter, MayCall
  <2>9. CASE UNCHANGED vars
    BY <2>9 DEF vars
  <2>10. QED
    BY <2>1, <2>2, <2>3, <2>4, <2>5, <2>6, <2>7, <2>8, <2>9
       DEF Next, LoopStep, Finished
<1>3. QED
  BY <1>1, <1>2, TypesKept, PTL DEF Spec

-----------------------------------------------------------------------------
(* The order of the callbacks.  Appending at the right end and taking from  *)
(* the left end of a concatenation are the two facts it rests on.           *)

\* Pushing to the second of two lists pushes to their concatenation.
LEMMA AppendToConcat ==
  ASSUME NEW S, NEW s \in Seq(S), NEW t \in Seq(S), NEW x \in S
  PROVE  s \o Append(t, x) = Append(s \o t, x)
<1>1. Append(t, x) = t \o <<x>> /\ Append(s \o t, x) = (s \o t) \o <<x>>
  BY AppendIsConcat, ConcatProperties
<1>2. <<x>> \in Seq(S)
  OBVIOUS
<1>3. QED
  BY <1>1, <1>2, ConcatAssociative

\* Moving the head of the second list to the end of the first one leaves the
\* concatenation as it was.
LEMMA MoveHead ==
  ASSUME NEW S, NEW s \in Seq(S), NEW t \in Seq(S), t # <<>>
  PROVE  Append(s, Head(t)) \o Tail(t) = s \o t
<1>1. Head(t) \in S /\ Tail(t) \in Seq(S) /\ t = <<Head(t)>> \o Tail(t)
  BY HeadTailProperties
<1>2. Append(s, Head(t)) = s \o <<Head(t)>>
  BY <1>1, AppendIsConcat
<1>3. <<Head(t)>> \in Seq(S)
  BY <1>1
<1>4. (s \o <<Head(t)>>) \o Tail(t) = s \o (<<Head(t)>> \o Tail(t))
  BY <1>1, <1>3, ConcatAssociative
<1>5. QED
  BY <1>1, <1>2, <1>4

\* Taking the head of the first of two lists takes the head of both.
LEMMA HeadOfConcat ==
  ASSUME NEW S, NEW s \in Seq(S), NEW t \in Seq(S), s # <<>>
  PROVE  /\ s \o t # <<>>
         /\ Head(s \o t) = Head(s)
         /\ Tail(s \o t) = Tail(s) \o t
<1>1. Len(s) \in Nat /\ Len(s) > 0 /\ Len(t) \in Nat
  BY LenProperties, EmptySeq
<1>2. /\ s \o t \in Seq(S)
      /\ Len(s \o t) = Len(s) + Len(t)
      /\ \A i \in 1..Len(s \o t) :
            (s \o t)[i] = IF i <= Len(s) THEN s[i] ELSE t[i - Len(s)]
  BY ConcatProperties
<1>3. s \o t # <<>> /\ Head(s \o t) = Head(s)
  BY <1>1, <1>2
<1>4. /\ Tail(s) \in Seq(S)
      /\ Len(Tail(s)) = Len(s) - 1
      /\ \A i \in 1..Len(Tail(s)) : Tail(s)[i] = s[i + 1]
  BY HeadTailProperties
<1>5. /\ Tail(s \o t) \in Seq(S)
      /\ Len(Tail(s \o t)) = Len(s \o t) - 1
      /\ \A i \in 1..Len(Tail(s \o t)) : Tail(s \o t)[i] = (s \o t)[i + 1]
  BY <1>2, <1>3, HeadTailProperties
<1>6. /\ Tail(s) \o t \in Seq(S)
      /\ Len(Tail(s) \o t) = Len(Tail(s)) + Len(t)
      /\ \A i \in 1..Len(Tail(s) \o t) :
            (Tail(s) \o t)[i] = IF i <= Len(Tail(s))
                                THEN Tail(s)[i] ELSE t[i - Len(Tail(s))]
  BY <1>4, ConcatProperties
<1>7. Len(Tail(s \o t)) = Len(Tail(s) \o t)
  BY <1>1, <1>2, <1>4, <1>5, <1>6
<1>8. ASSUME NEW i \in 1..Len(Tail(s \o t))
      PROVE  Tail(s \o t)[i] = (Tail(s) \o t)[i]
  <2>1. i \in Nat /\ i >= 1 /\ i + 1 \in 1..Len(s \o t)
    BY <1>1, <1>2, <1>5
  <2>2. CASE i + 1 <= Len(s)
    BY <2>1, <2>2, <1>1, <1>2, <1>4, <1>5, <1>6, <1>7
  <2>3. CASE ~(i + 1 <= Len(s))
    BY <2>1, <2>3, <1>1, <1>2, <1>4, <1>5, <1>6, <1>7
  <2>4. QED
    BY <2>2, <2>3
<1>9. QED
  BY <1>3, <1>5, <1>6, <1>7, <1>8, SeqEqual

\* now_cb_list, a local of the loop body, is used up whenever the loop is not
\* running callbacks: Swap overwrites nothing.
ExecOnly == pc \notin {"exec", "incb"} => nowCbList = <<>>

\* Callbacks begin in the order their pushes took the mutex, each once, and
\* none is lost between cb_list and now_cb_list, for any number of threads.

THEOREM Ordered == Spec => []InOrder
<1> DEFINE Inv == InOrder /\ ExecOnly
<1>1. Init => Inv
  <2>1. <<>> \in Seq(Calls)
    BY EmptySeq
  <2>2. Init => accepted = <<>> \o <<>> \o <<>>
    BY <2>1, ConcatEmptySeq DEF Init
  <2>3. QED
    BY <2>2 DEF Init, InOrder, ExecOnly
<1>2. Typed /\ Inv /\ [Next]_vars => Inv'
  <2> SUFFICES ASSUME Typed, Inv, [Next]_vars PROVE Inv'
    OBVIOUS
  <2> USE DEF Typed, InOrder, ExecOnly, At
  <2>1. CASE UNCHANGED <<cbList, nowCbList, accepted, ran>> /\ ExecOnly'
    BY <2>1
  <2>2. CASE Swap
    <3>1. pc = "swap" /\ nowCbList = <<>>
      BY <2>2 DEF Swap
    <3>2. ran \o <<>> = ran /\ ran \o cbList \in Seq(Calls)
      BY ConcatEmptySeq, ConcatProperties
    <3>3. (ran \o cbList) \o <<>> = ran \o cbList
      BY <3>2, ConcatEmptySeq
    <3>4. QED
      BY <2>2, <3>1, <3>2, <3>3 DEF Swap
  <2>3. CASE BeginCb
    <3>1. Append(ran, Head(nowCbList)) \o Tail(nowCbList) = ran \o nowCbList
      BY <2>3, MoveHead DEF BeginCb
    <3>2. InOrder'
      BY <2>3, <3>1 DEF BeginCb
    <3>3. QED
      BY <2>3, <3>2 DEF BeginCb
  <2>4. ASSUME NEW t \in Threads, NEW k \in Calls, AddCallbackAfter(t, k)
        PROVE  Inv'
    <3>1. ran \o nowCbList \in Seq(Calls)
      BY ConcatProperties
    <3>2. (ran \o nowCbList) \o Append(cbList, k)
            = Append((ran \o nowCbList) \o cbList, k)
      BY <3>1, AppendToConcat
    <3>3. QED
      BY <2>4, <3>2 DEF AddCallbackAfter
  <2>5. QED
    BY <2>1, <2>2, <2>3, <2>4
       DEF Next, LoopStep, CallStep, Finished, vars, Run, Check, PollReturn,
           HandleRead, BeginChannelCb, EndChannelCb, EndDispatch, EndCb,
           EndExec, AddCallbackNow, Activate, Unlock, LockedCall,
           DueTimerPost, Stop, StopActivate
<1>3. QED
  BY <1>1, <1>2, TypesKept, PTL DEF Spec

-----------------------------------------------------------------------------
\* The event loop implements the executor: whatever the threads do, each step
\* starts it, accepts a callback, begins the oldest one, finishes it, or is
\* invisible.
THEOREM Refinement == Spec => RefinesExecutor
<1>1. Init => Executor!TInit
  <2>1. <<>> \o <<>> = <<>>
    BY EmptySeq, ConcatEmptySeq
  <2>2. QED
    BY <2>1 DEF Init, Executor!TInit
<1>2. Typed /\ ExecOnly /\ [Next]_vars => [Executor!TNext]_(Executor!tvars)
  <2> SUFFICES ASSUME Typed, ExecOnly, [Next]_vars
               PROVE  [Executor!TNext]_(Executor!tvars)
    OBVIOUS
  <2> USE DEF Typed, At, Executor!tvars
  <2>1. CASE /\ UNCHANGED <<cbList, nowCbList, ran>>
             /\ pc' = pc \/ {pc, pc'} \cap {"start", "done"} = {}
    BY <2>1
  <2>2. CASE Run
    BY <2>2 DEF Run, Executor!TNext, Executor!Start
  <2>3. CASE Check /\ ~isLoop
    BY <2>3 DEF Check, Executor!TNext, Executor!Finish
  <2>4. CASE Swap
    <3>1. nowCbList = <<>>
      BY <2>4 DEF Swap, ExecOnly
    <3>2. <<>> \o cbList = cbList /\ cbList \o <<>> = cbList
      BY ConcatEmptySeq
    <3>3. QED
      BY <2>4, <3>1, <3>2 DEF Swap
  <2>5. CASE BeginCb
    <3>1. /\ nowCbList \o cbList # <<>>
          /\ Head(nowCbList \o cbList) = Head(nowCbList)
          /\ Tail(nowCbList \o cbList) = Tail(nowCbList) \o cbList
      BY <2>5, HeadOfConcat DEF BeginCb
    <3>2. Executor!RunFirst
      BY <2>5, <3>1 DEF BeginCb, Executor!RunFirst
    <3>3. QED
      BY <3>2 DEF Executor!TNext
  <2>6. ASSUME NEW t \in Threads, NEW k \in Calls, AddCallbackAfter(t, k)
        PROVE  [Executor!TNext]_(Executor!tvars)
    <3>1. nowCbList \o Append(cbList, k) = Append(nowCbList \o cbList, k)
      BY AppendToConcat
    <3>2. Executor!Accept(k)
      BY <2>6, <3>1 DEF AddCallbackAfter, Executor!Accept
    <3>3. QED
      BY <3>2 DEF Executor!TNext
  <2>7. QED
    BY <2>1, <2>2, <2>3, <2>4, <2>5, <2>6
       DEF Next, LoopStep, CallStep, Finished, vars, Check, PollReturn,
           HandleRead, BeginChannelCb, EndChannelCb, EndDispatch, EndCb,
           EndExec, AddCallbackNow, Activate, Unlock, LockedCall,
           DueTimerPost, Stop, StopActivate
<1>3. Spec => []ExecOnly
  <2>1. Init => ExecOnly
    BY DEF Init, ExecOnly
  <2>2. ExecOnly /\ [Next]_vars => ExecOnly'
    BY DEF ExecOnly, At, Next, LoopStep, CallStep, Finished, vars, Run, Check,
           PollReturn, HandleRead, BeginChannelCb, EndChannelCb, EndDispatch,
           Swap, BeginCb, EndCb, EndExec, AddCallbackNow, AddCallbackAfter,
           Activate, Unlock, LockedCall, DueTimerPost, Stop, StopActivate
  <2>3. QED
    BY <2>1, <2>2, PTL DEF Spec
<1>4. QED
  BY <1>1, <1>2, <1>3, TypesKept, PTL DEF Spec, RefinesExecutor, Executor!TSpec
=============================================================================
