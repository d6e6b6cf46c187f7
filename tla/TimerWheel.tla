------------------------------ MODULE TimerWheel ------------------------------
(***************************************************************************)
(* The timing wheel behind EventLoop::add_timer and remove_timer, and the  *)
(* timerfd callback that turns it.  Time is in milliseconds, the wheel has *)
(* NSlots slots of EveryMs each (6000 and 10 in the code).  All operations *)
(* are on the loop's thread: between two triggers or from inside the       *)
(* callback of a timer that is firing.                                     *)
(***************************************************************************)
EXTENDS Integers, Sequences

CONSTANTS
    Ids,        \* the timers, each added at most once
    None,
    EveryMs,    \* every_ms
    NSlots,     \* wheel.size(), span_sec * 1000 / every_ms
    Afters,     \* the trigger_after_ms values that are asked for
    MaxLag,     \* how far the trigger may be behind the clock
    MaxNow      \* bound on the clock

ASSUME WheelAssumption ==
    /\ EveryMs \in Nat \ {0} /\ NSlots \in Nat \ {0}
    /\ Afters \subseteq Nat
    /\ MaxLag \in Nat /\ MaxNow \in Nat
    /\ MaxLag >= EveryMs
    /\ None \notin Ids

VARIABLES
    clock,     \* get_now_timestamp()
    before,    \* trigger_before_ms
    slotPtr,   \* slot_ptr
    wheel,     \* wheel: the timers of each slot, in the order of push_back
    at,        \* trigger_at_ms of each TimerId
    status,    \* what became of each timer
    asked,     \* history: the timers whose removal was asked for
    far,       \* history: the timers added a whole span ahead of the wheel
    dangling,  \* history: the timers whose list node was erased after it was freed
    target,    \* at_ms in trigger_timer
    next,      \* position of the next callback of the slot being fired
    current,   \* the timer whose callback runs
    pc         \* "idle", "advance", "fire", "incb"

wheelVars == <<before, slotPtr, wheel>>
runVars == <<target, next, current, pc>>
vars == <<clock, before, slotPtr, wheel, at, status, asked, far, dangling, target,
          next, current, pc>>

Span == EveryMs * NSlots
Slots == 0..NSlots - 1
Statuses == {"new", "armed", "fired", "immediate", "dropped", "removed"}

\* get_slot_timestamp
Slot(a) == a - (a % EveryMs)

\* (mistake) the slots are counted from the one after slot_ptr.
SlotOf_OffByOne(a) == (slotPtr + 1 + (a - before) \div EveryMs) % NSlots

\* The slot of timestamp a: slot_n slots after slot_ptr, around the wheel.
SlotOf(a) == (slotPtr + (a - before) \div EveryMs) % NSlots

Init ==
    /\ clock \in 0..EveryMs - 1
    /\ before = Slot(clock)
    /\ slotPtr = 0
    /\ wheel = [i \in Slots |-> <<>>]
    /\ at = [id \in Ids |-> 0]
    /\ status = [id \in Ids |-> "new"]
    /\ asked = {} /\ far = {} /\ dangling = {}
    /\ target = 0 /\ next = 1 /\ current = None
    /\ pc = "idle"

-----------------------------------------------------------------------------
\* No freed node has been erased: the program still does what its code says.
Intact == dangling = {}

\* Time passes; the trigger is at most MaxLag behind it.
Tick == /\ Intact
        /\ clock < MaxNow
        /\ clock + 1 - before <= MaxLag
        /\ clock' = clock + 1
        /\ UNCHANGED <<wheelVars, at, status, asked, far, dangling, runVars>>

\* (mistake) push_front: the timers of a slot are run in reverse.
Push_Front(list, id) == <<id>> \o list

\* push_back of the timer to the list of its slot.
Push(list, id) == Append(list, id)

\* add_timer(after): already due, or over the limit, or pushed to its slot.
AddTimer(id, after) ==
    LET a == Slot(after + clock)
    IN  /\ Intact /\ pc \in {"idle", "incb"}
        /\ status[id] = "new"
        /\ \/ /\ a <= before
              /\ status' = [status EXCEPT ![id] = "immediate"]
              /\ at' = [at EXCEPT ![id] = a]
              /\ UNCHANGED <<wheel, far>>
           \/ /\ a > before /\ Slot(after) >= Span
              /\ status' = [status EXCEPT ![id] = "dropped"]
              /\ UNCHANGED <<wheel, at, far>>
           \/ /\ a > before /\ Slot(after) < Span
              /\ status' = [status EXCEPT ![id] = "armed"]
              /\ at' = [at EXCEPT ![id] = a]
              /\ wheel' = [wheel EXCEPT ![SlotOf(a)] = Push(@, id)]
              /\ far' = IF a - before >= Span THEN far \cup {id} ELSE far
        /\ UNCHANGED <<clock, before, slotPtr, asked, dangling, runVars>>

\* erase() of the list node that the id points to, wherever it is in the list.
Erase(list, id) == LET j == CHOOSE j \in DOMAIN list : list[j] = id
                   IN  SubSeq(list, 1, j - 1) \o SubSeq(list, j + 1, Len(list))

\* The list node of id has not been freed.
Linked(id) == \E i \in Slots : \E j \in DOMAIN wheel[i] : wheel[i][j] = id

\* erase() of the list node that the id points to.  When its callback has run
\* already, the loop over the list has one node less behind it.
Unlink(id) ==
    /\ Linked(id) /\ id # current
    /\ wheel' = [wheel EXCEPT ![SlotOf(at[id])] = Erase(@, id)]
    /\ status' = [status EXCEPT ![id] = "removed"]
    /\ next' = IF status[id] = "fired" THEN next - 1 ELSE next
    /\ UNCHANGED dangling

\* erase() of a node that is freed already, or that the loop over the list
\* stands on and goes on from when it is freed: undefined behaviour.
UnlinkFreed(id) ==
    /\ ~Linked(id) \/ id = current
    /\ dangling' = dangling \cup {id}
    /\ UNCHANGED <<wheel, status, next>>

\* (mistake) the slot that is being run counts as one still to come.
RemoveTimer_Equal(id) ==
    /\ Intact /\ pc \in {"idle", "incb"}
    /\ status[id] \in {"armed", "fired"}
    /\ asked' = asked \cup {id}
    /\ \/ at[id] < before /\ UNCHANGED <<wheel, status, next, dangling>>
       \/ at[id] >= before /\ (Unlink(id) \/ UnlinkFreed(id))
    /\ UNCHANGED <<clock, before, slotPtr, at, far, target, current, pc>>

\* remove_timer(id), of a timer that was given a node and that no call has
\* removed yet: nothing when its slot has been reached, otherwise erase().
RemoveTimer(id) ==
    /\ Intact /\ pc \in {"idle", "incb"}
    /\ status[id] \in {"armed", "fired"}
    /\ asked' = asked \cup {id}
    /\ \/ at[id] <= before /\ UNCHANGED <<wheel, status, next, dangling>>
       \/ at[id] > before /\ (Unlink(id) \/ UnlinkFreed(id))
    /\ UNCHANGED <<clock, before, slotPtr, at, far, target, current, pc>>

\* The timerfd callback: trigger_timer(get_now_timestamp()).
BeginTrigger == /\ Intact /\ pc = "idle"
                /\ target' = Slot(clock)
                /\ pc' = "advance"
                /\ UNCHANGED <<clock, wheelVars, at, status, asked, far, dangling,
                               next, current>>

\* (mistake) slot_ptr runs past the end of the wheel.
Advance_NoWrap ==
    /\ Intact /\ pc = "advance" /\ before < target
    /\ before' = before + EveryMs
    /\ slotPtr' = slotPtr + 1
    /\ next' = 1
    /\ pc' = "fire"
    /\ UNCHANGED <<clock, wheel, at, status, asked, far, dangling, target, current>>

\* (mistake) a trigger that is late jumps to the present in one step.
Advance_Jump ==
    /\ Intact /\ pc = "advance" /\ before < target
    /\ before' = target
    /\ slotPtr' = (slotPtr + 1) % NSlots
    /\ next' = 1
    /\ pc' = "fire"
    /\ UNCHANGED <<clock, wheel, at, status, asked, far, dangling, target, current>>

\* (mistake) the wheel turns and fires nothing.
Advance_Silent ==
    /\ Intact /\ pc = "advance" /\ before < target
    /\ before' = before + EveryMs
    /\ slotPtr' = (slotPtr + 1) % NSlots
    /\ UNCHANGED <<clock, wheel, at, status, asked, far, dangling, runVars>>

Advance == /\ Intact /\ pc = "advance"
           /\ before < target
           /\ before' = before + EveryMs
           /\ slotPtr' = (slotPtr + 1) % NSlots
           /\ next' = 1
           /\ pc' = "fire"
           /\ UNCHANGED <<clock, wheel, at, status, asked, far, dangling, target,
                          current>>

\* The loop over the slot's list; the list may grow while it runs.
FireOne == /\ Intact /\ pc = "fire"
           /\ next <= Len(wheel[slotPtr])
           /\ current' = wheel[slotPtr][next]
           /\ status' = [status EXCEPT ![current'] = "fired"]
           /\ next' = next + 1
           /\ pc' = "incb"
           /\ UNCHANGED <<clock, wheelVars, at, asked, far, dangling, target>>

CallbackReturns == /\ Intact /\ pc = "incb"
                   /\ current' = None
                   /\ pc' = "fire"
                   /\ UNCHANGED <<clock, wheelVars, at, status, asked, far,
                                  dangling, target, next>>

ClearSlot == /\ Intact /\ pc = "fire"
             /\ next > Len(wheel[slotPtr])
             /\ wheel' = [wheel EXCEPT ![slotPtr] = <<>>]
             /\ pc' = "advance"
             /\ UNCHANGED <<clock, before, slotPtr, at, status, asked, far,
                            dangling, target, next, current>>

EndTrigger == /\ Intact /\ pc = "advance"
              /\ before >= target
              /\ pc' = "idle"
              /\ UNCHANGED <<clock, wheelVars, at, status, asked, far, dangling,
                             target, next, current>>

Turn == BeginTrigger \/ Advance \/ FireOne \/ CallbackReturns \/ ClearSlot
          \/ EndTrigger

\* Anything may happen after the erase of a freed node; it is not followed.
Undefined == ~Intact /\ UNCHANGED vars

Next == \/ Tick
        \/ Turn
        \/ Undefined
        \/ \E id \in Ids : RemoveTimer(id) \/ \E d \in Afters : AddTimer(id, d)

Spec == Init /\ [][Next]_vars

\* The timerfd is re-armed every every_ms, callbacks return, and time passes.
FairSpec == Spec /\ WF_vars(Turn) /\ SF_vars(Tick)

-----------------------------------------------------------------------------
(* Correctness.                                                             *)

\* Every variable has its type.
TypeOK ==
    /\ clock \in Nat /\ before \in Nat
    /\ slotPtr \in Slots
    /\ wheel \in [Slots -> Seq(Ids)]
    /\ at \in [Ids -> Nat]
    /\ status \in [Ids -> Statuses]
    /\ asked \subseteq Ids /\ far \subseteq Ids /\ dangling \subseteq Ids
    /\ target \in Nat /\ next \in Nat \ {0}
    /\ current \in Ids \cup {None}
    /\ pc \in {"idle", "advance", "fire", "incb"}

\* A pending timer is in the slot that its timestamp designates, once, and
\* nowhere else, whatever the wheel has turned since it was added: the
\* modular position of add_timer against the one-slot steps of trigger_timer.
Placement ==
    \A id \in Ids : \A i \in Slots :
        LET p == {j \in DOMAIN wheel[i] : wheel[i][j] = id}
        IN  IF status[id] = "armed" /\ i = SlotOf(at[id])
            THEN \E j \in p : p = {j}
            ELSE \A j \in p : i = slotPtr /\ j < next /\ pc \in {"fire", "incb"}

\* A timer fires in its own slot, not a revolution early and not late: the
\* clock has reached its timestamp, and when the wheel rests each slot that
\* trigger_before_ms has passed was emptied.  The exception are delays just
\* under the limit that are asked for while the wheel is behind the clock
\* (far): those wrap past their slot and fire a revolution early.
FiresInItsSlot ==
    /\ pc = "incb" /\ current \notin far => at[current] = before
    /\ \A id \in Ids \ far :
          /\ status[id] \in {"fired", "immediate"} => at[id] <= clock
          /\ status[id] = "armed" /\ pc \in {"idle", "advance"} => at[id] > before

\* remove_timer erases only nodes that are still in their list and that the loop
\* over the list does not stand on, whenever it is called and of whatever timer:
\* the one test of trigger_before_ms tells the freed nodes from the others.  It
\* does not for the timers that wrap past their slot (far): one that has fired a
\* revolution early passes the test, and removing it erases a freed node.
ErasesLive == dangling \subseteq far

\* A pending timer fires or is removed, unless the bound of the clock comes
\* first or a freed node is erased.
Fires ==
    \A id \in Ids :
        status[id] = "armed" /\ at[id] <= MaxNow
            ~> status[id] \in {"fired", "removed"} \/ ~Intact

-----------------------------------------------------------------------------
(* The wheel as a queue of deadlines, see TimerQueue.                       *)

Fate == [new |-> "new", armed |-> "pending", fired |-> "expired",
         immediate |-> "expired", dropped |-> "refused", removed |-> "cancelled"]

Waiting == {id \in Ids \ far : status[id] = "armed"}
Precedes(x, y) ==
    \E i \in Slots : \E j, k \in DOMAIN wheel[i] :
        j < k /\ wheel[i][j] = x /\ wheel[i][k] = y

Fates == [id \in Ids |-> IF id \in far THEN "loose" ELSE Fate[status[id]]]
Deadlines == [id \in Ids |-> IF id \in far THEN 0 ELSE at[id]]
Order == {pair \in Waiting \X Waiting :
             at[pair[1]] = at[pair[2]] /\ Precedes(pair[1], pair[2])}

Queue == INSTANCE TimerQueue WITH
    Limit <- Span, Delays <- Afters, now <- before, due <- Deadlines,
    state <- Fates, asked <- asked \ far, ahead <- Order

\* The turning wheel behaves as the queue of deadlines does: timers expire in
\* the order of their slots and within a slot in the order of add_timer, each at
\* its own instant, no instant is left behind with a timer unexpired however
\* late the trigger is, and remove_timer takes out that timer and no other and
\* is in vain only when the slot is being run.
ImplementsQueue == Queue!QSpec
=============================================================================
