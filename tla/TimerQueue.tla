------------------------------ MODULE TimerQueue ------------------------------
(***************************************************************************)
(* What the timers of an event loop promise to those who set them, without *)
(* slots, a pointer or lists: a queue of deadlines.  It moves from one     *)
(* instant to the next, never past a pending deadline, and at an instant   *)
(* lets the timers due then expire, first set first.                       *)
(***************************************************************************)
EXTENDS Integers

CONSTANTS
    Ids,        \* the timers
    EveryMs,    \* the grain of the deadlines
    Limit,      \* delays of Limit and more are refused
    Delays      \* the delays that are asked for

VARIABLES
    clock,      \* the time
    now,        \* the instant the queue has come to
    due,        \* the deadline of each timer
    state,      \* what became of each timer
    asked,      \* the timers whose cancellation was asked for
    ahead       \* the pairs <<x, y>> of pending timers with one deadline, x set first

qvars == <<clock, now, due, state, asked, ahead>>

Rounded(t) == t - (t % EveryMs)
Pending == {id \in Ids : state[id] = "pending"}
Without(id) == {pair \in ahead : pair[1] # id /\ pair[2] # id}

QInit == /\ clock \in Nat /\ now \in Nat /\ now <= clock
         /\ due = [id \in Ids |-> 0]
         /\ state = [id \in Ids |-> "new"]
         /\ asked = {} /\ ahead = {}

Later == clock' = clock + 1 /\ UNCHANGED <<now, due, state, asked, ahead>>

\* The deadline has been reached already: the timer expires at once.
SetDue(id, t) == /\ t <= now
                 /\ state' = [state EXCEPT ![id] = "expired"]
                 /\ due' = [due EXCEPT ![id] = t]
                 /\ UNCHANGED ahead

SetPending(id, t) ==
    /\ now < t /\ t - now < Limit
    /\ state' = [state EXCEPT ![id] = "pending"]
    /\ due' = [due EXCEPT ![id] = t]
    /\ ahead' = ahead \cup {<<x, id>> : x \in {y \in Pending : due[y] = t}}

\* Of a deadline that is Limit or more away from the queue's instant nothing is
\* promised.
SetLoose(id, t) == /\ t - now >= Limit
                   /\ state' = [state EXCEPT ![id] = "loose"]
                   /\ UNCHANGED <<due, ahead>>

Refuse(id, t) == /\ now < t
                 /\ state' = [state EXCEPT ![id] = "refused"]
                 /\ UNCHANGED <<due, ahead>>

Set(id, d) ==
    LET t == Rounded(d + clock)
    IN  /\ state[id] = "new"
        /\ \/ SetDue(id, t)
           \/ Rounded(d) < Limit /\ (SetPending(id, t) \/ SetLoose(id, t))
           \/ Rounded(d) >= Limit /\ Refuse(id, t)
        /\ UNCHANGED <<clock, now, asked>>

\* A cancellation comes too late once the instant of the timer has been reached,
\* whether it has expired by then or not.
Cancel(id) ==
    /\ state[id] \in {"pending", "expired"}
    /\ asked' = asked \cup {id}
    /\ \/ /\ due[id] <= now
          /\ UNCHANGED <<state, ahead>>
       \/ /\ state[id] = "pending" /\ due[id] > now
          /\ state' = [state EXCEPT ![id] = "cancelled"]
          /\ ahead' = Without(id)
    /\ UNCHANGED <<clock, now, due>>

\* The next instant, when all that was due by the present one has expired.
Reach == /\ now < now' /\ now' <= clock
         /\ \A id \in Pending : now < due[id] /\ now' <= due[id]
         /\ UNCHANGED <<clock, due, state, asked, ahead>>

Expire(id) ==
    /\ state[id] = "pending" /\ due[id] = now
    /\ \A pair \in ahead : pair[2] # id
    /\ state' = [state EXCEPT ![id] = "expired"]
    /\ ahead' = Without(id)
    /\ UNCHANGED <<clock, now, due, asked>>

QNext == \/ Later
         \/ Reach
         \/ \E id \in Ids : Cancel(id) \/ Expire(id) \/ \E d \in Delays : Set(id, d)

QSpec == QInit /\ [][QNext]_qvars
===============================================================================
