--------------------------- MODULE TimerWheelProofs ---------------------------
(***************************************************************************)
(* Theorems about the timing wheel for every slot length, every number of  *)
(* slots, every set of timers and delays: a pending timer is where its     *)
(* timestamp says, and fires in that slot.                                 *)
(***************************************************************************)
EXTENDS TimerWheel, SequenceTheorems, TLAPS

-----------------------------------------------------------------------------
(* The inductive invariant.                                                 *)

\* A slot's list is being run.
Firing == pc \in {"fire", "incb"}

\* The wheel is never ahead of the clock, and turns by whole slots.
Whole(a) == a % EveryMs = 0
Clocks ==
    /\ before <= clock /\ Whole(before)
    /\ target <= clock /\ Whole(target)

\* SlotOf, as a function of all that it depends on, and the slot of a timer.
Pos(b, p, a) == (p + (a - b) \div EveryMs) % NSlots
Home(id) == Pos(before, slotPtr, at[id])

\* Each entry of a list is in the slot of its timestamp, and is an armed timer
\* that the round over the list has still to come to, or one it has fired.
Passed(i, j) == Firing /\ i = slotPtr /\ j < next
Entries ==
    \A i \in Slots : \A j \in DOMAIN wheel[i] :
        /\ Home(wheel[i][j]) = i
        /\ status[wheel[i][j]] = IF Passed(i, j) THEN "fired" ELSE "armed"

\* A list has no timer twice.
OnceEach ==
    \A i \in Slots : \A j, k \in DOMAIN wheel[i] : wheel[i][j] = wheel[i][k] => j = k

\* An armed timer is in the list of its slot.
Listed ==
    \A id \in Ids : status[id] = "armed" =>
        \E j \in DOMAIN wheel[Home(id)] : wheel[Home(id)][j] = id

\* Until the wheel comes to it, an armed timer is less than one turn ahead.
Ahead ==
    /\ \A id \in Ids : status[id] = "armed" => Whole(at[id])
    /\ \A id \in Ids \ far :
          status[id] = "armed" => /\ at[id] - before < Span
                                  /\ IF Firing THEN at[id] >= before ELSE at[id] > before

\* The round over a list is within it, and its callback is a fired timer's.
Round ==
    /\ \A id \in far : status[id] # "new"
    /\ Firing => next <= Len(wheel[slotPtr]) + 1
    /\ IF pc = "incb" THEN current \in Ids /\ status[current] = "fired"
                      ELSE current = None
    /\ pc = "incb" /\ current \notin far => at[current] = before

\* What fires has come of age.
Due == \A id \in Ids \ far :
          status[id] \in {"fired", "immediate"} => at[id] <= clock

\* The slot of what has fired has been reached, so that remove_timer does not
\* look for it.
Reached == \A id \in Ids \ far : status[id] = "fired" => at[id] <= before

IInv == /\ TypeOK /\ Clocks /\ Entries /\ OnceEach /\ Listed /\ Ahead /\ Round
        /\ Due /\ Reached /\ ErasesLive

-----------------------------------------------------------------------------
(* Division with remainder, and the slot of a timestamp.                    *)

\* The division the slot arithmetic of the wheel uses.
LEMMA DivMod ==
  ASSUME NEW a \in Int, NEW b \in Nat \ {0}
  PROVE  /\ a = b * (a \div b) + (a % b)
         /\ a % b \in 0..b - 1 /\ a \div b \in Int
OBVIOUS

\* Quotient and remainder are the only ones.
LEMMA DivModUnique ==
  ASSUME NEW b \in Nat \ {0}, NEW q \in Int, NEW p \in Int,
         NEW r \in 0..b - 1, NEW s \in 0..b - 1, b * q + r = b * p + s
  PROVE  q = p /\ r = s
<1>1. b * (q - p) = s - r
  OBVIOUS
<1>2. ~ (q - p >= 1)
  <2>1. q - p >= 1 => b * (q - p) >= b
    OBVIOUS
  <2>2. QED
    BY <1>1, <2>1
<1>3. ~ (p - q >= 1)
  <2>1. p - q >= 1 => b * (q - p) <= -b
    OBVIOUS
  <2>2. QED
    BY <1>1, <2>1
<1>4. QED
  BY <1>1, <1>2, <1>3

LEMMA DivModIs ==
  ASSUME NEW b \in Nat \ {0}, NEW a \in Int, NEW q \in Int, NEW r \in 0..b - 1,
         a = b * q + r
  PROVE  a \div b = q /\ a % b = r
BY DivMod, DivModUnique

LEMMA TimesMono ==
  ASSUME NEW e \in Nat, NEW i \in Int, NEW j \in Int, i <= j
  PROVE  e * i <= e * j
<1>1. e * (j - i) >= 0
  OBVIOUS
<1>2. QED
  BY <1>1

\* A step of the pointer and one slot less to go come to the same slot.
LEMMA OneSlotOn ==
  ASSUME NEW n \in Nat \ {0}, NEW p \in Int, NEW k \in Int
  PROVE  (((p + 1) % n) + (k - 1)) % n = (p + k) % n
<1> DEFINE x == (p + 1) % n
           q == (p + 1) \div n
<1>1. p + 1 = n * q + x /\ x \in Int /\ q \in Int
  BY DivMod
<1> HIDE DEF x, q
<1> DEFINE y == (x + (k - 1)) % n
           w == (x + (k - 1)) \div n
<1>2. x + (k - 1) = n * w + y /\ y \in 0..n - 1 /\ w \in Int
  <2>1. x + (k - 1) \in Int
    BY <1>1
  <2>2. QED
    BY <2>1, DivMod
<1> HIDE DEF y, w
<1>3. p + k = n * (w + q) + y /\ w + q \in Int /\ p + k \in Int
  BY <1>1, <1>2
<1>4. (p + k) % n = y
  BY ONLY <1>2, <1>3, DivModIs, n \in Nat \ {0}
<1>5. QED
  BY <1>4 DEF y, x

LEMMA OneSlotLess ==
  ASSUME NEW e \in Nat \ {0}, NEW a \in Int, NEW b \in Int
  PROVE  (a - (b + e)) \div e = ((a - b) \div e) - 1
<1> DEFINE q == (a - b) \div e
           r == (a - b) % e
<1>1. a - b = e * q + r /\ r \in 0..e - 1 /\ q \in Int
  BY DivMod
<1> HIDE DEF q, r
<1>2. a - (b + e) = e * (q - 1) + r /\ q - 1 \in Int /\ a - (b + e) \in Int
  BY <1>1
<1>3. (a - (b + e)) \div e = q - 1
  BY ONLY <1>1, <1>2, DivModIs, e \in Nat \ {0}
<1>4. QED
  BY <1>3 DEF q

\* get_slot_timestamp rounds down to a whole slot.
LEMMA SlotIs ==
  ASSUME NEW a \in Nat
  PROVE  Slot(a) \in Nat /\ Slot(a) <= a /\ Whole(Slot(a))
<1> USE WheelAssumption DEF Whole
<1> DEFINE q == a \div EveryMs
           r == a % EveryMs
<1>1. a = EveryMs * q + r /\ r \in 0..EveryMs - 1 /\ q \in Int
  BY DivMod
<1>2. Slot(a) = a - r
  BY DEF Slot
<1> HIDE DEF q, r
<1>3. Slot(a) = EveryMs * q + 0 /\ Slot(a) \in Int /\ 0 \in 0..EveryMs - 1
  BY <1>1, <1>2
<1>4. Slot(a) % EveryMs = 0
  BY ONLY <1>1, <1>3, DivModIs, WheelAssumption
<1>5. q >= 0
  <2>1. q < 0 => EveryMs * q <= -EveryMs
    BY <1>1
  <2>2. QED
    BY <1>1, <2>1
<1>6. EveryMs * q >= 0
  BY <1>1, <1>5
<1>7. QED
  BY <1>1, <1>3, <1>4, <1>6

\* Whole slots are a slot apart.
LEMMA NextSlot ==
  ASSUME NEW a \in Int, NEW b \in Int, Whole(a), Whole(b), a < b
  PROVE  a + EveryMs <= b /\ Whole(a + EveryMs)
<1> USE WheelAssumption DEF Whole
<1> DEFINE q == a \div EveryMs
           p == b \div EveryMs
<1>1. a = EveryMs * q /\ b = EveryMs * p /\ q \in Int /\ p \in Int
  BY DivMod
<1> HIDE DEF q, p
<1>2. a + EveryMs = EveryMs * (q + 1) + 0 /\ q + 1 \in Int /\ 0 \in 0..EveryMs - 1
  BY <1>1
<1>3. (a + EveryMs) % EveryMs = 0
  BY ONLY <1>1, <1>2, DivModIs, a \in Int, WheelAssumption
<1>4. p >= q + 1
  <2>1. EveryMs * (p - q) > 0
    BY <1>1
  <2>2. p <= q => EveryMs * (p - q) <= 0
    BY <1>1
  <2>3. QED
    BY <1>1, <2>1, <2>2
<1>5. EveryMs * (p - (q + 1)) >= 0
  BY <1>1, <1>4
<1>6. EveryMs * p >= EveryMs * (q + 1)
  BY <1>1, <1>5
<1>7. QED
  BY <1>1, <1>2, <1>3, <1>6

LEMMA PosIs ==
  /\ \A a : SlotOf(a) = Pos(before, slotPtr, a)
  /\ TypeOK => \A a \in Int : Pos(before, slotPtr, a) \in Slots
<1>1. ASSUME TypeOK, NEW a \in Int PROVE Pos(before, slotPtr, a) \in Slots
  <2>1. slotPtr + ((a - before) \div EveryMs) \in Int
    BY <1>1, WheelAssumption, DivMod DEF TypeOK, Slots
  <2>2. QED
    BY <2>1, WheelAssumption, DivMod DEF Pos, Slots
<1>2. \A a : SlotOf(a) = Pos(before, slotPtr, a)
  BY Zenon DEF SlotOf, Pos
<1>3. QED
  BY <1>1, <1>2

\* The timers need not move when the wheel turns by one slot.
LEMMA PosStays ==
  ASSUME NEW b \in Nat, NEW p \in Slots, NEW a \in Int
  PROVE  Pos(b + EveryMs, (p + 1) % NSlots, a) = Pos(b, p, a)
<1> DEFINE k == (a - b) \div EveryMs
<1>1. /\ b \in Int /\ p \in Int /\ a - b \in Int
      /\ NSlots \in Nat \ {0} /\ EveryMs \in Nat \ {0}
  BY WheelAssumption DEF Slots
<1>2. k \in Int
  BY ONLY <1>1, DivMod
<1>3. (a - (b + EveryMs)) \div EveryMs = k - 1
  BY ONLY <1>1, a \in Int, OneSlotLess
<1> HIDE DEF k
<1>4. (((p + 1) % NSlots) + (k - 1)) % NSlots = (p + k) % NSlots
  BY ONLY <1>1, <1>2, OneSlotOn
<1>5. Pos(b + EveryMs, (p + 1) % NSlots, a) = (((p + 1) % NSlots) + (k - 1)) % NSlots
  BY ONLY <1>3, Zenon DEF Pos
<1>6. Pos(b, p, a) = (p + k) % NSlots
  BY ONLY Zenon DEF Pos, k
<1>7. QED
  BY ONLY <1>4, <1>5, <1>6, Zenon

\* The slot of trigger_before_ms is the one that slot_ptr points to, and of the
\* timestamps less than one turn ahead it is no other's.
LEMMA PosOfPtr ==
  ASSUME TypeOK, Clocks, NEW a \in Int
  PROVE  /\ a = before => Pos(before, slotPtr, a) = slotPtr
         /\ Pos(before, slotPtr, a) = slotPtr /\ Whole(a) /\ a >= before
              /\ a - before < Span => a = before
<1> USE WheelAssumption DEF TypeOK, Slots
<1>1. ASSUME a = before PROVE Pos(before, slotPtr, a) = slotPtr
  <2>1. 0 \div EveryMs = 0
    <3>1. 0 = EveryMs * 0 + 0 /\ 0 \in 0..EveryMs - 1 /\ 0 \in Int
      OBVIOUS
    <3>2. QED
      BY ONLY <3>1, DivModIs, WheelAssumption
  <2>2. slotPtr % NSlots = slotPtr
    <3>1. slotPtr = NSlots * 0 + slotPtr /\ slotPtr \in Int /\ slotPtr \in 0..NSlots - 1
      OBVIOUS
    <3>2. QED
      BY ONLY <3>1, DivModIs, WheelAssumption
  <2>3. a - before = 0
    BY <1>1
  <2>4. QED
    <3>1. (a - before) \div EveryMs = 0
      BY ONLY <2>1, <2>3, Zenon
    <3>2. Pos(before, slotPtr, a) = (slotPtr + 0) % NSlots
      BY ONLY <3>1, Zenon DEF Pos
    <3>3. slotPtr + 0 = slotPtr
      OBVIOUS
    <3>4. QED
      BY ONLY <2>2, <3>2, <3>3, Zenon
<1>2. ASSUME Pos(before, slotPtr, a) = slotPtr, Whole(a), a >= before, a - before < Span
      PROVE  a = before
  <2> DEFINE q == a \div EveryMs
             p == before \div EveryMs
  <2>1. a = EveryMs * q /\ before = EveryMs * p /\ q \in Int /\ p \in Int
    BY <1>2, DivMod DEF Clocks, Whole
  <2> HIDE DEF q, p
  <2>2. a - before = EveryMs * (q - p) + 0 /\ 0 \in 0..EveryMs - 1
        /\ a - before \in Int /\ q - p \in Int
    BY <2>1
  <2>3. (a - before) \div EveryMs = q - p
    BY ONLY <2>2, DivModIs, WheelAssumption
  <2>4. q - p >= 0 /\ q - p < NSlots
    <3> DEFINE d == q - p
               x == EveryMs * d
               y == EveryMs * NSlots
    <3>1. d \in Int /\ x \in Int /\ y \in Int
      BY <2>1
    <3>2. d < 0 => x < 0
      BY <3>1
    <3>3. d >= NSlots => x >= y
      BY ONLY <3>1, NSlots \in Int, EveryMs \in Nat, TimesMono
    <3>4. x >= 0 /\ x < y
      BY <1>2, <2>2, <3>1 DEF Span
    <3> HIDE DEF x, y
    <3>5. QED
      BY <3>1, <3>2, <3>3, <3>4
  <2>5. (slotPtr + (q - p)) % NSlots = slotPtr
    BY ONLY <1>2, <2>3, Zenon DEF Pos
  <2> DEFINE m == (slotPtr + (q - p)) \div NSlots
  <2>6. slotPtr + (q - p) = NSlots * m + slotPtr /\ m \in Int
    <3> DEFINE z == slotPtr + (q - p)
    <3>1. z \in Int
      BY <2>1
    <3>2. z % NSlots = slotPtr
      BY <2>5
    <3> HIDE DEF z
    <3>3. z = NSlots * (z \div NSlots) + slotPtr /\ z \div NSlots \in Int
      BY <3>1, <3>2, DivMod
    <3>4. QED
      BY <3>3 DEF z
  <2> HIDE DEF m
  <2>7. m = 0
    <3> DEFINE x == NSlots * m
    <3>1. m >= 1 => x >= NSlots
      BY <2>6
    <3>2. m <= -1 => x <= -NSlots
      BY <2>6
    <3>3. x = q - p
      BY <2>1, <2>6
    <3> HIDE DEF x
    <3>4. QED
      BY <2>1, <2>4, <2>6, <3>1, <3>2, <3>3
  <2>8. QED
    BY <2>1, <2>6, <2>7
<1>3. QED
  BY <1>1, <1>2
-----------------------------------------------------------------------------
(* The lists.                                                               *)

LEMMA SubSeqIs ==
  ASSUME NEW S, NEW s \in Seq(S), NEW m \in Nat \ {0}, NEW n \in 0..Len(s), m <= n + 1
  PROVE  /\ SubSeq(s, m, n) \in Seq(S) /\ Len(SubSeq(s, m, n)) = (n - m) + 1
         /\ \A i \in 1..(n - m) + 1 : SubSeq(s, m, n)[i] = s[(m + i) - 1]
<1>1. \A i \in m..n : s[i] \in S
  OBVIOUS
<1>2. m \in Int /\ n \in Int
  OBVIOUS
<1>3. QED
  BY <1>1, <1>2, SubSeqProperties

\* erase() takes out the node of id and moves up those behind it.
LEMMA EraseIs ==
  ASSUME NEW list \in Seq(Ids), NEW k \in 1..Len(list),
         \A j \in 1..Len(list) : list[j] = list[k] => j = k
  PROVE  /\ Erase(list, list[k]) \in Seq(Ids)
         /\ Len(Erase(list, list[k])) = Len(list) - 1
         /\ DOMAIN Erase(list, list[k]) = 1..Len(list) - 1
         /\ \A j \in 1..Len(list) - 1 :
               Erase(list, list[k])[j] = IF j < k THEN list[j] ELSE list[j + 1]
<1> DEFINE n == Len(list)
           u == SubSeq(list, 1, k - 1)
           v == SubSeq(list, k + 1, n)
           e == u \o v
<1>1. n \in Nat /\ DOMAIN list = 1..n /\ \A j \in 1..n : list[j] \in Ids
  OBVIOUS
<1>2. (CHOOSE j \in DOMAIN list : list[j] = list[k]) = k
  BY <1>1
<1>3. Erase(list, list[k]) = e
  BY <1>2 DEF Erase
<1>4. u \in Seq(Ids) /\ Len(u) = k - 1 /\ \A j \in 1..k - 1 : u[j] = list[j]
  <2>1. 1 \in Nat \ {0} /\ k - 1 \in 0..n /\ 1 <= (k - 1) + 1
    BY <1>1
  <2>2. /\ u \in Seq(Ids) /\ Len(u) = ((k - 1) - 1) + 1
        /\ \A j \in 1..((k - 1) - 1) + 1 : u[j] = list[(1 + j) - 1]
    BY <2>1, SubSeqIs
  <2> HIDE DEF u
  <2>3. QED
    BY <1>1, <2>2
<1>5. v \in Seq(Ids) /\ Len(v) = n - k /\ \A j \in 1..n - k : v[j] = list[k + j]
  <2>1. k + 1 \in Nat \ {0} /\ n \in 0..n /\ k + 1 <= n + 1
    BY <1>1
  <2>2. /\ v \in Seq(Ids) /\ Len(v) = (n - (k + 1)) + 1
        /\ \A j \in 1..(n - (k + 1)) + 1 : v[j] = list[((k + 1) + j) - 1]
    BY <2>1, SubSeqIs
  <2> HIDE DEF v
  <2>3. QED
    BY <1>1, <2>2
<1> HIDE DEF u, v
<1>6. /\ e \in Seq(Ids) /\ Len(e) = Len(u) + Len(v)
      /\ \A j \in 1..Len(u) + Len(v) : e[j] = IF j <= Len(u) THEN u[j] ELSE v[j - Len(u)]
  BY ONLY <1>4, <1>5, ConcatProperties
<1> HIDE DEF e
<1>7. k \in 1..n
  OBVIOUS
<1> HIDE DEF n
<1>8. Len(e) = n - 1 /\ DOMAIN e = 1..n - 1
  BY ONLY <1>1, <1>4, <1>5, <1>6, <1>7
<1>9. ASSUME NEW j \in 1..n - 1 PROVE e[j] = IF j < k THEN list[j] ELSE list[j + 1]
  <2>1. e[j] = IF j <= k - 1 THEN u[j] ELSE v[j - (k - 1)]
    BY ONLY <1>1, <1>4, <1>5, <1>6, <1>7, j \in 1..n - 1
  <2>2. CASE j < k
    BY ONLY <1>1, <1>4, <1>7, <2>1, <2>2, j \in 1..n - 1
  <2>3. CASE j >= k
    <3>1. j - (k - 1) \in 1..n - k /\ k + (j - (k - 1)) = j + 1
      BY ONLY <1>1, <1>7, <2>3, j \in 1..n - 1
    <3>2. QED
      BY ONLY <1>1, <1>5, <1>7, <2>1, <2>3, <3>1, j \in 1..n - 1
  <2>4. QED
    BY <1>1, <1>7, <2>2, <2>3
<1>10. QED
  BY <1>3, <1>6, <1>8, <1>9 DEF n

LEMMA AppendIs ==
  ASSUME NEW list \in Seq(Ids), NEW id \in Ids
  PROVE  LET e == Append(list, id)
         IN  /\ e \in Seq(Ids) /\ Len(e) = Len(list) + 1 /\ DOMAIN e = 1..Len(list) + 1
             /\ e[Len(list) + 1] = id
             /\ \A j \in 1..Len(list) : e[j] = list[j]
<1>1. Append(list, id) \in Seq(Ids) /\ Len(Append(list, id)) = Len(list) + 1
  BY AppendProperties
<1>2. DOMAIN Append(list, id) = 1..Len(list) + 1
  BY <1>1
<1>3. QED
  BY <1>1, <1>2, AppendProperties

-----------------------------------------------------------------------------
(* The steps.                                                               *)

LEMMA InitInv == Init => IInv
<1> SUFFICES ASSUME Init PROVE IInv
  OBVIOUS
<1> USE WheelAssumption DEF Init
<1>1. \A i \in Slots : wheel[i] = <<>> /\ DOMAIN wheel[i] = {}
  BY DEF Slots
<1>2. Whole(0)
  <2>1. 0 = EveryMs * 0 + 0 /\ 0 \in 0..EveryMs - 1 /\ 0 \in Int
    OBVIOUS
  <2>2. QED
    BY ONLY <2>1, DivModIs, WheelAssumption DEF Whole
<1>3. before \in Nat /\ before <= clock /\ Whole(before) /\ clock \in Nat
  BY SlotIs
<1>4. TypeOK
  BY <1>3 DEF TypeOK, Slots, Statuses
<1>5. Clocks
  BY <1>2, <1>3 DEF Clocks
<1>6. Entries /\ OnceEach
  BY <1>1 DEF Entries, OnceEach
<1>7. Listed /\ Ahead /\ Round /\ Due /\ Reached /\ ErasesLive
  BY DEF Listed, Ahead, Round, Firing, Due, Reached, ErasesLive
<1>8. QED
  BY <1>4, <1>5, <1>6, <1>7 DEF IInv

\* Steps that touch neither the wheel nor a timer.
LEMMA QuietStep ==
  ASSUME IInv, Tick \/ BeginTrigger \/ CallbackReturns \/ EndTrigger
                 \/ UNCHANGED vars
  PROVE  IInv'
<1> USE WheelAssumption DEF wheelVars, runVars, vars
<1>1. UNCHANGED <<before, slotPtr, wheel, at, status, asked, far, dangling>>
  BY DEF Tick, BeginTrigger, CallbackReturns, EndTrigger
<1>2. /\ clock' \in Nat /\ clock' >= clock /\ target' \in Nat /\ target' <= clock'
      /\ Whole(target')
  <2>1. clock \in Nat /\ target \in Nat /\ target <= clock /\ Whole(target)
    BY DEF IInv, TypeOK, Clocks
  <2>2. CASE BeginTrigger
    BY <2>1, <2>2, SlotIs DEF BeginTrigger
  <2>3. CASE Tick
    BY <2>1, <2>3 DEF Tick
  <2>4. CASE CallbackReturns \/ EndTrigger \/ UNCHANGED vars
    BY <2>1, <2>4 DEF CallbackReturns, EndTrigger
  <2>5. QED
    BY <2>2, <2>3, <2>4
<1>3. /\ pc' \in {"idle", "advance", "fire", "incb"} /\ next' \in Nat \ {0}
      /\ Firing' <=> Firing
      /\ Firing => next' = next
      /\ IF pc' = "incb" THEN pc = "incb" /\ current' = current ELSE current' = None
      /\ current' \in Ids \cup {None}
  BY DEF IInv, Round, TypeOK, Firing, Tick, BeginTrigger, CallbackReturns, EndTrigger
<1>4. TypeOK'
  BY <1>1, <1>2, <1>3 DEF IInv, TypeOK
<1>5. Clocks'
  BY <1>1, <1>2 DEF IInv, TypeOK, Clocks
<1>6. (Entries /\ OnceEach /\ Listed)'
  BY <1>1, <1>3 DEF IInv, Entries, Passed, OnceEach, Listed, Home
<1>7. (Ahead /\ Round)'
  BY <1>1, <1>3 DEF IInv, Ahead, Round
<1>8. (Due /\ Reached /\ ErasesLive)'
  BY <1>1, <1>2 DEF IInv, TypeOK, Due, Reached, ErasesLive
<1>9. QED
  BY <1>4, <1>5, <1>6, <1>7, <1>8 DEF IInv

\* trigger_timer comes to the next slot: what is there is due now.
LEMMA AdvanceStep ==
  ASSUME IInv, Advance
  PROVE  IInv'
<1> USE WheelAssumption DEF Advance
<1>1. /\ before \in Nat /\ before' = before + EveryMs /\ before' <= target
      /\ Whole(before')
  BY NextSlot DEF IInv, TypeOK, Clocks
<1>2. slotPtr' \in Slots
  BY DivMod DEF IInv, TypeOK, Slots
<1>3. TypeOK'
  BY <1>1, <1>2 DEF IInv, TypeOK
<1>4. Clocks'
  BY <1>1 DEF IInv, TypeOK, Clocks
<1>5. \A id \in Ids : Pos(before', slotPtr', at[id]) = Home(id)
  BY PosStays DEF IInv, TypeOK, Home
<1>6. ~Firing /\ Firing' /\ next' = 1
  BY DEF Firing
<1>7. Entries'
  <2>1. SUFFICES ASSUME NEW i \in Slots, NEW j \in DOMAIN wheel[i]
                 PROVE  /\ ~(j < 1) /\ status[wheel[i][j]] = "armed"
                        /\ Pos(before', slotPtr', at[wheel[i][j]]) = i
    BY <1>6 DEF Entries, Passed, Home
  <2>2. wheel[i][j] \in Ids /\ j \in Nat /\ j >= 1
    BY DEF IInv, TypeOK
  <2>3. status[wheel[i][j]] = "armed" /\ Home(wheel[i][j]) = i
    BY <1>6 DEF IInv, Entries, Passed
  <2>4. ~(j < 1)
    BY <2>2
  <2>5. QED
    BY <1>5, <2>2, <2>3, <2>4
<1>8. OnceEach' /\ Listed'
  BY <1>5 DEF IInv, OnceEach, Listed, Home
<1>9. Ahead'
  <2>1. ASSUME NEW id \in Ids \ far, status[id] = "armed"
        PROVE  at[id] - before' < Span /\ at[id] >= before'
    <3>1. /\ at[id] \in Nat /\ Whole(at[id]) /\ at[id] > before
          /\ at[id] - before < Span
      BY <1>6, <2>1 DEF IInv, TypeOK, Ahead
    <3>2. before + EveryMs <= at[id]
      BY <1>1, <3>1, NextSlot DEF IInv, Clocks
    <3>3. Span \in Int
      BY DEF Span
    <3>4. QED
      BY <1>1, <3>1, <3>2, <3>3
  <2>2. QED
    BY <1>6, <2>1 DEF IInv, Ahead
<1>10. Round'
  BY <1>2, <1>6 DEF IInv, TypeOK, Round
<1>11. (Due /\ Reached /\ ErasesLive)'
  BY <1>1 DEF IInv, TypeOK, Due, Reached, ErasesLive
<1>12. QED
  BY <1>3, <1>4, <1>7, <1>8, <1>9, <1>10, <1>11 DEF IInv

\* The next timer of the list is run: an armed one, so one whose slot this is.
LEMMA FireStep ==
  ASSUME IInv, FireOne
  PROVE  IInv'
<1> DEFINE c == wheel[slotPtr][next]
<1>1. /\ pc = "fire" /\ pc' = "incb" /\ Firing /\ Firing' /\ next' = next + 1
      /\ next <= Len(wheel[slotPtr]) /\ current' = c
      /\ status' = [status EXCEPT ![c] = "fired"]
      /\ UNCHANGED <<clock, before, slotPtr, wheel, at, asked, far, dangling, target>>
  BY DEF FireOne, Firing, wheelVars
<1>2. slotPtr \in Slots /\ wheel[slotPtr] \in Seq(Ids) /\ next \in DOMAIN wheel[slotPtr]
      /\ next \in Nat
  BY <1>1 DEF IInv, TypeOK
<1>3. c \in Ids /\ status[c] = "armed" /\ Home(c) = slotPtr
  BY <1>1, <1>2 DEF IInv, Entries, Passed
<1> HIDE DEF c
<1>4. TypeOK'
  BY <1>1, <1>3 DEF IInv, TypeOK, Statuses
<1>5. Clocks'
  BY <1>1 DEF IInv, Clocks
<1>6. \A id \in Ids : status'[id] = IF id = c THEN "fired" ELSE status[id]
  BY <1>1 DEF IInv, TypeOK
<1>7. Entries'
  <2>1. SUFFICES ASSUME NEW i \in Slots, NEW j \in DOMAIN wheel[i]
                 PROVE  /\ Home(wheel[i][j]) = i
                        /\ status'[wheel[i][j]] =
                             IF i = slotPtr /\ j < next + 1 THEN "fired" ELSE "armed"
    BY <1>1 DEF Entries, Passed, Home
  <2>2. wheel[i][j] \in Ids /\ j \in Nat
    BY DEF IInv, TypeOK
  <2>3. /\ Home(wheel[i][j]) = i
        /\ status[wheel[i][j]] = IF i = slotPtr /\ j < next THEN "fired" ELSE "armed"
    BY <1>1 DEF IInv, Entries, Passed
  <2>4. wheel[i][j] = c => i = slotPtr /\ j = next
    BY <1>2, <1>3, <2>3 DEF IInv, OnceEach, c
  <2>5. j < next + 1 <=> j < next \/ j = next
    BY <1>2, <2>2
  <2>6. QED
    BY <1>2, <1>6, <2>2, <2>3, <2>4, <2>5 DEF c
<1>8. OnceEach' /\ Listed'
  BY <1>1, <1>6 DEF IInv, OnceEach, Listed, Home
<1>9. Ahead'
  BY <1>1, <1>6 DEF IInv, Ahead
<1>10. c \notin far => at[c] = before
  <2>1. SUFFICES ASSUME c \notin far PROVE at[c] = before
    OBVIOUS
  <2>2. at[c] \in Int /\ Whole(at[c]) /\ at[c] >= before /\ at[c] - before < Span
    BY <1>1, <1>3, <2>1 DEF IInv, TypeOK, Ahead
  <2>3. QED
    BY <1>3, <2>2, PosOfPtr DEF IInv, Home
<1>11. Round'
  <2>1. next + 1 <= Len(wheel[slotPtr]) + 1
    BY <1>1, <1>2
  <2>2. \A id \in far : status'[id] # "new"
    BY <1>6 DEF IInv, TypeOK, Round
  <2>3. QED
    BY <1>1, <1>3, <1>6, <1>10, <2>1, <2>2 DEF Round
<1>12. (Due /\ Reached /\ ErasesLive)'
  <2>1. c \notin far => at[c] <= clock /\ at[c] <= before
    BY <1>10 DEF IInv, TypeOK, Clocks
  <2>2. QED
    BY <1>1, <1>6, <2>1 DEF IInv, Due, Reached, ErasesLive
<1>13. QED
  BY <1>4, <1>5, <1>7, <1>8, <1>9, <1>11, <1>12 DEF IInv

\* A timer that was armed while its slot ran has been run too, so nothing is
\* lost with the list.
LEMMA ClearStep ==
  ASSUME IInv, ClearSlot
  PROVE  IInv'
<1>1. /\ pc = "fire" /\ Firing /\ ~Firing' /\ pc' = "advance"
      /\ next > Len(wheel[slotPtr])
      /\ wheel' = [wheel EXCEPT ![slotPtr] = <<>>]
      /\ UNCHANGED <<clock, before, slotPtr, at, status, asked, far, dangling, target,
                     next, current>>
  BY DEF ClearSlot, Firing
<1>2. slotPtr \in Slots /\ wheel[slotPtr] \in Seq(Ids) /\ next \in Nat
      /\ wheel \in [Slots -> Seq(Ids)] /\ <<>> \in Seq(Ids)
  BY DEF IInv, TypeOK
<1>3. wheel'[slotPtr] = <<>> /\ \A i \in Slots \ {slotPtr} : wheel'[i] = wheel[i]
  BY <1>1, <1>2
<1>4. \A j \in DOMAIN wheel[slotPtr] : j < next
  BY <1>1, <1>2
<1>5. \A id \in Ids : status[id] = "armed" => Home(id) # slotPtr /\ Home(id) \in Slots
  <2>1. SUFFICES ASSUME NEW id \in Ids, status[id] = "armed"
                 PROVE  Home(id) # slotPtr /\ Home(id) \in Slots
    OBVIOUS
  <2>2. PICK j \in DOMAIN wheel[Home(id)] : wheel[Home(id)][j] = id
    BY <2>1 DEF IInv, Listed
  <2>3. Home(id) \in Slots
    BY PosIs DEF IInv, TypeOK, Home
  <2>4. ASSUME Home(id) = slotPtr PROVE FALSE
    <3>1. Passed(Home(id), j)
      BY <1>1, <1>4, <2>4 DEF Passed
    <3>2. status[id] = "fired"
      BY <2>2, <2>3, <3>1 DEF IInv, Entries
    <3>3. QED
      BY <2>1, <3>2
  <2>5. QED
    BY <2>3, <2>4
<1>6. (TypeOK /\ Clocks)'
  BY <1>1, <1>2 DEF IInv, TypeOK, Clocks
<1>7. Entries'
  <2>1. SUFFICES ASSUME NEW i \in Slots, NEW j \in DOMAIN wheel'[i]
                 PROVE  status[wheel'[i][j]] = "armed" /\ Home(wheel'[i][j]) = i
    BY <1>1 DEF Entries, Passed, Home
  <2>2. i # slotPtr /\ wheel'[i] = wheel[i]
    BY <1>3
  <2>3. QED
    BY <2>2 DEF IInv, Entries, Passed
<1>8. OnceEach'
  BY <1>3 DEF IInv, OnceEach
<1>9. Listed'
  BY <1>1, <1>3, <1>5 DEF IInv, Listed, Home
<1>10. Ahead'
  <2>1. ASSUME NEW id \in Ids \ far, status[id] = "armed" PROVE at[id] > before
    <3>1. at[id] \in Nat /\ before \in Nat /\ at[id] >= before
      BY <1>1, <2>1 DEF IInv, TypeOK, Ahead
    <3>2. at[id] # before
      BY <1>5, <2>1, <3>1, PosOfPtr DEF IInv, Home
    <3>3. QED
      BY <3>1, <3>2
  <2>2. QED
    BY <1>1, <2>1 DEF IInv, Ahead
<1>11. (Round /\ Due /\ Reached /\ ErasesLive)'
  BY <1>1 DEF IInv, Round, Due, Reached, ErasesLive
<1>12. QED
  BY <1>6, <1>7, <1>8, <1>9, <1>10, <1>11 DEF IInv

\* add_timer: what is armed joins the list of its slot, behind all others, so
\* that a round over that list has still to come to it.
LEMMA AddStep ==
  ASSUME IInv, NEW id \in Ids, NEW after \in Afters, AddTimer(id, after)
  PROVE  IInv'
<1> DEFINE a == Slot(after + clock)
           h == Pos(before, slotPtr, a)
           n == Len(wheel[h])
<1>1. a \in Nat /\ Whole(a)
  <2>1. after + clock \in Nat
    BY WheelAssumption DEF IInv, TypeOK
  <2>2. QED
    BY <2>1, SlotIs
<1>2. /\ status[id] = "new" /\ id \notin far
      /\ UNCHANGED <<clock, before, slotPtr, asked, dangling, target, next, current, pc>>
      /\ Firing' <=> Firing
  BY DEF AddTimer, runVars, IInv, Round, Firing
<1>3. \A i \in Slots : \A j \in DOMAIN wheel[i] :
         wheel[i][j] \in Ids /\ wheel[i][j] # id /\ j \in Nat
  <2> SUFFICES ASSUME NEW i \in Slots, NEW j \in DOMAIN wheel[i]
               PROVE  wheel[i][j] \in Ids /\ wheel[i][j] # id /\ j \in Nat
    OBVIOUS
  <2>1. wheel[i] \in Seq(Ids)
    BY DEF IInv, TypeOK
  <2>2. status[wheel[i][j]] # "new"
    BY DEF IInv, Entries
  <2>3. QED
    BY <1>2, <2>1, <2>2
<1>4. pc = "incb" => current # id
  BY <1>2 DEF IInv, Round
<1>5. Clocks'
  BY <1>2 DEF IInv, Clocks
<1>6. ASSUME NEW st \in {"immediate", "dropped"}, status' = [status EXCEPT ![id] = st],
             UNCHANGED <<wheel, far>>,
             \/ at' = [at EXCEPT ![id] = a] /\ a <= before
             \/ at' = at /\ st = "dropped"
      PROVE  IInv'
  <2>1. /\ status'[id] = st /\ \A x \in Ids \ {id} : status'[x] = status[x] /\ at'[x] = at[x]
        /\ st = "immediate" => at'[id] <= clock
        /\ st # "armed" /\ st # "new" /\ st # "fired"
    BY <1>1, <1>6 DEF IInv, TypeOK, Clocks
  <2>2. TypeOK'
    BY <1>1, <1>2, <1>6 DEF IInv, TypeOK, Statuses
  <2>3. Entries'
    <3>1. SUFFICES ASSUME NEW i \in Slots, NEW j \in DOMAIN wheel[i]
                   PROVE  /\ Pos(before, slotPtr, at'[wheel[i][j]]) = i
                          /\ status'[wheel[i][j]] =
                               IF Passed(i, j) THEN "fired" ELSE "armed"
      BY <1>2, <1>6 DEF Entries, Passed, Home
    <3>2. wheel[i][j] \in Ids \ {id}
      BY <1>3
    <3>3. QED
      BY <2>1, <3>2 DEF IInv, Entries, Home
  <2>4. OnceEach' /\ Listed'
    BY <1>2, <1>6, <2>1 DEF IInv, OnceEach, Listed, Home
  <2>5. Ahead'
    BY <1>2, <1>6, <2>1 DEF IInv, Ahead
  <2>6. Round'
    BY <1>2, <1>4, <1>6, <2>1 DEF IInv, TypeOK, Round
  <2>7. (Due /\ Reached /\ ErasesLive)'
    BY <1>2, <1>6, <2>1 DEF IInv, Due, Reached, ErasesLive
  <2>8. QED
    BY <1>5, <2>2, <2>3, <2>4, <2>5, <2>6, <2>7 DEF IInv
<1>7. ASSUME status' = [status EXCEPT ![id] = "armed"], at' = [at EXCEPT ![id] = a],
             wheel' = [wheel EXCEPT ![h] = Append(wheel[h], id)], a > before,
             far' = IF a - before >= Span THEN far \cup {id} ELSE far
      PROVE  IInv'
  <2>1. h \in Slots /\ wheel[h] \in Seq(Ids) /\ n \in Nat /\ DOMAIN wheel[h] = 1..n
    BY <1>1, PosIs DEF IInv, TypeOK
  <2>2. /\ wheel'[h] \in Seq(Ids) /\ Len(wheel'[h]) = n + 1 /\ DOMAIN wheel'[h] = 1..n + 1
        /\ wheel'[h][n + 1] = id /\ \A j \in 1..n : wheel'[h][j] = wheel[h][j]
        /\ \A i \in Slots \ {h} : wheel'[i] = wheel[i]
    BY <1>7, <2>1, AppendIs DEF IInv, TypeOK
  <2>3. /\ status'[id] = "armed" /\ at'[id] = a
        /\ \A x \in Ids \ {id} : status'[x] = status[x] /\ at'[x] = at[x]
    BY <1>7 DEF IInv, TypeOK
  <2>4. TypeOK'
    BY <1>1, <1>2, <1>7, <2>1, <2>2 DEF IInv, TypeOK, Statuses
  <2> HIDE DEF n, h, a
  <2>5. Firing => next <= Len(wheel[slotPtr]) + 1 /\ next \in Nat
    BY DEF IInv, TypeOK, Round
  <2>6. Entries'
    <3>1. SUFFICES ASSUME NEW i \in Slots, NEW j \in DOMAIN wheel'[i]
                   PROVE  /\ Pos(before, slotPtr, at'[wheel'[i][j]]) = i
                          /\ status'[wheel'[i][j]] =
                               IF Passed(i, j) THEN "fired" ELSE "armed"
      BY <1>2 DEF Entries, Passed, Home
    <3>2. CASE i = h /\ j = n + 1
      <4>1. ~Passed(i, j)
        BY <2>1, <2>5, <3>2 DEF Passed, n
      <4>2. QED
        BY <2>2, <2>3, <3>2, <4>1 DEF h
    <3>3. CASE ~(i = h /\ j = n + 1)
      <4>1. j \in DOMAIN wheel[i] /\ wheel'[i][j] = wheel[i][j]
        BY <2>1, <2>2, <3>3
      <4>2. wheel[i][j] \in Ids \ {id}
        BY <1>3, <4>1
      <4>3. QED
        BY <2>3, <4>1, <4>2 DEF IInv, Entries, Home
    <3>4. QED
      BY <3>2, <3>3
  <2>7. OnceEach'
    <3>1. SUFFICES ASSUME NEW i \in Slots, NEW j \in DOMAIN wheel'[i],
                          NEW k \in DOMAIN wheel'[i], wheel'[i][j] = wheel'[i][k]
                   PROVE  j = k
      BY DEF OnceEach
    <3>2. CASE i # h
      BY <2>2, <3>1, <3>2 DEF IInv, OnceEach
    <3>3. CASE i = h
      <4>1. \A l \in 1..n : wheel[h][l] # id
        BY <1>3, <2>1
      <4>2. j \in 1..n + 1 /\ k \in 1..n + 1
        BY <2>2, <3>3
      <4>3. CASE j \in 1..n /\ k \in 1..n
        BY <2>1, <2>2, <3>1, <3>3, <4>3 DEF IInv, OnceEach
      <4>4. QED
        BY <2>1, <2>2, <3>1, <3>3, <4>1, <4>2, <4>3
    <3>4. QED
      BY <3>2, <3>3
  <2>8. Listed'
    <3>1. SUFFICES ASSUME NEW x \in Ids, status'[x] = "armed"
                   PROVE  LET i == Pos(before, slotPtr, at'[x])
                          IN  \E j \in DOMAIN wheel'[i] : wheel'[i][j] = x
      BY <1>2 DEF Listed, Home
    <3>2. CASE x = id
      <4>1. Pos(before, slotPtr, at'[x]) = h
        BY <2>3, <3>2 DEF h
      <4>2. n + 1 \in DOMAIN wheel'[h]
        BY <2>1, <2>2
      <4>3. QED
        BY <2>2, <3>2, <4>1, <4>2
    <3>3. CASE x # id
      <4>1. Home(x) \in Slots /\ at'[x] = at[x]
        BY <2>3, <3>3, PosIs DEF IInv, TypeOK, Home
      <4>2. PICK j \in DOMAIN wheel[Home(x)] : wheel[Home(x)][j] = x
        BY <2>3, <3>1, <3>3 DEF IInv, Listed
      <4>3. j \in DOMAIN wheel'[Home(x)] /\ wheel'[Home(x)][j] = x
        BY <2>1, <2>2, <4>1, <4>2
      <4>4. QED
        BY <4>1, <4>3 DEF Home
    <3>4. QED
      BY <3>2, <3>3
  <2>9. Ahead'
    <3>1. Span \in Int /\ before \in Nat
      BY WheelAssumption DEF Span, IInv, TypeOK
    <3>2. id \notin far' => a - before < Span
      BY <1>1, <1>2, <1>7, <3>1 DEF a
    <3>3. a >= before
      BY <1>1, <1>7, <3>1 DEF a
    <3>4. far \subseteq far' /\ Whole(a)
      BY <1>1, <1>7 DEF a
    <3>5. QED
      BY <1>2, <1>7, <2>3, <3>2, <3>3, <3>4 DEF IInv, Ahead
  <2>10. Round'
    <3>1. Firing => next <= Len(wheel'[slotPtr]) + 1
      <4>1. slotPtr \in Slots
        BY DEF IInv, TypeOK
      <4>2. slotPtr # h => wheel'[slotPtr] = wheel[slotPtr]
        BY <2>2, <4>1
      <4>3. slotPtr = h => Len(wheel[slotPtr]) = n /\ Len(wheel'[slotPtr]) = n + 1
        BY <2>2 DEF n
      <4>4. QED
        BY <2>1, <2>5, <4>2, <4>3
    <3>2. \A x \in far' : status'[x] # "new"
      BY <1>7, <2>3 DEF IInv, TypeOK, Round
    <3>3. far \subseteq far'
      BY <1>7
    <3>4. QED
      BY <1>2, <1>4, <2>3, <3>1, <3>2, <3>3 DEF IInv, Round
  <2>11. (Due /\ Reached /\ ErasesLive)'
    BY <1>2, <1>7, <2>3 DEF IInv, Due, Reached, ErasesLive
  <2>12. QED
    BY <1>5, <2>4, <2>6, <2>7, <2>8, <2>9, <2>10, <2>11 DEF IInv
<1>8. SlotOf(a) = h
  BY PosIs
<1>9. QED
  BY <1>6, <1>7, <1>8 DEF AddTimer, Push

\* v is w without its entry k, the only one that is id.
IsErasure(v, w, k, id) ==
    /\ k \in 1..Len(w) /\ w[k] = id
    /\ \A j \in 1..Len(w) : w[j] = id => j = k
    /\ v \in Seq(Ids) /\ Len(v) = Len(w) - 1 /\ DOMAIN v = 1..Len(w) - 1
    /\ \A j \in 1..Len(w) - 1 : v[j] = IF j < k THEN w[j] ELSE w[j + 1]

\* What erase() leaves of the list of a timer that has a node, and of the others.
LEMMA ErasedIs ==
  ASSUME IInv, NEW id \in Ids, Linked(id), NEW h, h = Home(id),
         wheel' = [wheel EXCEPT ![h] = Erase(wheel[h], id)]
  PROVE  /\ h \in Slots /\ Len(wheel[h]) \in Nat /\ DOMAIN wheel[h] = 1..Len(wheel[h])
         /\ \A i \in Slots \ {h} : wheel'[i] = wheel[i]
         /\ \E k \in 1..Len(wheel[h]) : IsErasure(wheel'[h], wheel[h], k, id)
<1> DEFINE n == Len(wheel[h])
<1>1. h \in Slots /\ wheel[h] \in Seq(Ids) /\ n \in Nat /\ DOMAIN wheel[h] = 1..n
  BY PosIs DEF IInv, TypeOK, Home
<1>2. PICK k \in 1..n : wheel[h][k] = id
  BY <1>1 DEF IInv, Entries, Linked
<1>3. \A j \in 1..n : wheel[h][j] = id => j = k
  BY <1>1, <1>2 DEF IInv, OnceEach
<1> DEFINE w == wheel[h]
           e == Erase(w, w[k])
<1>4. e \in Seq(Ids) /\ Len(e) = n - 1 /\ DOMAIN e = 1..n - 1
      /\ \A j \in 1..n - 1 : e[j] = IF j < k THEN w[j] ELSE w[j + 1]
  <2>1. \A j \in 1..Len(w) : w[j] = w[k] => j = k
    BY <1>2, <1>3
  <2>2. k \in 1..Len(w) /\ w \in Seq(Ids) /\ n = Len(w)
    BY <1>1, <1>2
  <2> HIDE DEF w
  <2>3. QED
    BY ONLY <2>1, <2>2, EraseIs
<1> HIDE DEF e
<1>5. e = Erase(wheel[h], id)
  BY <1>2 DEF e
<1>6. wheel'[h] = Erase(wheel[h], id) /\ \A i \in Slots \ {h} : wheel'[i] = wheel[i]
  BY <1>1 DEF IInv, TypeOK
<1>7. wheel'[h] = e
  BY <1>5, <1>6
<1>8. IsErasure(wheel'[h], wheel[h], k, id)
  BY <1>2, <1>3, <1>4, <1>7 DEF IsErasure
<1>9. QED
  BY <1>1, <1>2, <1>6, <1>8

\* A node that remove_timer comes to although it has been freed, or the loop
\* over the list stands on it, is one of far.
LEMMA FreedIsFar ==
  ASSUME IInv, NEW id \in Ids, status[id] \in {"armed", "fired"}, at[id] > before,
         ~Linked(id) \/ id = current
  PROVE  id \in far
<1>1. status[id] = "armed" => Linked(id)
  <2>1. Home(id) \in Slots
    BY PosIs DEF IInv, TypeOK, Home
  <2>2. QED
    BY <2>1 DEF IInv, Listed, Linked
<1>2. id = current => status[id] = "fired"
  BY WheelAssumption DEF IInv, Round
<1>3. at[id] \in Nat /\ before \in Nat
  BY DEF IInv, TypeOK
<1>4. QED
  BY <1>1, <1>2, <1>3 DEF IInv, Reached

\* remove_timer: the node of an armed timer is behind the one that is being run,
\* that of a timer that has fired is before it.
LEMMA RemoveStep ==
  ASSUME IInv, NEW id \in Ids, RemoveTimer(id)
  PROVE  IInv'
<1> DEFINE h == Home(id)
           n == Len(wheel[h])
<1>1. /\ status[id] \in {"armed", "fired"} /\ asked' = asked \cup {id}
      /\ UNCHANGED <<clock, before, slotPtr, at, far, target, current, pc>>
      /\ Firing' <=> Firing
  BY DEF RemoveTimer, Firing
<1>2. Clocks'
  BY <1>1 DEF IInv, Clocks
<1>3. ASSUME UNCHANGED <<wheel, status, next>>,
             dangling' = dangling \/ (dangling' = dangling \cup {id} /\ id \in far)
      PROVE  IInv'
  <2>1. TypeOK'
    BY <1>1, <1>3 DEF IInv, TypeOK
  <2>2. (Entries /\ OnceEach /\ Listed)'
    BY <1>1, <1>3 DEF IInv, Entries, Passed, OnceEach, Listed, Home
  <2>3. (Ahead /\ Round /\ Due /\ Reached)'
    BY <1>1, <1>3 DEF IInv, Ahead, Round, Due, Reached
  <2>4. ErasesLive'
    BY <1>1, <1>3 DEF IInv, ErasesLive
  <2>5. QED
    BY <1>2, <2>1, <2>2, <2>3, <2>4 DEF IInv
<1>4. ASSUME Linked(id), id # current,
             wheel' = [wheel EXCEPT ![h] = Erase(wheel[h], id)],
             status' = [status EXCEPT ![id] = "removed"],
             next' = IF status[id] = "fired" THEN next - 1 ELSE next,
             dangling' = dangling
      PROVE  IInv'
  <2>1. h \in Slots /\ wheel[h] \in Seq(Ids) /\ n \in Nat /\ DOMAIN wheel[h] = 1..n
    BY PosIs DEF IInv, TypeOK, Home
  <2>2. PICK k \in 1..n : wheel[h][k] = id /\ IsErasure(wheel'[h], wheel[h], k, id)
    <3>1. h = Home(id) /\ n = Len(wheel[h])
      OBVIOUS
    <3> HIDE DEF h, n
    <3>2. \E k \in 1..n : IsErasure(wheel'[h], wheel[h], k, id)
      BY <1>1, <1>4, <3>1, ErasedIs
    <3>3. QED
      BY <3>2 DEF IsErasure
  <2>3. \A j \in 1..n : wheel[h][j] = id => j = k
    BY <2>2 DEF IsErasure
  <2>4. /\ wheel'[h] \in Seq(Ids) /\ Len(wheel'[h]) = n - 1 /\ DOMAIN wheel'[h] = 1..n - 1
        /\ \A j \in 1..n - 1 : wheel'[h][j] = IF j < k THEN wheel[h][j] ELSE wheel[h][j + 1]
        /\ \A i \in Slots \ {h} : wheel'[i] = wheel[i]
    BY <1>1, <1>4, <2>2, ErasedIs DEF IsErasure
  <2>5. \A x \in Ids : status'[x] = IF x = id THEN "removed" ELSE status[x]
    BY <1>4 DEF IInv, TypeOK
  <2>6. status[id] = IF Passed(h, k) THEN "fired" ELSE "armed"
    BY <2>1, <2>2 DEF IInv, Entries
  <2>7. /\ next \in Nat /\ next' \in Nat \ {0}
        /\ IF Firing /\ slotPtr = h /\ k < next THEN next' = next - 1 ELSE next' = next
    <3>1. next \in Nat \ {0} /\ k \in Nat \ {0}
      BY <2>1, <2>2 DEF IInv, TypeOK
    <3>2. Passed(h, k) <=> Firing /\ slotPtr = h /\ k < next
      BY DEF Passed
    <3>3. QED
      BY <1>4, <2>6, <3>1, <3>2
  <2>8. TypeOK'
    <3>1. wheel' \in [Slots -> Seq(Ids)]
      BY <1>4, <2>1, <2>4 DEF IInv, TypeOK
    <3>2. QED
      BY <1>1, <1>4, <2>7, <3>1 DEF IInv, TypeOK, Statuses
  <2> HIDE DEF n, h
  <2>9. \A i \in Slots : \A j \in DOMAIN wheel'[i] :
          \E l \in DOMAIN wheel[i] :
             /\ wheel'[i][j] = wheel[i][l] /\ wheel[i][l] \in Ids \ {id}
             /\ Passed(i, j)' <=> Passed(i, l)
             /\ l = IF i = h /\ j >= k THEN j + 1 ELSE j
    <3>1. SUFFICES ASSUME NEW i \in Slots, NEW j \in DOMAIN wheel'[i]
                   PROVE  \E l \in DOMAIN wheel[i] :
                             /\ wheel'[i][j] = wheel[i][l] /\ wheel[i][l] \in Ids \ {id}
                             /\ Passed(i, j)' <=> Passed(i, l)
                             /\ l = IF i = h /\ j >= k THEN j + 1 ELSE j
      OBVIOUS
    <3>2. CASE i # h
      <4>1. j \in DOMAIN wheel[i] /\ wheel'[i][j] = wheel[i][j] /\ wheel[i][j] \in Ids
        BY <2>4, <3>2 DEF IInv, TypeOK
      <4>2. wheel[i][j] # id
        BY <3>2, <4>1 DEF IInv, Entries, h
      <4>3. Passed(i, j)' <=> Passed(i, j)
        BY <1>1, <2>7, <3>2 DEF Passed
      <4>4. QED
        BY <3>2, <4>1, <4>2, <4>3
    <3>3. CASE i = h /\ j < k
      <4>1. j \in 1..n /\ wheel'[i][j] = wheel[i][j] /\ j # k
        BY <2>1, <2>2, <2>4, <3>3
      <4>2. wheel[i][j] \in Ids \ {id}
        BY <2>1, <2>3, <3>3, <4>1
      <4>3. ~(j >= k)
        BY <2>2, <3>3, <4>1
      <4>4. Passed(i, j)' <=> Passed(i, j)
        BY <1>1, <2>1, <2>2, <2>7, <3>3, <4>1 DEF Passed
      <4>5. QED
        BY <2>1, <3>3, <4>1, <4>2, <4>3, <4>4
    <3>4. CASE i = h /\ j >= k
      <4>1. j + 1 \in 1..n /\ wheel'[i][j] = wheel[i][j + 1] /\ j + 1 # k
        BY <2>1, <2>2, <2>4, <3>4
      <4>2. wheel[i][j + 1] \in Ids \ {id}
        BY <2>1, <2>3, <3>4, <4>1
      <4>3. Passed(i, j)' <=> Passed(i, j + 1)
        <5>1. j \in 1..n - 1
          BY <2>4, <3>4
        <5>2. QED
          BY <1>1, <2>1, <2>2, <2>7, <3>4, <5>1 DEF Passed
      <4>4. QED
        BY <2>1, <3>4, <4>1, <4>2, <4>3
    <3>5. QED
      <4>1. i = h => j \in Int /\ k \in Int
        BY <2>1, <2>2, <2>4
      <4>2. QED
        BY <3>2, <3>3, <3>4, <4>1
  <2>10. Entries'
    <3>1. SUFFICES ASSUME NEW i \in Slots, NEW j \in DOMAIN wheel'[i]
                   PROVE  /\ Home(wheel'[i][j]) = i
                          /\ status'[wheel'[i][j]] =
                               IF Passed(i, j)' THEN "fired" ELSE "armed"
      BY <1>1 DEF Entries, Home
    <3>2. PICK l \in DOMAIN wheel[i] :
             /\ wheel'[i][j] = wheel[i][l] /\ wheel[i][l] \in Ids \ {id}
             /\ Passed(i, j)' <=> Passed(i, l)
      BY <2>9
    <3>3. QED
      BY <2>5, <3>2 DEF IInv, Entries
  <2>11. OnceEach'
    <3>1. SUFFICES ASSUME NEW i \in Slots, NEW j \in DOMAIN wheel'[i],
                          NEW m \in DOMAIN wheel'[i], wheel'[i][j] = wheel'[i][m]
                   PROVE  j = m
      BY DEF OnceEach
    <3>2. CASE i # h
      BY <2>4, <3>1, <3>2 DEF IInv, OnceEach
    <3>3. CASE i = h
      <4>1. j \in Int /\ m \in Int /\ k \in Int
        BY <2>1, <2>2, <2>4, <3>3
      <4> DEFINE up(x) == IF x >= k THEN x + 1 ELSE x
      <4>2. /\ up(j) \in DOMAIN wheel[i] /\ wheel'[i][j] = wheel[i][up(j)]
            /\ up(m) \in DOMAIN wheel[i] /\ wheel'[i][m] = wheel[i][up(m)]
        BY <2>9, <3>3
      <4>3. up(j) = up(m)
        BY <3>1, <4>2 DEF IInv, OnceEach
      <4>4. QED
        BY <4>1, <4>3
    <3>4. QED
      BY <3>2, <3>3
  <2>12. Listed'
    <3>1. SUFFICES ASSUME NEW x \in Ids, status'[x] = "armed"
                   PROVE  \E j \in DOMAIN wheel'[Home(x)] : wheel'[Home(x)][j] = x
      BY <1>1 DEF Listed, Home
    <3>2. x # id /\ status[x] = "armed" /\ Home(x) \in Slots
      <4>1. x # id /\ status[x] = "armed"
        BY <2>5, <3>1
      <4>2. TypeOK /\ at[x] \in Int
        BY DEF IInv, TypeOK
      <4>3. QED
        BY <4>1, <4>2, PosIs DEF Home
    <3>3. PICK l \in DOMAIN wheel[Home(x)] : wheel[Home(x)][l] = x
      BY <3>2 DEF IInv, Listed
    <3>4. CASE Home(x) # h
      BY <2>4, <3>2, <3>3, <3>4
    <3>5. CASE Home(x) = h /\ l < k
      <4>1. l \in 1..n - 1 /\ wheel'[h][l] = wheel[h][l]
        BY <2>1, <2>2, <2>4, <3>3, <3>5
      <4>2. QED
        BY <2>4, <3>3, <3>5, <4>1
    <3>6. CASE Home(x) = h /\ ~(l < k)
      <4>1. l # k
        BY <2>2, <3>2, <3>3, <3>6
      <4>2. l - 1 \in 1..n - 1 /\ ~(l - 1 < k) /\ (l - 1) + 1 = l
        BY <2>1, <2>2, <3>3, <3>6, <4>1
      <4>3. wheel'[h][l - 1] = wheel[h][l]
        BY <2>4, <4>2
      <4>4. QED
        BY <2>4, <3>3, <3>6, <4>2, <4>3
    <3>7. QED
      BY <3>4, <3>5, <3>6
  <2>13. Ahead'
    BY <1>1, <2>5 DEF IInv, Ahead
  <2>14. Round'
    <3>1. Firing => next' <= Len(wheel'[slotPtr]) + 1
      <4>1. slotPtr \in Slots
        BY DEF IInv, TypeOK
      <4>2. CASE slotPtr = h
        BY <2>1, <2>2, <2>4, <2>7, <4>1, <4>2 DEF IInv, Round, n
      <4>3. CASE slotPtr # h
        BY <2>4, <2>7, <4>1, <4>3 DEF IInv, Round
      <4>4. QED
        BY <4>2, <4>3
    <3>2. QED
      BY <1>1, <1>4, <2>5, <3>1 DEF IInv, TypeOK, Round
  <2>15. (Due /\ Reached /\ ErasesLive)'
    BY <1>1, <1>4, <2>5 DEF IInv, Due, Reached, ErasesLive
  <2>16. QED
    BY <1>2, <2>8, <2>10, <2>11, <2>12, <2>13, <2>14, <2>15 DEF IInv
<1>5. SlotOf(at[id]) = h
  BY PosIs DEF Home
<1>6. CASE at[id] <= before /\ UNCHANGED <<wheel, status, next, dangling>>
  <2>1. UNCHANGED <<wheel, status, next>> /\ dangling' = dangling
    BY <1>6
  <2>2. QED
    BY ONLY <1>3, <2>1
<1>7. CASE at[id] > before /\ Unlink(id)
  BY <1>4, <1>5, <1>7 DEF Unlink
<1>8. CASE at[id] > before /\ UnlinkFreed(id)
  BY <1>1, <1>3, <1>8, FreedIsFar DEF UnlinkFreed
<1>9. QED
  BY <1>6, <1>7, <1>8 DEF RemoveTimer

LEMMA NextStep == IInv /\ [Next]_vars => IInv'
<1> SUFFICES ASSUME IInv, [Next]_vars PROVE IInv'
  OBVIOUS
<1>1. CASE Tick \/ BeginTrigger \/ CallbackReturns \/ EndTrigger \/ UNCHANGED vars
  BY <1>1, QuietStep
<1>2. CASE Advance
  BY <1>2, AdvanceStep
<1>3. CASE FireOne
  BY <1>3, FireStep
<1>4. CASE ClearSlot
  BY <1>4, ClearStep
<1>5. ASSUME NEW id \in Ids, RemoveTimer(id) PROVE IInv'
  BY <1>5, RemoveStep
<1>6. ASSUME NEW id \in Ids, NEW d \in Afters, AddTimer(id, d) PROVE IInv'
  BY <1>6, AddStep
<1>7. QED
  BY <1>1, <1>2, <1>3, <1>4, <1>5, <1>6 DEF Next, Turn, Undefined

LEMMA Invariant == Spec => []IInv
BY InitInv, NextStep, PTL DEF Spec

-----------------------------------------------------------------------------
(* The results.                                                             *)

\* Every variable has its type, whatever is added, removed and triggered.
THEOREM TypeCorrect == Spec => []TypeOK
<1>1. IInv => TypeOK
  BY DEF IInv
<1>2. QED
  BY <1>1, Invariant, PTL

\* A pending timer is in the one slot that remove_timer and trigger_timer look
\* for it in, for every size of the wheel.
THEOREM Placed == Spec => []Placement
<1>1. IInv => Placement
  <2>1. SUFFICES ASSUME IInv, NEW id \in Ids, NEW i \in Slots
                 PROVE  LET p == {j \in DOMAIN wheel[i] : wheel[i][j] = id}
                        IN  IF status[id] = "armed" /\ i = Home(id)
                            THEN \E j \in p : p = {j}
                            ELSE \A j \in p : i = slotPtr /\ j < next /\ Firing
    BY PosIs DEF Placement, Home, Firing
  <2>2. CASE status[id] = "armed" /\ i = Home(id)
    <3>1. PICK j \in DOMAIN wheel[i] : wheel[i][j] = id
      BY <2>1, <2>2 DEF IInv, Listed
    <3>2. {l \in DOMAIN wheel[i] : wheel[i][l] = id} = {j}
      BY <2>1, <3>1 DEF IInv, OnceEach
    <3>3. QED
      BY <2>2, <3>2
  <2>3. CASE ~(status[id] = "armed" /\ i = Home(id))
    BY <2>1, <2>3 DEF IInv, Entries, Passed
  <2>4. QED
    BY <2>2, <2>3
<1>2. QED
  BY <1>1, Invariant, PTL

\* No timer fires a revolution early or late, for every size of the wheel and
\* however late the trigger is; the timers excepted are those of far.
THEOREM InItsSlot == Spec => []FiresInItsSlot
<1>1. IInv => FiresInItsSlot
  BY DEF IInv, FiresInItsSlot, Round, Due, Ahead, Firing
<1>2. QED
  BY <1>1, Invariant, PTL

\* Apart from the timers of far, remove_timer erases no node that has been freed
\* and none that the loop over a list stands on, whenever it is called.
THEOREM ErasesLiveNodes == Spec => []ErasesLive
<1>1. IInv => ErasesLive
  BY DEF IInv
<1>2. QED
  BY <1>1, Invariant, PTL

-----------------------------------------------------------------------------
(* The wheel behaves as the queue of deadlines.                             *)

\* The variables of the queue that are not the wheel's own, for each timer.
LEMMA FatesAre ==
  ASSUME TypeOK
  PROVE  /\ DOMAIN Fates = Ids /\ DOMAIN Deadlines = Ids
         /\ \A id \in far : Fates[id] = "loose" /\ Deadlines[id] = 0
         /\ \A id \in Ids \ far : /\ Fates[id] = Fate[status[id]]
                                  /\ Deadlines[id] = at[id]
         /\ Queue!Pending = Waiting
<1>1. \A s \in Statuses : Fate[s] = "pending" <=> s = "armed"
  BY DEF Fate, Statuses
<1>2. far \subseteq Ids /\ \A id \in Ids : status[id] \in Statuses
  BY DEF TypeOK
<1>3. \A id \in Ids : Fates[id] = "pending" <=> id \in Waiting
  BY <1>1, <1>2 DEF Fates, Waiting
<1>4. Queue!Pending = Waiting
  BY <1>3 DEF Queue!Pending, Waiting
<1>5. QED
  BY <1>2, <1>4 DEF Fates, Deadlines

\* What the change of one timer's status is in the queue.
LEMMA FateChanges ==
  ASSUME TypeOK, NEW id \in Ids, NEW s \in Statuses, id \notin far, far' = far,
         status' = [status EXCEPT ![id] = s]
  PROVE  /\ Fates' = [Fates EXCEPT ![id] = Fate[s]]
         /\ s # "armed" => Waiting' = Waiting \ {id}
<1>1. \A x \in Ids : status'[x] = IF x = id THEN s ELSE status[x]
  BY DEF TypeOK
<1>2. Fates' = [Fates EXCEPT ![id] = Fate[s]]
  <2>1. \A x \in Ids : Fates'[x] = IF x = id THEN Fate[s] ELSE Fates[x]
    BY <1>1 DEF Fates
  <2>2. Fates' = [x \in Ids |-> Fates'[x]] /\ Fates = [x \in Ids |-> Fates[x]]
    BY DEF Fates
  <2> HIDE DEF Fates
  <2>3. QED
    BY <2>1, <2>2
<1>3. s # "armed" => Waiting' = Waiting \ {id}
  BY <1>1 DEF Waiting
<1>4. QED
  BY <1>2, <1>3

\* Of the entries of one list, those that wait have the round still to come.
LEMMA WaitingEntries ==
  ASSUME IInv, NEW i \in Slots, NEW j \in DOMAIN wheel[i], status[wheel[i][j]] = "armed"
  PROVE  ~Passed(i, j) /\ Home(wheel[i][j]) = i
BY DEF IInv, Entries

LEMMA SameTimers ==
  ASSUME UNCHANGED <<wheel, at, status, asked, far>>
  PROVE  UNCHANGED <<Deadlines, Fates, asked \ far, Order>>
<1>1. Deadlines' = Deadlines /\ Fates' = Fates
  BY DEF Deadlines, Fates
<1>2. Waiting' = Waiting /\ \A x, y : Precedes(x, y)' <=> Precedes(x, y)
  BY DEF Waiting, Precedes
<1>3. Order' = Order
  BY <1>2 DEF Order
<1>4. QED
  BY <1>1, <1>3

\* Steps of the callback and of the clock that leave the timers alone.
LEMMA QuietQueue ==
  ASSUME IInv, Tick \/ BeginTrigger \/ CallbackReturns \/ EndTrigger \/ UNCHANGED vars
  PROVE  [Queue!QNext]_(Queue!qvars)
<1>1. UNCHANGED <<before, wheel, at, status, asked, far>>
  BY DEF Tick, BeginTrigger, CallbackReturns, EndTrigger, wheelVars, runVars, vars
<1>2. UNCHANGED <<before, Deadlines, Fates, asked \ far, Order>>
  BY <1>1, SameTimers
<1>3. clock' = clock \/ clock' = clock + 1
  BY DEF Tick, BeginTrigger, CallbackReturns, EndTrigger, runVars, vars
<1>4. QED
  BY <1>2, <1>3 DEF Queue!QNext, Queue!Later, Queue!qvars

\* The wheel turns to the next slot when the present one has been run.
LEMMA AdvanceQueue ==
  ASSUME IInv, Advance
  PROVE  Queue!Reach
<1> USE WheelAssumption DEF Advance
<1>1. /\ UNCHANGED <<clock, wheel, at, status, asked, far>>
      /\ ~Firing /\ Firing' /\ before' = before + EveryMs /\ before \in Nat
  BY DEF Firing, IInv, TypeOK
<1>2. UNCHANGED <<clock, Deadlines, Fates, asked \ far, Order>>
  BY <1>1, SameTimers
<1>3. before < before' /\ before' <= clock
  BY <1>1, AdvanceStep DEF IInv, Clocks
<1>4. ASSUME NEW id \in Waiting PROVE before < Deadlines[id] /\ before' <= Deadlines[id]
  <2>1. id \in Ids \ far /\ status[id] = "armed" /\ Deadlines[id] = at[id]
    BY FatesAre DEF Waiting, IInv
  <2>2. at[id] \in Int /\ at[id] > before
    BY <1>1, <2>1 DEF IInv, TypeOK, Ahead
  <2>3. at'[id] >= before'
    BY <1>1, <2>1, AdvanceStep DEF IInv, Ahead
  <2>4. QED
    BY <1>1, <2>1, <2>2, <2>3
<1>5. QED
  BY <1>2, <1>3, <1>4, FatesAre DEF Queue!Reach, IInv

\* The next timer of the list is the first that was set of those due now.
LEMMA FireQueue ==
  ASSUME IInv, FireOne
  PROVE  [Queue!QNext]_(Queue!qvars)
<1> DEFINE c == wheel[slotPtr][next]
<1>1. /\ Firing /\ next <= Len(wheel[slotPtr]) /\ current' = c /\ pc' = "incb"
      /\ status' = [status EXCEPT ![c] = "fired"]
      /\ UNCHANGED <<clock, before, wheel, at, asked, far>>
  BY DEF FireOne, Firing, wheelVars
<1>2. slotPtr \in Slots /\ next \in DOMAIN wheel[slotPtr] /\ next \in Nat /\ TypeOK
  BY <1>1 DEF IInv, TypeOK
<1>3. c \in Ids /\ status[c] = "armed" /\ Home(c) = slotPtr
  BY <1>1, <1>2 DEF IInv, TypeOK, Entries, Passed
<1>4. c \notin far => at[c] = before
  BY <1>1, FireStep DEF IInv, Round
<1>5. UNCHANGED <<clock, before, Deadlines, asked \ far>>
      /\ \A x, y : Precedes(x, y)' <=> Precedes(x, y)
  BY <1>1, Zenon DEF Deadlines, Precedes
<1>6. CASE c \in far
  <2>1. Fates' = Fates /\ Waiting' = Waiting
    BY <1>1, <1>3, <1>6 DEF Fates, Waiting, IInv, TypeOK
  <2>2. Order' = Order
    BY <1>1, <1>5, <2>1 DEF Order
  <2>3. QED
    BY <1>5, <2>1, <2>2 DEF Queue!qvars
<1>7. CASE c \notin far
  <2>1. Fates' = [Fates EXCEPT ![c] = "expired"] /\ Waiting' = Waiting \ {c}
    <3>1. "fired" \in Statuses /\ Fate["fired"] = "expired" /\ "fired" # "armed"
      BY DEF Statuses, Fate
    <3>2. QED
      BY <1>1, <1>2, <1>3, <1>7, <3>1, FateChanges
  <2>2. Fates[c] = "pending" /\ Deadlines[c] = before
    BY <1>2, <1>3, <1>4, <1>7, FatesAre DEF Fate
  <2>3. ASSUME NEW pair \in Order, pair[2] = c PROVE FALSE
    <3>1. pair[1] \in Waiting /\ Precedes(pair[1], c)
      BY <2>3 DEF Order
    <3>2. PICK i \in Slots : \E j, k \in DOMAIN wheel[i] :
            j < k /\ wheel[i][j] = pair[1] /\ wheel[i][k] = c
      BY <3>1 DEF Precedes
    <3>3. PICK j \in DOMAIN wheel[i], k \in DOMAIN wheel[i] :
            j < k /\ wheel[i][j] = pair[1] /\ wheel[i][k] = c
      BY <3>2
    <3>4. i = slotPtr
      BY <1>3, <3>3, WaitingEntries
    <3>5. k = next
      BY <1>2, <3>3, <3>4 DEF IInv, OnceEach
    <3>6. Passed(i, j)
      BY <1>1, <3>3, <3>4, <3>5 DEF Passed
    <3>7. QED
      BY <3>1, <3>3, <3>6, WaitingEntries DEF Waiting
  <2>4. Order' = Queue!Without(c)
    BY <1>1, <1>5, <2>1 DEF Order, Queue!Without
  <2>5. Queue!Expire(c)
    BY <1>1, <1>5, <2>1, <2>2, <2>3, <2>4 DEF Queue!Expire
  <2>6. QED
    BY <1>3, <2>5 DEF Queue!QNext
<1>8. QED
  BY <1>6, <1>7

\* The list that is cleared has no timer that waits.
LEMMA ClearQueue ==
  ASSUME IInv, ClearSlot
  PROVE  UNCHANGED Queue!qvars
<1>1. /\ UNCHANGED <<clock, before, at, status, asked, far>>
      /\ Firing /\ next > Len(wheel[slotPtr])
      /\ wheel' = [wheel EXCEPT ![slotPtr] = <<>>]
  BY DEF ClearSlot, Firing
<1>2. slotPtr \in Slots /\ wheel \in [Slots -> Seq(Ids)] /\ next \in Nat
  BY DEF IInv, TypeOK
<1>3. wheel'[slotPtr] = <<>> /\ \A i \in Slots \ {slotPtr} : wheel'[i] = wheel[i]
  BY <1>1, <1>2
<1>4. \A j \in DOMAIN wheel[slotPtr] : status[wheel[slotPtr][j]] # "armed"
  <2>1. \A j \in DOMAIN wheel[slotPtr] : Passed(slotPtr, j)
    BY <1>1, <1>2 DEF Passed
  <2>2. QED
    BY <1>2, <2>1, WaitingEntries
<1>5. ASSUME NEW x \in Waiting, NEW y \in Waiting
      PROVE  Precedes(x, y)' <=> Precedes(x, y)
  <2>1. Precedes(x, y)' => Precedes(x, y)
    BY <1>3 DEF Precedes
  <2>2. ASSUME Precedes(x, y) PROVE Precedes(x, y)'
    <3>1. PICK i \in Slots : \E j, k \in DOMAIN wheel[i] :
            j < k /\ wheel[i][j] = x /\ wheel[i][k] = y
      BY <2>2 DEF Precedes
    <3>2. i # slotPtr
      BY <1>4, <3>1 DEF Waiting
    <3>3. QED
      BY <1>3, <3>1, <3>2 DEF Precedes
  <2>3. QED
    BY <2>1, <2>2
<1>6. Waiting' = Waiting /\ Fates' = Fates /\ Deadlines' = Deadlines
  BY <1>1, Zenon DEF Waiting, Fates, Deadlines
<1>7. Order' = Order
  BY <1>1, <1>5, <1>6 DEF Order
<1>8. QED
  BY <1>1, <1>6, <1>7 DEF Queue!qvars

\* The order of the others is what it was.
LEMMA ErasedOrder ==
  ASSUME IInv, NEW id \in Ids, Linked(id), NEW h, h = Home(id),
         wheel' = [wheel EXCEPT ![h] = Erase(wheel[h], id)],
         NEW x \in Ids \ {id}, NEW y \in Ids \ {id}
  PROVE  Precedes(x, y)' <=> Precedes(x, y)
<1> DEFINE n == Len(wheel[h])
           w == wheel[h]
           v == wheel'[h]
<1>1. /\ h \in Slots /\ n \in Nat /\ DOMAIN w = 1..n
      /\ \A i \in Slots \ {h} : wheel'[i] = wheel[i]
      /\ \E k \in 1..n : IsErasure(v, w, k, id)
  BY ErasedIs
<1>2. PICK k \in 1..n :
        /\ w[k] = id /\ DOMAIN v = 1..n - 1
        /\ \A j \in 1..n - 1 : v[j] = IF j < k THEN w[j] ELSE w[j + 1]
  BY <1>1 DEF IsErasure
<1> HIDE DEF n, w, v
<1>3. ASSUME Precedes(x, y)' PROVE Precedes(x, y)
  <2>1. PICK i \in Slots : \E j, l \in DOMAIN wheel'[i] :
          j < l /\ wheel'[i][j] = x /\ wheel'[i][l] = y
    BY <1>3 DEF Precedes
  <2>2. CASE i # h
    BY <1>1, <2>1, <2>2 DEF Precedes
  <2>3. CASE i = h
    <3>1. PICK j \in 1..n - 1, l \in 1..n - 1 : j < l /\ v[j] = x /\ v[l] = y
      BY <1>1, <1>2, <2>1, <2>3 DEF v
    <3> DEFINE up(m) == IF m < k THEN m ELSE m + 1
    <3>2. up(j) \in 1..n /\ up(l) \in 1..n /\ up(j) < up(l)
      BY <1>1, <1>2, <3>1
    <3>3. w[up(j)] = x /\ w[up(l)] = y
      BY <1>2, <3>1
    <3> HIDE DEF up
    <3>4. QED
      BY <1>1, <3>2, <3>3 DEF Precedes, w
  <2>4. QED
    BY <2>2, <2>3
<1>4. ASSUME Precedes(x, y) PROVE Precedes(x, y)'
  <2>1. PICK i \in Slots : \E j, l \in DOMAIN wheel[i] :
          j < l /\ wheel[i][j] = x /\ wheel[i][l] = y
    BY <1>4 DEF Precedes
  <2>2. CASE i # h
    BY <1>1, <2>1, <2>2 DEF Precedes
  <2>3. CASE i = h
    <3>1. PICK j \in 1..n, l \in 1..n : j < l /\ w[j] = x /\ w[l] = y
      BY <1>1, <2>1, <2>3 DEF w
    <3> DEFINE down(m) == IF m < k THEN m ELSE m - 1
    <3>2. j # k /\ l # k
      BY <1>2, <3>1
    <3>3. down(j) \in 1..n - 1 /\ down(l) \in 1..n - 1 /\ down(j) < down(l)
      BY <1>1, <1>2, <3>1, <3>2
    <3>4. \A m \in 1..n : m # k => v[down(m)] = w[m]
      <4>1. SUFFICES ASSUME NEW m \in 1..n, m # k PROVE v[down(m)] = w[m]
        OBVIOUS
      <4>2. CASE m < k
        <5>1. m \in 1..n - 1 /\ down(m) = m
          BY <1>1, <1>2, <4>2
        <5>2. QED
          BY <1>2, <4>2, <5>1
      <4>3. CASE ~(m < k)
        <5>1. m - 1 \in 1..n - 1 /\ down(m) = m - 1 /\ ~(m - 1 < k) /\ (m - 1) + 1 = m
          BY <1>1, <1>2, <4>1, <4>3
        <5>2. QED
          BY <1>2, <5>1
      <4>4. QED
        BY <4>2, <4>3
    <3> HIDE DEF down
    <3>5. v[down(j)] = x /\ v[down(l)] = y
      BY <3>1, <3>2, <3>4
    <3>6. QED
      BY <1>1, <1>2, <3>3, <3>5 DEF Precedes, v
  <2>4. QED
    BY <2>2, <2>3
<1>5. QED
  BY <1>3, <1>4

\* A removal is one of the queue's, a timer of far being none of the queue's.
LEMMA RemoveQueue ==
  ASSUME IInv, NEW id \in Ids, RemoveTimer(id)
  PROVE  [Queue!QNext]_(Queue!qvars)
<1> DEFINE h == Home(id)
<1>1. /\ status[id] \in {"armed", "fired"} /\ asked' = asked \cup {id}
      /\ UNCHANGED <<clock, before, at, far>>
  BY DEF RemoveTimer
<1>2. Deadlines' = Deadlines /\ TypeOK
  BY <1>1 DEF Deadlines, IInv
<1>3. \/ (at[id] <= before \/ id \in far) /\ UNCHANGED <<wheel, status>>
      \/ /\ at[id] > before /\ Linked(id)
         /\ wheel' = [wheel EXCEPT ![h] = Erase(wheel[h], id)]
         /\ status' = [status EXCEPT ![id] = "removed"]
  <2>1. SlotOf(at[id]) = h
    BY PosIs DEF Home
  <2>2. at[id] > before /\ UnlinkFreed(id) => id \in far
    BY <1>1, FreedIsFar DEF UnlinkFreed
  <2>3. QED
    BY <2>1, <2>2 DEF RemoveTimer, Unlink, UnlinkFreed
<1> HIDE DEF h
<1>4. \A x, y \in Ids \ {id} : Precedes(x, y)' <=> Precedes(x, y)
  <2>1. CASE wheel' = wheel
    BY <2>1 DEF Precedes
  <2>2. CASE Linked(id) /\ wheel' = [wheel EXCEPT ![h] = Erase(wheel[h], id)]
    BY <2>2, ErasedOrder DEF h
  <2>3. QED
    BY <1>3, <2>1, <2>2
<1>5. CASE id \in far
  <2>1. Fates' = Fates /\ Waiting' = Waiting /\ asked' \ far' = asked \ far
        /\ id \notin Waiting
    BY <1>1, <1>2, <1>3, <1>5 DEF Fates, Waiting, TypeOK
  <2>2. \A x \in Waiting : x \in Ids \ {id}
    BY <2>1 DEF Waiting
  <2>3. Order' = Order
    BY <1>1, <1>4, <2>1, <2>2 DEF Order
  <2>4. QED
    BY <1>1, <1>2, <2>1, <2>3 DEF Queue!qvars
<1>6. CASE id \notin far
  <2>1. /\ Fates[id] \in {"pending", "expired"} /\ Deadlines[id] = at[id]
        /\ status[id] = "armed" => Fates[id] = "pending"
        /\ asked' \ far' = (asked \ far) \cup {id}
    BY <1>1, <1>2, <1>6, FatesAre DEF Fate
  <2>2. CASE at[id] <= before /\ UNCHANGED <<wheel, status>>
    <3>1. Fates' = Fates /\ Waiting' = Waiting
          /\ \A x, y : Precedes(x, y)' <=> Precedes(x, y)
      BY <1>1, <2>2 DEF Fates, Waiting, Precedes
    <3>2. Order' = Order
      BY <1>1, <3>1 DEF Order
    <3>3. Queue!Cancel(id)
      BY <1>1, <1>2, <2>1, <2>2, <3>1, <3>2 DEF Queue!Cancel
    <3>4. QED
      BY <3>3 DEF Queue!QNext
  <2>3. CASE at[id] > before /\ status' = [status EXCEPT ![id] = "removed"]
    <3>1. Fates' = [Fates EXCEPT ![id] = "cancelled"] /\ Waiting' = Waiting \ {id}
      <4>1. "removed" \in Statuses /\ Fate["removed"] = "cancelled" /\ "removed" # "armed"
        BY DEF Statuses, Fate
      <4>2. QED
        BY <1>1, <1>2, <1>6, <2>3, <4>1, FateChanges
    <3>2. Order' = Queue!Without(id)
      <4>1. Waiting \subseteq Ids
        BY DEF Waiting
      <4>2. QED
        BY <1>1, <1>4, <3>1, <4>1 DEF Order, Queue!Without
    <3>3. status[id] = "armed"
      <4>1. at[id] \in Nat /\ before \in Nat
        BY <1>2 DEF TypeOK
      <4>2. QED
        BY <1>1, <1>6, <2>3, <4>1 DEF IInv, Reached
    <3>4. Queue!Cancel(id)
      BY <1>1, <1>2, <2>1, <2>3, <3>1, <3>2, <3>3 DEF Queue!Cancel
    <3>5. QED
      BY <3>4 DEF Queue!QNext
  <2>4. QED
    BY <1>3, <1>6, <2>2, <2>3
<1>7. QED
  BY <1>5, <1>6

\* push_back: the timer comes behind those of its list, whose order stays.
LEMMA PushedOrder ==
  ASSUME IInv, NEW id \in Ids, status[id] = "new", NEW h \in Slots,
         wheel' = [wheel EXCEPT ![h] = Push(wheel[h], id)]
  PROVE  /\ \A x, y \in Ids \ {id} : Precedes(x, y)' <=> Precedes(x, y)
         /\ \A y \in Ids : ~ Precedes(id, y)'
         /\ \A x \in Ids \ {id} : \A j \in DOMAIN wheel[h] :
               wheel[h][j] = x => Precedes(x, id)'
<1> DEFINE n == Len(wheel[h])
           w == wheel[h]
           v == wheel'[h]
<1>1. /\ n \in Nat /\ DOMAIN w = 1..n /\ DOMAIN v = 1..n + 1 /\ v[n + 1] = id
      /\ \A j \in 1..n : v[j] = w[j]
      /\ \A i \in Slots \ {h} : wheel'[i] = wheel[i]
  <2>1. w \in Seq(Ids) /\ v = Append(w, id)
    BY DEF IInv, TypeOK, Push
  <2>2. \A i \in Slots \ {h} : wheel'[i] = wheel[i]
    BY DEF IInv, TypeOK
  <2>3. n = Len(w) /\ n \in Nat /\ DOMAIN w = 1..n
    BY <2>1
  <2> HIDE DEF n, w, v
  <2>4. QED
    BY <2>1, <2>2, <2>3, AppendIs
<1>2. \A i \in Slots : \A j \in DOMAIN wheel[i] : wheel[i][j] # id
  BY DEF IInv, TypeOK, Entries
<1>3. \A j \in 1..n : w[j] # id
  BY <1>1, <1>2
<1> HIDE DEF n, w, v
<1>4. ASSUME NEW x \in Ids \ {id}, NEW y \in Ids \ {id}
      PROVE  Precedes(x, y)' <=> Precedes(x, y)
  <2>1. ASSUME Precedes(x, y)' PROVE Precedes(x, y)
    <3>1. PICK i \in Slots : \E j, l \in DOMAIN wheel'[i] :
            j < l /\ wheel'[i][j] = x /\ wheel'[i][l] = y
      BY <2>1 DEF Precedes
    <3>2. CASE i # h
      BY <1>1, <3>1, <3>2 DEF Precedes
    <3>3. CASE i = h
      <4>1. PICK j \in 1..n + 1, l \in 1..n + 1 : j < l /\ v[j] = x /\ v[l] = y
        BY <1>1, <3>1, <3>3 DEF v
      <4>2. j \in 1..n /\ l \in 1..n
        BY <1>1, <4>1
      <4>3. QED
        BY <1>1, <4>1, <4>2 DEF Precedes, w
    <3>4. QED
      BY <3>2, <3>3
  <2>2. ASSUME Precedes(x, y) PROVE Precedes(x, y)'
    <3>1. PICK i \in Slots : \E j, l \in DOMAIN wheel[i] :
            j < l /\ wheel[i][j] = x /\ wheel[i][l] = y
      BY <2>2 DEF Precedes
    <3>2. CASE i # h
      BY <1>1, <3>1, <3>2 DEF Precedes
    <3>3. CASE i = h
      <4>1. PICK j \in 1..n, l \in 1..n : j < l /\ w[j] = x /\ w[l] = y
        BY <1>1, <3>1, <3>3 DEF w
      <4>2. j \in 1..n + 1 /\ l \in 1..n + 1
        BY <1>1
      <4>3. QED
        BY <1>1, <4>1, <4>2 DEF Precedes, v
    <3>4. QED
      BY <3>2, <3>3
  <2>3. QED
    BY <2>1, <2>2
<1>5. ASSUME NEW y \in Ids, Precedes(id, y)' PROVE FALSE
  <2>1. PICK i \in Slots : \E j, l \in DOMAIN wheel'[i] :
          j < l /\ wheel'[i][j] = id /\ wheel'[i][l] = y
    BY <1>5 DEF Precedes
  <2>2. i = h
    BY <1>1, <1>2, <2>1
  <2>3. PICK j \in 1..n + 1, l \in 1..n + 1 : j < l /\ v[j] = id
    BY <1>1, <2>1, <2>2 DEF v
  <2>4. j \in 1..n
    BY <1>1, <2>3
  <2>5. QED
    BY <1>1, <1>3, <2>3, <2>4
<1>6. ASSUME NEW x \in Ids \ {id}, NEW j \in DOMAIN wheel[h], wheel[h][j] = x
      PROVE  Precedes(x, id)'
  <2>1. j \in 1..n /\ v[j] = x
    BY <1>1, <1>6 DEF w
  <2>2. j \in 1..n + 1 /\ n + 1 \in 1..n + 1 /\ j < n + 1
    BY <1>1, <2>1
  <2>3. QED
    BY <1>1, <2>1, <2>2 DEF Precedes, v
<1>7. QED
  BY <1>4, <1>5, <1>6

\* What the wheel has not been asked for has left no trace in it.
Untouched == \A id \in Ids : status[id] = "new" => at[id] = 0 /\ id \notin asked

\* add_timer is the queue's Set, in each of its cases.
LEMMA AddQueue ==
  ASSUME IInv, Untouched, NEW id \in Ids, NEW after \in Afters, AddTimer(id, after)
  PROVE  Queue!Set(id, after)
<1> DEFINE a == Slot(after + clock)
           h == Pos(before, slotPtr, a)
<1>1. /\ status[id] = "new" /\ id \notin far /\ id \notin Waiting /\ TypeOK
      /\ at[id] = 0 /\ id \notin asked /\ asked' = asked /\ a \in Nat /\ Span \in Int
      /\ UNCHANGED <<clock, before>>
  <2>1. after + clock \in Nat
    BY WheelAssumption DEF IInv, TypeOK
  <2>2. Span \in Int
    BY WheelAssumption DEF Span
  <2>3. QED
    BY <2>1, <2>2, SlotIs DEF AddTimer, IInv, Round, Waiting, Untouched
<1>2. /\ Queue!Rounded(after + clock) = a /\ Queue!Rounded(after) = Slot(after)
      /\ Fates[id] = "new" /\ Waiting \subseteq Ids \ {id}
  <2>1. Fates[id] = "new"
    BY <1>1, FatesAre DEF Fate
  <2>2. QED
    BY <1>1, <2>1 DEF Queue!Rounded, Slot, Waiting
<1>3. SlotOf(a) = h /\ h \in Slots
  BY <1>1, PosIs
<1>4. SUFFICES
        \/ Queue!SetDue(id, a)
        \/ Slot(after) < Span /\ (Queue!SetPending(id, a) \/ Queue!SetLoose(id, a))
        \/ Slot(after) >= Span /\ Queue!Refuse(id, a)
  <2>1. asked' \ far' = asked \ far
    BY <1>1 DEF AddTimer
  <2> HIDE DEF a
  <2>2. QED
    BY <1>1, <1>2, <2>1 DEF Queue!Set
<1>5. ASSUME at' = [at EXCEPT ![id] = a], far' = far
      PROVE  Deadlines' = [Deadlines EXCEPT ![id] = a]
  <2>1. \A x \in Ids : Deadlines'[x] = IF x = id THEN a ELSE Deadlines[x]
    BY <1>1, <1>5 DEF Deadlines, TypeOK
  <2>2. /\ Deadlines' = [x \in Ids |-> Deadlines'[x]]
        /\ Deadlines = [x \in Ids |-> Deadlines[x]]
    BY DEF Deadlines
  <2> HIDE DEF a
  <2>3. QED
    BY <2>1, <2>2
<1>6. \A x \in Waiting : at'[x] = at[x]
  BY <1>1, <1>2 DEF AddTimer, TypeOK
<1> HIDE DEF a, h
<1>7. ASSUME wheel' = wheel, Waiting' = Waiting PROVE Order' = Order
  <2>1. \A x, y : Precedes(x, y)' <=> Precedes(x, y)
    BY <1>7 DEF Precedes
  <2>2. QED
    BY <1>6, <1>7, <2>1 DEF Order
<1>8. CASE /\ a <= before /\ status' = [status EXCEPT ![id] = "immediate"]
           /\ at' = [at EXCEPT ![id] = a] /\ UNCHANGED <<wheel, far>>
  <2>1. "immediate" \in Statuses /\ Fate["immediate"] = "expired" /\ "immediate" # "armed"
    BY DEF Statuses, Fate
  <2>2. Fates' = [Fates EXCEPT ![id] = "expired"] /\ Waiting' = Waiting
    <3>1. Fates' = [Fates EXCEPT ![id] = Fate["immediate"]] /\ Waiting' = Waiting \ {id}
      BY <1>1, <1>8, <2>1, FateChanges
    <3>2. QED
      BY <1>1, <2>1, <3>1
  <2>3. QED
    BY <1>5, <1>7, <1>8, <2>2 DEF Queue!SetDue
<1>9. CASE /\ a > before /\ Slot(after) >= Span
           /\ status' = [status EXCEPT ![id] = "dropped"] /\ UNCHANGED <<wheel, at, far>>
  <2>1. "dropped" \in Statuses /\ Fate["dropped"] = "refused" /\ "dropped" # "armed"
    BY DEF Statuses, Fate
  <2>2. Fates' = [Fates EXCEPT ![id] = "refused"] /\ Waiting' = Waiting
    <3>1. Fates' = [Fates EXCEPT ![id] = Fate["dropped"]] /\ Waiting' = Waiting \ {id}
      BY <1>1, <1>9, <2>1, FateChanges
    <3>2. QED
      BY <1>1, <2>1, <3>1
  <2>3. Deadlines' = Deadlines
    BY <1>9 DEF Deadlines
  <2>4. before < a
    BY <1>1, <1>9 DEF TypeOK
  <2>5. QED
    BY <1>7, <1>9, <2>2, <2>3, <2>4 DEF Queue!Refuse
<1>10. ASSUME a > before, Slot(after) < Span,
              status' = [status EXCEPT ![id] = "armed"], at' = [at EXCEPT ![id] = a],
              wheel' = [wheel EXCEPT ![h] = Push(wheel[h], id)],
              far' = IF a - before >= Span THEN far \cup {id} ELSE far
       PROVE  Queue!SetPending(id, a) \/ Queue!SetLoose(id, a)
  <2>1. /\ \A x, y \in Waiting : Precedes(x, y)' <=> Precedes(x, y)
        /\ \A y \in Ids : ~ Precedes(id, y)'
        /\ \A x \in Waiting : \A j \in DOMAIN wheel[h] :
              wheel[h][j] = x => Precedes(x, id)'
    <3>1. /\ \A x, y \in Ids \ {id} : Precedes(x, y)' <=> Precedes(x, y)
          /\ \A y \in Ids : ~ Precedes(id, y)'
          /\ \A x \in Ids \ {id} : \A j \in DOMAIN wheel[h] :
                wheel[h][j] = x => Precedes(x, id)'
      BY <1>1, <1>3, <1>10, PushedOrder
    <3>2. QED
      BY <1>2, <3>1
  <2>2. \A x \in Ids : status'[x] = IF x = id THEN "armed" ELSE status[x]
    BY <1>1, <1>10 DEF TypeOK
  <2>3. CASE a - before >= Span
    <3>1. far' = far \cup {id}
      BY <1>10, <2>3
    <3>2. Waiting' = Waiting
      BY <1>1, <2>2, <3>1 DEF Waiting
    <3>3. Order' = Order
      BY <1>6, <2>1, <3>2 DEF Order
    <3>4. Deadlines' = Deadlines
      BY <1>1, <1>10, <3>1 DEF Deadlines, TypeOK
    <3>5. Fates' = [Fates EXCEPT ![id] = "loose"]
      <4>1. \A x \in Ids : Fates'[x] = IF x = id THEN "loose" ELSE Fates[x]
        BY <2>2, <3>1 DEF Fates
      <4>2. Fates' = [x \in Ids |-> Fates'[x]] /\ Fates = [x \in Ids |-> Fates[x]]
        BY DEF Fates
      <4>3. QED
        BY <4>1, <4>2
    <3>6. QED
      BY <2>3, <3>3, <3>4, <3>5 DEF Queue!SetLoose
  <2>4. CASE ~(a - before >= Span)
    <3>1. far' = far
      BY <1>10, <2>4
    <3>2. Fates' = [Fates EXCEPT ![id] = "pending"]
      <4>1. "armed" \in Statuses /\ Fate["armed"] = "pending"
        BY DEF Statuses, Fate
      <4>2. QED
        BY <1>1, <1>10, <3>1, <4>1, FateChanges
    <3>3. Waiting' = Waiting \cup {id}
      BY <1>1, <2>2, <3>1 DEF Waiting
    <3>4. \A x \in Waiting : Deadlines[x] = at[x]
      BY <1>1, FatesAre DEF Waiting
    <3>5. ASSUME NEW x \in Waiting, at[x] = a PROVE Precedes(x, id)'
      <4>1. Home(x) = h /\ x \in Ids /\ status[x] = "armed"
        BY <3>5 DEF Home, h, Waiting
      <4>2. QED
        BY <2>1, <4>1 DEF IInv, Listed
    <3>6. at'[id] = a
      BY <1>1, <1>10 DEF TypeOK
    <3>7. Order' = Order \cup {<<x, id>> : x \in {y \in Waiting : Deadlines[y] = a}}
      <4>1. ASSUME NEW x \in Waiting', NEW y \in Waiting'
            PROVE  <<x, y>> \in Order' <=>
                      \/ <<x, y>> \in Order
                      \/ y = id /\ x \in Waiting /\ at[x] = a
        <5>1. CASE x = id
          BY <1>1, <1>2, <2>1, <3>3, <5>1 DEF Order
        <5>2. CASE x # id /\ y = id
          BY <1>1, <1>6, <2>1, <3>3, <3>5, <3>6, <5>2 DEF Order
        <5>3. CASE x # id /\ y # id
          BY <1>6, <2>1, <3>3, <5>3 DEF Order
        <5>4. QED
          BY <5>1, <5>2, <5>3
      <4>2. /\ Order' \subseteq Waiting' \X Waiting' /\ Order \subseteq Waiting \X Waiting
        BY DEF Order
      <4>3. QED
        BY <3>3, <3>4, <4>1, <4>2
    <3>8. before < a /\ a - before < Span
      BY <1>1, <1>10, <2>4 DEF TypeOK
    <3>9. QED
      BY <1>1, <1>5, <1>10, <3>1, <3>2, <3>7, <3>8, FatesAre DEF Queue!SetPending
  <2>5. QED
    BY <2>3, <2>4
<1>11. QED
  <2>1. \/ /\ a <= before /\ status' = [status EXCEPT ![id] = "immediate"]
           /\ at' = [at EXCEPT ![id] = a] /\ UNCHANGED <<wheel, far>>
        \/ /\ a > before /\ Slot(after) >= Span
           /\ status' = [status EXCEPT ![id] = "dropped"] /\ UNCHANGED <<wheel, at, far>>
        \/ /\ a > before /\ Slot(after) < Span
           /\ status' = [status EXCEPT ![id] = "armed"] /\ at' = [at EXCEPT ![id] = a]
           /\ wheel' = [wheel EXCEPT ![h] = Push(wheel[h], id)]
           /\ far' = IF a - before >= Span THEN far \cup {id} ELSE far
    BY <1>3 DEF AddTimer, a
  <2>2. QED
    BY <1>8, <1>9, <1>10, <2>1 DEF Queue!SetDue, Queue!Refuse

\* The wheel is a queue of deadlines for every slot length, every number of
\* slots and every set of timers, however late the trigger comes: timers expire
\* in the order of their slots and, within one, of add_timer.
THEOREM Refinement == Spec => ImplementsQueue
<1>1. Init => Queue!QInit
  <2> SUFFICES ASSUME Init PROVE Queue!QInit
    OBVIOUS
  <2>1. TypeOK /\ before <= clock
    BY InitInv DEF IInv, Clocks
  <2>2. Fate["new"] = "new" /\ far = {} /\ Waiting = {}
    BY DEF Init, Fate, Waiting
  <2>3. Fates = [id \in Ids |-> "new"] /\ Deadlines = [id \in Ids |-> 0] /\ Order = {}
    BY <2>2 DEF Init, Fates, Deadlines, Order
  <2>4. QED
    BY <2>1, <2>3 DEF Init, TypeOK, Queue!QInit
<1>2. IInv /\ Untouched /\ [Next]_vars => [Queue!QNext]_(Queue!qvars)
  <2> SUFFICES ASSUME IInv, Untouched, [Next]_vars
               PROVE  [Queue!QNext]_(Queue!qvars)
    OBVIOUS
  <2>1. CASE Tick \/ BeginTrigger \/ CallbackReturns \/ EndTrigger \/ UNCHANGED vars
    BY <2>1, QuietQueue
  <2>2. CASE Advance
    BY <2>2, AdvanceQueue DEF Queue!QNext
  <2>3. CASE FireOne
    BY <2>3, FireQueue
  <2>4. CASE ClearSlot
    BY <2>4, ClearQueue
  <2>5. ASSUME NEW id \in Ids, RemoveTimer(id) PROVE [Queue!QNext]_(Queue!qvars)
    BY <2>5, RemoveQueue
  <2>6. ASSUME NEW id \in Ids, NEW d \in Afters, AddTimer(id, d)
        PROVE  [Queue!QNext]_(Queue!qvars)
    BY <2>6, AddQueue DEF Queue!QNext
  <2>7. QED
    BY <2>1, <2>2, <2>3, <2>4, <2>5, <2>6 DEF Next, Turn, Undefined
<1>3. Spec => []Untouched
  <2>1. Init => Untouched
    BY DEF Init, Untouched
  <2>2. IInv /\ Untouched /\ [Next]_vars => Untouched'
    <3> SUFFICES ASSUME IInv, Untouched, [Next]_vars PROVE Untouched'
      OBVIOUS
    <3> USE DEF Untouched, IInv, TypeOK
    <3>1. CASE UNCHANGED <<at, status, asked>>
      BY <3>1
    <3>2. CASE FireOne
      BY <3>2 DEF FireOne
    <3>3. ASSUME NEW id \in Ids, RemoveTimer(id) PROVE Untouched'
      BY <3>3 DEF RemoveTimer, Unlink, UnlinkFreed
    <3>4. ASSUME NEW id \in Ids, NEW d \in Afters, AddTimer(id, d) PROVE Untouched'
      BY <3>4 DEF AddTimer
    <3>5. QED
      BY <3>1, <3>2, <3>3, <3>4
         DEF Next, Turn, Undefined, Tick, BeginTrigger, Advance, CallbackReturns,
             ClearSlot, EndTrigger, wheelVars, runVars, vars
  <2>3. QED
    BY <2>1, <2>2, Invariant, PTL DEF Spec
<1>4. QED
  BY <1>1, <1>2, <1>3, Invariant, PTL DEF Spec, ImplementsQueue, Queue!QSpec
===============================================================================
