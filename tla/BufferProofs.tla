----------------------------- MODULE BufferProofs -----------------------------
(***************************************************************************)
(* Theorems about Buffer for every initial capacity and every sequence of  *)
(* calls: the pointers stay within the memory, a read always has room, and *)
(* a buffer that only push_from fills keeps every byte.                    *)
(***************************************************************************)
EXTENDS Buffer, TLAPS

\* Without push the size is the capacity, so growth copies all there is: the
\* reason why the input buffer is not hit by what happens to the output buffer.
SizeIsCap == "push" \notin uses => size = cap

IInv == TypeOK /\ InMemory /\ ReadHasRoom /\ InputIntact /\ SizeIsCap

LEMMA InitInv == Init => IInv
<1> SUFFICES ASSUME Init PROVE IInv
  OBVIOUS
<1> USE BufferAssumption DEF Init
<1>1. TypeOK
  BY DEF TypeOK
<1>2. InMemory /\ ReadHasRoom /\ SizeIsCap
  BY DEF InMemory, ReadHasRoom, GetSize, SizeIsCap
<1>3. InputIntact
  BY DEF InputIntact, Intact, GetSize
<1>4. QED
  BY <1>1, <1>2, <1>3 DEF IInv

\* What vector::resize makes of a vector of n bytes, n above the capacity: at
\* least n bytes of memory, twice the capacity when n is that.
LEMMA Growth ==
  ASSUME TypeOK, InMemory, NEW n \in Nat, n >= cap
  PROVE  /\ GrownCap(n) \in Nat /\ GrownCap(n) >= n
         /\ size = cap /\ n = 2 * cap => GrownCap(n) = n
         /\ GrownMem(n) \in [0..GrownCap(n) - 1 -> Nat]
         /\ \A p \in 0..size - 1 : GrownMem(n)[p] = mem[p]
<1> USE DEF TypeOK, InMemory
<1>1. /\ GrownCap(n) \in Nat /\ GrownCap(n) >= n
      /\ size = cap /\ n = 2 * cap => GrownCap(n) = n
  BY DEF GrownCap, Max2
<1>2. GrownMem(n) \in [0..GrownCap(n) - 1 -> Nat]
  <2>1. \A p \in 0..GrownCap(n) - 1 : (IF p < size THEN mem[p] ELSE 0) \in Nat
    <3>1. SUFFICES ASSUME NEW p \in 0..GrownCap(n) - 1, p < size
                   PROVE  mem[p] \in Nat
      OBVIOUS
    <3>2. p \in 0..cap - 1
      BY <1>1, <3>1
    <3>3. QED
      BY <3>2
  <2>2. QED
    BY <2>1 DEF GrownMem
<1>3. \A p \in 0..size - 1 : GrownMem(n)[p] = mem[p]
  BY <1>1 DEF GrownMem
<1>4. QED
  BY <1>1, <1>2, <1>3

\* Moving and writing keep the memory what it is.
LEMMA Memory ==
  ASSUME TypeOK, InMemory, NEW c \in Nat, NEW m \in [0..c - 1 -> Nat], cap <= c,
         NEW r \in Nat, NEW n \in Nat
  PROVE  /\ Written(m, r, n) \in [0..c - 1 -> Nat]
         /\ MovedHead(m) \in [0..c - 1 -> Nat]
<1> USE DEF TypeOK, InMemory
<1>1. Written(m, r, n) \in [0..c - 1 -> Nat]
  <2>1. \A p \in 0..c - 1 : (IF p \in r..r + n - 1 THEN pushed + 1 + p - r ELSE m[p]) \in Nat
    OBVIOUS
  <2>2. QED
    BY <2>1 DEF Written
<1>2. MovedHead(m) \in [0..c - 1 -> Nat]
  <2>1. \A p \in 0..c - 1 : (IF p < GetSize THEN m[p + left] ELSE m[p]) \in Nat
    <3>1. SUFFICES ASSUME NEW p \in 0..c - 1, p < GetSize
                   PROVE  m[p + left] \in Nat
      OBVIOUS
    <3>2. p + left \in 0..c - 1
      BY <3>1 DEF GetSize
    <3>3. QED
      BY <3>2
  <2>2. QED
    BY <2>1 DEF MovedHead
<1>3. QED
  BY <1>1, <1>2

-----------------------------------------------------------------------------
\* push_from: after the growth there is room for half of init_capa, and what
\* is written lies behind what is held.
LEMMA PushFromStep ==
  ASSUME IInv, NEW n \in 0..MaxBytes, PushFrom(n)
  PROVE  IInv'
<1> USE BufferAssumption
<1> DEFINE grow == cap - right < InitCapa \div 2
           m == IF grow THEN GrownMem(2 * cap) ELSE mem
           c == IF grow THEN GrownCap(2 * cap) ELSE cap
<1>1. TypeOK /\ InMemory /\ ReadHasRoom /\ InputIntact /\ SizeIsCap
  BY DEF IInv
<1>2. /\ left \in Nat /\ right \in Nat /\ size \in Nat /\ cap \in Nat /\ pushed \in Nat
      /\ popped \in Nat /\ left <= right /\ right <= cap /\ size <= cap
      /\ InitCapa <= size /\ right - left = pushed - popped
      /\ InitCapa \div 2 \in Nat /\ InitCapa \div 2 > 0 /\ InitCapa \div 2 <= InitCapa
  BY <1>1 DEF TypeOK, InMemory, GetSize
<1>3. /\ c \in Nat /\ cap <= c /\ m \in [0..c - 1 -> Nat]
      /\ grow => c >= 2 * cap
      /\ ~grow => c = cap
      /\ grow /\ size = cap => c = 2 * cap
      /\ size = cap => \A p \in 0..right - 1 : m[p] = mem[p]
  <2>1. CASE grow
    BY <1>1, <1>2, <2>1, Growth
  <2>2. CASE ~grow
    BY <1>1, <1>2, <2>2 DEF TypeOK
  <2>3. QED
    BY <2>1, <2>2
<1>4. /\ size' = IF grow THEN 2 * cap ELSE size
      /\ cap' = c /\ mem' = Written(m, right, n) /\ right' = right + n
      /\ room' = c - right /\ pushed' = pushed + n
      /\ n <= c - right /\ n \in Nat /\ "push_from" \in uses
      /\ UNCHANGED <<uses, left, popped>>
  BY DEF PushFrom
<1>5. c - right >= InitCapa \div 2
  BY <1>2, <1>3
<1> HIDE DEF c, m
<1>6. InMemory'
  BY <1>2, <1>3, <1>4 DEF InMemory, GetSize
<1>7. ReadHasRoom'
  BY <1>2, <1>3, <1>4, <1>5 DEF ReadHasRoom
<1>8. TypeOK'
  <2>1. Written(m, right, n) \in [0..c - 1 -> Nat]
    BY <1>1, <1>2, <1>3, <1>4, Memory
  <2>2. room' \in Nat /\ size' \in Nat
    BY <1>2, <1>3, <1>4
  <2>3. QED
    BY <1>1, <1>2, <1>3, <1>4, <2>1, <2>2 DEF TypeOK
<1>9. SizeIsCap'
  BY <1>1, <1>2, <1>3, <1>4 DEF SizeIsCap
<1>10. InputIntact'
  <2>1. SUFFICES ASSUME "push" \notin uses, NEW i \in 0..GetSize' - 1
                 PROVE  mem'[left' + i] = popped' + 1 + i
    BY <1>4 DEF InputIntact, Intact
  <2>2. i \in Nat /\ left + i <= right + n - 1 /\ left + i \in 0..c - 1
    BY <1>2, <1>3, <1>4, <2>1 DEF GetSize
  <2>3. mem'[left + i] = IF left + i \in right..right + n - 1
                         THEN pushed + 1 + (left + i) - right ELSE m[left + i]
    BY <1>3, <1>4, <2>2 DEF Written
  <2>4. CASE left + i >= right
    BY <1>2, <1>4, <2>2, <2>3, <2>4
  <2>5. CASE left + i < right
    <3>1. m[left + i] = mem[left + i]
      BY <1>1, <1>2, <1>3, <2>1, <2>2, <2>5 DEF SizeIsCap
    <3>2. mem[left + i] = popped + 1 + i
      BY <1>1, <1>2, <2>1, <2>2, <2>5 DEF InputIntact, Intact, GetSize
    <3>3. QED
      BY <1>2, <1>4, <2>2, <2>3, <2>5, <3>1, <3>2
  <2>6. QED
    BY <1>2, <2>2, <2>4, <2>5
<1>11. QED
  BY <1>6, <1>7, <1>8, <1>9, <1>10 DEF IInv

\* push, in its three ways.
LEMMA PushStep ==
  ASSUME IInv, NEW n \in 0..MaxBytes, Push(n)
  PROVE  IInv'
<1> USE BufferAssumption
<1> DEFINE add == n - left + (cap - right)
<1>1. TypeOK /\ InMemory /\ ReadHasRoom
  BY DEF IInv
<1>2. /\ left \in Nat /\ right \in Nat /\ size \in Nat /\ cap \in Nat /\ pushed \in Nat
      /\ popped \in Nat /\ left <= right /\ right <= cap /\ size <= cap
      /\ InitCapa <= size /\ GetSize = pushed - popped /\ GetSize = right - left
      /\ mem \in [0..cap - 1 -> Nat] /\ n \in Nat /\ GetSize \in Nat
  BY <1>1 DEF TypeOK, InMemory, GetSize
<1>3. "push" \in uses /\ pushed' = pushed + n /\ UNCHANGED <<uses, room, popped>>
  BY DEF Push
<1>4. InMemory' /\ TypeOK'
  <2>1. CASE n <= cap - right
    <3>1. mem' = Written(mem, right, n) /\ right' = right + n /\ UNCHANGED <<left, size, cap>>
      BY <1>2, <2>1 DEF Push
    <3>2. mem' \in [0..cap - 1 -> Nat]
      <4>1. cap <= cap
        BY <1>2
      <4>2. Written(mem, right, n) \in [0..cap - 1 -> Nat]
        BY <1>1, <1>2, <4>1, Memory
      <4>3. QED
        BY <3>1, <4>2
    <3>3. QED
      BY <1>1, <1>2, <1>3, <2>1, <3>1, <3>2 DEF InMemory, TypeOK, GetSize
  <2>2. CASE n > cap - right /\ n <= left + (cap - right)
    <3>1. /\ mem' = Written(MovedHead(mem), GetSize, n)
          /\ left' = 0 /\ right' = GetSize + n /\ UNCHANGED <<size, cap>>
      BY <1>2, <2>2 DEF Push
    <3>2. mem' \in [0..cap - 1 -> Nat]
      <4>1. cap <= cap
        BY <1>2
      <4>2. MovedHead(mem) \in [0..cap - 1 -> Nat]
        BY <1>1, <1>2, <4>1, Memory
      <4>3. Written(MovedHead(mem), GetSize, n) \in [0..cap - 1 -> Nat]
        BY <1>1, <1>2, <4>1, <4>2, Memory
      <4>4. QED
        BY <3>1, <4>3
    <3>3. QED
      BY <1>1, <1>2, <1>3, <2>2, <3>1, <3>2 DEF InMemory, TypeOK, GetSize
  <2>3. CASE n > left + (cap - right)
    <3>1. /\ mem' = Written(MovedHead(GrownMem(cap + add)), GetSize, n)
          /\ size' = cap + add /\ cap' = GrownCap(cap + add)
          /\ left' = 0 /\ right' = GetSize + n
      BY <1>2, <2>3 DEF Push
    <3>2. cap + add \in Nat /\ cap + add >= cap
      BY <1>2, <2>3
    <3>3. /\ GrownCap(cap + add) \in Nat /\ GrownCap(cap + add) >= cap + add
          /\ GrownMem(cap + add) \in [0..GrownCap(cap + add) - 1 -> Nat]
      BY <1>1, <3>2, Growth
    <3> HIDE DEF add
    <3>4. cap' \in Nat /\ cap <= cap' /\ mem' \in [0..cap' - 1 -> Nat]
      <4>1. GrownCap(cap + add) >= cap
        BY <1>2, <3>2, <3>3
      <4>2. MovedHead(GrownMem(cap + add)) \in [0..GrownCap(cap + add) - 1 -> Nat]
        BY <1>1, <1>2, <3>3, <4>1, Memory
      <4>3. QED
        BY <1>1, <1>2, <3>1, <3>3, <4>1, <4>2, Memory
    <3>5. right' <= size' /\ size' <= cap' /\ InitCapa <= size'
      BY <1>2, <2>3, <3>1, <3>2, <3>3 DEF add
    <3>6. QED
      BY <1>1, <1>2, <1>3, <3>1, <3>2, <3>4, <3>5 DEF InMemory, TypeOK, GetSize
  <2>4. QED
    BY <1>2, <2>1, <2>2, <2>3
<1>5. ReadHasRoom' /\ InputIntact' /\ SizeIsCap'
  BY <1>1, <1>3 DEF ReadHasRoom, InputIntact, SizeIsCap
<1>6. QED
  BY <1>4, <1>5 DEF IInv

\* pop_to and pop only move the left pointer.
LEMMA PopStep ==
  ASSUME IInv, NEW n \in 0..MaxBytes, PopTo(n) \/ Pop(n)
  PROVE  IInv'
<1> USE BufferAssumption
<1>1. TypeOK /\ InMemory /\ ReadHasRoom /\ InputIntact /\ SizeIsCap
  BY DEF IInv
<1>2. PICK k \in Nat : /\ k <= GetSize
                       /\ left' = left + k /\ popped' = popped + k
                       /\ UNCHANGED <<uses, right, size, cap, mem, room, pushed>>
  <2>1. CASE PopTo(n)
    BY <2>1 DEF PopTo
  <2>2. CASE Pop(n)
    <3>1. GetSize \in Nat /\ left' = left + GetSize /\ popped' = popped + GetSize
      BY <1>1, <2>2 DEF Pop, GetSize, TypeOK, InMemory
    <3>2. QED
      BY <2>2, <3>1 DEF Pop
  <2>3. QED
    BY <2>1, <2>2
<1>3. TypeOK' /\ InMemory' /\ ReadHasRoom' /\ SizeIsCap'
  BY <1>1, <1>2 DEF TypeOK, InMemory, ReadHasRoom, SizeIsCap, GetSize
<1>4. InputIntact'
  <2>1. SUFFICES ASSUME "push" \notin uses, NEW i \in 0..GetSize' - 1
                 PROVE  mem'[left' + i] = popped' + 1 + i
    BY <1>2 DEF InputIntact, Intact
  <2>2. i + k \in 0..GetSize - 1 /\ left + (i + k) = (left + k) + i
    BY <1>1, <1>2, <2>1 DEF GetSize, TypeOK
  <2>3. mem[left + (i + k)] = popped + 1 + (i + k)
    BY <1>1, <2>1, <2>2 DEF InputIntact, Intact
  <2>4. QED
    BY <1>1, <1>2, <2>1, <2>2, <2>3 DEF TypeOK, GetSize
<1>5. QED
  BY <1>1, <1>3, <1>4 DEF IInv

-----------------------------------------------------------------------------
(* The theorems.                                                            *)

\* The inductive invariant of a buffer, for every use that is made of it.
THEOREM Inductive == Spec => []IInv
<1>1. IInv /\ [Next]_vars => IInv'
  <2>1. IInv /\ UNCHANGED vars => IInv'
    BY DEF vars, IInv, TypeOK, InMemory, ReadHasRoom, InputIntact, SizeIsCap,
           Intact, GetSize
  <2>2. QED
    BY <2>1, PushFromStep, PushStep, PopStep DEF Next
<1>2. QED
  BY InitInv, <1>1, PTL DEF Spec

\* The pointers and the memory have their types, the memory its length.
THEOREM TypeCorrect == Spec => []TypeOK
<1>1. IInv => TypeOK
  BY DEF IInv
<1>2. QED
  BY <1>1, Inductive, PTL

\* Every copy of push and push_from stays within the memory, and read is never
\* called with a length of zero, which its callers would take for the end of
\* the connection.
THEOREM WithinMemory == Spec => []InBounds
<1>1. IInv => InBounds
  BY DEF IInv, InBounds
<1>2. QED
  BY <1>1, Inductive, PTL

\* The input buffer of a connection loses no byte, however often it grows.
THEOREM InputKept == Spec => []InputIntact
<1>1. IInv => InputIntact
  BY DEF IInv
<1>2. QED
  BY <1>1, Inductive, PTL
=============================================================================
