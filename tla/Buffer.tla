-------------------------------- MODULE Buffer --------------------------------
(***************************************************************************)
(* The byte queue of base/Buffer: a vector<char> of size() bytes within    *)
(* capacity() bytes of memory, read at left_read_ptr and written at        *)
(* right_write_ptr.  Both push operations write up to the capacity, past   *)
(* the size; vector::resize, when it reallocates, copies only the first    *)
(* size() bytes.  The k-th byte ever pushed is the number k; 0 stands for  *)
(* memory nobody pushed to.                                                *)
(***************************************************************************)
EXTENDS Integers

CONSTANTS
    InitCapa,   \* init_capa, 1024 in the code
    Uses,       \* the sets of operations that a user of a buffer calls
    MaxBytes    \* bound: bytes pushed altogether

Operations == {"push_from", "push", "pop_to", "pop"}

ASSUME BufferAssumption ==
    /\ InitCapa \in Nat /\ InitCapa >= 2
    /\ MaxBytes \in Nat
    /\ Uses \subseteq SUBSET Operations

VARIABLES
    uses,       \* the operations called on this buffer
    left,       \* left_read_ptr
    right,      \* right_write_ptr
    size,       \* buf.size()
    cap,        \* buf.capacity()
    mem,        \* the memory of buf: position |-> byte
    room,       \* history: how many bytes the last push_from asked for
    pushed,     \* history: bytes accepted
    popped      \* history: bytes handed out

vars == <<uses, left, right, size, cap, mem, room, pushed, popped>>

Max2(a, b) == IF a >= b THEN a ELSE b
GetSize == right - left

Init ==
    /\ uses \in Uses
    /\ left = 0 /\ right = 0
    /\ size = InitCapa /\ cap = InitCapa
    /\ mem = [p \in 0..InitCapa - 1 |-> 0]
    /\ room = InitCapa
    /\ pushed = 0 /\ popped = 0

-----------------------------------------------------------------------------
\* vector::resize(n) beyond the capacity: the new capacity (size plus the
\* larger of size and the growth) and the memory with the old elements moved.
GrownCap(n) == size + Max2(size, n - size)

\* (mistake) as many bytes are copied as there is data, from the start.
GrownMem_Data(n) == [p \in 0..GrownCap(n) - 1 |-> IF p < GetSize THEN mem[p] ELSE 0]

GrownMem(n) == [p \in 0..GrownCap(n) - 1 |-> IF p < size THEN mem[p] ELSE 0]

\* buf_move_head: the bytes between the pointers come to the front of m.
MovedHead(m) == [p \in DOMAIN m |-> IF p < GetSize THEN m[p + left] ELSE m[p]]

\* The next n bytes are written to m at position r.
Written(m, r, n) ==
    [p \in DOMAIN m |-> IF p \in r..r + n - 1 THEN pushed + 1 + p - r ELSE m[p]]

\* push_from: room is made first, whatever the read then returns; n <= 0
\* stands for end of file and errors.
PushFrom(n) ==
    LET grow == cap - right < InitCapa \div 2
        m == IF grow THEN GrownMem(2 * cap) ELSE mem
        c == IF grow THEN GrownCap(2 * cap) ELSE cap
    IN  /\ "push_from" \in uses
        /\ n <= c - right
        /\ pushed + n <= MaxBytes
        /\ size' = IF grow THEN 2 * cap ELSE size
        /\ cap' = c
        /\ mem' = Written(m, right, n)
        /\ right' = right + n
        /\ room' = c - right
        /\ pushed' = pushed + n
        /\ UNCHANGED <<uses, left, popped>>

\* (mistake) push moves the data to the front and takes that for enough.
Push_MoveOnly(n) ==
    /\ "push" \in uses
    /\ pushed + n <= MaxBytes
    /\ mem' = Written(MovedHead(mem), GetSize, n)
    /\ left' = 0 /\ right' = GetSize + n
    /\ pushed' = pushed + n
    /\ UNCHANGED <<uses, size, cap, room, popped>>

\* push of n bytes: at the tail, or after moving to the front, or after
\* growing by add and moving to the front.
Push(n) ==
    LET remainRight == cap - right
        add == n - left + remainRight
    IN  /\ "push" \in uses
        /\ pushed + n <= MaxBytes
        /\ \/ /\ n <= remainRight
              /\ mem' = Written(mem, right, n)
              /\ right' = right + n
              /\ UNCHANGED <<left, size, cap>>
           \/ /\ n > remainRight /\ n <= left + remainRight
              /\ mem' = Written(MovedHead(mem), GetSize, n)
              /\ left' = 0 /\ right' = GetSize + n
              /\ UNCHANGED <<size, cap>>
           \/ /\ n > left + remainRight
              /\ mem' = Written(MovedHead(GrownMem(cap + add)), GetSize, n)
              /\ size' = cap + add
              /\ cap' = GrownCap(cap + add)
              /\ left' = 0 /\ right' = GetSize + n
        /\ pushed' = pushed + n
        /\ UNCHANGED <<uses, room, popped>>

\* (mistake) pop_to adds write's result without testing n > 0: a failing
\* write moves left_read_ptr by -1.
PopTo_NoCheck(n) ==
    LET res == IF n = 0 THEN -1 ELSE n
    IN  /\ "pop_to" \in uses /\ n <= GetSize
        /\ left' = left + res
        /\ popped' = popped + res
        /\ UNCHANGED <<uses, right, size, cap, mem, room, pushed>>

\* pop_to: the write takes some of the bytes, or none.
PopTo(n) == /\ "pop_to" \in uses
            /\ n <= GetSize
            /\ left' = left + n
            /\ popped' = popped + n
            /\ UNCHANGED <<uses, right, size, cap, mem, room, pushed>>

\* pop(len) and pop(): everything goes, whatever len says.
Pop(len) == /\ "pop" \in uses
            /\ len <= GetSize
            /\ left' = right
            /\ popped' = popped + GetSize
            /\ UNCHANGED <<uses, right, size, cap, mem, room, pushed>>

Next == \E n \in 0..MaxBytes : PushFrom(n) \/ Push(n) \/ PopTo(n) \/ Pop(n)

Spec == Init /\ [][Next]_vars

-----------------------------------------------------------------------------
(* Correctness.                                                             *)

\* Every variable has its type.
TypeOK ==
    /\ uses \in Uses
    /\ left \in Nat /\ right \in Nat /\ size \in Nat /\ cap \in Nat
    /\ mem \in [0..cap - 1 -> Nat]
    /\ room \in Nat /\ pushed \in Nat /\ popped \in Nat

\* push_from never asks the kernel for zero bytes, for the 0 that read then
\* returns is taken by its callers for the end of the connection.
ReadHasRoom == room > 0 /\ room >= InitCapa \div 2

\* The pointers stay inside the allocated memory through every growth and
\* every move.
InMemory == /\ left <= right /\ right <= cap
            /\ size <= cap /\ InitCapa <= size
            /\ GetSize = pushed - popped

\* What is copied, read and written fits the memory, and a read is never
\* offered nothing.
InBounds == InMemory /\ ReadHasRoom

\* The bytes between the pointers are those pushed and not yet popped, in
\* order.
Intact == \A i \in 0..GetSize - 1 : mem[left + i] = popped + 1 + i

\* A buffer that is only filled by push_from (the input buffer of a
\* connection) loses no byte when it grows, although resize copies size()
\* bytes and the data reaches to the capacity.
InputIntact == "push" \notin uses => Intact
===============================================================================
