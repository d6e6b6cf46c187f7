-------------------------- MODULE TcpConnectionProofs --------------------------
(***************************************************************************)
(* Theorems about TcpConnection for every finite set of fds, every limit   *)
(* and every number of calls: type correctness, that no handler meets a    *)
(* destroyed connection, that each closed connection is removed once, and  *)
(* that output is watched while there is some.                             *)
(***************************************************************************)
EXTENDS TcpConnection, FiniteSetTheorems, SequenceTheorems, TLAPS

Chans == InMap \cup {Listen}

\* A destroyed connection has nothing left, and handlers are called on
\* connections of conn_map.
MapInv ==
    /\ open = InMap
    /\ \A c \in Fds : state[c] = "none" => pending[c] = 0 /\ ~armed[c]
    /\ \A e \in batch : e[1] \in Chans
    /\ cur \in Chans \cup {None}
    /\ pc = "tail" \/ (pc = "user" /\ ret = "tail") => cur \in InMap
    /\ pc \in {"poll", "exec"} => batch = {} /\ cur = None

\* The acceptor's event is in the batch only while another connection may be
\* accepted.
AcceptInv == <<Listen, "READ">> \in batch => nAccepts < MaxAccepts

\* event_list holds the batch, and the registered fds do not get fewer before
\* the batch is handled.
ListInv ==
    /\ nBatch <= listSize
    /\ nBatch <= Registered
    /\ pc \in {"poll", "exec"} => nBatch = 0

IInv == TypeOK /\ MapInv /\ AcceptInv /\ RemovedOnce /\ OutputArmed /\ ListInv

-----------------------------------------------------------------------------
LEMMA InitInv == Init => IInv
<1> SUFFICES ASSUME Init PROVE IInv
  OBVIOUS
<1> USE TcpAssumption
<1>1. <<>> \in Seq(Fds) /\ DOMAIN <<>> = {}
  BY EmptySeq
<1>2. InMap = {} /\ Cardinality(InMap) = 0
  BY FS_EmptySet DEF Init, InMap
<1>3. TypeOK
  BY <1>1 DEF Init, TypeOK
<1>4. RemovedOnce
  BY <1>1 DEF Init, RemovedOnce
<1>5. MapInv /\ AcceptInv /\ OutputArmed /\ ListInv
  BY <1>2 DEF Init, MapInv, AcceptInv, OutputArmed, ListInv, Registered, Chans
<1>6. QED
  BY <1>3, <1>4, <1>5 DEF IInv

\* Every step keeps the types: the limit of send_data bounds the buffer.
LEMMA TypeStep == IInv /\ [Next]_vars => TypeOK'
<1> SUFFICES ASSUME IInv, [Next]_vars PROVE TypeOK'
  OBVIOUS
<1> USE TcpAssumption DEF IInv, TypeOK
<1>1. ASSUME NEW c \in Fds, NEW next \in {"user", "dispatch"}, FullClose(c, next)
      PROVE  /\ state' \in [Fds -> {"none", "CONNECTING", "HALF_CLOSE", "FULL_CLOSE"}]
             /\ pending' = pending /\ armed' = armed /\ open' = open
             /\ shut' \in [Fds -> {"no", "wr", "rdwr"}]
             /\ removals' \in Seq(Fds)
             /\ pc' \in {"poll", "dispatch", "user", "tail", "exec", "aborted"}
  <2>1. CASE state[c] = "FULL_CLOSE"
    BY <1>1, <2>1 DEF FullClose, connVars
  <2>2. CASE state[c] # "FULL_CLOSE"
    <3>1. Append(removals, c) \in Seq(Fds)
      BY AppendProperties
    <3>2. QED
      BY <1>1, <2>2, <3>1 DEF FullClose
  <2>3. QED
    BY <2>1, <2>2
<1>2. InMap \subseteq Fds /\ IsFiniteSet(InMap)
  BY FS_Subset DEF InMap
<1>3. InMap' \subseteq Fds /\ IsFiniteSet(InMap')
  BY FS_Subset DEF InMap
<1>4. Registered' \in Nat
  BY <1>3, FS_CardinalityType DEF Registered
<1>5. ASSUME NEW events \in SUBSET Ready, PollReturn(events)
      PROVE  TypeOK'
  <2>1. Ready \subseteq (Fds \cup {Listen}) \X {"READ", "WRITE"}
    BY <1>2 DEF Ready
  <2>2. IsFiniteSet({e[1] : e \in events})
    <3>1. {e[1] : e \in events} \subseteq Fds \cup {Listen}
      BY <2>1
    <3>2. IsFiniteSet(Fds \cup {Listen})
      BY FS_AddElement
    <3>3. QED
      BY <3>1, <3>2, FS_Subset
  <2>3. nBatch' \in Nat
    BY <1>5, <2>2, FS_CardinalityType DEF PollReturn
  <2>4. QED
    BY <1>5, <2>1, <2>3 DEF PollReturn, connVars
<1>6. CASE ChannelDone \/ BatchDone \/ ExecDone \/ CallbackReturns
             \/ \E c \in Fds \cup {Listen} : PickChannel(c)
  BY <1>6 DEF ChannelDone, BatchDone, ExecDone, CallbackReturns, PickChannel,
              connVars, pollVars
<1>7. CASE RemoveConn
  <2>1. Head(removals) \in Fds /\ Tail(removals) \in Seq(Fds)
    BY <1>7, HeadTailProperties DEF RemoveConn
  <2>2. 0 \in 0..MaxWrite - 1
    OBVIOUS
  <2>3. \A c \in Fds : /\ [state EXCEPT ![c] = "none"] \in
                            [Fds -> {"none", "CONNECTING", "HALF_CLOSE", "FULL_CLOSE"}]
                      /\ [pending EXCEPT ![c] = 0] \in [Fds -> 0..MaxWrite - 1]
                      /\ [armed EXCEPT ![c] = FALSE] \in [Fds -> BOOLEAN]
                      /\ [shut EXCEPT ![c] = "no"] \in [Fds -> {"no", "wr", "rdwr"}]
    BY <2>2
  <2>4. QED
    BY <1>7, <2>1, <2>3 DEF RemoveConn, pollVars
<1>8. ASSUME NEW fd \in Fds, AcceptConn(fd)
      PROVE  TypeOK'
  <2>1. nAccepts' \in 0..MaxAccepts
    BY <1>8 DEF AcceptConn, Handles, AcceptInv
  <2>2. QED
    BY <1>4, <1>8, <2>1 DEF AcceptConn, Handles, UpdateChannel
<1>9. CASE RefuseConn
  BY <1>9 DEF RefuseConn, Handles, AcceptInv, connVars, pollVars
<1>10. CASE WriteTail
  <2>1. cur \in Fds
    BY <1>2, <1>10 DEF WriteTail, MapInv
  <2>2. QED
    BY <1>10, <2>1 DEF WriteTail, pollVars
<1>11. ASSUME NEW c \in Fds, ReadData(c) \/ ReadNothing(c) \/ WriteNothing(c) \/ WriteEmpty(c)
       PROVE  TypeOK'
  BY <1>11 DEF ReadData, ReadNothing, WriteNothing, WriteEmpty, Handles, connVars, pollVars
<1>12. ASSUME NEW c \in Fds, ReadClosed(c) \/ WriteClosed(c)
       PROVE  TypeOK'
  BY <1>1, <1>12 DEF ReadClosed, WriteClosed, Handles, pollVars
<1>13. ASSUME NEW c \in Fds, NEW n \in 1..MaxWrite, WriteSome(c, n)
       PROVE  TypeOK'
  <2>1. pending' \in [Fds -> 0..MaxWrite - 1]
    BY <1>13 DEF WriteSome
  <2>2. QED
    BY <1>4, <1>13, <2>1 DEF WriteSome, Handles, UpdateChannel, pollVars
<1>14. ASSUME NEW c \in Fds, HalfClose(c)
       PROVE  TypeOK'
  BY <1>14 DEF HalfClose, UserCall, pollVars
<1>15. ASSUME NEW c \in Fds, UserFullClose(c)
       PROVE  TypeOK'
  BY <1>1, <1>15 DEF UserFullClose, UserCall, pollVars
<1>16. ASSUME NEW c \in Fds, NEW n \in Sizes, SendData(c, n)
       PROVE  TypeOK'
  <2>1. n \in Nat /\ nCalls' \in 0..MaxCalls
    <3>1. n \in Nat
      OBVIOUS
    <3>2. nCalls < MaxCalls /\ nCalls' = nCalls + 1
      BY <1>16 DEF SendData, UserCall
    <3>3. QED
      BY <3>1, <3>2
  <2>2. CASE pending[c] + n < MaxWrite
    <3>1. pending' \in [Fds -> 0..MaxWrite - 1]
      <4>1. pending[c] + n \in 0..MaxWrite - 1
        BY <2>1, <2>2
      <4>2. pending' = [pending EXCEPT ![c] = @ + n]
        BY <1>16, <2>1, <2>2 DEF SendData
      <4>3. QED
        BY <4>1, <4>2
    <3>2. /\ armed' = [armed EXCEPT ![c] = TRUE]
          /\ UNCHANGED <<state, shut, open, pc, removals, batch, cur, ret, nBatch, nAccepts>>
          /\ listSize' \in Nat
      BY <1>4, <1>16, <2>1, <2>2 DEF SendData, UpdateChannel
    <3>3. QED
      BY <2>1, <3>1, <3>2
  <2>3. CASE ~(pending[c] + n < MaxWrite)
    BY <1>1, <1>16, <2>1, <2>3 DEF SendData, UserCall, pollVars
  <2>4. QED
    BY <2>2, <2>3
<1>17. CASE Aborted \/ UNCHANGED vars
  BY <1>17 DEF Aborted, vars, connVars, pollVars
<1>18. QED
  BY <1>5, <1>6, <1>7, <1>8, <1>9, <1>10, <1>11, <1>12, <1>13, <1>14, <1>15,
     <1>16, <1>17 DEF Next, LoopStep, Handle

-----------------------------------------------------------------------------
\* full_close takes no connection out of conn_map, whichever way it ends.
LEMMA FullCloseKeepsMap ==
  ASSUME IInv, NEW c \in InMap, NEW next, FullClose(c, next)
  PROVE  /\ InMap' = InMap
         /\ UNCHANGED <<pending, armed, open>>
         /\ pc' \in {"aborted", next}
         /\ \A d \in Fds : state'[d] = "none" <=> state[d] = "none"
<1>1. c \in Fds
  BY DEF InMap
<1>2. CASE state[c] = "FULL_CLOSE"
  BY <1>2 DEF FullClose, connVars, InMap
<1>3. CASE state[c] # "FULL_CLOSE"
  BY <1>1, <1>3 DEF FullClose, InMap, IInv, TypeOK
<1>4. QED
  BY <1>2, <1>3

\* The events still to be handled, and the one in hand, are those of
\* connections in conn_map, whose fds are the ones held open.
LEMMA MapStep == IInv /\ [Next]_vars => MapInv'
<1> SUFFICES ASSUME IInv, [Next]_vars PROVE MapInv'
  OBVIOUS
<1> USE TcpAssumption DEF MapInv, Chans
<1>1. TypeOK /\ MapInv
  BY DEF IInv
<1>2. ASSUME NEW events \in SUBSET Ready, PollReturn(events)
      PROVE  MapInv'
  <2>1. \A e \in Ready : e[1] \in Chans
    BY DEF Ready, InMap
  <2>2. InMap' = InMap
    BY <1>2 DEF PollReturn, connVars, InMap
  <2>3. QED
    BY <1>1, <1>2, <2>1, <2>2 DEF PollReturn, connVars, TypeOK
<1>3. CASE ChannelDone \/ BatchDone \/ ExecDone \/ CallbackReturns
             \/ \E c \in Fds \cup {Listen} : PickChannel(c)
  <2>1. InMap' = InMap
    BY <1>3 DEF ChannelDone, BatchDone, ExecDone, CallbackReturns, PickChannel,
                connVars, InMap
  <2>2. QED
    BY <1>1, <1>3, <2>1 DEF ChannelDone, BatchDone, ExecDone, CallbackReturns,
                            PickChannel, connVars, TypeOK
<1>4. CASE RemoveConn
  <2> DEFINE c == Head(removals)
  <2>1. c \in Fds
    BY <1>1, <1>4, HeadTailProperties DEF RemoveConn, TypeOK
  <2>2. InMap' = InMap \ {c}
    BY <1>1, <1>4, <2>1 DEF RemoveConn, InMap, TypeOK
  <2>3. /\ open' = open \ {c}
        /\ state' = [state EXCEPT ![c] = "none"]
        /\ pending' = [pending EXCEPT ![c] = 0]
        /\ armed' = [armed EXCEPT ![c] = FALSE]
        /\ batch' = {} /\ cur' = None /\ pc' = "exec" /\ pc = "exec"
    BY <1>1, <1>4 DEF RemoveConn
  <2> HIDE DEF c
  <2>4. \A d \in Fds : state'[d] = "none" => pending'[d] = 0 /\ ~armed'[d]
    BY <1>1, <2>1, <2>3 DEF TypeOK
  <2>5. QED
    BY <1>1, <2>2, <2>3, <2>4
<1>5. ASSUME NEW fd \in Fds, AcceptConn(fd)
      PROVE  MapInv'
  <2>1. InMap' = InMap \cup {fd}
    BY <1>1, <1>5 DEF AcceptConn, InMap, TypeOK
  <2>2. QED
    BY <1>1, <1>5, <2>1 DEF AcceptConn, Handles, TypeOK
<1>6. CASE RefuseConn
  <2>1. InMap' = InMap
    BY <1>6 DEF RefuseConn, connVars, InMap
  <2>2. QED
    BY <1>1, <1>6, <2>1 DEF RefuseConn, Handles, connVars, TypeOK
<1>7. CASE WriteTail
  BY <1>1, <1>7 DEF WriteTail, InMap
<1>8. ASSUME NEW c \in Fds, ReadData(c) \/ ReadNothing(c) \/ WriteNothing(c) \/ WriteEmpty(c)
      PROVE  MapInv'
  <2>1. InMap' = InMap
    BY <1>8 DEF ReadData, ReadNothing, WriteNothing, WriteEmpty, connVars, InMap
  <2>2. QED
    BY <1>1, <1>8, <2>1 DEF ReadData, ReadNothing, WriteNothing, WriteEmpty,
                            Handles, connVars, TypeOK
<1>9. ASSUME NEW c \in Fds, ReadClosed(c) \/ WriteClosed(c)
      PROVE  MapInv'
  <2>1. /\ FullClose(c, "user") /\ cur = c /\ cur' = c /\ ret' = "dispatch"
        /\ pc = "dispatch" /\ batch' \subseteq batch
    BY <1>9 DEF ReadClosed, WriteClosed, Handles
  <2>2. c \in InMap
    BY <1>1, <2>1
  <2>3. QED
    BY <1>1, <2>1, <2>2, FullCloseKeepsMap
<1>10. ASSUME NEW c \in Fds, NEW n \in 1..MaxWrite, WriteSome(c, n)
       PROVE  MapInv'
  <2>1. InMap' = InMap /\ UNCHANGED <<state, open, cur>> /\ cur = c
    BY <1>10 DEF WriteSome, Handles, InMap
  <2>2. batch' \subseteq batch /\ pc = "dispatch" /\ pc' \in {"dispatch", "user"}
    BY <1>10 DEF WriteSome, Handles
  <2>3. c \in InMap
    BY <1>1, <2>1
  <2>4. \A d \in Fds : state[d] = "none" => pending'[d] = 0 /\ ~armed'[d]
    <3>1. SUFFICES ASSUME NEW d \in Fds, state[d] = "none"
                   PROVE  pending'[d] = 0 /\ ~armed'[d]
      OBVIOUS
    <3>2. d # c
      BY <2>3, <3>1 DEF InMap
    <3>3. QED
      BY <1>1, <1>10, <3>1, <3>2 DEF WriteSome, TypeOK
  <2>5. QED
    BY <1>1, <2>1, <2>2, <2>3, <2>4
<1>11. ASSUME NEW c \in Fds, HalfClose(c)
       PROVE  MapInv'
  <2>1. InMap' = InMap
    BY <1>1, <1>11 DEF HalfClose, InMap, TypeOK
  <2>2. UNCHANGED <<pending, armed, open, batch, cur, pc, ret>>
    BY <1>11 DEF HalfClose
  <2>3. \A d \in Fds : state'[d] = "none" => state[d] = "none"
    BY <1>1, <1>11 DEF HalfClose, TypeOK
  <2>4. QED
    BY <1>1, <2>1, <2>2, <2>3
<1>12. ASSUME NEW c \in Fds, UserFullClose(c)
       PROVE  MapInv'
  <2>1. FullClose(c, "user") /\ c \in InMap /\ pc = "user"
    BY <1>12 DEF UserFullClose, UserCall, InMap
  <2>2. UNCHANGED <<batch, cur, ret>>
    BY <1>12 DEF UserFullClose
  <2>3. QED
    BY <1>1, <2>1, <2>2, FullCloseKeepsMap
<1>13. ASSUME NEW c \in Fds, NEW n \in Sizes, SendData(c, n)
       PROVE  MapInv'
  <2>1. c \in InMap /\ pc = "user" /\ UNCHANGED <<batch, cur, ret>>
    BY <1>13 DEF SendData, UserCall, InMap
  <2>2. CASE FullClose(c, "user")
    BY <1>1, <2>1, <2>2, FullCloseKeepsMap
  <2>3. CASE ~FullClose(c, "user")
    <3>1. /\ pending' = [pending EXCEPT ![c] = @ + n]
          /\ armed' = [armed EXCEPT ![c] = TRUE]
          /\ UNCHANGED <<state, open, pc>>
      BY <1>13, <2>3 DEF SendData
    <3>2. InMap' = InMap
      BY <3>1 DEF InMap
    <3>3. \A d \in Fds : state[d] = "none" => pending'[d] = pending[d] /\ armed'[d] = armed[d]
      BY <1>1, <2>1, <3>1 DEF InMap, TypeOK
    <3>4. QED
      BY <1>1, <2>1, <3>1, <3>2, <3>3
  <2>4. QED
    BY <2>2, <2>3
<1>14. CASE Aborted \/ UNCHANGED vars
  BY <1>1, <1>14 DEF Aborted, vars, connVars, InMap
<1>15. QED
  BY <1>2, <1>3, <1>4, <1>5, <1>6, <1>7, <1>8, <1>9, <1>10, <1>11, <1>12,
     <1>13, <1>14 DEF Next, LoopStep, Handle

\* No more connections are accepted than the bound allows.
LEMMA AcceptStep == IInv /\ [Next]_vars => AcceptInv'
<1> SUFFICES ASSUME IInv, [Next]_vars PROVE AcceptInv'
  OBVIOUS
<1> USE TcpAssumption DEF AcceptInv
<1>1. AcceptInv
  BY DEF IInv
<1>2. ASSUME NEW events \in SUBSET Ready, PollReturn(events)
      PROVE  AcceptInv'
  <2>1. <<Listen, "READ">> \in Ready => nAccepts < MaxAccepts
    BY DEF Ready, InMap
  <2>2. QED
    BY <1>2, <2>1 DEF PollReturn
<1>3. ASSUME NEW fd \in Fds, AcceptConn(fd) \/ RefuseConn
      PROVE  AcceptInv'
  BY <1>3 DEF AcceptConn, RefuseConn, Handles
<1>4. CASE RefuseConn
  BY <1>4 DEF RefuseConn, Handles
<1>5. ASSUME NEW c \in Fds, Handle(c)
      PROVE  AcceptInv'
  <2>1. batch' \subseteq batch /\ nAccepts' = nAccepts
    BY <1>5 DEF Handle, ReadData, ReadNothing, ReadClosed, WriteSome,
                WriteNothing, WriteClosed, WriteEmpty, Handles
  <2>2. QED
    BY <1>1, <2>1
<1>6. CASE UNCHANGED <<batch, nAccepts>>
  BY <1>1, <1>6
<1>7. ASSUME NEW c \in Fds, HalfClose(c) \/ UserFullClose(c) \/ \E n \in Sizes : SendData(c, n)
      PROVE  UNCHANGED <<batch, nAccepts>>
  BY <1>7 DEF HalfClose, UserFullClose, SendData
<1>8. QED
  BY <1>2, <1>3, <1>4, <1>5, <1>6, <1>7
     DEF Next, LoopStep, ChannelDone, BatchDone, ExecDone, CallbackReturns,
         PickChannel, RemoveConn, WriteTail, Aborted, vars

-----------------------------------------------------------------------------
(* The removals.                                                            *)

\* What a list holds, and that it holds nothing twice.
Held(r) == {r[i] : i \in DOMAIN r}
NoneTwice(r) == \A i, j \in DOMAIN r : r[i] = r[j] => i = j

LEMMA AppendHeld ==
  ASSUME NEW S, NEW r \in Seq(S), NEW c \in S, c \notin Held(r), NoneTwice(r)
  PROVE  Held(Append(r, c)) = Held(r) \cup {c} /\ NoneTwice(Append(r, c))
<1> DEFINE a == Append(r, c)
<1>1. /\ DOMAIN r = 1..Len(r) /\ Len(r) \in Nat
      /\ DOMAIN a = 1..Len(r) + 1
      /\ \A i \in 1..Len(r) : a[i] = r[i]
      /\ a[Len(r) + 1] = c
  BY AppendProperties, LenProperties
<1> HIDE DEF a
<1>2. Held(a) = Held(r) \cup {c}
  BY <1>1 DEF Held
<1>3. NoneTwice(a)
  BY <1>1 DEF NoneTwice, Held
<1>4. QED
  BY <1>2, <1>3 DEF a

LEMMA TailHeld ==
  ASSUME NEW S, NEW r \in Seq(S), r # <<>>, NoneTwice(r)
  PROVE  Held(Tail(r)) = Held(r) \ {Head(r)} /\ NoneTwice(Tail(r))
<1> DEFINE t == Tail(r)
           h == Head(r)
<1>1. /\ DOMAIN r = 1..Len(r) /\ Len(r) \in Nat /\ Len(r) >= 1
      /\ h = r[1]
      /\ DOMAIN t = 1..Len(r) - 1
      /\ \A i \in 1..Len(r) - 1 : t[i] = r[i + 1]
  BY HeadTailProperties, LenProperties, EmptySeq
<1> HIDE DEF t, h
<1>2. Held(t) \subseteq Held(r) \ {h}
  BY <1>1 DEF Held, NoneTwice
<1>3. Held(r) \ {h} \subseteq Held(t)
  <2>1. SUFFICES ASSUME NEW i \in 1..Len(r), r[i] # h
                 PROVE  r[i] \in Held(t)
    BY <1>1 DEF Held
  <2>2. i - 1 \in 1..Len(r) - 1 /\ t[i - 1] = r[i]
    BY <1>1, <2>1
  <2>3. QED
    BY <1>1, <2>2 DEF Held
<1>4. NoneTwice(t)
  <2>1. SUFFICES ASSUME NEW i \in 1..Len(r) - 1, NEW j \in 1..Len(r) - 1,
                        i # j
                 PROVE  t[i] # t[j]
    BY <1>1 DEF NoneTwice
  <2>2. i + 1 \in 1..Len(r) /\ j + 1 \in 1..Len(r) /\ i + 1 # j + 1
    <3>1. /\ Len(r) \in Nat
          /\ \A k \in 1..Len(r) - 1 : k \in Nat /\ k + 1 \in 1..Len(r)
      BY <1>1
    <3>2. QED
      BY <2>1, <3>1
  <2>3. QED
    BY <1>1, <2>2 DEF NoneTwice
<1>5. QED
  BY <1>2, <1>3, <1>4 DEF t, h

Closed == {c \in Fds : state[c] = "FULL_CLOSE"}

LEMMA RemovedOnceIs ==
  RemovedOnce <=> /\ Held(removals) = Closed /\ NoneTwice(removals)
                  /\ pc = "poll" => removals = <<>>
BY DEF RemovedOnce, Held, NoneTwice, Closed

\* full_close hands over exactly one removal of the connection it closes.
LEMMA FullCloseRemoves ==
  ASSUME TypeOK, RemovedOnce, NEW c \in InMap, NEW next \in {"user", "dispatch"},
         FullClose(c, next)
  PROVE  RemovedOnce'
<1>1. c \in Fds
  BY DEF InMap
<1>2. CASE state[c] = "FULL_CLOSE"
  BY <1>2 DEF FullClose, connVars, RemovedOnce
<1>3. CASE state[c] # "FULL_CLOSE"
  <2>1. Held(removals) = Closed /\ NoneTwice(removals) /\ removals \in Seq(Fds)
    BY RemovedOnceIs DEF TypeOK
  <2>2. c \notin Held(removals)
    BY <1>3, <2>1 DEF Closed
  <2>3. removals' = Append(removals, c)
    BY <1>3 DEF FullClose
  <2>4. Held(removals)' = Held(removals) \cup {c} /\ NoneTwice(removals)'
    BY <1>1, <2>1, <2>2, <2>3, AppendHeld DEF Held, NoneTwice
  <2>5. Closed' = Closed \cup {c}
    BY <1>1, <1>3 DEF FullClose, Closed, TypeOK
  <2>6. pc' # "poll"
    BY <1>3 DEF FullClose
  <2>7. QED
    BY <2>1, <2>4, <2>5, <2>6 DEF RemovedOnce, Held, NoneTwice, Closed
<1>4. QED
  BY <1>2, <1>3

\* Each closed connection has one removal under way until it is gone.
LEMMA RemovedStep == IInv /\ [Next]_vars => RemovedOnce'
<1> SUFFICES ASSUME IInv, [Next]_vars PROVE RemovedOnce'
  OBVIOUS
<1> USE TcpAssumption
<1>1. TypeOK /\ RemovedOnce /\ MapInv
  BY DEF IInv
<1>2. ASSUME UNCHANGED <<removals, state>>, pc' # "poll" \/ pc = "poll"
      PROVE  RemovedOnce'
  BY <1>1, <1>2 DEF RemovedOnce
<1>3. CASE \E events \in SUBSET Ready : PollReturn(events)
  BY <1>2, <1>3 DEF PollReturn, connVars
<1>4. CASE ChannelDone \/ BatchDone \/ CallbackReturns
             \/ \E c \in Fds \cup {Listen} : PickChannel(c)
  BY <1>1, <1>2, <1>4 DEF ChannelDone, BatchDone, CallbackReturns, PickChannel,
                          connVars, TypeOK
<1>5. CASE ExecDone
  BY <1>1, <1>5 DEF ExecDone, connVars, RemovedOnce
<1>6. CASE RemoveConn
  <2>1. removals # <<>> /\ removals' = Tail(removals) /\ pc' = "exec"
    BY <1>6 DEF RemoveConn
  <2>2. Held(removals) = Closed /\ NoneTwice(removals) /\ removals \in Seq(Fds)
    BY <1>1, RemovedOnceIs DEF TypeOK
  <2>3. Held(removals)' = Held(removals) \ {Head(removals)} /\ NoneTwice(removals)'
    BY <2>1, <2>2, TailHeld DEF Held, NoneTwice
  <2>4. Head(removals) \in Fds
    BY <2>1, <2>2, HeadTailProperties
  <2>5. Closed' = Closed \ {Head(removals)}
    BY <1>1, <1>6, <2>4 DEF RemoveConn, Closed, TypeOK
  <2>6. QED
    BY <2>1, <2>2, <2>3, <2>5 DEF RemovedOnce, Held, NoneTwice, Closed
<1>7. ASSUME NEW fd \in Fds, AcceptConn(fd)
      PROVE  RemovedOnce'
  <2>1. state[fd] # "FULL_CLOSE" /\ Closed' = Closed
    BY <1>1, <1>7 DEF AcceptConn, MapInv, InMap, Closed, TypeOK
  <2>2. removals' = removals /\ pc' = "user"
    BY <1>7 DEF AcceptConn
  <2>3. QED
    BY <1>1, <2>1, <2>2 DEF RemovedOnce, Closed
<1>8. CASE RefuseConn
  BY <1>1, <1>2, <1>8 DEF RefuseConn, connVars
<1>9. CASE WriteTail
  BY <1>1, <1>2, <1>9 DEF WriteTail
<1>10. ASSUME NEW c \in Fds, ReadData(c) \/ ReadNothing(c) \/ WriteNothing(c) \/ WriteEmpty(c)
       PROVE  RemovedOnce'
  BY <1>2, <1>10 DEF ReadData, ReadNothing, WriteNothing, WriteEmpty, connVars
<1>11. ASSUME NEW c \in Fds, ReadClosed(c) \/ WriteClosed(c)
       PROVE  RemovedOnce'
  <2>1. FullClose(c, "user") /\ cur = c
    BY <1>11 DEF ReadClosed, WriteClosed, Handles
  <2>2. c \in InMap
    BY <1>1, <2>1, TcpAssumption DEF MapInv, Chans
  <2>3. QED
    BY <1>1, <2>1, <2>2, FullCloseRemoves
<1>12. ASSUME NEW c \in Fds, NEW n \in 1..MaxWrite, WriteSome(c, n)
       PROVE  RemovedOnce'
  <2>1. UNCHANGED <<removals, state>> /\ pc' \in {pc, "user"}
    BY <1>12 DEF WriteSome
  <2>2. QED
    BY <1>2, <2>1
<1>13. ASSUME NEW c \in Fds, HalfClose(c)
       PROVE  RemovedOnce'
  <2>1. Closed' = Closed /\ UNCHANGED <<removals, pc>>
    BY <1>1, <1>13 DEF HalfClose, Closed, TypeOK
  <2>2. QED
    BY <1>1, <2>1 DEF RemovedOnce, Closed
<1>14. ASSUME NEW c \in Fds, UserFullClose(c)
       PROVE  RemovedOnce'
  <2>1. FullClose(c, "user") /\ c \in InMap
    BY <1>14 DEF UserFullClose, InMap
  <2>2. QED
    BY <1>1, <2>1, FullCloseRemoves
<1>15. ASSUME NEW c \in Fds, NEW n \in Sizes, SendData(c, n)
       PROVE  RemovedOnce'
  <2>1. c \in InMap
    BY <1>15 DEF SendData, InMap
  <2>2. CASE FullClose(c, "user")
    BY <1>1, <2>1, <2>2, FullCloseRemoves
  <2>3. CASE ~FullClose(c, "user")
    BY <1>2, <1>15, <2>3 DEF SendData
  <2>4. QED
    BY <2>2, <2>3
<1>16. CASE Aborted \/ UNCHANGED vars
  BY <1>2, <1>16 DEF Aborted, vars, connVars
<1>17. QED
  BY <1>3, <1>4, <1>5, <1>6, <1>7, <1>8, <1>9, <1>10, <1>11, <1>12, <1>13,
     <1>14, <1>15, <1>16 DEF Next, LoopStep, Handle

-----------------------------------------------------------------------------
\* WRITE is disabled only when the last byte went out, and is enabled by the
\* send_data of write_lower after that.
LEMMA ArmedStep == IInv /\ [Next]_vars => OutputArmed'
<1> SUFFICES ASSUME IInv, [Next]_vars PROVE OutputArmed'
  OBVIOUS
<1> USE TcpAssumption DEF OutputArmed
<1>1. TypeOK /\ MapInv /\ OutputArmed
  BY DEF IInv
<1>2. ASSUME UNCHANGED <<pending, armed>>
      PROVE  OutputArmed'
  BY <1>1, <1>2
<1>3. CASE (\E events \in SUBSET Ready : PollReturn(events)) \/ ChannelDone \/ BatchDone
             \/ ExecDone \/ CallbackReturns \/ RefuseConn \/ WriteTail \/ Aborted
             \/ (\E c \in Fds \cup {Listen} : PickChannel(c))
             \/ (\E fd \in Fds : AcceptConn(fd))
  BY <1>2, <1>3 DEF PollReturn, ChannelDone, BatchDone, ExecDone, CallbackReturns,
       RefuseConn, WriteTail, Aborted, PickChannel, AcceptConn, vars, connVars
<1>4. CASE RemoveConn
  <2>1. Head(removals) \in Fds
    BY <1>1, <1>4, HeadTailProperties DEF RemoveConn, TypeOK
  <2>2. QED
    BY <1>1, <1>4, <2>1 DEF RemoveConn, TypeOK
<1>5. ASSUME NEW c \in Fds, ReadData(c) \/ ReadNothing(c) \/ WriteNothing(c)
                              \/ WriteEmpty(c) \/ HalfClose(c)
      PROVE  OutputArmed'
  BY <1>2, <1>5 DEF ReadData, ReadNothing, WriteNothing, WriteEmpty, HalfClose, connVars
<1>6. ASSUME NEW c \in Fds, FullClose(c, "user")
      PROVE  OutputArmed'
  BY <1>2, <1>6 DEF FullClose, connVars
<1>7. ASSUME NEW c \in Fds, ReadClosed(c) \/ WriteClosed(c) \/ UserFullClose(c)
      PROVE  OutputArmed'
  BY <1>6, <1>7 DEF ReadClosed, WriteClosed, UserFullClose
<1>8. ASSUME NEW c \in Fds, NEW n \in 1..MaxWrite, WriteSome(c, n)
      PROVE  OutputArmed'
  <2>1. /\ pending' = [pending EXCEPT ![c] = @ - n]
        /\ armed' = [armed EXCEPT ![c] = n < pending[c]]
        /\ n \in 1..pending[c]
    BY <1>8 DEF WriteSome
  <2>2. pending[c] \in Nat
    BY <1>1 DEF TypeOK
  <2>3. pending[c] - n > 0 => n < pending[c]
    BY <2>1, <2>2
  <2>4. QED
    BY <1>1, <2>1, <2>3 DEF TypeOK
<1>9. ASSUME NEW c \in Fds, NEW n \in Sizes, SendData(c, n)
      PROVE  OutputArmed'
  <2>1. CASE FullClose(c, "user")
    BY <1>6, <2>1
  <2>2. CASE ~FullClose(c, "user")
    BY <1>1, <1>9, <2>2 DEF SendData, TypeOK
  <2>3. QED
    BY <2>1, <2>2
<1>10. CASE UNCHANGED vars
  BY <1>2, <1>10 DEF vars, connVars
<1>11. QED
  BY <1>3, <1>4, <1>5, <1>7, <1>8, <1>9, <1>10 DEF Next, LoopStep, Handle

-----------------------------------------------------------------------------
(* event_list and the batch.                                                *)

LEMMA InMapFinite == TypeOK => IsFiniteSet(InMap) /\ Cardinality(InMap) \in Nat
BY TcpAssumption, FS_Subset, FS_CardinalityType DEF InMap

\* epoll_wait reports no more channels than are registered.
LEMMA BatchRegistered ==
  ASSUME TypeOK, NEW events \in SUBSET Ready
  PROVE  Cardinality({e[1] : e \in events}) <= Registered
<1>1. {e[1] : e \in events} \subseteq InMap \cup {Listen}
  BY DEF Ready, InMap
<1>2. /\ IsFiniteSet(InMap \cup {Listen}) /\ Listen \notin InMap
      /\ Cardinality(InMap \cup {Listen}) = Cardinality(InMap) + 1
  BY InMapFinite, FS_AddElement, TcpAssumption DEF InMap
<1>3. Cardinality({e[1] : e \in events}) <= Cardinality(InMap \cup {Listen})
  BY <1>1, <1>2, FS_Subset
<1>4. QED
  BY <1>2, <1>3 DEF Registered

\* update_channel makes event_list as long as there are fds registered, and
\* none is unregistered while a batch is handled.
LEMMA ListStep == IInv /\ [Next]_vars => ListInv'
<1> SUFFICES ASSUME IInv, [Next]_vars PROVE ListInv'
  OBVIOUS
<1> USE TcpAssumption DEF ListInv
<1>1. TypeOK /\ MapInv /\ ListInv
  BY DEF IInv
<1>2. /\ nBatch \in Nat /\ listSize \in Nat
      /\ Registered \in Nat /\ Registered = Cardinality(InMap) + 1
  BY <1>1, InMapFinite DEF TypeOK, Registered
<1>3. ASSUME InMap' = InMap, UNCHANGED pollVars \/ UpdateChannel,
             pc' \in {"poll", "exec"} => pc \in {"poll", "exec"}
      PROVE  ListInv'
  <2>1. Registered' = Registered
    BY <1>3 DEF Registered
  <2>2. QED
    BY <1>1, <1>2, <1>3, <2>1 DEF pollVars, UpdateChannel
<1>4. ASSUME NEW events \in SUBSET Ready, PollReturn(events)
      PROVE  ListInv'
  <2>1. nBatch' <= Registered
    BY <1>1, <1>4, BatchRegistered DEF PollReturn
  <2>2. Registered' = Registered
    BY <1>4 DEF PollReturn, connVars, InMap, Registered
  <2>3. QED
    BY <1>4, <2>1, <2>2 DEF PollReturn
<1>5. CASE BatchDone
  <2>1. Registered' = Registered
    BY <1>5 DEF BatchDone, connVars, InMap, Registered
  <2>2. QED
    BY <1>2, <1>5, <2>1 DEF BatchDone
<1>6. CASE ChannelDone \/ ExecDone \/ CallbackReturns \/ RefuseConn \/ Aborted
             \/ (\E c \in Fds \cup {Listen} : PickChannel(c))
  BY <1>1, <1>3, <1>6 DEF ChannelDone, ExecDone, CallbackReturns, RefuseConn, Aborted,
       PickChannel, Handles, vars, connVars, InMap, TypeOK
<1>7. CASE WriteTail
  BY <1>3, <1>7 DEF WriteTail, InMap
<1>8. CASE RemoveConn
  <2>1. nBatch' = 0 /\ listSize' = listSize
    BY <1>1, <1>8 DEF RemoveConn, pollVars
  <2>2. IsFiniteSet(InMap')
    BY FS_Subset DEF InMap
  <2>3. Registered' \in Nat /\ Registered' >= 0
    BY <2>2, FS_CardinalityType DEF Registered
  <2>4. QED
    BY <1>2, <2>1, <2>3
<1>9. ASSUME NEW fd \in Fds, AcceptConn(fd)
      PROVE  ListInv'
  <2>1. InMap' = InMap \cup {fd} /\ fd \notin InMap
    BY <1>1, <1>9 DEF AcceptConn, MapInv, InMap, TypeOK
  <2>2. Registered' = Registered + 1
    BY <1>1, <1>2, <2>1, InMapFinite, FS_AddElement DEF Registered
  <2>3. nBatch' = nBatch /\ listSize' = Registered' /\ pc' = "user"
    BY <1>9 DEF AcceptConn, UpdateChannel
  <2>4. QED
    BY <1>1, <1>2, <2>2, <2>3
<1>10. ASSUME NEW c \in Fds, ReadData(c) \/ ReadNothing(c) \/ WriteNothing(c) \/ WriteEmpty(c)
       PROVE  ListInv'
  BY <1>3, <1>10 DEF ReadData, ReadNothing, WriteNothing, WriteEmpty, connVars, InMap
<1>11. ASSUME NEW c \in Fds, c \in InMap, FullClose(c, "user"), UNCHANGED pollVars
       PROVE  ListInv'
  <2>1. InMap' = InMap /\ pc' \in {"aborted", "user"}
    BY <1>11, FullCloseKeepsMap
  <2>2. QED
    BY <1>3, <1>11, <2>1
<1>12. ASSUME NEW c \in Fds, ReadClosed(c) \/ WriteClosed(c) \/ UserFullClose(c)
       PROVE  ListInv'
  <2>1. FullClose(c, "user") /\ UNCHANGED pollVars
    BY <1>12 DEF ReadClosed, WriteClosed, UserFullClose
  <2>2. c \in InMap
    BY <1>1, <1>12 DEF ReadClosed, WriteClosed, UserFullClose, Handles, MapInv, Chans, InMap
  <2>3. QED
    BY <1>11, <2>1, <2>2
<1>13. ASSUME NEW c \in Fds, NEW n \in 1..MaxWrite, WriteSome(c, n)
       PROVE  ListInv'
  <2>1. InMap' = InMap /\ pc' \in {pc, "user"} /\ (UNCHANGED pollVars \/ UpdateChannel)
    BY <1>13 DEF WriteSome, InMap
  <2>2. QED
    BY <1>3, <2>1
<1>14. ASSUME NEW c \in Fds, HalfClose(c)
       PROVE  ListInv'
  <2>1. InMap' = InMap
    BY <1>1, <1>14 DEF HalfClose, InMap, TypeOK
  <2>2. QED
    BY <1>3, <1>14, <2>1 DEF HalfClose
<1>15. ASSUME NEW c \in Fds, NEW n \in Sizes, SendData(c, n)
       PROVE  ListInv'
  <2>1. c \in InMap
    BY <1>15 DEF SendData, InMap
  <2>2. CASE FullClose(c, "user") /\ UNCHANGED pollVars
    BY <1>11, <2>1, <2>2
  <2>3. CASE ~(FullClose(c, "user") /\ UNCHANGED pollVars)
    <3>1. UNCHANGED <<state, pc>> /\ UpdateChannel
      BY <1>15, <2>3 DEF SendData
    <3>2. InMap' = InMap
      BY <3>1 DEF InMap
    <3>3. QED
      BY <1>3, <3>1, <3>2
  <2>4. QED
    BY <2>2, <2>3
<1>16. CASE UNCHANGED vars
  BY <1>3, <1>16 DEF vars, connVars, InMap
<1>17. QED
  BY <1>4, <1>5, <1>6, <1>7, <1>8, <1>9, <1>10, <1>12, <1>13, <1>14, <1>15,
     <1>16 DEF Next, LoopStep, Handle

-----------------------------------------------------------------------------
(* The theorems.                                                            *)

\* The inductive invariant: what each property needs of the others.
THEOREM Inductive == Spec => []IInv
<1>1. IInv /\ [Next]_vars => IInv'
  BY TypeStep, MapStep, AcceptStep, RemovedStep, ArmedStep, ListStep DEF IInv
<1>2. QED
  BY InitInv, <1>1, PTL DEF Spec

\* The state is well typed; in particular send_data keeps the output buffer
\* below its limit.
THEOREM TypeCorrect == Spec => []TypeOK
<1>1. IInv => TypeOK
  BY DEF IInv
<1>2. QED
  BY <1>1, Inductive, PTL

\* The deferred removal of remove_conn keeps every connection alive as long
\* as an event of the batch refers to it, and poll() iterates within
\* event_list.
THEOREM HandlersSafe == Spec => []NoDangling
<1>1. IInv => NoDangling
  BY DEF IInv, MapInv, ListInv, NoDangling, Chans
<1>2. QED
  BY <1>1, Inductive, PTL

\* Each close leads to one removal, before the next poll.
THEOREM RemovedExactlyOnce == Spec => []RemovedOnce
<1>1. IInv => RemovedOnce
  BY DEF IInv
<1>2. QED
  BY <1>1, Inductive, PTL

\* Buffered output is always watched by epoll.
THEOREM OutputWatched == Spec => []OutputArmed
<1>1. IInv => OutputArmed
  BY DEF IInv
<1>2. QED
  BY <1>1, Inductive, PTL
=============================================================================
