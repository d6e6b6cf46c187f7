--------------------------- MODULE TcpClientProofs ---------------------------
(***************************************************************************)
(* Theorems about TcpClient for every first delay and every limit.         *)
(***************************************************************************)
EXTENDS TcpClient, TLAPS

\* The fd is the client's until the connection is destroyed, which is after
\* the loop, and the destructor leaves no connection behind.
Ownership ==
    /\ pc \in {"new", "check", "handle", "left", "threw"} => holder = "client"
    /\ pc \in {"connGone", "gone"} => conn = "none"
    /\ pc = "new" => conn = "none" /\ due # "no"

IInv == TypeOK /\ OneConnection /\ Ownership

LEMMA InitInv == Init => IInv
<1> SUFFICES ASSUME Init PROVE IInv
  OBVIOUS
<1>1. FirstDelay \in FirstDelay..2 * MaxDelay
  BY ClientAssumption
<1>2. TypeOK
  BY <1>1 DEF Init, TypeOK
<1>3. OneConnection
  BY DEF Init, OneConnection
<1>4. Ownership
  BY DEF Init, Ownership
<1>5. QED
  BY <1>2, <1>3, <1>4 DEF IInv

\* A retry is due again, or the exception ends the client: the delay at most
\* doubles once it has passed the limit.
LEMMA ConnectPeerStep == IInv /\ ConnectPeer => IInv'
<1> SUFFICES ASSUME IInv, ConnectPeer PROVE IInv'
  OBVIOUS
<1> USE ClientAssumption
<1>1. TypeOK /\ OneConnection /\ Ownership
  BY DEF IInv
<1>2. CASE ConnectFails
  <2>1. /\ pc = "handle" /\ due # "no" /\ conn = "none" /\ holder = "client"
        /\ sock' \in {"idle", "connecting"}
        /\ UNCHANGED <<isLoop, conn, up, holder>>
    BY <1>1, <1>2 DEF ConnectFails, AfterFailure, TypeOK, OneConnection, Ownership
  <2>2. CASE delay <= MaxDelay
    <3>1. due' = "timer" /\ delay' = 2 * delay /\ pc' = "check"
      BY <1>1, <1>2, <2>2 DEF ConnectFails, Retry, TypeOK
    <3>2. delay' \in FirstDelay..2 * MaxDelay
      BY <1>1, <2>2, <3>1 DEF TypeOK
    <3>3. QED
      BY <1>1, <2>1, <3>1, <3>2 DEF IInv, TypeOK, OneConnection, Ownership
  <2>3. CASE ~(delay <= MaxDelay)
    <3>1. due' = "no" /\ delay' = delay /\ pc' = "threw"
      BY <1>2, <2>3 DEF ConnectFails, Retry
    <3>2. QED
      BY <1>1, <2>1, <3>1 DEF IInv, TypeOK, OneConnection, Ownership
  <2>4. QED
    BY <2>2, <2>3
<1>3. CASE Connects
  BY <1>1, <1>3 DEF Connects, IInv, TypeOK, OneConnection, Ownership
<1>4. QED
  BY <1>2, <1>3 DEF ConnectPeer

LEMMA NextStep == IInv /\ [Next]_vars => IInv'
<1> SUFFICES ASSUME IInv, [Next]_vars PROVE IInv'
  OBVIOUS
<1> USE DEF IInv, TypeOK, OneConnection, Ownership
<1>1. CASE Run \/ Check \/ Idle
  <2>1. CASE Run
    BY <2>1 DEF Run
  <2>2. CASE Check
    BY <2>2 DEF Check
  <2>3. CASE Idle
    BY <2>3 DEF Idle
  <2>4. QED
    BY <1>1, <2>1, <2>2, <2>3
<1>2. CASE ConnCloses \/ Stop
  BY <1>2 DEF ConnCloses, Stop
<1>3. CASE DestroyConn \/ DestroyConnector
  BY <1>3 DEF DestroyConn, DestroyConnector
<1>4. CASE Answer \/ PeerResets \/ ServerChanges
  <2>1. CASE Answer
    BY <2>1 DEF Answer
  <2>2. CASE PeerResets
    BY <2>2 DEF PeerResets
  <2>3. CASE ServerChanges
    BY <2>3 DEF ServerChanges
  <2>4. QED
    BY <1>4, <2>1, <2>2, <2>3
<1>5. CASE OtherOpens \/ OtherCloses
  BY <1>5 DEF OtherOpens, OtherCloses
<1>6. CASE UNCHANGED vars
  BY <1>6 DEF vars
<1>7. QED
  BY <1>1, <1>2, <1>3, <1>4, <1>5, <1>6, ConnectPeerStep DEF Next, ClientStep

-----------------------------------------------------------------------------
\* The delay of the connector stays below twice its limit, whatever the two
\* constants are.
THEOREM TypeCorrect == Spec => []TypeOK
<1>1. IInv => TypeOK
  BY DEF IInv
<1>2. QED
  BY <1>1, InitInv, NextStep, PTL DEF Spec

\* One attempt is due until there is a connection and none after, and the
\* connection keeps its fd as long as it lives.
THEOREM ConnectsOnce == Spec => []OneConnection
<1>1. IInv => OneConnection
  BY DEF IInv
<1>2. QED
  BY <1>1, InitInv, NextStep, PTL DEF Spec
=============================================================================
