----------------------------- MODULE LoggerProofs -----------------------------
(***************************************************************************)
(* Theorems about the Logger for every number of writers, every size of    *)
(* log, block and pool of blocks: what reaches the file is in order, only  *)
(* a trim loses a log, and the destructor leaves nothing behind.           *)
(***************************************************************************)
EXTENDS Logger, SequenceTheorems, TLAPS

-----------------------------------------------------------------------------
(* The inductive invariant.                                                 *)

FlushLabels == {"trim", "write", "move"}

\* Where each thread may be.  The destructor starts when no writer is under way
\* and flushes when the flusher has ended.
Roles ==
    /\ \A w \in Writers : pc[w] \in Labels \ {"check", "wait"}
    /\ pc[Flusher] # "copy"
    /\ pc[Owner] \notin {"copy", "check"}
    /\ pc[Owner] # "idle" => \A w \in Writers : pc[w] = "idle"
    /\ pc[Owner] \notin {"idle", "wait"} => pc[Flusher] = "done"

\* A writer holds the mutex while it copies, the flusher while it flushes.
Mutex ==
    /\ \A w \in Writers : pc[w] = "copy" <=> mu = w
    /\ pc[Flusher] \in FlushLabels \cup {"check"} => mu = Flusher
    /\ mu # Owner
    /\ mu \in Writers => nLogs >= 1 /\ job.remain >= 1

\* Without a FATAL log no writer flushes and no list is found empty.
Calm ==
    ~fatal => /\ \A w \in Writers : pc[w] \in {"idle", "copy"}
              /\ pc[Flusher] # "broken" /\ pc[Owner] # "broken"
              /\ ~job.fatal

\* Empty blocks are empty, and so is the first block from its write to its move.
Lists ==
    ~fatal => /\ \A i \in DOMAIN emptyList : emptyList[i] = NewBlock
              /\ \A t \in {Flusher, Owner} :
                    /\ pc[t] \in {"write", "move"} => bufList # <<>>
                    /\ pc[t] = "move" => bufList[1] = NewBlock
              /\ pc[Owner] = "done" => bufList = <<>>

\* A log that did not fit has filled the last block, so that the next round
\* takes an empty one, in which it does fit.
Copying ==
    ~fatal /\ mu \in Writers =>
        /\ job.remain <= sizes[nLogs]
        /\ job.remain < sizes[nLogs] =>
              bufList # <<>> /\ bufList[Len(bufList)].writen = BlockSize

IInv == /\ TypeOK /\ Roles /\ Mutex /\ Calm /\ Lists /\ Copying
        /\ FileInOrder /\ NothingLost

LEMMA InitInv == Init => IInv
<1> SUFFICES ASSUME Init PROVE IInv
  OBVIOUS
<1> USE LoggerAssumption DEF Init
<1>1. TypeOK
  <2>1. bufList \in Seq(Blocks) /\ emptyList \in Seq(Blocks) /\ file \in Seq(Pieces)
    BY ONLY Init, EmptySeq DEF Init
  <2>2. sizes \in [1..nLogs -> Sizes]
    BY ONLY Init DEF Init
  <2>3. pc \in [Threads -> Labels]
    BY DEF Labels
  <2>4. mu \in Threads \cup {Nobody} /\ job \in [remain : 0..BlockSize, fatal : BOOLEAN]
    BY DEF NoJob
  <2>5. nLogs \in 0..MaxLogs
    OBVIOUS
  <2>6. running \in BOOLEAN /\ fatal \in BOOLEAN /\ dropped \subseteq 1..nLogs
    OBVIOUS
  <2>7. QED
    BY <2>1, <2>2, <2>3, <2>4, <2>5, <2>6 DEF TypeOK
<1>2. Roles /\ Mutex /\ Calm
  BY DEF Roles, Mutex, Calm, Threads, Labels, FlushLabels, NoJob
<1>3. Lists /\ Copying
  BY DEF Lists, Copying, Threads
<1>4. FileInOrder /\ NothingLost
  BY DEF FileInOrder, NothingLost, Ordered
<1>5. QED
  BY <1>1, <1>2, <1>3, <1>4 DEF IInv

-----------------------------------------------------------------------------
(* Steps that leave the blocks alone.                                       *)

\* The flusher waits for the mutex or for blocks, the destructor for the flusher.
LEMMA QuietStep ==
  ASSUME IInv,
         \/ FlusherLocks \/ FlusherChecks \/ WaitReturns \/ Destroy \/ Join
         \/ UNCHANGED vars
  PROVE  IInv'
<1> USE LoggerAssumption DEF FlusherLocks, FlusherChecks, WaitReturns, Destroy, Join,
        vars, logVars
<1>1. UNCHANGED <<bufList, emptyList, job, file, dropped, nLogs, sizes, fatal>>
  OBVIOUS
<1>2. TypeOK'
  <2>1. running' \in BOOLEAN /\ mu' \in Threads \cup {Nobody}
    BY DEF IInv, TypeOK, Threads
  <2>2. pc' \in [Threads -> Labels]
    <3>1. PICK t \in Threads, l \in Labels : pc' = [pc EXCEPT ![t] = l] \/ pc' = pc
      BY DEF Threads, Labels
    <3>2. QED
      BY ONLY <3>1, IInv DEF IInv, TypeOK
  <2>3. QED
    BY <1>1, <2>1, <2>2 DEF IInv, TypeOK, Pieces, Blocks
<1>3. /\ \A w \in Writers : pc'[w] = pc[w] /\ (mu' = w <=> mu = w)
      /\ pc' \in [Threads -> Labels]
      /\ Writers \subseteq Threads /\ Flusher \in Threads /\ Owner \in Threads
  BY DEF IInv, TypeOK, Threads, Labels, Mutex, FlushLabels
<1>4. Roles'
  BY <1>3 DEF IInv, TypeOK, Roles, Labels
<1>5. Mutex'
  BY <1>1, <1>3 DEF IInv, TypeOK, Mutex, FlushLabels
<1>6. Calm'
  BY <1>1, <1>3 DEF IInv, TypeOK, Calm, Labels
<1>7. /\ pc'[Flusher] \notin {"write", "move"} \/ pc'[Flusher] = pc[Flusher]
      /\ pc'[Owner] \notin {"write", "move", "done"} \/ pc'[Owner] = pc[Owner]
  BY <1>3 DEF IInv, TypeOK
<1>8. Lists'
  BY <1>1, <1>7 DEF IInv, Lists
<1>9. Copying'
  BY <1>1, <1>3 DEF IInv, Copying
<1>10. (FileInOrder /\ NothingLost)'
  BY <1>1, <1>3 DEF IInv, FileInOrder, NothingLost, Ordered, Before, Complete
<1>11. QED
  BY <1>2, <1>4, <1>5, <1>6, <1>8, <1>9, <1>10 DEF IInv

\* A writer takes the mutex: the log has a number and is still to be copied.
LEMMA LockStep ==
  ASSUME IInv, NEW w \in Writers, NEW size \in Sizes, NEW f \in BOOLEAN,
         LockBuf(w, size, f)
  PROVE  IInv'
<1> USE LoggerAssumption DEF LockBuf
<1>1. /\ Writers \subseteq Threads /\ Flusher \in Threads /\ Owner \in Threads
      /\ size \in 1..BlockSize /\ nLogs \in Nat /\ nLogs' = nLogs + 1
      /\ nLogs' \in 0..MaxLogs
      /\ sizes' = Append(sizes, size)
  BY DEF IInv, TypeOK, Threads
<1>2. /\ sizes' \in [1..nLogs' -> Sizes] /\ sizes'[nLogs'] = size
      /\ \A log \in 1..nLogs : sizes'[log] = sizes[log]
  <2>1. sizes \in Seq(Sizes) /\ Len(sizes) = nLogs
    BY <1>1 DEF IInv, TypeOK
  <2>2. /\ sizes' \in Seq(Sizes) /\ Len(sizes') = nLogs'
        /\ \A log \in 1..Len(sizes) : sizes'[log] = sizes[log]
        /\ sizes'[Len(sizes) + 1] = size
    BY ONLY <1>1, <2>1, size \in Sizes, AppendProperties
  <2>3. sizes' \in [1..nLogs' -> Sizes]
    BY ONLY <2>2, LenProperties
  <2>4. QED
    BY ONLY <1>1, <2>1, <2>2, <2>3
<1>3. TypeOK'
  <2>1. Pieces \subseteq Pieces'
    BY <1>1 DEF Pieces
  <2>2. Seq(Pieces) \subseteq Seq(Pieces')
    BY <2>1, SeqMonotonic
  <2>3. Blocks \subseteq Blocks'
    BY <2>2 DEF Blocks
  <2>4. Seq(Blocks) \subseteq Seq(Blocks')
    BY <2>3, SeqMonotonic
  <2>5. bufList' \in Seq(Blocks') /\ emptyList' \in Seq(Blocks') /\ file' \in Seq(Pieces')
    BY <2>2, <2>4 DEF IInv, TypeOK
  <2>6. job' \in [remain : 0..BlockSize, fatal : BOOLEAN]
    BY <1>1
  <2>7. mu' \in Threads \cup {Nobody} /\ pc' \in [Threads -> Labels] /\ dropped' \subseteq 1..nLogs'
    BY <1>1 DEF IInv, TypeOK, Labels
  <2>8. running' \in BOOLEAN /\ fatal' \in BOOLEAN
    BY DEF IInv, TypeOK
  <2>9. QED
    BY <1>1, <1>2, <2>5, <2>6, <2>7, <2>8 DEF TypeOK
<1>4. /\ pc'[w] = "copy" /\ \A t \in Threads \ {w} : pc'[t] = pc[t]
      /\ w # Flusher /\ w # Owner /\ mu = Nobody /\ mu' = w /\ w # Nobody
      /\ pc[w] = "idle" /\ pc[Owner] = "idle"
  BY <1>1 DEF IInv, TypeOK, Threads
<1>5. Roles'
  BY <1>1, <1>4 DEF IInv, Roles, Labels
<1>6. Mutex'
  BY <1>1, <1>4 DEF IInv, Mutex, FlushLabels, Threads
<1>7. Calm'
  BY <1>1, <1>4 DEF IInv, TypeOK, Calm
<1>8. Lists'
  BY <1>1, <1>4 DEF IInv, TypeOK, Lists
<1>9. Copying'
  BY <1>1, <1>2 DEF Copying
<1>10. FileInOrder'
  BY DEF IInv, TypeOK, FileInOrder, Ordered, Before
<1>11. NothingLost'
  <2>1. SUFFICES ASSUME ~fatal, NEW log \in 1..nLogs
                 PROVE  \/ log \in dropped
                        \/ Complete(log, file)'
                        \/ \E i \in DOMAIN bufList : Complete(log, bufList[i].pieces)'
    BY <1>1, <1>4 DEF IInv, TypeOK, NothingLost
  <2>2. sizes'[log] = sizes[log] /\ mu \notin Writers
    BY <1>2, <1>4, <2>1 DEF Threads
  <2>3. QED
    BY <2>1, <2>2 DEF IInv, NothingLost, Complete, Piece
<1>12. QED
  BY <1>3, <1>5, <1>6, <1>7, <1>8, <1>9, <1>10, <1>11 DEF IInv

-----------------------------------------------------------------------------
(* Sequences of pieces in the order of their logs.                          *)

LEMMA OrderedConcat ==
  ASSUME NEW S, NEW s \in Seq(S), NEW t \in Seq(S), Ordered(s), Ordered(t), Before(s, t)
  PROVE  Ordered(s \o t)
<1> SUFFICES ASSUME NEW i \in DOMAIN (s \o t), NEW j \in DOMAIN (s \o t), i < j
             PROVE  (s \o t)[i].log <= (s \o t)[j].log
  BY DEF Ordered
<1>1. /\ i \in 1..Len(s) + Len(t) /\ j \in 1..Len(s) + Len(t)
      /\ Len(s) \in Nat /\ Len(t) \in Nat
      /\ DOMAIN s = 1..Len(s) /\ DOMAIN t = 1..Len(t)
      /\ \A k \in 1..Len(s) + Len(t) :
            (s \o t)[k] = IF k <= Len(s) THEN s[k] ELSE t[k - Len(s)]
  OBVIOUS
<1>2. CASE j <= Len(s)
  BY <1>1, <1>2 DEF Ordered
<1>3. CASE i <= Len(s) /\ j > Len(s)
  <2>1. j - Len(s) \in DOMAIN t /\ i \in DOMAIN s
    BY <1>1, <1>3
  <2>2. (s \o t)[i] = s[i] /\ (s \o t)[j] = t[j - Len(s)]
    BY <1>1, <1>3
  <2>3. QED
    BY <2>1, <2>2 DEF Before
<1>4. CASE i > Len(s)
  <2>1. i - Len(s) \in DOMAIN t /\ j - Len(s) \in DOMAIN t /\ i - Len(s) < j - Len(s)
    BY <1>1, <1>4
  <2>2. (s \o t)[i] = t[i - Len(s)] /\ (s \o t)[j] = t[j - Len(s)]
    BY <1>1, <1>4
  <2>3. QED
    BY <2>1, <2>2 DEF Ordered
<1>5. QED
  BY <1>1, <1>2, <1>3, <1>4

LEMMA BeforeConcat ==
  ASSUME NEW S, NEW s \in Seq(S), NEW t \in Seq(S), NEW u, Before(s, u), Before(t, u)
  PROVE  Before(s \o t, u)
<1> SUFFICES ASSUME NEW i \in DOMAIN (s \o t), NEW j \in DOMAIN u
             PROVE  (s \o t)[i].log <= u[j].log
  BY DEF Before
<1>1. /\ i \in 1..Len(s) + Len(t)
      /\ Len(s) \in Nat /\ Len(t) \in Nat
      /\ DOMAIN s = 1..Len(s) /\ DOMAIN t = 1..Len(t)
      /\ (s \o t)[i] = IF i <= Len(s) THEN s[i] ELSE t[i - Len(s)]
  OBVIOUS
<1>2. i <= Len(s) \/ i - Len(s) \in DOMAIN t
  BY <1>1
<1>3. QED
  BY <1>1, <1>2 DEF Before

\* A piece of the newest log may follow any pieces.
LEMMA OrderedAppend ==
  ASSUME NEW n \in Nat, NEW S, NEW s \in Seq(S), Ordered(s), NEW p,
         \A i \in DOMAIN s : s[i].log <= n, p.log = n
  PROVE  Ordered(Append(s, p))
<1> SUFFICES ASSUME NEW i \in DOMAIN Append(s, p), NEW j \in DOMAIN Append(s, p), i < j
             PROVE  Append(s, p)[i].log <= Append(s, p)[j].log
  BY DEF Ordered
<1>1. /\ i \in 1..Len(s) + 1 /\ j \in 1..Len(s) + 1 /\ Len(s) \in Nat
      /\ DOMAIN s = 1..Len(s)
      /\ \A k \in 1..Len(s) : Append(s, p)[k] = s[k]
      /\ Append(s, p)[Len(s) + 1] = p
  OBVIOUS
<1>2. i \in DOMAIN s /\ (j \in DOMAIN s \/ j = Len(s) + 1)
  BY <1>1
<1>3. QED
  BY <1>1, <1>2 DEF Ordered

LEMMA BeforeAppend ==
  ASSUME NEW n \in Nat, NEW S, NEW s \in Seq(S), NEW u, Before(u, s), NEW p,
         \A i \in DOMAIN u : u[i].log <= n, p.log = n
  PROVE  Before(u, Append(s, p))
<1> SUFFICES ASSUME NEW i \in DOMAIN u, NEW j \in DOMAIN Append(s, p)
             PROVE  u[i].log <= Append(s, p)[j].log
  BY DEF Before
<1>1. /\ j \in 1..Len(s) + 1 /\ Len(s) \in Nat /\ DOMAIN s = 1..Len(s)
      /\ \A k \in 1..Len(s) : Append(s, p)[k] = s[k]
      /\ Append(s, p)[Len(s) + 1] = p
  OBVIOUS
<1>2. j \in DOMAIN s \/ j = Len(s) + 1
  BY <1>1
<1>3. QED
  BY <1>1, <1>2 DEF Before

-----------------------------------------------------------------------------
(* The steps of flush_buf.                                                  *)

\* Thread t is inside flush_buf and goes on to label l.
LEMMA FlushMoves ==
  ASSUME IInv, NEW t \in Threads, pc[t] \in FlushLabels,
         NEW l \in FlushLabels \cup {"broken", AfterFlush(t)},
         l = "broken" => fatal,
         pc' = [pc EXCEPT ![t] = l],
         UNCHANGED <<mu, job, running, logVars>>
  PROVE  /\ pc' \in [Threads -> Labels]
         /\ Roles' /\ Mutex' /\ Calm'
<1> USE LoggerAssumption DEF logVars
<1>1. /\ pc \in [Threads -> Labels] /\ l \in Labels /\ l \notin {"copy", "idle", "wait"}
      /\ l = "check" => t = Flusher
      /\ Writers \subseteq Threads /\ Flusher \in Threads /\ Owner \in Threads
      /\ pc'[t] = l /\ \A u \in Threads \ {t} : pc'[u] = pc[u]
      /\ l \in {"check", "done"} => l = AfterFlush(t)
      /\ pc[t] \in {"trim", "write", "move"}
  BY DEF IInv, TypeOK, FlushLabels, AfterFlush, Labels, Threads
<1>2. pc' \in [Threads -> Labels]
  BY <1>1
<1>3. Roles'
  BY <1>1 DEF IInv, Roles, Labels, Threads
<1>4. Mutex'
  BY <1>1 DEF IInv, Mutex, FlushLabels, Threads, AfterFlush
<1>5. Calm'
  BY <1>1 DEF IInv, Calm, Threads
<1>6. QED
  BY <1>2, <1>3, <1>4, <1>5

\* Without a FATAL log the flusher and the destructor never flush together,
\* and no writer copies meanwhile.
LEMMA FlushAlone ==
  ASSUME IInv, ~fatal, NEW t \in Threads, pc[t] \in FlushLabels
  PROVE  /\ t \in {Flusher, Owner} /\ mu \notin Writers
         /\ t = Flusher => pc[Owner] \in {"idle", "wait"}
         /\ t = Owner => pc[Flusher] = "done"
<1> USE LoggerAssumption
<1>1. t \in {Flusher, Owner}
  BY DEF IInv, Calm, Threads, FlushLabels
<1>2. CASE t = Flusher
  BY <1>2 DEF IInv, Roles, Mutex, Threads, FlushLabels
<1>3. CASE t = Owner
  BY <1>3 DEF IInv, Roles, Mutex, Threads, FlushLabels
<1>4. QED
  BY <1>1, <1>2, <1>3

\* The trim drops blocks from the end of either list.
LEMMA TrimStep ==
  ASSUME IInv, NEW t \in Threads, Trim(t)
  PROVE  IInv'
<1> USE LoggerAssumption
<1> DEFINE over == Len(bufList) + Len(emptyList) - BlockNum
           kept == IF over > 0 /\ Len(bufList) > BlockNum
                   THEN Len(bufList) - BlockNum ELSE Len(bufList)
           l == IF kept > 0 THEN "write" ELSE AfterFlush(t)
<1>1. /\ bufList \in Seq(Blocks) /\ emptyList \in Seq(Blocks)
      /\ BlockNum \in Nat \ {0}
  BY DEF IInv, TypeOK
<1>2. /\ kept \in 0..Len(bufList) /\ over \in Int
      /\ kept = 0 => Len(bufList) = 0
  BY ONLY <1>1, LenProperties
<1>3. /\ bufList' = SubSeq(bufList, 1, kept)
      /\ emptyList' = IF over > 0 /\ over < Len(emptyList)
                      THEN SubSeq(emptyList, 1, over) ELSE emptyList
      /\ dropped' = dropped \cup UNION {LogsIn(bufList[i]) : i \in kept + 1..Len(bufList)}
      /\ pc[t] = "trim" /\ pc' = [pc EXCEPT ![t] = l]
      /\ UNCHANGED <<mu, job, running, file, nLogs, sizes, fatal>>
  BY DEF Trim, logVars
<1> HIDE DEF kept, over
<1>4. /\ bufList' \in Seq(Blocks) /\ Len(bufList') = kept
      /\ DOMAIN bufList' = 1..kept /\ DOMAIN bufList' \subseteq DOMAIN bufList
      /\ \A i \in DOMAIN bufList' : bufList'[i] = bufList[i]
  <2>1. kept \in Nat /\ kept <= Len(bufList) /\ Len(bufList) \in Nat
        /\ DOMAIN bufList = 1..Len(bufList)
    BY ONLY <1>1, <1>2, LenProperties
  <2>2. QED
    BY ONLY <1>1, <1>3, <2>1, SubSeqProperties
<1>5. /\ emptyList' \in Seq(Blocks)
      /\ DOMAIN emptyList' \subseteq DOMAIN emptyList
      /\ \A i \in DOMAIN emptyList' : emptyList'[i] = emptyList[i]
  <2>1. CASE over > 0 /\ over < Len(emptyList)
    <3>1. over \in Nat /\ over <= Len(emptyList) /\ Len(emptyList) \in Nat
          /\ DOMAIN emptyList = 1..Len(emptyList) /\ emptyList' = SubSeq(emptyList, 1, over)
      BY ONLY <1>1, <1>2, <1>3, <2>1, LenProperties
    <3>2. QED
      BY ONLY <1>1, <3>1, SubSeqProperties
  <2>2. QED
    BY ONLY <1>1, <1>3, <2>1
<1>6. pc' \in [Threads -> Labels] /\ Roles' /\ Mutex' /\ Calm'
  <2>1. pc[t] \in FlushLabels /\ l \in FlushLabels \cup {"broken", AfterFlush(t)} /\ l # "broken"
    BY <1>3 DEF FlushLabels, AfterFlush
  <2>2. QED
    BY <1>3, <2>1, FlushMoves DEF logVars
<1>7. TypeOK'
  <2>1. Pieces' = Pieces /\ Blocks' = Blocks
    BY <1>3 DEF Pieces, Blocks
  <2>2. dropped' \subseteq 1..nLogs
    <3>1. \A i \in kept + 1..Len(bufList) : LogsIn(bufList[i]) \subseteq 1..nLogs
      <4>1. ASSUME NEW i \in kept + 1..Len(bufList) PROVE LogsIn(bufList[i]) \subseteq 1..nLogs
        <5>1. bufList[i] \in Blocks
          BY ONLY <1>1, <1>2, <4>1, LenProperties, ElementOfSeq
        <5>2. bufList[i].pieces \in Seq(Pieces)
          BY <5>1 DEF Blocks
        <5>3. \A j \in DOMAIN bufList[i].pieces : bufList[i].pieces[j] \in Pieces
          BY ONLY <5>2, LenProperties, ElementOfSeq
        <5>4. QED
          BY <5>3 DEF LogsIn, Pieces
      <4>2. QED
        BY <4>1
    <3>2. dropped \subseteq 1..nLogs
      BY DEF IInv, TypeOK
    <3>3. \A log \in dropped' : log \in dropped
             \/ \E i \in kept + 1..Len(bufList) : log \in LogsIn(bufList[i])
      BY ONLY <1>3
    <3>4. QED
      BY ONLY <3>1, <3>2, <3>3
  <2>3. QED
    BY <1>3, <1>4, <1>5, <1>6, <2>1, <2>2 DEF IInv, TypeOK
<1>8. ASSUME ~fatal
      PROVE  Lists' /\ Copying' /\ FileInOrder' /\ NothingLost'
  <2>1. /\ t \in {Flusher, Owner} /\ mu \notin Writers
        /\ t = Flusher => pc[Owner] \in {"idle", "wait"}
        /\ t = Owner => pc[Flusher] = "done"
    BY <1>3, <1>8, FlushAlone DEF FlushLabels
  <2>2. /\ pc'[t] = l /\ \A u \in Threads \ {t} : pc'[u] = pc[u]
        /\ Flusher \in Threads /\ Owner \in Threads
    BY <1>3 DEF IInv, TypeOK, Threads
  <2>3. Lists'
    <3>1. \A i \in DOMAIN emptyList' : emptyList'[i] = NewBlock
      BY <1>5, <1>8 DEF IInv, Lists
    <3>2. \A u \in {Flusher, Owner} :
             /\ pc'[u] \in {"write", "move"} => u = t /\ kept > 0
             /\ pc'[u] # "move"
             /\ pc'[u] = "done" => u = Flusher \/ kept = 0
      BY <1>2, <2>1, <2>2 DEF AfterFlush
    <3>3. kept > 0 => bufList' # <<>>
      BY <1>4
    <3>4. kept = 0 => bufList' = <<>>
      BY ONLY <1>4, EmptySeq
    <3>5. QED
      BY <3>1, <3>2, <3>3, <3>4 DEF Lists
  <2>4. Copying'
    BY <1>3, <2>1 DEF Copying
  <2>5. FileInOrder'
    BY <1>3, <1>4, <1>8 DEF IInv, FileInOrder
  <2>6. NothingLost'
    <3>1. SUFFICES ASSUME NEW log \in 1..nLogs, log \notin dropped',
                          NEW i \in DOMAIN bufList, Complete(log, bufList[i].pieces)
                   PROVE  \E k \in DOMAIN bufList' : Complete(log, bufList'[k].pieces)
      <4>1. /\ nLogs' = nLogs /\ sizes' = sizes /\ file' = file
            /\ dropped \subseteq dropped'
            /\ ~(mu \in Writers) /\ ~fatal
        BY ONLY <1>3, <1>8, <2>1
      <4>2. \A log \in 1..nLogs : \/ log \in dropped
                                  \/ Complete(log, file)
                                  \/ \E i \in DOMAIN bufList : Complete(log, bufList[i].pieces)
        BY <4>1 DEF IInv, NothingLost
      <4>3. QED
        BY ONLY <3>1, <4>1, <4>2 DEF NothingLost, Complete
    <3>2. log \in LogsIn(bufList[i])
      BY <3>1 DEF Complete, Piece, LogsIn
    <3>3. i \notin kept + 1..Len(bufList)
      BY <1>3, <3>1, <3>2
    <3>4. i \in DOMAIN bufList'
      BY ONLY <1>1, <1>2, <1>4, <3>1, <3>3, LenProperties
    <3>5. QED
      BY <1>4, <3>1, <3>4
  <2>7. QED
    BY <2>3, <2>4, <2>5, <2>6
<1>9. QED
  BY <1>3, <1>6, <1>7, <1>8 DEF IInv, Lists, Copying, FileInOrder, NothingLost

\* The first block's pieces are now those at the end of the file.
LEMMA WriteStep ==
  ASSUME IInv, NEW t \in Threads, WriteFront(t)
  PROVE  IInv'
<1> USE LoggerAssumption
<1> DEFINE l == IF bufList = <<>> THEN "broken" ELSE "move"
<1>1. /\ pc[t] = "write" /\ pc' = [pc EXCEPT ![t] = l]
      /\ UNCHANGED <<emptyList, mu, job, running, dropped, nLogs, sizes, fatal>>
      /\ bufList = <<>> => UNCHANGED <<file, bufList>>
      /\ bufList # <<>> => /\ file' = file \o bufList[1].pieces
                           /\ bufList' = [bufList EXCEPT ![1] = NewBlock]
  BY DEF WriteFront, logVars
<1>2. pc[t] \in FlushLabels /\ (l = "broken" => fatal)
  BY <1>1 DEF IInv, Lists, Calm, FlushLabels, Threads
<1>3. pc' \in [Threads -> Labels] /\ Roles' /\ Mutex' /\ Calm'
  BY <1>1, <1>2, FlushMoves DEF logVars, FlushLabels
<1>4. /\ bufList \in Seq(Blocks) /\ file \in Seq(Pieces) /\ NewBlock \in Blocks
  BY EmptySeq DEF IInv, TypeOK, NewBlock, Blocks
<1>5. ASSUME bufList # <<>>
      PROVE  /\ 1 \in DOMAIN bufList /\ DOMAIN bufList' = DOMAIN bufList
             /\ bufList[1].pieces \in Seq(Pieces)
             /\ bufList' \in Seq(Blocks) /\ file' \in Seq(Pieces)
             /\ bufList'[1] = NewBlock
             /\ \A i \in DOMAIN bufList : i # 1 => bufList'[i] = bufList[i]
             /\ bufList' # <<>>
  <2>1. 1 \in DOMAIN bufList /\ 1 \in 1..Len(bufList) /\ Len(bufList) \in Nat
    <3>1. Len(bufList) \in Nat /\ Len(bufList) # 0 /\ DOMAIN bufList = 1..Len(bufList)
      BY ONLY <1>4, <1>5, EmptySeq, LenProperties
    <3>2. QED
      BY ONLY <3>1
  <2>2. bufList[1] \in Blocks
    BY ONLY <1>4, <2>1, ElementOfSeq
  <2>3. bufList[1].pieces \in Seq(Pieces)
    BY <2>2 DEF Blocks
  <2>4. /\ bufList' \in Seq(Blocks) /\ Len(bufList') = Len(bufList)
        /\ \A i \in 1..Len(bufList) : bufList'[i] = IF i = 1 THEN NewBlock ELSE bufList[i]
    <3>1. bufList' = [bufList EXCEPT ![1] = NewBlock]
      BY ONLY <1>1, <1>5
    <3>2. /\ [bufList EXCEPT ![1] = NewBlock] \in Seq(Blocks)
          /\ Len([bufList EXCEPT ![1] = NewBlock]) = Len(bufList)
          /\ \A i \in 1..Len(bufList) : [bufList EXCEPT ![1] = NewBlock][i] =
                                           IF i = 1 THEN NewBlock ELSE bufList[i]
      BY ONLY <1>4, <2>1, ExceptSeq
    <3>3. QED
      BY ONLY <3>1, <3>2
  <2>5. DOMAIN bufList' = 1..Len(bufList) /\ DOMAIN bufList = 1..Len(bufList)
    BY ONLY <1>4, <2>4, LenProperties
  <2>6. bufList' # <<>>
    BY ONLY <2>1, <2>4, EmptySeq
  <2>7. file' \in Seq(Pieces)
    <3>1. file' = file \o bufList[1].pieces
      BY ONLY <1>1, <1>5
    <3>2. QED
      BY ONLY <1>4, <2>3, <3>1, ConcatProperties
  <2>8. QED
    BY ONLY <2>1, <2>3, <2>4, <2>5, <2>6, <2>7
<1>6. TypeOK'
  <2>1. Pieces' = Pieces /\ Blocks' = Blocks
    BY <1>1 DEF Pieces, Blocks
  <2>2. QED
    BY <1>1, <1>3, <1>4, <1>5, <2>1 DEF IInv, TypeOK
<1>7. ASSUME ~fatal
      PROVE  Lists' /\ Copying' /\ FileInOrder' /\ NothingLost'
  <2>1. /\ t \in {Flusher, Owner} /\ mu \notin Writers
        /\ t = Flusher => pc[Owner] \in {"idle", "wait"}
        /\ t = Owner => pc[Flusher] = "done"
    BY <1>2, <1>7, FlushAlone
  <2>2. bufList # <<>>
    BY <1>2, <1>7
  <2>3. Lists'
    <3>1. \A u \in {Flusher, Owner} :
             /\ pc'[u] # "write"
             /\ u = Owner => pc'[u] # "done"
      BY <1>1, <2>1, <2>2 DEF IInv, TypeOK, Threads
    <3>2. \A i \in DOMAIN emptyList' : emptyList'[i] = NewBlock
      BY <1>1, <1>7 DEF IInv, Lists
    <3>3. QED
      BY <1>5, <2>2, <3>1, <3>2 DEF Lists
  <2>4. Copying'
    BY <1>1, <2>1 DEF Copying
  <2> DEFINE front == bufList[1].pieces
  <2>5. /\ Ordered(file) /\ Ordered(front) /\ Before(file, front)
        /\ \A i \in DOMAIN bufList :
              /\ Ordered(bufList[i].pieces)
              /\ Before(file, bufList[i].pieces)
              /\ i # 1 => Before(front, bufList[i].pieces)
              /\ \A j \in DOMAIN bufList :
                    i < j => Before(bufList[i].pieces, bufList[j].pieces)
    <3>1. \A i \in DOMAIN bufList : i # 1 => 1 < i
      BY ONLY <1>4, LenProperties
    <3>2. QED
      BY <1>5, <1>7, <2>2, <3>1 DEF IInv, FileInOrder
  <2>6. file' = file \o front /\ front \in Seq(Pieces)
    BY <1>1, <1>5, <2>2
  <2>7. FileInOrder'
    <3> HIDE DEF front
    <3>1. Ordered(file')
      BY <1>4, <2>5, <2>6, OrderedConcat
    <3>2. \A i \in DOMAIN bufList : i # 1 => Before(file', bufList[i].pieces)
      BY <1>4, <2>5, <2>6, BeforeConcat
    <3>3. bufList'[1].pieces = <<>>
      BY <1>5, <2>2 DEF NewBlock
    <3>4. Ordered(<<>>) /\ \A s : Before(s, <<>>) /\ Before(<<>>, s)
      BY DEF Ordered, Before
    <3>5. \A i \in DOMAIN bufList' : /\ Ordered(bufList'[i].pieces)
                                     /\ Before(file', bufList'[i].pieces)
      BY <1>5, <2>2, <2>5, <3>2, <3>3, <3>4
    <3>6. \A i, j \in DOMAIN bufList' :
             i < j => Before(bufList'[i].pieces, bufList'[j].pieces)
      BY <1>5, <2>2, <2>5, <3>3, <3>4
    <3>7. QED
      BY <3>1, <3>5, <3>6 DEF FileInOrder
  <2>8. NothingLost'
    <3>1. \A log \in 1..nLogs : \/ log \in dropped
                                \/ Complete(log, file)
                                \/ \E i \in DOMAIN bufList : Complete(log, bufList[i].pieces)
      BY <1>7, <2>1 DEF IInv, NothingLost
    <3>2. \A log : Complete(log, file) \/ Complete(log, front) => Complete(log, file')
      <4> HIDE DEF front
      <4>1. /\ \A k \in DOMAIN file : k \in DOMAIN file' /\ file'[k] = file[k]
            /\ \A k \in DOMAIN front :
                  Len(file) + k \in DOMAIN file' /\ file'[Len(file) + k] = front[k]
        BY ONLY <1>4, <2>6, ConcatProperties, LenProperties
      <4>2. QED
        BY <4>1 DEF Complete
    <3>3. \A log \in 1..nLogs :
             \/ log \in dropped
             \/ Complete(log, file')
             \/ \E i \in DOMAIN bufList' : Complete(log, bufList'[i].pieces)
      <4>1. ASSUME NEW log \in 1..nLogs, NEW i \in DOMAIN bufList,
                   Complete(log, bufList[i].pieces), ~Complete(log, file')
            PROVE  Complete(log, bufList'[i].pieces) /\ i \in DOMAIN bufList'
        <5>1. i # 1
          BY <3>2, <4>1
        <5>2. QED
          BY <1>5, <2>2, <4>1, <5>1
      <4>2. QED
        BY <3>1, <3>2, <4>1
    <3>4. QED
      BY ONLY <1>1, <3>3 DEF NothingLost, Complete
  <2>9. QED
    BY <2>3, <2>4, <2>7, <2>8
<1>8. QED
  BY <1>1, <1>3, <1>6, <1>7 DEF IInv, Lists, Copying, FileInOrder, NothingLost

\* The emptied block leaves buf_list.
LEMMA MoveStep ==
  ASSUME IInv, NEW t \in Threads, MoveFront(t)
  PROVE  IInv'
<1> USE LoggerAssumption
<1> DEFINE l == IF bufList = <<>> THEN "broken"
                ELSE IF bufList' # <<>> /\ t # Flusher THEN "trim" ELSE AfterFlush(t)
<1>1. /\ pc[t] = "move" /\ pc' = [pc EXCEPT ![t] = l]
      /\ UNCHANGED <<mu, job, running, file, dropped, nLogs, sizes, fatal>>
      /\ bufList = <<>> => UNCHANGED <<bufList, emptyList>>
      /\ bufList # <<>> => /\ emptyList' = Append(emptyList, Head(bufList))
                           /\ bufList' = Tail(bufList)
  BY DEF MoveFront, logVars
<1>2. pc[t] \in FlushLabels /\ (l = "broken" => fatal)
  BY <1>1 DEF IInv, Lists, Calm, FlushLabels, Threads, AfterFlush
<1>3. pc' \in [Threads -> Labels] /\ Roles' /\ Mutex' /\ Calm'
  <2>1. l \in FlushLabels \cup {"broken", AfterFlush(t)}
    BY DEF FlushLabels
  <2>2. QED
    BY <1>1, <1>2, <2>1, FlushMoves DEF logVars
<1>4. bufList \in Seq(Blocks) /\ emptyList \in Seq(Blocks)
  BY DEF IInv, TypeOK
<1>5. ASSUME bufList # <<>>
      PROVE  /\ Head(bufList) = bufList[1] /\ Head(bufList) \in Blocks
             /\ bufList' \in Seq(Blocks)
             /\ Len(bufList') = Len(bufList) - 1
             /\ \A i \in DOMAIN bufList' : i \in Nat /\ i + 1 \in DOMAIN bufList
                                             /\ bufList'[i] = bufList[i + 1]
             /\ \A i \in DOMAIN bufList : i # 1 => i - 1 \in DOMAIN bufList'
                                             /\ bufList'[i - 1] = bufList[i]
  <2>1. /\ Len(bufList) \in Nat /\ Len(bufList) >= 1 /\ DOMAIN bufList = 1..Len(bufList)
    BY ONLY <1>4, <1>5, EmptySeq, LenProperties
  <2>2. /\ bufList' \in Seq(Blocks) /\ Len(bufList') = Len(bufList) - 1
        /\ Head(bufList) = bufList[1] /\ Head(bufList) \in Blocks
        /\ \A i \in 1..Len(bufList') : bufList'[i] = bufList[i + 1]
    <3>1. bufList' = Tail(bufList)
      BY ONLY <1>1, <1>5
    <3>2. Head(bufList) = bufList[1]
      BY ONLY <1>4, <1>5
    <3>3. QED
      BY ONLY <1>4, <1>5, <3>1, <3>2, HeadTailProperties
  <2>3. DOMAIN bufList' = 1..Len(bufList) - 1
    BY ONLY <2>2, LenProperties
  <2>4. QED
    BY ONLY <2>1, <2>2, <2>3
<1>6. ASSUME bufList # <<>>
      PROVE  /\ emptyList' \in Seq(Blocks)
             /\ \A i \in DOMAIN emptyList' :
                   \/ i \in DOMAIN emptyList /\ emptyList'[i] = emptyList[i]
                   \/ emptyList'[i] = Head(bufList)
  <2>1. emptyList' = Append(emptyList, Head(bufList)) /\ Head(bufList) \in Blocks
    BY ONLY <1>1, <1>5, <1>6
  <2>2. /\ emptyList' \in Seq(Blocks) /\ Len(emptyList') = Len(emptyList) + 1
        /\ \A i \in 1..Len(emptyList) : emptyList'[i] = emptyList[i]
        /\ emptyList'[Len(emptyList) + 1] = Head(bufList)
    BY ONLY <1>4, <2>1, AppendProperties
  <2>3. /\ Len(emptyList) \in Nat /\ DOMAIN emptyList = 1..Len(emptyList)
        /\ DOMAIN emptyList' = 1..Len(emptyList) + 1
    BY ONLY <1>4, <2>2, LenProperties
  <2>4. QED
    BY ONLY <2>2, <2>3
<1>7. TypeOK'
  <2>1. Pieces' = Pieces /\ Blocks' = Blocks
    BY <1>1 DEF Pieces, Blocks
  <2>2. QED
    BY <1>1, <1>3, <1>4, <1>5, <1>6, <2>1 DEF IInv, TypeOK
<1>8. ASSUME ~fatal
      PROVE  Lists' /\ Copying' /\ FileInOrder' /\ NothingLost'
  <2>1. /\ t \in {Flusher, Owner} /\ mu \notin Writers
        /\ t = Flusher => pc[Owner] \in {"idle", "wait"}
        /\ t = Owner => pc[Flusher] = "done"
    BY <1>2, <1>8, FlushAlone
  <2>2. bufList # <<>> /\ bufList[1] = NewBlock
    BY <1>1, <1>2, <1>8, <2>1 DEF IInv, Lists
  <2>3. Lists'
    <3>1. \A u \in {Flusher, Owner} :
             /\ pc'[u] \notin {"write", "move"}
             /\ u = Owner /\ pc'[u] = "done" => bufList' = <<>>
      BY <1>1, <2>1, <2>2 DEF IInv, TypeOK, Threads, AfterFlush
    <3>2. \A i \in DOMAIN emptyList' : emptyList'[i] = NewBlock
      BY <1>5, <1>6, <1>8, <2>2 DEF IInv, Lists
    <3>3. QED
      BY <3>1, <3>2 DEF Lists
  <2>4. Copying'
    BY <1>1, <2>1 DEF Copying
  <2>5. FileInOrder'
    <3>1. \A i, j \in DOMAIN bufList' : i < j => i + 1 < j + 1
      BY <1>5, <2>2
    <3>2. QED
      BY <1>1, <1>5, <1>8, <2>2, <3>1 DEF IInv, FileInOrder
  <2>6. NothingLost'
    <3>1. \A log \in 1..nLogs : \/ log \in dropped
                                \/ Complete(log, file)
                                \/ \E i \in DOMAIN bufList : Complete(log, bufList[i].pieces)
      BY <1>8, <2>1 DEF IInv, NothingLost
    <3>2. \A log : ~Complete(log, bufList[1].pieces)
      BY <2>2 DEF Complete, NewBlock
    <3>3. \A log \in 1..nLogs :
             \/ log \in dropped
             \/ Complete(log, file)
             \/ \E i \in DOMAIN bufList' : Complete(log, bufList'[i].pieces)
      <4>1. ASSUME NEW log \in 1..nLogs, NEW i \in DOMAIN bufList,
                   Complete(log, bufList[i].pieces)
            PROVE  \E k \in DOMAIN bufList' : Complete(log, bufList'[k].pieces)
        <5>1. i # 1
          BY <3>2, <4>1
        <5>2. QED
          BY <1>5, <2>2, <4>1, <5>1
      <4>2. QED
        BY <3>1, <4>1
    <3>4. QED
      BY ONLY <1>1, <3>3 DEF NothingLost, Complete
  <2>7. QED
    BY <2>3, <2>4, <2>5, <2>6
<1>9. QED
  BY <1>1, <1>3, <1>7, <1>8 DEF IInv, Lists, Copying, FileInOrder, NothingLost

-----------------------------------------------------------------------------
(* The copy of a log, block by block.                                       *)

\* The round's block and piece are well formed, and the piece fits.
LEMMA RoundTypes ==
  ASSUME IInv, NEW w \in Writers, CopyRound(w)
  PROVE  /\ mu = w /\ nLogs \in 1..MaxLogs /\ sizes[nLogs] \in 1..BlockSize
         /\ job.remain \in 1..BlockSize /\ BlockSize \in Nat
         /\ Target \in Blocks
         /\ Target.writen \in 0..BlockSize /\ Target.pieces \in Seq(Pieces)
         /\ ~Take => bufList # <<>> /\ Target = bufList[Len(bufList)]
                     /\ Target.writen # BlockSize
         /\ Take => Target = NewBlock \/ (emptyList # <<>> /\ Target = emptyList[1])
         /\ Take <=> bufList = <<>> \/ bufList[Len(bufList)].writen = BlockSize
<1> USE LoggerAssumption
<1>1. /\ bufList \in Seq(Blocks) /\ emptyList \in Seq(Blocks)
      /\ job \in [remain : 0..BlockSize, fatal : BOOLEAN]
      /\ nLogs \in 0..MaxLogs /\ sizes \in [1..nLogs -> Sizes]
  BY DEF IInv, TypeOK
<1>2. mu = w /\ nLogs >= 1 /\ job.remain >= 1
  BY DEF IInv, Mutex, CopyRound
<1>3. nLogs \in 1..MaxLogs /\ sizes[nLogs] \in 1..BlockSize
  <2>1. nLogs \in 1..nLogs /\ nLogs \in 1..MaxLogs /\ Sizes \subseteq 1..BlockSize
    BY ONLY <1>1, <1>2, LoggerAssumption DEF LoggerAssumption
  <2>2. QED
    BY ONLY <1>1, <2>1
<1>4. NewBlock \in Blocks
  BY EmptySeq DEF NewBlock, Blocks
<1>5. /\ bufList # <<>> => bufList[Len(bufList)] \in Blocks
      /\ emptyList # <<>> => Head(emptyList) \in Blocks /\ Head(emptyList) = emptyList[1]
  <2>1. bufList # <<>> => Len(bufList) \in 1..Len(bufList)
    BY ONLY <1>1, EmptySeq, LenProperties
  <2>2. QED
    BY ONLY <1>1, <2>1, ElementOfSeq, HeadTailProperties
<1>6. Take <=> bufList = <<>> \/ bufList[Len(bufList)].writen = BlockSize
  BY DEF Take
<1>7. /\ Target \in Blocks
      /\ ~Take => Target = bufList[Len(bufList)]
      /\ Take => Target = NewBlock \/ (emptyList # <<>> /\ Target = emptyList[1])
  <2>1. CASE ~Take
    BY <1>5, <1>6, <2>1 DEF Target, Reuse
  <2>2. CASE Take
    <3>1. CASE emptyList # <<>>
      BY ONLY <1>5, <2>2, <3>1 DEF Target, Reuse
    <3>2. CASE emptyList = <<>>
      <4>1. Target = NewBlock
        BY ONLY <2>2, <3>2 DEF Target, Reuse
      <4>2. QED
        BY ONLY <1>4, <2>2, <4>1
    <3>3. QED
      BY ONLY <3>1, <3>2
  <2>3. QED
    BY <2>1, <2>2
<1>8. Target.writen \in 0..BlockSize /\ Target.pieces \in Seq(Pieces)
  BY <1>7 DEF Blocks
<1>9. job.remain \in 1..BlockSize
  BY <1>1, <1>2
<1>10. QED
  BY <1>2, <1>3, <1>6, <1>7, <1>8, <1>9

\* What the round copies, the block it makes, and that block's place.
CopiedLen == IF sizes[nLogs] <= BlockSize - Target.writen
             THEN sizes[nLogs] ELSE BlockSize - Target.writen
LastBlock == Copied(Target, Piece(nLogs, CopiedLen))
LastIndex == IF Take THEN Len(bufList) + 1 ELSE Len(bufList)

LEMMA RoundLists ==
  ASSUME IInv, NEW w \in Writers, CopyRound(w)
  PROVE  /\ CopiedLen \in 0..sizes[nLogs]
         /\ CopiedLen # sizes[nLogs] => LastBlock.writen = BlockSize
         /\ LastBlock \in Blocks
         /\ LastBlock.pieces = Append(Target.pieces, Piece(nLogs, CopiedLen))
         /\ LastIndex \in Nat \ {0}
         /\ bufList' \in Seq(Blocks) /\ Len(bufList') = LastIndex
         /\ DOMAIN bufList' = 1..LastIndex
         /\ bufList'[LastIndex] = LastBlock
         /\ ~Take => LastIndex \in DOMAIN bufList /\ Target = bufList[LastIndex]
         /\ Take => DOMAIN bufList = 1..LastIndex - 1
         /\ \A i \in 1..LastIndex - 1 : i \in DOMAIN bufList /\ bufList'[i] = bufList[i]
         /\ \A i \in DOMAIN bufList : i \in DOMAIN bufList' /\ (i = LastIndex => ~Take)
         /\ emptyList' \in Seq(Blocks)
         /\ \A i \in DOMAIN emptyList' :
               \E k \in DOMAIN emptyList : emptyList'[i] = emptyList[k]
<1> USE LoggerAssumption
<1>1. /\ nLogs \in 1..MaxLogs /\ sizes[nLogs] \in 1..BlockSize /\ BlockSize \in Nat
      /\ Target \in Blocks
      /\ Target.writen \in 0..BlockSize /\ Target.pieces \in Seq(Pieces)
      /\ ~Take => bufList # <<>> /\ Target = bufList[Len(bufList)]
  BY ONLY IInv, CopyRound(w), w \in Writers, RoundTypes
<1>2. bufList \in Seq(Blocks) /\ emptyList \in Seq(Blocks)
  BY DEF IInv, TypeOK
<1>3. /\ CopiedLen \in 0..sizes[nLogs] /\ CopiedLen \in 0..BlockSize
      /\ CopiedLen <= BlockSize - Target.writen
      /\ CopiedLen # sizes[nLogs] => CopiedLen = BlockSize - Target.writen
  BY ONLY <1>1 DEF CopiedLen
<1> HIDE DEF CopiedLen
<1>4. /\ LastBlock.writen = Target.writen + CopiedLen
      /\ LastBlock.pieces = Append(Target.pieces, Piece(nLogs, CopiedLen))
      /\ LastBlock = [writen |-> Target.writen + CopiedLen,
                      pieces |-> Append(Target.pieces, Piece(nLogs, CopiedLen))]
  BY DEF LastBlock, Copied, Piece
<1>5. LastBlock \in Blocks
  <2>1. Piece(nLogs, CopiedLen) \in Pieces
    BY ONLY <1>1, <1>3 DEF Piece, Pieces
  <2>2. Append(Target.pieces, Piece(nLogs, CopiedLen)) \in Seq(Pieces)
    BY ONLY <1>1, <2>1, AppendProperties
  <2>3. Target.writen + CopiedLen \in 0..BlockSize
    BY ONLY <1>1, <1>3
  <2>4. QED
    BY ONLY <1>4, <2>2, <2>3 DEF Blocks
<1>6. /\ Take => bufList' = Append(bufList, LastBlock)
      /\ ~Take => bufList' = [bufList EXCEPT ![Len(bufList)] = LastBlock]
      /\ emptyList' = IF Reuse THEN Tail(emptyList) ELSE emptyList
  BY DEF CopyRound, LastBlock, CopiedLen
<1>7. Len(bufList) \in Nat /\ DOMAIN bufList = 1..Len(bufList)
  BY ONLY <1>2, LenProperties
<1>8. /\ LastIndex \in Nat \ {0}
      /\ bufList' \in Seq(Blocks) /\ Len(bufList') = LastIndex
      /\ bufList'[LastIndex] = LastBlock
      /\ \A i \in 1..LastIndex - 1 : i \in DOMAIN bufList /\ bufList'[i] = bufList[i]
      /\ ~Take => LastIndex = Len(bufList)
      /\ Take => LastIndex = Len(bufList) + 1
  <2>1. CASE Take
    <3>1. bufList' = Append(bufList, LastBlock) /\ LastIndex = Len(bufList) + 1
      BY ONLY <1>6, <2>1 DEF LastIndex
    <3>2. /\ bufList' \in Seq(Blocks) /\ Len(bufList') = Len(bufList) + 1
          /\ \A i \in 1..Len(bufList) : bufList'[i] = bufList[i]
          /\ bufList'[Len(bufList) + 1] = LastBlock
      BY ONLY <1>2, <1>5, <3>1, AppendProperties
    <3>3. QED
      BY ONLY <1>7, <2>1, <3>1, <3>2
  <2>2. CASE ~Take
    <3>1. bufList' = [bufList EXCEPT ![Len(bufList)] = LastBlock] /\ LastIndex = Len(bufList)
      BY ONLY <1>6, <2>2 DEF LastIndex
    <3>2. Len(bufList) \in 1..Len(bufList)
      BY ONLY <1>1, <1>2, <1>7, <2>2, EmptySeq
    <3>3. /\ [bufList EXCEPT ![Len(bufList)] = LastBlock] \in Seq(Blocks)
          /\ Len([bufList EXCEPT ![Len(bufList)] = LastBlock]) = Len(bufList)
          /\ \A i \in 1..Len(bufList) : [bufList EXCEPT ![Len(bufList)] = LastBlock][i] =
                              IF i = Len(bufList) THEN LastBlock ELSE bufList[i]
      BY ONLY <1>2, <1>5, <3>2, ExceptSeq
    <3>4. /\ bufList' \in Seq(Blocks) /\ Len(bufList') = Len(bufList)
          /\ \A i \in 1..Len(bufList) :
                bufList'[i] = IF i = Len(bufList) THEN LastBlock ELSE bufList[i]
      BY ONLY <3>1, <3>3
    <3>5. \A i \in 1..Len(bufList) - 1 : /\ i \in 1..Len(bufList) /\ i # Len(bufList)
                                        /\ bufList'[i] = bufList[i]
      <4>1. \A i \in 1..Len(bufList) - 1 : i \in 1..Len(bufList) /\ i # Len(bufList)
        <5>1. \A k \in Nat : \A i \in 1..k - 1 : i \in 1..k /\ i # k
          OBVIOUS
        <5>2. QED
          BY ONLY <1>7, <5>1
      <4>2. QED
        BY ONLY <3>4, <4>1
    <3>6. Len(bufList) # 0 /\ bufList'[Len(bufList)] = LastBlock
      <4>1. Len(bufList) # 0
        BY ONLY <3>2
      <4>2. bufList'[Len(bufList)] = LastBlock
        BY ONLY <3>2, <3>4
      <4>3. QED
        BY ONLY <4>1, <4>2
    <3>7. QED
      BY ONLY <1>7, <2>2, <3>1, <3>4, <3>5, <3>6
  <2>3. QED
    BY ONLY <2>1, <2>2
<1>9. DOMAIN bufList' = 1..LastIndex
  BY ONLY <1>8, LenProperties
<1>10. /\ ~Take => LastIndex \in DOMAIN bufList /\ Target = bufList[LastIndex]
       /\ Take => DOMAIN bufList = 1..LastIndex - 1
       /\ \A i \in DOMAIN bufList : i \in DOMAIN bufList' /\ (i = LastIndex => ~Take)
  <2>1. CASE Take
    <3>1. LastIndex = Len(bufList) + 1
      BY ONLY <1>8, <2>1
    <3>2. QED
      BY ONLY <1>7, <1>9, <2>1, <3>1
  <2>2. CASE ~Take
    <3>1. /\ LastIndex = Len(bufList) /\ Target = bufList[Len(bufList)]
          /\ LastIndex \in Nat \ {0}
      BY ONLY <1>1, <1>8, <2>2
    <3>2. LastIndex \in 1..Len(bufList)
      BY ONLY <1>7, <3>1
    <3>3. DOMAIN bufList' = DOMAIN bufList
      BY ONLY <1>7, <1>9, <3>1
    <3>4. QED
      BY ONLY <1>7, <2>2, <3>1, <3>2, <3>3
  <2>3. QED
    BY ONLY <2>1, <2>2
<1>11. /\ emptyList' \in Seq(Blocks)
       /\ \A i \in DOMAIN emptyList' :
             \E k \in DOMAIN emptyList : emptyList'[i] = emptyList[k]
  <2>1. CASE Reuse
    <3>1. emptyList' = Tail(emptyList) /\ emptyList # <<>>
      BY ONLY <1>6, <2>1 DEF Reuse
    <3>2. /\ emptyList' \in Seq(Blocks) /\ Len(emptyList') = Len(emptyList) - 1
          /\ \A i \in 1..Len(emptyList') : emptyList'[i] = emptyList[i + 1]
      BY ONLY <1>2, <3>1, HeadTailProperties
    <3>3. /\ DOMAIN emptyList = 1..Len(emptyList) /\ Len(emptyList) \in Nat
          /\ DOMAIN emptyList' = 1..Len(emptyList) - 1
      BY ONLY <1>2, <3>2, LenProperties
    <3>4. \A i \in DOMAIN emptyList' : i + 1 \in DOMAIN emptyList
      BY ONLY <3>3
    <3>5. QED
      BY ONLY <3>2, <3>3, <3>4
  <2>2. CASE ~Reuse
    BY ONLY <1>2, <1>6, <2>2
  <2>3. QED
    BY ONLY <2>1, <2>2
<1>12. QED
  BY ONLY <1>1, <1>3, <1>4, <1>5, <1>8, <1>9, <1>10, <1>11

\* The rest of the round: the writer keeps the mutex or is through.
LEMMA RoundEnd ==
  ASSUME IInv, NEW w \in Writers, CopyRound(w)
  PROVE  /\ pc' \in [Threads -> Labels] /\ mu' \in Threads \cup {Nobody}
         /\ job' \in [remain : 0..BlockSize, fatal : BOOLEAN]
         /\ Roles' /\ Mutex' /\ Calm'
         /\ \A u \in {Flusher, Owner} : pc'[u] = pc[u]
         /\ pc[Owner] = "idle" /\ pc[Flusher] \notin FlushLabels
         /\ mu' \in Writers => /\ job.remain > CopiedLen
                               /\ job'.remain = job.remain - CopiedLen
         /\ mu' \notin Writers => job.remain <= CopiedLen
         /\ UNCHANGED <<running, file, dropped, nLogs, sizes, fatal>>
<1> USE LoggerAssumption
<1>1. /\ pc[w] = "copy" /\ mu = w
      /\ AfterRound(w, job.remain - CopiedLen)
      /\ UNCHANGED <<running, file, dropped, nLogs, sizes, fatal>>
  BY DEF CopyRound, CopiedLen, logVars, IInv, Mutex
<1>2. /\ job.remain \in 1..BlockSize /\ BlockSize \in Nat
      /\ CopiedLen \in Nat /\ nLogs \in 1..MaxLogs
  <2>1. /\ job.remain \in 1..BlockSize /\ BlockSize \in Nat /\ sizes[nLogs] \in 1..BlockSize
        /\ nLogs \in 1..MaxLogs
    BY ONLY IInv, CopyRound(w), w \in Writers, RoundTypes
  <2>2. CopiedLen \in 0..sizes[nLogs]
    BY ONLY IInv, CopyRound(w), w \in Writers, RoundLists
  <2>3. QED
    BY ONLY <2>1, <2>2
<1>3. /\ pc \in [Threads -> Labels] /\ job \in [remain : 0..BlockSize, fatal : BOOLEAN]
      /\ Writers \subseteq Threads /\ Flusher \in Threads /\ Owner \in Threads
      /\ w # Flusher /\ w # Owner /\ w # Nobody /\ Nobody \notin Writers
      /\ pc[Owner] = "idle" /\ pc[Flusher] \notin FlushLabels \cup {"check"}
  BY <1>1 DEF IInv, TypeOK, Threads, Roles, Mutex
<1> HIDE DEF CopiedLen
<1>4. CASE job.remain > CopiedLen
  <2>1. /\ job' = [job EXCEPT !.remain = job.remain - CopiedLen]
        /\ mu' = mu /\ pc' = pc
    <3>1. job.remain - CopiedLen > 0
      BY ONLY <1>2, <1>4
    <3>2. QED
      BY ONLY <1>1, <3>1 DEF AfterRound
  <2>2. job'.remain = job.remain - CopiedLen /\ job'.fatal = job.fatal
    BY ONLY <1>3, <2>1
  <2>3. job.remain - CopiedLen \in 1..BlockSize /\ job.remain - CopiedLen \in 0..BlockSize
    BY ONLY <1>2, <1>4
  <2>4. job' \in [remain : 0..BlockSize, fatal : BOOLEAN]
    BY ONLY <1>3, <2>1, <2>3
  <2>5. Roles' /\ Calm'
    BY <1>1, <2>1, <2>2 DEF IInv, Roles, Calm
  <2>6. Mutex'
    BY <1>1, <1>2, <2>1, <2>2, <2>3 DEF IInv, Mutex
  <2>7. QED
    BY <1>1, <1>3, <1>4, <2>1, <2>2, <2>4, <2>5, <2>6 DEF Threads
<1>5. CASE job.remain <= CopiedLen
  <2>1. /\ job' = NoJob /\ mu' = Nobody
        /\ pc' = [pc EXCEPT ![w] = IF job.fatal THEN "trim" ELSE "idle"]
    <3>1. ~(job.remain - CopiedLen > 0)
      BY ONLY <1>2, <1>5
    <3>2. QED
      BY ONLY <1>1, <3>1 DEF AfterRound
  <2>2. /\ pc' \in [Threads -> Labels]
        /\ pc'[w] = IF job.fatal THEN "trim" ELSE "idle"
        /\ \A u \in Threads \ {w} : pc'[u] = pc[u]
    BY <1>3, <2>1 DEF Labels
  <2>3. job' \in [remain : 0..BlockSize, fatal : BOOLEAN] /\ job'.fatal = FALSE
    BY <1>2, <2>1 DEF NoJob
  <2>4. Roles'
    BY <1>3, <2>2 DEF IInv, Roles, Labels
  <2>5. Mutex'
    BY <1>1, <1>3, <2>1, <2>2 DEF IInv, Mutex, Threads, FlushLabels
  <2>6. Calm'
    BY <1>1, <1>3, <2>2, <2>3 DEF IInv, Calm, Threads
  <2>7. QED
    BY <1>1, <1>3, <1>5, <2>1, <2>2, <2>3, <2>4, <2>5, <2>6
<1>6. QED
  BY ONLY <1>2, <1>4, <1>5

\* The log's newest piece comes after all others, and the last one is whole.
LEMMA CopyStep ==
  ASSUME IInv, NEW w \in Writers, CopyRound(w)
  PROVE  IInv'
<1> USE LoggerAssumption
<1> DEFINE m == LastIndex
<1>1. /\ CopiedLen \in 0..sizes[nLogs]
      /\ CopiedLen # sizes[nLogs] => LastBlock.writen = BlockSize
      /\ LastBlock.pieces = Append(Target.pieces, Piece(nLogs, CopiedLen))
      /\ m \in Nat \ {0}
      /\ bufList' \in Seq(Blocks) /\ Len(bufList') = m
      /\ DOMAIN bufList' = 1..m
      /\ bufList'[m] = LastBlock
      /\ ~Take => m \in DOMAIN bufList /\ Target = bufList[m]
      /\ Take => DOMAIN bufList = 1..m - 1
      /\ \A i \in 1..m - 1 : i \in DOMAIN bufList /\ bufList'[i] = bufList[i]
      /\ \A i \in DOMAIN bufList : i \in DOMAIN bufList' /\ (i = m => ~Take)
      /\ emptyList' \in Seq(Blocks)
      /\ \A i \in DOMAIN emptyList' :
            \E k \in DOMAIN emptyList : emptyList'[i] = emptyList[k]
  BY ONLY IInv, CopyRound(w), w \in Writers, RoundLists
<1>2. /\ mu = w /\ nLogs \in 1..MaxLogs /\ sizes[nLogs] \in 1..BlockSize
      /\ job.remain \in 1..BlockSize /\ BlockSize \in Nat
      /\ Target.writen \in 0..BlockSize /\ Target.pieces \in Seq(Pieces)
      /\ Take => Target = NewBlock \/ (emptyList # <<>> /\ Target = emptyList[1])
      /\ Take <=> bufList = <<>> \/ bufList[Len(bufList)].writen = BlockSize
  BY ONLY IInv, CopyRound(w), w \in Writers, RoundTypes
<1>3. /\ pc' \in [Threads -> Labels] /\ mu' \in Threads \cup {Nobody}
      /\ job' \in [remain : 0..BlockSize, fatal : BOOLEAN]
      /\ Roles' /\ Mutex' /\ Calm'
      /\ \A u \in {Flusher, Owner} : pc'[u] = pc[u]
      /\ pc[Owner] = "idle" /\ pc[Flusher] \notin FlushLabels
      /\ mu' \in Writers => /\ job.remain > CopiedLen
                            /\ job'.remain = job.remain - CopiedLen
      /\ mu' \notin Writers => job.remain <= CopiedLen
      /\ UNCHANGED <<running, file, dropped, nLogs, sizes, fatal>>
  BY ONLY IInv, CopyRound(w), w \in Writers, RoundEnd
<1> HIDE DEF m
<1>4. /\ bufList \in Seq(Blocks) /\ emptyList \in Seq(Blocks) /\ file \in Seq(Pieces)
      /\ nLogs \in Nat
  BY DEF IInv, TypeOK
<1>5. TypeOK'
  <2>1. Pieces' = Pieces /\ Blocks' = Blocks
    BY <1>3 DEF Pieces, Blocks
  <2>2. QED
    BY <1>1, <1>3, <2>1 DEF IInv, TypeOK
<1>6. ASSUME ~fatal
      PROVE  Lists' /\ Copying' /\ FileInOrder' /\ NothingLost'
  <2>1. \A i \in DOMAIN emptyList : emptyList[i] = NewBlock
    BY <1>6 DEF IInv, Lists
  <2>2. Take => Target = NewBlock
    <3>1. emptyList # <<>> => 1 \in DOMAIN emptyList
      BY ONLY <1>4, EmptySeq, LenProperties
    <3>2. QED
      BY ONLY <1>2, <2>1, <3>1
  <2>3. Lists'
    <3>1. \A i \in DOMAIN emptyList' : emptyList'[i] = NewBlock
      BY ONLY <1>1, <2>1
    <3>2. QED
      BY <1>3, <3>1 DEF Lists, FlushLabels
  <2>4. /\ job.remain <= sizes[nLogs]
        /\ job.remain < sizes[nLogs] => CopiedLen = sizes[nLogs]
    <3>1. /\ job.remain <= sizes[nLogs]
          /\ job.remain < sizes[nLogs] => Take
      BY <1>2, <1>6 DEF IInv, Copying
    <3>2. Take => Target.writen = 0
      BY <2>2 DEF NewBlock
    <3>3. Take => CopiedLen = sizes[nLogs]
      BY ONLY <1>2, <3>2 DEF CopiedLen
    <3>4. QED
      BY <3>1, <3>3
  <2>5. Copying'
    <3>1. ASSUME mu' \in Writers
          PROVE  /\ job'.remain <= sizes[nLogs]
                 /\ bufList' # <<>> /\ bufList'[Len(bufList')].writen = BlockSize
      <4>1. /\ job.remain = sizes[nLogs] /\ CopiedLen # sizes[nLogs]
            /\ job'.remain = job.remain - CopiedLen
        BY ONLY <1>1, <1>2, <1>3, <2>4, <3>1
      <4>2. job'.remain <= sizes[nLogs]
        BY ONLY <1>1, <1>2, <4>1
      <4>3. bufList' # <<>>
        BY ONLY <1>1, EmptySeq
      <4>4. QED
        BY ONLY <1>1, <4>1, <4>2, <4>3
    <3>2. QED
      BY <1>3, <3>1 DEF Copying
  <2>6. mu' \notin Writers => CopiedLen = sizes[nLogs]
    BY ONLY <1>1, <1>2, <1>3, <2>4
  <2>7. FileInOrder'
    <3>1. /\ \A i \in DOMAIN file : file[i].log <= nLogs
          /\ \A i \in DOMAIN bufList : \A j \in DOMAIN bufList[i].pieces :
                bufList[i].pieces[j].log <= nLogs
      <4>1. \A p \in Pieces : p.log <= nLogs
        BY <1>4 DEF Pieces
      <4>2. \A i \in DOMAIN file : file[i] \in Pieces
        BY ONLY <1>4, ElementOfSeq, LenProperties
      <4>3. \A i \in DOMAIN bufList : bufList[i] \in Blocks
        BY ONLY <1>4, ElementOfSeq, LenProperties
      <4>4. \A i \in DOMAIN bufList : bufList[i].pieces \in Seq(Pieces)
        BY <4>3 DEF Blocks
      <4>5. \A s \in Seq(Pieces) : \A j \in DOMAIN s : s[j] \in Pieces
        BY ONLY ElementOfSeq, LenProperties
      <4>6. QED
        BY ONLY <4>1, <4>2, <4>4, <4>5
    <3>2. /\ Ordered(file)
          /\ \A i \in DOMAIN bufList :
                /\ Ordered(bufList[i].pieces)
                /\ Before(file, bufList[i].pieces)
                /\ \A j \in DOMAIN bufList :
                      i < j => Before(bufList[i].pieces, bufList[j].pieces)
      BY <1>6 DEF IInv, FileInOrder
    <3>3. /\ Ordered(Target.pieces) /\ Before(file, Target.pieces)
          /\ \A i \in 1..m - 1 : Before(bufList[i].pieces, Target.pieces)
      <4>1. CASE Take
        <5>1. Target.pieces = <<>>
          BY <2>2, <4>1 DEF NewBlock
        <5>2. QED
          BY ONLY <5>1 DEF Ordered, Before
      <4>2. CASE ~Take
        <5>1. \A i \in 1..m - 1 : i < m
          BY ONLY <1>1
        <5>2. QED
          BY ONLY <1>1, <3>2, <4>2, <5>1
      <4>3. QED
        BY ONLY <4>1, <4>2
    <3> DEFINE p == Piece(nLogs, CopiedLen)
    <3>4. p.log = nLogs
      BY DEF Piece
    <3>5. \A i \in DOMAIN Target.pieces : Target.pieces[i].log <= nLogs
      <4>1. Take => Target.pieces = <<>>
        BY <2>2 DEF NewBlock
      <4>2. QED
        BY <1>1, <3>1, <4>1
    <3> HIDE DEF p
    <3>6. LastBlock.pieces = Append(Target.pieces, p)
      BY <1>1 DEF p
    <3>7. Ordered(LastBlock.pieces)
      BY ONLY <1>2, <1>4, <3>3, <3>4, <3>5, <3>6, OrderedAppend
    <3>8. Before(file, LastBlock.pieces)
      BY ONLY <1>2, <1>4, <3>1, <3>3, <3>4, <3>6, BeforeAppend
    <3>9. \A i \in 1..m - 1 : Before(bufList[i].pieces, LastBlock.pieces)
      <4>1. ASSUME NEW i \in 1..m - 1 PROVE Before(bufList[i].pieces, LastBlock.pieces)
        <5>1. /\ Before(bufList[i].pieces, Target.pieces)
              /\ \A j \in DOMAIN bufList[i].pieces : bufList[i].pieces[j].log <= nLogs
          BY ONLY <1>1, <3>1, <3>3, <4>1
        <5>2. QED
          BY ONLY <1>2, <1>4, <3>4, <3>6, <5>1, BeforeAppend
      <4>2. QED
        BY ONLY <4>1
    <3>10. /\ \A i \in 1..m : i # m => i \in 1..m - 1
           /\ \A i, j \in 1..m : i < j => i \in 1..m - 1
      BY ONLY <1>1
    <3>11. \A i \in DOMAIN bufList' : /\ Ordered(bufList'[i].pieces)
                                      /\ Before(file, bufList'[i].pieces)
      BY ONLY <1>1, <3>2, <3>7, <3>8, <3>10
    <3>12. \A i, j \in DOMAIN bufList' :
              i < j => Before(bufList'[i].pieces, bufList'[j].pieces)
      BY ONLY <1>1, <3>2, <3>9, <3>10
    <3>13. QED
      BY ONLY <1>3, <3>2, <3>11, <3>12 DEF FileInOrder
  <2>8. NothingLost'
    <3>1. \A i \in 1..m : i # m => i \in 1..m - 1
      BY ONLY <1>1
    <3>2. m \in DOMAIN bufList'
      BY ONLY <1>1
    <3>3. /\ \A k \in DOMAIN Target.pieces : /\ k \in DOMAIN LastBlock.pieces
                                             /\ LastBlock.pieces[k] = Target.pieces[k]
          /\ Len(Target.pieces) + 1 \in DOMAIN LastBlock.pieces
          /\ LastBlock.pieces[Len(Target.pieces) + 1] = Piece(nLogs, CopiedLen)
      <4>1. \A s \in Seq(Pieces), p \in Pieces :
               /\ \A k \in DOMAIN s : k \in DOMAIN Append(s, p) /\ Append(s, p)[k] = s[k]
               /\ Len(s) + 1 \in DOMAIN Append(s, p)
               /\ Append(s, p)[Len(s) + 1] = p
        BY ONLY AppendProperties, LenProperties
      <4>2. CopiedLen \in 0..BlockSize /\ nLogs \in 1..nLogs
        BY ONLY <1>1, <1>2
      <4>3. Piece(nLogs, CopiedLen) \in Pieces
        BY ONLY <4>2 DEF Piece, Pieces
      <4>4. QED
        BY ONLY <1>1, <1>2, <4>1, <4>3
    <3>4. ASSUME NEW log \in 1..nLogs, NEW i \in DOMAIN bufList,
                 Complete(log, bufList[i].pieces)
          PROVE  \E k \in DOMAIN bufList' : Complete(log, bufList'[k].pieces)
      <4>1. CASE i # m
        BY <1>1, <3>1, <3>4, <4>1
      <4>2. CASE i = m
        <5>1. Complete(log, Target.pieces)
          BY ONLY <1>1, <3>4, <4>2
        <5>2. Complete(log, LastBlock.pieces)
          BY ONLY <3>3, <5>1 DEF Complete
        <5>3. QED
          BY ONLY <1>1, <3>2, <5>2
      <4>3. QED
        BY <4>1, <4>2
    <3>5. mu' \notin Writers => Complete(nLogs, LastBlock.pieces)
      BY ONLY <2>6, <3>3 DEF Complete
    <3>6. \A log \in 1..nLogs : \/ log \in dropped
                                \/ Complete(log, file)
                                \/ \E i \in DOMAIN bufList : Complete(log, bufList[i].pieces)
                                \/ log = nLogs
      BY <1>6 DEF IInv, NothingLost
    <3>7. \A log \in 1..nLogs : \/ log \in dropped
                                \/ Complete(log, file)
                                \/ \E i \in DOMAIN bufList' : Complete(log, bufList'[i].pieces)
                                \/ log = nLogs /\ mu' \in Writers
      BY ONLY <1>1, <3>2, <3>4, <3>5, <3>6
    <3>8. QED
      BY ONLY <1>3, <3>7 DEF NothingLost, Complete
  <2>9. QED
    BY <2>3, <2>5, <2>7, <2>8
<1>7. QED
  BY <1>3, <1>5, <1>6 DEF IInv, Lists, Copying, FileInOrder, NothingLost

-----------------------------------------------------------------------------
(* The theorems.                                                            *)

LEMMA NextStep ==
  ASSUME IInv, [Next]_vars
  PROVE  IInv'
<1>1. ASSUME NEW t \in Threads, FlushStep(t) PROVE IInv'
  BY <1>1, TrimStep, WriteStep, MoveStep DEF FlushStep
<1>2. CASE FlusherStep
  BY <1>1, <1>2, QuietStep DEF FlusherStep, Threads
<1>3. CASE OwnerStep
  BY <1>1, <1>3, QuietStep DEF OwnerStep, Threads
<1>4. ASSUME NEW w \in Writers, WriterStep(w) PROVE IInv'
  BY <1>1, <1>4, CopyStep DEF WriterStep, Threads
<1>5. ASSUME NEW w \in Writers, NEW s \in Sizes, NEW f \in BOOLEAN, LockBuf(w, s, f)
      PROVE  IInv'
  BY <1>5, LockStep
<1>6. CASE Destroy \/ Ended \/ UNCHANGED vars
  BY <1>6, QuietStep DEF Ended
<1>7. QED
  BY <1>2, <1>3, <1>4, <1>5, <1>6 DEF Next

\* The inductive invariant is an invariant.
THEOREM Invariant == Spec => []IInv
<1>1. Init => IInv
  BY InitInv
<1>2. IInv /\ [Next]_vars => IInv'
  BY NextStep
<1>3. QED
  BY <1>1, <1>2, PTL DEF Spec

\* Type correctness, which says that write_buf never fills a block beyond
\* buf_block_size, FATAL logs and their unlocked flush included.
THEOREM TypeCorrect == Spec => []TypeOK
<1>1. IInv => TypeOK
  BY DEF IInv
<1>2. QED
  BY <1>1, Invariant, PTL

\* write_buf and flush_buf keep the order in which the writers took the mutex.
THEOREM InOrder == Spec => []FileInOrder
<1>1. IInv => FileInOrder
  BY DEF IInv
<1>2. QED
  BY <1>1, Invariant, PTL

\* A log whose write_buf has returned is whole, in the file or in one block,
\* unless flush_buf's trim has dropped it.
THEOREM OnlyTrimLoses == Spec => []NothingLost
<1>1. IInv => NothingLost
  BY DEF IInv
<1>2. QED
  BY <1>1, Invariant, PTL

\* The destructor's flush_buf(true) leaves nothing in buf_list.
THEOREM FlushedOut == Spec => []FlushedAtExit
<1>1. ASSUME IInv PROVE FlushedAtExit
  <2>1. SUFFICES ASSUME pc[Owner] = "done", ~fatal
                 PROVE  /\ bufList = <<>>
                        /\ \A log \in 1..nLogs : log \in dropped \/ Complete(log, file)
    BY DEF FlushedAtExit
  <2>2. bufList = <<>> /\ DOMAIN bufList = {}
    BY <1>1, <2>1 DEF IInv, Lists
  <2>3. mu \notin Writers
    BY <1>1, <2>1 DEF IInv, Roles, Mutex
  <2>4. QED
    BY <1>1, <2>1, <2>2, <2>3 DEF IInv, NothingLost
<1>2. QED
  BY <1>1, Invariant, PTL
===============================================================================
