-------------------------------- MODULE Logger --------------------------------
(***************************************************************************)
(* The asynchronous Logger: writers copy their logs into the last block of *)
(* buf_list under the mutex, a flusher thread writes the first block to    *)
(* the file, and the destructor flushes what is left.  A FATAL log makes   *)
(* its writer flush everything itself, without the mutex.                  *)
(*                                                                         *)
(* A log is a number, given in the order in which the writers take the     *)
(* mutex.  A block is the sequence of the pieces copied into it; a piece   *)
(* is the first n characters of a log, for every copy starts at the        *)
(* beginning of the log.  Rolling to a new file is not modelled: the files *)
(* are one sequence.                                                       *)
(***************************************************************************)
EXTENDS Integers, Sequences

CONSTANTS
    Writers,    \* the threads that log
    Flusher,    \* the thread of flush_loop_in_thread
    Owner,      \* the thread that runs the destructor
    Nobody,
    Sizes,      \* the lengths of the logs
    BlockSize,  \* buf_block_size
    BlockNum,   \* buf_block_num
    MaxLogs     \* bound: logs written altogether

Threads == Writers \cup {Flusher, Owner}

ASSUME LoggerAssumption ==
    /\ Flusher \notin Writers /\ Owner \notin Writers /\ Flusher # Owner
    /\ Nobody \notin Threads
    /\ BlockSize \in Nat /\ BlockNum \in Nat \ {0} /\ MaxLogs \in Nat
    /\ Sizes \subseteq 1..BlockSize      \* max_log_size is far below it

VARIABLES
    bufList,    \* buf_list
    emptyList,  \* empty_buf_list
    mu,         \* the holder of mu
    job,        \* write_buf of the holder: what remains, is the log FATAL
    running,    \* is_thread_run
    pc,         \* where each thread is
    file,       \* the pieces written to the file
    nLogs,      \* logs written so far
    sizes,      \* history: the length of each log
    dropped,    \* history: the logs that a trim dropped, whole or in part
    fatal       \* history: a FATAL log was written

logVars == <<nLogs, sizes, fatal>>
vars == <<bufList, emptyList, mu, job, running, pc, file, dropped, logVars>>

NoJob == [remain |-> 0, fatal |-> FALSE]
Labels == {"idle", "copy", "check", "wait", "trim", "write", "move", "broken", "done"}

Init == /\ bufList = <<>> /\ emptyList = <<>>
        /\ mu = Nobody /\ job = NoJob
        /\ running = TRUE
        /\ pc = [t \in Threads |-> "idle"]
        /\ file = <<>> /\ nLogs = 0 /\ sizes = <<>>
        /\ dropped = {} /\ fatal = FALSE

-----------------------------------------------------------------------------
(* Blocks.                                                                  *)

Piece(log, n) == [log |-> log, n |-> n]

\* BufBlock: writen is kept apart from the pieces, as in the code.
NewBlock == [writen |-> 0, pieces |-> <<>>]
Copied(block, piece) == [writen |-> block.writen + piece.n,
                         pieces |-> Append(block.pieces, piece)]

LogsIn(block) == {block.pieces[j].log : j \in DOMAIN block.pieces}

NeedBufFlush == Len(bufList) > 1

-----------------------------------------------------------------------------
(* write_buf: the writer has the mutex from LockBuf to its last CopyRound.   *)

LockBuf(w, size, isFatal) ==
    /\ pc[w] = "idle" /\ pc[Owner] = "idle"
    /\ mu = Nobody
    /\ nLogs < MaxLogs
    /\ mu' = w
    /\ nLogs' = nLogs + 1
    /\ sizes' = Append(sizes, size)
    /\ fatal' = (fatal \/ isFatal)
    /\ job' = [remain |-> size, fatal |-> isFatal]
    /\ pc' = [pc EXCEPT ![w] = "copy"]
    /\ UNCHANGED <<bufList, emptyList, running, file, dropped>>

\* The last block is not one to write to; then the first empty one is used.
Take == bufList = <<>> \/ bufList[Len(bufList)].writen = BlockSize
Reuse == Take /\ emptyList # <<>>
Target == IF Reuse THEN Head(emptyList)
          ELSE IF Take THEN NewBlock ELSE bufList[Len(bufList)]

\* The end of the loop: the mutex is released.  notify_one only makes the
\* flusher's timed wait shorter.  A FATAL writer goes on to flush.
AfterRound(w, remain) ==
    IF remain > 0
    THEN /\ job' = [job EXCEPT !.remain = remain]
         /\ UNCHANGED <<mu, pc>>
    ELSE /\ job' = NoJob
         /\ mu' = Nobody
         /\ pc' = [pc EXCEPT ![w] = IF job.fatal THEN "trim" ELSE "idle"]

\* (mistake) the copy does not stop at the end of the block.
CopyRound_NoMin(w) ==
    /\ pc[w] = "copy"
    /\ bufList' = IF Take THEN Append(bufList, Copied(Target, Piece(nLogs, sizes[nLogs])))
                  ELSE [bufList EXCEPT ![Len(bufList)] =
                           Copied(Target, Piece(nLogs, sizes[nLogs]))]
    /\ emptyList' = IF Reuse THEN Tail(emptyList) ELSE emptyList
    /\ AfterRound(w, 0)
    /\ UNCHANGED <<running, file, dropped, logVars>>

\* One round of the loop: what fits of the log is copied, from its beginning.
CopyRound(w) ==
    LET size == sizes[nLogs]
        room == BlockSize - Target.writen
        n == IF size <= room THEN size ELSE room
        block == Copied(Target, Piece(nLogs, n))
    IN  /\ pc[w] = "copy"
        /\ bufList' = IF Take THEN Append(bufList, block)
                      ELSE [bufList EXCEPT ![Len(bufList)] = block]
        /\ emptyList' = IF Reuse THEN Tail(emptyList) ELSE emptyList
        /\ AfterRound(w, job.remain - n)
        /\ UNCHANGED <<running, file, dropped, logVars>>

-----------------------------------------------------------------------------
(* flush_loop_in_thread: the mutex is held except during the wait.          *)

FlusherLocks == /\ pc[Flusher] = "idle"
                /\ mu = Nobody
                /\ mu' = Flusher
                /\ pc' = [pc EXCEPT ![Flusher] = "check"]
                /\ UNCHANGED <<bufList, emptyList, job, running, file,
                               dropped, logVars>>

FlusherChecks ==
    /\ pc[Flusher] = "check"
    /\ pc' = [pc EXCEPT ![Flusher] = IF ~running THEN "done"
                                     ELSE IF NeedBufFlush THEN "trim" ELSE "wait"]
    /\ mu' = IF running /\ NeedBufFlush THEN mu ELSE Nobody
    /\ UNCHANGED <<bufList, emptyList, job, running, file, dropped, logVars>>

\* (mistake) a wait that timed out goes back to waiting.
WaitReturns_NoFlush == /\ pc[Flusher] = "wait"
                       /\ mu = Nobody
                       /\ mu' = Flusher
                       /\ pc' = [pc EXCEPT ![Flusher] = "check"]
                       /\ UNCHANGED <<bufList, emptyList, job, running, file,
                                      dropped, logVars>>

\* wait_for returns, notified with more than one block or after max_flush_ms.
WaitReturns == /\ pc[Flusher] = "wait"
               /\ mu = Nobody
               /\ mu' = Flusher
               /\ pc' = [pc EXCEPT ![Flusher] = "trim"]
               /\ UNCHANGED <<bufList, emptyList, job, running, file, dropped,
                              logVars>>

-----------------------------------------------------------------------------
(* flush_buf, executed by thread t: of one block by the flusher, of all of  *)
(* them (is_full) by a FATAL writer and by the destructor.                  *)

AfterFlush(t) == IF t = Flusher THEN "check" ELSE "done"

Trim(t) ==
    LET over == Len(bufList) + Len(emptyList) - BlockNum
        kept == IF over > 0 /\ Len(bufList) > BlockNum
                THEN Len(bufList) - BlockNum ELSE Len(bufList)
    IN  /\ pc[t] = "trim"
        /\ emptyList' = IF over > 0 /\ over < Len(emptyList)
                        THEN SubSeq(emptyList, 1, over) ELSE emptyList
        /\ bufList' = SubSeq(bufList, 1, kept)
        /\ dropped' = dropped \cup UNION {LogsIn(bufList[i]) : i \in kept + 1..Len(bufList)}
        /\ pc' = [pc EXCEPT ![t] = IF kept > 0 THEN "write" ELSE AfterFlush(t)]
        /\ UNCHANGED <<mu, job, running, file, logVars>>

\* (mistake) the last block is written, the first one is emptied.
WriteFront_Last(t) ==
    /\ pc[t] = "write" /\ bufList # <<>>
    /\ file' = file \o bufList[Len(bufList)].pieces
    /\ bufList' = [bufList EXCEPT ![1] = NewBlock]
    /\ pc' = [pc EXCEPT ![t] = "move"]
    /\ UNCHANGED <<emptyList, mu, job, running, dropped, logVars>>

\* (mistake) the block is emptied before it is written.
WriteFront_Emptied(t) ==
    /\ pc[t] = "write" /\ bufList # <<>>
    /\ bufList' = [bufList EXCEPT ![1] = NewBlock]
    /\ pc' = [pc EXCEPT ![t] = "move"]
    /\ UNCHANGED <<emptyList, mu, job, running, file, dropped, logVars>>

\* BufBlock::flush_buf of the first block.
WriteFront(t) ==
    /\ pc[t] = "write"
    /\ IF bufList = <<>>
       THEN /\ pc' = [pc EXCEPT ![t] = "broken"]
            /\ UNCHANGED <<file, bufList>>
       ELSE /\ file' = file \o bufList[1].pieces
            /\ bufList' = [bufList EXCEPT ![1] = NewBlock]
            /\ pc' = [pc EXCEPT ![t] = "move"]
    /\ UNCHANGED <<emptyList, mu, job, running, dropped, logVars>>

\* (mistake) flush_buf(true) stops after one block.
MoveFront_One(t) ==
    /\ pc[t] = "move" /\ bufList # <<>>
    /\ emptyList' = Append(emptyList, Head(bufList))
    /\ bufList' = Tail(bufList)
    /\ pc' = [pc EXCEPT ![t] = AfterFlush(t)]
    /\ UNCHANGED <<mu, job, running, file, dropped, logVars>>

\* The first block goes to the end of empty_buf_list.
MoveFront(t) ==
    /\ pc[t] = "move"
    /\ IF bufList = <<>>
       THEN /\ pc' = [pc EXCEPT ![t] = "broken"]
            /\ UNCHANGED <<bufList, emptyList>>
       ELSE /\ emptyList' = Append(emptyList, Head(bufList))
            /\ bufList' = Tail(bufList)
            /\ pc' = [pc EXCEPT ![t] = IF bufList' # <<>> /\ t # Flusher
                                       THEN "trim" ELSE AfterFlush(t)]
    /\ UNCHANGED <<mu, job, running, file, dropped, logVars>>

\* ~Logger: the flusher is told to stop and joined, then all is flushed.
Destroy == /\ pc[Owner] = "idle"
           /\ \A w \in Writers : pc[w] = "idle"
           /\ running' = FALSE
           /\ pc' = [pc EXCEPT ![Owner] = "wait"]
           /\ UNCHANGED <<bufList, emptyList, mu, job, file, dropped, logVars>>

Join == /\ pc[Owner] = "wait"
        /\ pc[Flusher] = "done"
        /\ pc' = [pc EXCEPT ![Owner] = "trim"]
        /\ UNCHANGED <<bufList, emptyList, mu, job, running, file, dropped, logVars>>

\* The program has ended, or a FATAL log's exception has ended it.
Ended == /\ \/ pc[Owner] = "done"
            \/ \E t \in Threads : pc[t] = "broken"
            \/ \E w \in Writers : pc[w] = "done"
         /\ UNCHANGED vars

FlushStep(t) == Trim(t) \/ WriteFront(t) \/ MoveFront(t)
FlusherStep == FlusherLocks \/ FlusherChecks \/ WaitReturns \/ FlushStep(Flusher)
OwnerStep == Join \/ FlushStep(Owner)

WriterStep(w) == CopyRound(w) \/ FlushStep(w)

Next == \/ FlusherStep
        \/ OwnerStep
        \/ Destroy
        \/ \E w \in Writers :
              \/ WriterStep(w)
              \/ \E s \in Sizes, f \in BOOLEAN : LockBuf(w, s, f)
        \/ Ended

Spec == Init /\ [][Next]_vars

\* A writer goes on once it has the mutex.  The flusher's wait ends after
\* max_flush_ms at the latest and the flusher gets the mutex in the end; the
\* destructor is not promised to run.
FairSpec == /\ Spec /\ SF_vars(FlusherStep) /\ WF_vars(OwnerStep)
            /\ \A w \in Writers : WF_vars(CopyRound(w))

-----------------------------------------------------------------------------
(* Correctness.                                                             *)

\* Every variable has its type, and a block never holds more than it can.
Pieces == [log : 1..nLogs, n : 0..BlockSize]
Blocks == [writen : 0..BlockSize, pieces : Seq(Pieces)]
TypeOK ==
    /\ bufList \in Seq(Blocks) /\ emptyList \in Seq(Blocks) /\ file \in Seq(Pieces)
    /\ mu \in Threads \cup {Nobody}
    /\ job \in [remain : 0..BlockSize, fatal : BOOLEAN]
    /\ running \in BOOLEAN /\ fatal \in BOOLEAN
    /\ pc \in [Threads -> Labels]
    /\ nLogs \in 0..MaxLogs /\ sizes \in [1..nLogs -> Sizes]
    /\ dropped \subseteq 1..nLogs

\* The logs reach the file in the order in which their writers took the
\* mutex, whichever thread flushes, and what is buffered comes after what is
\* written.
Ordered(s) == \A i, j \in DOMAIN s : i < j => s[i].log <= s[j].log
Before(s, t) == \A i \in DOMAIN s, j \in DOMAIN t : s[i].log <= t[j].log

FileInOrder ==
    ~fatal => /\ Ordered(file)
              /\ \A i \in DOMAIN bufList :
                    /\ Ordered(bufList[i].pieces)
                    /\ Before(file, bufList[i].pieces)
                    /\ \A j \in DOMAIN bufList :
                          i < j => Before(bufList[i].pieces, bufList[j].pieces)

\* No log is lost but by a trim: each one is complete in the file or in a
\* block that is still to be flushed, unless it is still being copied.
Complete(log, pieces) == \E i \in DOMAIN pieces : pieces[i] = Piece(log, sizes[log])

NothingLost ==
    ~fatal => \A log \in 1..nLogs :
        \/ log \in dropped
        \/ Complete(log, file)
        \/ \E i \in DOMAIN bufList : Complete(log, bufList[i].pieces)
        \/ log = nLogs /\ mu \in Writers

\* When the destructor is through, the file holds all that was not trimmed.
FlushedAtExit ==
    pc[Owner] = "done" /\ ~fatal =>
        /\ bufList = <<>>
        /\ \A log \in 1..nLogs : log \in dropped \/ Complete(log, file)

\* Each log gets to the file without the destructor's help, unless a trim
\* dropped it or a FATAL log ended the program.
ReachesFile ==
    \A log \in 1..MaxLogs :
        nLogs >= log
            ~> fatal \/ log \in dropped \/ \E i \in DOMAIN file : file[i].log = log
===============================================================================
