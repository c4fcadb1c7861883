-------------------------------- MODULE FileBatch --------------------------------
(***************************************************************************)
(* One batch of a node that creates a file: runCreateFile and              *)
(* readAndInsert of pkg/proc/proc_file_creator.go, with the inserter and   *)
(* the CSV and Parquet workers of pkg/proc/file_inserter*.go.              *)
(*                                                                         *)
(* The producer reads the rows of the batch's token interval and sends     *)
(* them, a block of BlockSize rows at a time, to the worker that writes    *)
(* the file; the worker answers each block with a status.  With "top", the *)
(* producer keeps the Limit smallest rows in a heap and sends those.  A    *)
(* file with an sftp or s3 destination is written to a temporary file and  *)
(* uploaded.                                                               *)
(***************************************************************************)
EXTENDS TokenPaging, SequencesExt

CONSTANTS
  Jobs,          \* set of [format, remote, top, rowsetSize, tokens]; top = 0: no "top"
  FirstToken, LastToken,
  BlockSize,     \* DefaultFileInserterBatchCapacity
  MaxBlocks,     \* capacity of BatchesIn
  KeyOf,         \* KeyOf[i]: key of row i in the order of "top"
  Passing,       \* rows that the having condition lets pass
  FaultKinds,    \* subset of {"create", "read", "eval", "open", "write", "close", "upload"}
  MaxFaults      \* bound: number of faults in a behaviour

\* Restricted to distinct tokens and pages of more than one row: what other pages do to a batch
\* is the subject of TableBatch.  Limit is at most MaxFileCreatorTopLimit, from which the capacity
\* of BatchesIn is computed.
ASSUME FileAssumption ==
  /\ BlockSize \in Nat \ {0} /\ MaxBlocks \in Nat \ {0}
  /\ FirstToken \in Int /\ LastToken \in Int
  /\ \A i \in Passing : KeyOf[i] \in Int
  /\ \A j \in Jobs :
       /\ j.format \in {"csv", "parquet"} /\ j.remote \in BOOLEAN
       /\ j.rowsetSize \in Nat /\ j.rowsetSize > 1 /\ j.top \in 0..MaxBlocks*BlockSize
       /\ j.tokens \in Seq(Int)
       /\ \A i, k \in 1..Len(j.tokens) : i < k => j.tokens[i] < j.tokens[k]

VARIABLES
  job,
  phase,       \* what the producer does
  result,      \* error that it is about to return
  cursor, page, pos, read, added,
  heap,        \* rows in topHeap
  block,       \* CurrentBatch
  blocksIn,    \* the channel BatchesIn
  statuses,    \* the channel RecordWrittenStatuses, of capacity 1: TRUE is nil
  sent,        \* BatchesSent
  closed,      \* both channels are closed
  worker,      \* [at, block, group, openOk, closeOk]; group: rows that the Parquet writer has in
               \* memory, its row group
  file,        \* the file written, temporary or not: [rows, size, whole]; whole: it can be read
  uploaded,    \* the file as it was uploaded
  faults

reading == <<cursor, page, pos, read, heap>>
sending == <<block, blocksIn, sent, added>>
vars == <<job, phase, result, reading, sending, statuses, closed, worker, file, uploaded, faults>>

Rows == UNION {1..Len(j.tokens) : j \in Jobs}
None == [rows |-> <<>>, size |-> "none", whole |-> FALSE]
HasTop == job.top > 0

Fault(kind) ==
  /\ kind \in FaultKinds
  /\ faults < MaxFaults
  /\ faults' = faults + 1

-------------------------------------------------------------------------------
\* The producer.

\* A CSV file is created with its header line, a Parquet file is empty.
Create ==
  /\ phase = "create"
  /\ file' = IF job.format = "csv" THEN [rows |-> <<>>, size |-> "some", whole |-> TRUE]
             ELSE [rows |-> <<>>, size |-> "zero", whole |-> FALSE]
  /\ worker' = [worker EXCEPT !.at = "start"]
  /\ phase' = "read"
  /\ UNCHANGED <<job, result, reading, sending, statuses, closed, uploaded, faults>>

\* The reader's node was never run, the path is not allowed, or there is no such directory.
CreateFails ==
  /\ phase = "create"
  /\ Fault("create")
  /\ phase' = "failed"
  /\ UNCHANGED <<job, result, reading, sending, statuses, closed, worker, file, uploaded>>

\* An empty page ends the reading; the heap is then emptied from its largest key down.
ReadPage ==
  LET rows == Ascending(PageRows(job.tokens, job.rowsetSize, cursor, LastToken))
      InOrder(s) == \A i, k \in 1..Len(s) : i < k => KeyOf[s[i]] <= KeyOf[s[k]]
  IN /\ phase = "read"
     /\ pos' = 0
     /\ cursor' = NextCursor(job.tokens, job.rowsetSize, cursor, LastToken)
     /\ CASE rows # <<>> -> page' = rows /\ phase' = "rows" /\ UNCHANGED heap
          [] rows = <<>> /\ HasTop ->
               /\ \E s \in SetToSeqs(heap) : InOrder(s) /\ page' = s
               /\ heap' = {} /\ phase' = "top"
          [] rows = <<>> /\ ~HasTop -> page' = rows /\ phase' = "leftover" /\ UNCHANGED heap
     /\ UNCHANGED <<job, result, read, sending, statuses, closed, worker, file, uploaded, faults>>

\* A page cannot be read, an expression or the key of a row not evaluated.
ReadFails ==
  /\ \/ phase = "read" /\ Fault("read")
     \/ phase = "rows" /\ pos < Len(page) /\ Fault("eval")
  /\ result' = FALSE /\ phase' = "leftover"
  /\ UNCHANGED <<job, reading, sending, statuses, closed, worker, file, uploaded>>

AtRow(i) == phase \in {"rows", "top"} /\ pos < Len(page) /\ i = page[pos + 1]

SkipRow ==
  /\ \E i \in Rows : AtRow(i) /\ i \notin Passing
  /\ pos' = pos + 1
  /\ UNCHANGED <<job, phase, result, cursor, page, read, heap, sending, statuses, closed, worker,
                 file, uploaded, faults>>

\* Faulty variant: one row too few is kept.
Evicted_TooEarly(rows) == Cardinality(rows) >= job.top

\* Faulty variant: a row with the smallest key is popped (Less is not reversed).
Popped_Smallest(rows) == {i \in rows : \A k \in rows : KeyOf[i] <= KeyOf[k]}

\* The heap is over its limit.
Evicted(rows) == Cardinality(rows) > job.top

\* The rows that heap.Pop may return: those with the largest key.
Popped(rows) == {i \in rows : \A k \in rows : KeyOf[k] <= KeyOf[i]}

PushRow ==
  /\ HasTop /\ phase = "rows"
  /\ \E i \in Passing :
       /\ AtRow(i)
       /\ IF Evicted(heap \cup {i})
          THEN \E out \in Popped(heap \cup {i}) : heap' = (heap \cup {i}) \ {out}
          ELSE heap' = heap \cup {i}
  /\ pos' = pos + 1
  /\ UNCHANGED <<job, phase, result, cursor, page, read, sending, statuses, closed, worker, file,
                 uploaded, faults>>

\* add: a full block is sent, which waits for room.
AddRow ==
  /\ ~HasTop \/ phase = "top"
  /\ \E i \in Passing :
       /\ AtRow(i)
       /\ IF Len(block) + 1 < BlockSize
          THEN block' = Append(block, i) /\ UNCHANGED <<blocksIn, sent>>
          ELSE /\ Len(blocksIn) < MaxBlocks
               /\ blocksIn' = Append(blocksIn, Append(block, i))
               /\ sent' = sent + 1
               /\ block' = <<>>
  /\ pos' = pos + 1 /\ added' = added + 1
  /\ UNCHANGED <<job, phase, result, cursor, page, read, heap, statuses, closed, worker, file,
                 uploaded, faults>>

EndRows ==
  /\ phase \in {"rows", "top"} /\ pos = Len(page)
  /\ IF phase = "rows" THEN phase' = "check" /\ read' = read + Len(page)
                       ELSE phase' = "leftover" /\ UNCHANGED read
  /\ UNCHANGED <<job, result, cursor, page, pos, heap, sending, statuses, closed, worker, file,
                 uploaded, faults>>

\* Faulty variant: only the last status counts.
Settle_LastCounts ==
  /\ statuses # <<>>
  /\ statuses' = Tail(statuses)
  /\ sent' = sent - 1
  /\ result' = Head(statuses)

\* A status is received.
Settle ==
  /\ statuses # <<>>
  /\ statuses' = Tail(statuses)
  /\ sent' = sent - 1
  /\ result' = (result /\ Head(statuses))

\* checkWorkerOutputForErrors takes the statuses that are there.
CheckStatus ==
  /\ phase = "check"
  /\ Settle
  /\ UNCHANGED <<job, phase, reading, block, blocksIn, added, closed, worker, file, uploaded,
                 faults>>

\* Faulty variant: statuses may be left where they are.
CheckDone_Blind ==
  /\ phase = "check"
  /\ phase' = IF result THEN "read" ELSE "leftover"
  /\ UNCHANGED <<job, result, reading, sending, statuses, closed, worker, file, uploaded, faults>>

CheckDone ==
  /\ phase = "check"
  /\ statuses = <<>>
  /\ phase' = IF result THEN "read" ELSE "leftover"
  /\ UNCHANGED <<job, result, reading, sending, statuses, closed, worker, file, uploaded, faults>>

\* Faulty variant: the rows of an incomplete block are forgotten.
SendLeftover_Not ==
  /\ phase = "leftover"
  /\ UNCHANGED <<block, blocksIn, sent>>
  /\ phase' = "settle"
  /\ UNCHANGED <<job, result, reading, added, statuses, closed, worker, file, uploaded, faults>>

\* waitForWorker: what is left is sent, after an error, too.
SendLeftover ==
  /\ phase = "leftover"
  /\ IF block = <<>> THEN UNCHANGED <<block, blocksIn, sent>>
     ELSE /\ Len(blocksIn) < MaxBlocks
          /\ blocksIn' = Append(blocksIn, block)
          /\ sent' = sent + 1
          /\ block' = <<>>
  /\ phase' = "settle"
  /\ UNCHANGED <<job, result, reading, added, statuses, closed, worker, file, uploaded, faults>>

\* Then as many statuses as there are blocks sent and not yet answered.
AwaitStatus ==
  /\ phase = "settle"
  /\ sent > 0
  /\ Settle
  /\ UNCHANGED <<job, phase, reading, block, blocksIn, added, closed, worker, file, uploaded,
                 faults>>

\* Faulty variant: after an error nothing is waited for.
CloseChannels_OnError ==
  /\ phase = "settle"
  /\ sent = 0 \/ ~result
  /\ closed' = TRUE
  /\ IF result
     THEN phase' = IF job.remote THEN "stat" ELSE "done"
     ELSE phase' = "failed"
  /\ UNCHANGED <<job, result, reading, sending, statuses, worker, file, uploaded, faults>>

\* And the channels are closed.  The worker is not waited for.
CloseChannels ==
  /\ phase = "settle"
  /\ sent = 0
  /\ closed' = TRUE
  /\ IF result
     THEN phase' = IF job.remote THEN "stat" ELSE "done"
     ELSE phase' = "failed"
  /\ UNCHANGED <<job, result, reading, sending, statuses, worker, file, uploaded, faults>>

\* "Wait till inserter calls w.Close() to flush the file": until the file is not empty any
\* more, or thirty seconds have passed.
Stat ==
  /\ phase = "stat"
  /\ phase' = IF file.size = "some" THEN "upload" ELSE "failed"
  /\ UNCHANGED <<job, result, reading, sending, statuses, closed, worker, file, uploaded, faults>>

Upload ==
  /\ phase = "upload"
  /\ \/ uploaded' = file /\ phase' = "done" /\ UNCHANGED faults
     \/ Fault("upload") /\ phase' = "failed" /\ UNCHANGED uploaded
  /\ UNCHANGED <<job, result, reading, sending, statuses, closed, worker, file>>

-------------------------------------------------------------------------------
\* The worker.

Static == <<job, phase, result, reading, block, sent, added, closed>>

\* It opens the file that the producer has created.
Open ==
  /\ worker.at = "start"
  /\ \/ worker' = [worker EXCEPT !.at = "idle"] /\ UNCHANGED faults
     \/ worker' = [worker EXCEPT !.at = "idle", !.openOk = FALSE] /\ Fault("open")
  /\ UNCHANGED <<Static, blocksIn, statuses, file, uploaded>>

TakeBlock ==
  /\ worker.at = "idle"
  /\ blocksIn # <<>>
  /\ worker' = [worker EXCEPT !.at = IF worker.openOk THEN "write" ELSE "bad",
                              !.block = Head(blocksIn)]
  /\ blocksIn' = Tail(blocksIn)
  /\ UNCHANGED <<Static, statuses, file, uploaded, faults>>

Wrote(rows, at) ==
  /\ file' = [file EXCEPT !.rows = @ \o rows]
  /\ worker' = [worker EXCEPT !.at = at]

\* The rows of a block go to the file in one string.
WriteCsv ==
  /\ worker.at = "write" /\ job.format = "csv"
  /\ \/ Wrote(worker.block, "good") /\ UNCHANGED faults
     \/ /\ Fault("write")
        /\ \E n \in {0, Len(worker.block)} : Wrote(SubSeq(worker.block, 1, n), "bad")
  /\ UNCHANGED <<Static, blocksIn, statuses, uploaded>>

\* AddData keeps the rows in memory.
Grouped(rows, at) == worker' = [worker EXCEPT !.at = at, !.group = @ \o rows]

\* Row by row, up to the first that cannot be converted or added.
WriteParquet ==
  /\ worker.at = "write" /\ job.format = "parquet"
  /\ \/ Grouped(worker.block, "good") /\ UNCHANGED faults
     \/ /\ Fault("write")
        /\ \E n \in 0..Len(worker.block)-1 : Grouped(SubSeq(worker.block, 1, n), "bad")
  /\ UNCHANGED <<Static, blocksIn, statuses, file, uploaded>>

Report == worker.at \in {"good", "bad"} /\ statuses' = Append(statuses, worker.at = "good")

\* Waits for room.
Answer ==
  /\ Len(statuses) < 1
  /\ Report
  /\ worker' = [worker EXCEPT !.at = "idle", !.block = <<>>]
  /\ UNCHANGED <<Static, blocksIn, file, uploaded, faults>>

\* An error of w.Close() is written to the log, and nobody else hears of it.
CloseFails ==
  /\ Fault("close")
  /\ worker' = [worker EXCEPT !.at = "exit", !.closeOk = FALSE]

\* No block is left.  The Parquet writer, if there is one, is closed: the row group goes to the
\* file, in which an error may leave a part of it, ...
Finish ==
  /\ worker.at = "idle"
  /\ closed /\ blocksIn = <<>>
  /\ IF job.format = "parquet" /\ worker.openOk
     THEN \/ /\ worker' = [worker EXCEPT !.at = "footer", !.group = <<>>]
             /\ file' = [file EXCEPT !.rows = worker.group, !.size = "some"]
             /\ UNCHANGED faults
          \/ /\ CloseFails
             /\ \E size \in {"zero", "some"} : file' = [file EXCEPT !.size = size]
     ELSE worker' = [worker EXCEPT !.at = "exit"] /\ UNCHANGED <<file, faults>>
  /\ UNCHANGED <<Static, blocksIn, statuses, uploaded>>

\* ... then the footer, without which the file cannot be read.
WriteFooter ==
  /\ worker.at = "footer"
  /\ \/ /\ worker' = [worker EXCEPT !.at = "exit"]
        /\ file' = [file EXCEPT !.whole = TRUE] /\ UNCHANGED faults
     \/ CloseFails /\ UNCHANGED file
  /\ UNCHANGED <<Static, blocksIn, statuses, uploaded>>

-------------------------------------------------------------------------------
Init ==
  /\ job \in Jobs
  /\ phase = "create" /\ result = TRUE
  /\ cursor = Cursor(FirstToken, {}) /\ page = <<>> /\ pos = 0 /\ read = 0 /\ added = 0
  /\ heap = {} /\ block = <<>> /\ blocksIn = <<>> /\ statuses = <<>> /\ sent = 0
  /\ closed = FALSE
  /\ worker = [at |-> "exit", block |-> <<>>, group |-> <<>>, openOk |-> TRUE, closeOk |-> TRUE]
  /\ file = None /\ uploaded = None
  /\ faults = 0

Producer ==
  \/ Create \/ CreateFails \/ ReadPage \/ ReadFails \/ SkipRow \/ PushRow \/ AddRow \/ EndRows
  \/ CheckStatus \/ CheckDone \/ SendLeftover \/ AwaitStatus \/ CloseChannels \/ Stat \/ Upload

Worker ==
  \/ Open \/ TakeBlock \/ WriteCsv \/ WriteParquet \/ Answer \/ Finish \/ WriteFooter

Ended == phase \in {"done", "failed"}

\* The producer waits for room for a block, the worker for room for a status.
Hung ==
  /\ phase \in {"rows", "leftover"} /\ Len(blocksIn) = MaxBlocks
  /\ worker.at \in {"good", "bad"} /\ statuses # <<>>

\* Not a step of the program.
Stopped ==
  /\ (Ended /\ worker.at = "exit") \/ Hung
  /\ UNCHANGED vars

Next == Producer \/ Worker \/ Stopped

Spec == Init /\ [][Next]_vars

\* Goroutines are scheduled, and calls to the database and the file system return.
FairSpec == Spec /\ WF_vars(Producer) /\ WF_vars(Worker)

-------------------------------------------------------------------------------
TypeOK ==
  /\ job \in Jobs /\ result \in BOOLEAN /\ closed \in BOOLEAN
  /\ phase \in {"create", "read", "rows", "top", "check", "leftover", "settle", "stat", "upload",
                "done", "failed"}
  /\ page \in Seq(Rows) /\ pos \in 0..Len(page) /\ read \in Nat /\ added \in Nat
  /\ heap \subseteq Rows /\ (HasTop => Cardinality(heap) <= job.top)
  /\ Len(block) < BlockSize /\ Len(blocksIn) <= MaxBlocks /\ Len(statuses) <= 1
  /\ sent \in Nat
  /\ worker.at \in {"start", "idle", "write", "good", "bad", "footer", "exit"}
  /\ {file.size, uploaded.size} \subseteq {"none", "zero", "some"}

Wanted == {i \in 1..Len(job.tokens) : job.tokens[i] \in FirstToken..LastToken}
ToWrite == Wanted \cap Passing

Destination == IF job.remote THEN uploaded ELSE file

\* What the file is to hold: all the rows that pass, as they are read, or the first ones in the
\* order of "top".
Expected(rows) ==
  IF HasTop
  THEN /\ Len(rows) = IF Cardinality(ToWrite) < job.top THEN Cardinality(ToWrite) ELSE job.top
       /\ Cardinality(ToSet(rows)) = Len(rows)
       /\ ToSet(rows) \subseteq ToWrite
       /\ \A i, k \in DOMAIN rows : i < k => KeyOf[rows[i]] <= KeyOf[rows[k]]
       /\ \A i \in ToSet(rows), k \in ToWrite \ ToSet(rows) : KeyOf[i] <= KeyOf[k]
  ELSE rows = Ascending(ToWrite)

\* The worker has ended without an error.
EndedWell == worker.at = "exit" /\ worker.openOk /\ worker.closeOk

\* A batch that reports success has written each row that passes, in order, or the first ones of
\* "top", although the worker that writes them is never waited for and its errors come late
\* (runCreateFile, checkWorkerOutputForErrors).  A CSV file is complete when the batch returns, a
\* local Parquet file when the worker has closed it, if it could be opened and closed.  Of an
\* uploaded Parquet file this is promised only if it has its footer: see UploadedIsWhole.
FileIsExact ==
  phase = "done" =>
    /\ read = Cardinality(Wanted)
    /\ Destination.whole => Expected(Destination.rows) /\ added = Len(Destination.rows)
    /\ job.format = "csv" => Destination.whole
    /\ ~job.remote /\ EndedWell => Destination.whole

\* When the channel of statuses is closed the worker has nothing more to send there, which would
\* end the daemon: "the number of errors to receive eventually should match instr.BatchesSent".
NoSendOnClosed ==
  closed => /\ blocksIn = <<>> /\ statuses = <<>>
            /\ worker.at \in {"start", "idle", "footer", "exit"}

\* "Wait till inserter calls w.Close() to flush the file" (runCreateFile): what has been uploaded
\* is a whole file, with its footer.
UploadedIsWhole == phase = "done" /\ job.remote => uploaded.whole

\* The node "writes processed data to the target file" (doc/glossary.md on table_file): when a batch
\* has reported success and its worker has ended, a local file can be read.
SuccessIsReadable == phase = "done" /\ ~job.remote /\ worker.at = "exit" => file.whole

\* The batch returns and the worker ends.  Producer and worker wait for each other only in the
\* middle of a page, when its rows have filled a block and begun another one, which is full, too,
\* or is sent because a row cannot be evaluated, and when the blocks before are as many as the
\* channels and the worker hold (FileInserter.add, waitForWorker).
EndsOrHangs ==
  <>(\/ Ended /\ worker.at = "exit"
     \/ /\ Hung /\ ~HasTop /\ pos < Len(page)
        /\ Len(block) < Cardinality({k \in 1..pos : page[k] \in Passing})
        /\ added >= (MaxBlocks + 2) * BlockSize + Len(block))
===============================================================================
