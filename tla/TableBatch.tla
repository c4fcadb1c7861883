------------------------------- MODULE TableBatch -------------------------------
(***************************************************************************)
(* One batch of a node that creates a table, from its reader to the rows   *)
(* in the database: runCreateTableForBatch, readCsv, readParquet and       *)
(* runCreateTableForCustomProcessorForBatch, with the inserter of          *)
(* pkg/proc/table_inserter.go.                                             *)
(*                                                                         *)
(* The producer reads rows and puts records into RecordsIn; insert workers *)
(* take them, write a data row and its index record, and put one status    *)
(* per record into RecordWrittenStatuses; the drainer counts the statuses  *)
(* until it has as many as records were sent, or runs out of patience.     *)
(* Both channels hold NumWorkers items.                                    *)
(*                                                                         *)
(* A row makes a record of the table, and with tag_and_denormalize one for *)
(* every tag whose criteria it meets.  A record is known by a number, that *)
(* of its row unless it is one of a tag's.                                 *)
(*                                                                         *)
(* A rowid is a random number of 63 bits: here <<i, n>> is one drawn for   *)
(* record i, unlike any that a row or a worker has, unless a "collision"   *)
(* draws a rowid that the table has already.                               *)
(***************************************************************************)
EXTENDS TokenPaging

CONSTANTS
  Sources,        \* set of [reader : Readers, tokens : sequence]; of a file, the
                  \* sequence gives the number of lines or rows
  Uniqueness,     \* subset of BOOLEAN: whether the index of the table is unique
  FirstToken,     \* start_token and
  LastToken,      \* end_token of the batch, when it reads a table
  RowsetSize,     \* rowset_size of the reader
  FlushSize,      \* flush buffer of a custom processor
  FieldsOf,       \* FieldsOf[i]: fields of record i
  KeyOf,          \* KeyOf[i]: its key in the index
  Exact,          \* records that compare equal when read back: no decimal2, which comes back
                  \* as another type, and no time finer than a millisecond
  HeaderLines,    \* lines before the first data line of a CSV file
  TagRecords,     \* TagRecords[i]: records that tag_and_denormalize makes of row i, if any
  Passing,        \* records that the having condition lets pass
  Workers,
  MaxDuplicateRetries, MaxDbProblemRetries,
  None,
  MaxRead,        \* bound: a batch that reads rows again stops when it has read more
  FaultKinds,     \* subset of {"read", "eval", "db", "collision", "patience"}
  MaxFaults       \* bound: number of faults in a behaviour

Custom == {"pycalc", "tag"}
Readers == {"table", "csv", "parquet"} \cup Custom
ok == "ok"
error == "error"

ASSUME TableAssumption ==
  /\ Uniqueness \subseteq BOOLEAN
  /\ FirstToken \in Int /\ LastToken \in Int /\ HeaderLines \in Nat
  /\ RowsetSize \in Nat \ {0} /\ FlushSize \in Nat \ {0}
  /\ MaxDuplicateRetries \in Nat \ {0} /\ MaxDbProblemRetries \in Nat \ {0}
  /\ IsFiniteSet(Workers)
  /\ None \notin {ok, error} /\ MaxFaults \in Nat
  /\ \A s \in Sources :
       /\ s.reader \in Readers
       /\ s.tokens \in Seq(Int)
       /\ \A i, j \in 1..Len(s.tokens) : i < j => s.tokens[i] <= s.tokens[j]
  /\ \A i \in DOMAIN TagRecords :
       /\ TagRecords[i] \subseteq Nat /\ IsFiniteSet(TagRecords[i])
       /\ \A j \in DOMAIN TagRecords : i # j => TagRecords[i] \cap TagRecords[j] = {}

VARIABLES
  source,      \* where the rows come from
  unique,      \* the index is unique
  phase,       \* what the producer does
  result,      \* error that it is about to return
  cursor,      \* where the next page starts
  page,        \* rows of the page
  pos,         \* number of rows of it that are done with
  upto,        \* number of rows of it that belong to the flush
  read,        \* BatchStats.RowsRead
  added,       \* BatchStats.RowsWritten
  recordsIn,   \* the channel RecordsIn
  closed,      \* RecordsIn is closed
  sent,        \* RecordsSent
  statuses,    \* the channel RecordWrittenStatuses: TRUE is nil, FALSE an error
  processed,   \* RecordsProcessed
  drainer,     \* the goroutine of startDrainer
  signals,     \* items in DrainerCancelSignal, DrainerDoneSignal, DrainerCompleteSignal
  worker,      \* worker[w]
  data,        \* the data table: [rowid, record]
  idx,         \* the index: [key, rowid]
  strays,      \* history: rowids of rows that an attempt left behind, and that the next one
               \* took for somebody else's
  wrapped,     \* history: a page came round to rows already read, or stopped short
  gaveUp,      \* history: the drainer ran out of patience
  faults

producer == <<phase, result, cursor, page, pos, upto, read, added, wrapped>>
channels == <<recordsIn, closed, sent, statuses>>
draining == <<processed, drainer, gaveUp>>
tables == <<data, idx, strays>>
vars == <<source, unique, producer, channels, draining, signals, worker, tables, faults>>

Rows == UNION {1..Len(s.tokens) : s \in Sources}
Owned == {d \in data : d.rowid \notin strays}
Capacity == Cardinality(Workers)
IdleWorker == [at |-> "idle", record |-> 0, rowid |-> None, tries |-> 0, attempt |-> 0]

Fault(kind) ==
  /\ kind \in FaultKinds
  /\ faults < MaxFaults
  /\ faults' = faults + 1

-------------------------------------------------------------------------------
\* The producer.

StartDrainer == drainer' = [at |-> "on", sending |-> TRUE, err |-> FALSE]
Signal(name, item) == signals' = [signals EXCEPT ![name] = item]

\* createInserterAndStartWorkers.  A custom processor starts a drainer for each flush.
Open ==
  /\ phase = "open"
  /\ worker' = [w \in Workers |-> IdleWorker]
  /\ IF source.reader \in Custom THEN UNCHANGED drainer ELSE StartDrainer
  /\ phase' = "read"
  /\ UNCHANGED <<source, unique, result, cursor, page, pos, upto, read, added, wrapped, channels,
                 processed, gaveUp, signals, tables, faults>>

\* The file cannot be opened, a column is not in its schema, or the reader's node was never
\* run: nothing was started.
OpenFails ==
  /\ phase = "open"
  /\ Fault("read")
  /\ phase' = "failed" /\ result' = error
  /\ UNCHANGED <<source, unique, cursor, page, pos, upto, read, added, wrapped, channels, draining,
                 signals, worker, tables>>

\* Rows to work on, or none: doneSending, except that a custom processor has no drainer.
Got(rows) ==
  /\ page' = rows /\ pos' = 0
  /\ CASE rows = <<>> /\ source.reader \in Custom ->
            phase' = "close" /\ UNCHANGED <<upto, signals>>
       [] rows = <<>> /\ source.reader \notin Custom ->
            phase' = "wait" /\ Signal("done", ok) /\ UNCHANGED upto
       [] rows # <<>> /\ source.reader \in Custom ->
            phase' = "flush" /\ UNCHANGED <<upto, signals>>
       [] rows # <<>> /\ source.reader \notin Custom ->
            phase' = "rows" /\ upto' = Len(rows) /\ UNCHANGED signals

Reading(reader) == phase = "read" /\ source.reader \in reader
UnchangedByReading ==
  UNCHANGED <<source, unique, result, read, added, channels, draining, worker, tables, faults>>

\* A page by tokens; an empty one ends the reading, whatever is behind it.
ReadPage ==
  /\ Reading({"table"} \cup Custom)
  /\ wrapped => read <= MaxRead
  /\ Got(Ascending(PageRows(source.tokens, RowsetSize, cursor, LastToken)))
  /\ cursor' = NextCursor(source.tokens, RowsetSize, cursor, LastToken)
  /\ wrapped' = (wrapped \/ Wraps(source.tokens, RowsetSize, cursor, LastToken))
  /\ UnchangedByReading

\* A line of a CSV file.  Lines before the first data line, the header among them, have
\* no rows; the cursor counts the lines.
ReadCsvLine ==
  /\ Reading({"csv"})
  /\ IF cursor.token < HeaderLines
     THEN UNCHANGED <<page, pos, upto, phase, signals>>
     ELSE Got(IF cursor.token < Len(source.tokens) THEN <<cursor.token + 1>> ELSE <<>>)
  /\ cursor' = [cursor EXCEPT !.token = @ + 1]
  /\ UNCHANGED wrapped
  /\ UnchangedByReading

ReadParquetRow ==
  /\ Reading({"parquet"})
  /\ Got(IF read < Len(source.tokens) THEN <<read + 1>> ELSE <<>>)
  /\ UNCHANGED <<cursor, wrapped>>
  /\ UnchangedByReading

RecordsOf(rows) ==
  IF source.reader = "tag"
  THEN UNION {TagRecords[i] : i \in rows \cap DOMAIN TagRecords}
  ELSE rows

\* The records that come out of the reader for the page, row after row; the order of a
\* row's tags, which is that of a Go map, makes no difference.
Batch ==
  IF source.reader = "tag"
  THEN Ascending(RecordsOf({page[k] : k \in 1..Len(page)}))
  ELSE page

\* Faulty variant: the drainer is told that all was sent.
Cancel_Silent == phase' = "wait" /\ Signal("done", ok) /\ UNCHANGED result

\* cancelDrainer, then waitForDrainer.
Cancel == phase' = "wait" /\ Signal("cancel", error) /\ UNCHANGED result

\* A page or a line cannot be read, or a custom processor fails; the latter has no
\* drainer to tell.
ReadFails ==
  /\ \/ phase = "read"
     \/ phase = "flush" /\ pos < Len(Batch)
  /\ Fault("read")
  /\ IF source.reader \in Custom
     THEN phase' = "close" /\ result' = error /\ UNCHANGED signals
     ELSE Cancel
  /\ UNCHANGED <<source, unique, cursor, page, pos, upto, read, added, wrapped, channels, draining,
                 worker, tables>>

\* A custom processor calls flushVarsArrayCallback with the next rows of its page; the
\* page is done with when all are flushed.
Flush ==
  /\ phase = "flush"
  /\ IF pos < Len(Batch)
     THEN /\ StartDrainer
          /\ upto' = IF pos + FlushSize < Len(Batch) THEN pos + FlushSize ELSE Len(Batch)
          /\ phase' = "rows" /\ UNCHANGED read
     ELSE phase' = "read" /\ read' = read + Len(page) /\ UNCHANGED <<drainer, upto>>
  /\ UNCHANGED <<source, unique, result, cursor, page, pos, added, wrapped, channels, processed,
                 gaveUp, signals, worker, tables, faults>>

\* A record that the having condition refuses.
SkipRow ==
  /\ phase = "rows" /\ pos < upto
  /\ Batch[pos + 1] \notin Passing
  /\ pos' = pos + 1
  /\ UNCHANGED <<source, unique, phase, result, cursor, page, upto, read, added, wrapped, channels,
                 draining, signals, worker, tables, faults>>

\* An expression of a field, having or an index key cannot be evaluated.
EvalFails ==
  /\ phase = "rows" /\ pos < upto
  /\ Fault("eval")
  /\ Cancel
  /\ UNCHANGED <<source, unique, cursor, page, pos, upto, read, added, wrapped, channels, draining,
                 worker, tables>>

\* add: the record is sent, which waits for room, and counted.
AddRecord ==
  /\ phase = "rows" /\ pos < upto
  /\ Batch[pos + 1] \in Passing
  /\ Len(recordsIn) < Capacity
  /\ recordsIn' = Append(recordsIn, Batch[pos + 1])
  /\ phase' = "count"
  /\ UNCHANGED <<source, unique, result, cursor, page, pos, upto, read, added, wrapped, closed,
                 sent, statuses, draining, signals, worker, tables, faults>>

CountRecord ==
  /\ phase = "count"
  /\ sent' = sent + 1
  /\ added' = added + 1
  /\ pos' = pos + 1
  /\ phase' = "rows"
  /\ UNCHANGED <<source, unique, result, cursor, page, upto, read, wrapped, recordsIn, closed,
                 statuses, draining, signals, worker, tables, faults>>

\* The rows are sent: the next page, or doneSending of the flush.
EndRows ==
  /\ phase = "rows" /\ pos = upto
  /\ IF source.reader \in Custom
     THEN phase' = "wait" /\ Signal("done", ok) /\ UNCHANGED read
     ELSE phase' = "read" /\ read' = read + Len(page) /\ UNCHANGED signals
  /\ UNCHANGED <<source, unique, result, cursor, page, pos, upto, added, wrapped, channels,
                 draining, worker, tables, faults>>

\* waitForDrainer
Wait ==
  /\ phase = "wait"
  /\ signals.complete # None
  /\ Signal("complete", None)
  /\ result' = signals.complete
  /\ phase' = IF signals.complete = ok /\ source.reader \in Custom THEN "flush" ELSE "close"
  /\ UNCHANGED <<source, unique, cursor, page, pos, upto, read, added, wrapped, channels, draining,
                 worker, tables, faults>>

\* closeInserter: RecordsIn is closed, then the workers are waited for.
Close ==
  /\ phase = "close"
  /\ closed' = TRUE
  /\ phase' = "closing"
  /\ UNCHANGED <<source, unique, result, cursor, page, pos, upto, read, added, wrapped, recordsIn,
                 sent, statuses, draining, signals, worker, tables, faults>>

\* Faulty variant: the workers are not waited for.
Return_AtOnce ==
  /\ phase = "closing"
  /\ phase' = IF result = ok THEN "done" ELSE "failed"
  /\ UNCHANGED <<source, unique, result, cursor, page, pos, upto, read, added, wrapped, channels,
                 draining, signals, worker, tables, faults>>

\* The defer has run.
Return ==
  /\ phase = "closing"
  /\ \A w \in Workers : worker[w].at = "exit"
  /\ phase' = IF result = ok THEN "done" ELSE "failed"
  /\ UNCHANGED <<source, unique, result, cursor, page, pos, upto, read, added, wrapped, channels,
                 draining, signals, worker, tables, faults>>

-------------------------------------------------------------------------------
\* The drainer.

\* Faulty variant: after an error the statuses that are left are not waited for.
Draining_UnlessFailed ==
  drainer.at = "on" /\ (drainer.sending \/ (~drainer.err /\ sent > processed))

Draining == drainer.at = "on" /\ (drainer.sending \/ sent > processed)

\* Faulty variant: an error is counted and forgotten.
Harvested_Forgets(status) == drainer

\* A status, good or bad.
Harvested(status) == [drainer EXCEPT !.err = @ \/ ~status]

DrainStatus ==
  /\ Draining
  /\ statuses # <<>>
  /\ statuses' = Tail(statuses)
  /\ processed' = processed + 1
  /\ drainer' = Harvested(Head(statuses))
  /\ UNCHANGED <<source, unique, producer, recordsIn, closed, sent, gaveUp, signals, worker, tables,
                 faults>>

DrainSignal ==
  /\ Draining
  /\ \/ /\ signals.cancel # None
        /\ Signal("cancel", None)
        /\ drainer' = [drainer EXCEPT !.sending = FALSE, !.err = TRUE]
     \/ /\ signals.done # None
        /\ Signal("done", None)
        /\ drainer' = [drainer EXCEPT !.sending = FALSE]
  /\ UNCHANGED <<source, unique, producer, channels, processed, gaveUp, worker, tables, faults>>

\* No status for MaxAllowedRowInsertionTimeMs, for instance because the producer has
\* been reading, or filtering, all the time.
DrainTimeout ==
  /\ Draining
  /\ Fault("patience")
  /\ drainer' = [drainer EXCEPT !.sending = FALSE, !.err = TRUE]
  /\ gaveUp' = TRUE
  /\ UNCHANGED <<source, unique, producer, channels, processed, signals, worker, tables>>

DrainComplete ==
  /\ drainer.at = "on" /\ ~Draining
  /\ drainer' = [drainer EXCEPT !.at = "off"]
  /\ Signal("complete", IF drainer.err THEN error ELSE ok)
  /\ UNCHANGED <<source, unique, producer, channels, processed, gaveUp, worker, tables, faults>>

-------------------------------------------------------------------------------
\* The insert workers.

Goto(w, step) == worker' = [worker EXCEPT ![w].at = step, ![w].attempt = 0]
Working == <<source, unique, producer, closed, sent, draining, signals>>

Unused(rowid) == /\ \A d \in data : d.rowid # rowid
                 /\ \A v \in Workers : worker[v].rowid # rowid

Begin(w, i, rowid, tries) ==
  worker' = [worker EXCEPT ![w] = [at |-> "data", record |-> i, rowid |-> rowid, tries |-> tries,
                                   attempt |-> 0]]

\* A rowid for record i; a collision is so unlikely that it comes alone.
Draw(w, i, tries) ==
  \/ /\ \E n \in 0..Cardinality(data) + Capacity :
          /\ Unused(<<i, n>>) /\ \A m \in 0..n - 1 : ~Unused(<<i, m>>)
          /\ Begin(w, i, <<i, n>>, tries)
     /\ UNCHANGED faults
  \/ /\ "collision" \in FaultKinds /\ faults = 0 /\ MaxFaults > 0
     /\ \E d \in data : Begin(w, i, d.rowid, tries)
     /\ faults' = MaxFaults

TakeRecord(w) ==
  /\ worker[w].at = "idle"
  /\ recordsIn # <<>>
  /\ Draw(w, Head(recordsIn), 0)
  /\ recordsIn' = Tail(recordsIn)
  /\ UNCHANGED <<Working, statuses, tables>>

Exit(w) ==
  /\ worker[w].at = "idle"
  /\ closed /\ recordsIn = <<>>
  /\ Goto(w, "exit")
  /\ UNCHANGED <<Working, recordsIn, statuses, tables, faults>>

\* ErrDuplicateRowid: another rowid, or the end of patience with them.
Redraw(w) ==
  IF worker[w].tries + 1 < MaxDuplicateRetries
  THEN Draw(w, worker[w].record, worker[w].tries + 1)
  ELSE Goto(w, "bad") /\ UNCHANGED faults

\* Faulty variant: an identical row is taken for one's own at the first attempt, too.
Leftover_Always(w, d) == FieldsOf[d.record] = FieldsOf[worker[w].record]

\* A row with the rowid that compares equal, field by field: left by an attempt that
\* reported a time-out, if there was one.
Leftover(w, d) ==
  /\ FieldsOf[d.record] = FieldsOf[worker[w].record] /\ worker[w].record \in Exact
  /\ worker[w].attempt > 0

\* Such a row, whether it compares equal or not.
LeftBehind(w, d) == d.record = worker[w].record /\ worker[w].attempt > 0

\* INSERT INTO data ... IF NOT EXISTS, answered.
InsertData(w) ==
  /\ worker[w].at = "data"
  /\ \/ /\ \A d \in data : d.rowid # worker[w].rowid
        /\ data' = data \cup {[rowid |-> worker[w].rowid, record |-> worker[w].record]}
        /\ Goto(w, "idx")
        /\ UNCHANGED <<strays, faults>>
     \/ \E d \in data :
          /\ d.rowid = worker[w].rowid
          /\ IF Leftover(w, d)
             THEN Goto(w, "idx") /\ UNCHANGED <<strays, faults>>
             ELSE /\ Redraw(w)
                  /\ strays' = strays \cup (IF LeftBehind(w, d) THEN {d.rowid} ELSE {})
          /\ UNCHANGED data
  /\ UNCHANGED <<Working, recordsIn, statuses, idx>>

\* A statement of worker w ends in an error: it is repeated while the error is one of
\* those that pass and attempts are left.
Repeat(w) ==
  \/ /\ worker[w].attempt + 1 < MaxDbProblemRetries
     /\ worker' = [worker EXCEPT ![w].attempt = @ + 1]
  \/ Goto(w, "bad")

\* Applied or not.
InsertDataFails(w) ==
  /\ worker[w].at = "data"
  /\ Fault("db")
  /\ \/ UNCHANGED data
     \/ /\ \A d \in data : d.rowid # worker[w].rowid
        /\ data' = data \cup {[rowid |-> worker[w].rowid, record |-> worker[w].record]}
  /\ Repeat(w)
  /\ UNCHANGED <<Working, recordsIn, statuses, idx, strays>>

IdxRecord(w) == [key |-> KeyOf[worker[w].record], rowid |-> worker[w].rowid]

\* Faulty variant: a duplicate key is no error.
Duplicate_Accepted(w, e) == FALSE

\* A record with the key is somebody else's, or one's own that was there before.
Duplicate(w, e) ==
  unique /\ e.key = KeyOf[worker[w].record] /\ (e.rowid # worker[w].rowid \/ worker[w].attempt = 0)

\* INSERT INTO idx, with IF NOT EXISTS if the index is unique.
InsertIdx(w) ==
  /\ worker[w].at = "idx"
  /\ IF \E e \in idx : Duplicate(w, e)
     THEN Goto(w, "bad") /\ UNCHANGED idx
     ELSE Goto(w, "good") /\ idx' = idx \cup {IdxRecord(w)}
  /\ UNCHANGED <<Working, recordsIn, statuses, data, strays, faults>>

InsertIdxFails(w) ==
  /\ worker[w].at = "idx"
  /\ Fault("db")
  /\ \/ UNCHANGED idx
     \/ ~unique /\ idx' = idx \cup {IdxRecord(w)}
     \/ (\A e \in idx : e.key # KeyOf[worker[w].record]) /\ idx' = idx \cup {IdxRecord(w)}
  /\ Repeat(w)
  /\ UNCHANGED <<Working, recordsIn, statuses, data, strays>>

\* "For each record in instr.RecordsIn, we MUST produce one item in
\* instr.RecordWrittenStatuses": waits for room.
Report(w) ==
  /\ worker[w].at \in {"good", "bad"}
  /\ Len(statuses) < Capacity
  /\ statuses' = Append(statuses, worker[w].at = "good")
  /\ worker' = [worker EXCEPT ![w] = IdleWorker]
  /\ UNCHANGED <<Working, recordsIn, tables, faults>>

-------------------------------------------------------------------------------
Init ==
  /\ source \in Sources
  /\ unique \in Uniqueness
  /\ phase = "open" /\ result = ok
  /\ cursor = Cursor(IF source.reader = "csv" THEN 0 ELSE FirstToken, {})
  /\ page = <<>> /\ pos = 0 /\ upto = 0 /\ read = 0 /\ added = 0
  /\ recordsIn = <<>> /\ closed = FALSE /\ sent = 0
  /\ statuses = <<>> /\ processed = 0
  /\ drainer = [at |-> "off", sending |-> TRUE, err |-> FALSE]
  /\ signals = [cancel |-> None, done |-> None, complete |-> None]
  /\ worker = [w \in Workers |-> [IdleWorker EXCEPT !.at = "exit"]]
  /\ data = {} /\ idx = {} /\ strays = {}
  /\ wrapped = FALSE /\ gaveUp = FALSE
  /\ faults = 0

Producer ==
  \/ Open \/ OpenFails \/ ReadPage \/ ReadCsvLine \/ ReadParquetRow \/ ReadFails \/ Flush
  \/ SkipRow \/ EvalFails \/ AddRecord \/ CountRecord
  \/ EndRows \/ Wait \/ Close \/ Return
Drainer == DrainStatus \/ DrainSignal \/ DrainTimeout \/ DrainComplete
Worker(w) ==
  \/ TakeRecord(w) \/ Exit(w) \/ InsertData(w) \/ InsertDataFails(w)
  \/ InsertIdx(w) \/ InsertIdxFails(w) \/ Report(w)

Ended == phase \in {"done", "failed"}

\* Nobody reads statuses any more: the workers that are left wait for room for one, and
\* the producer for room for a record or for the workers.
Hung ==
  /\ drainer.at = "off"
  /\ Len(statuses) = Capacity
  /\ \A w \in Workers : worker[w].at \in {"good", "bad", "idle", "exit"}
  /\ \E w \in Workers : worker[w].at \in {"good", "bad"}
  /\ phase = "closing" \/ (phase = "rows" /\ Len(recordsIn) = Capacity)

\* A batch whose pages come round to the same rows again and again.
ReadsAgain == phase = "read" /\ wrapped /\ read > MaxRead

\* Not a step of the program.
Stopped ==
  /\ Ended \/ Hung \/ ReadsAgain
  /\ UNCHANGED vars

Next == Producer \/ Drainer \/ (\E w \in Workers : Worker(w)) \/ Stopped

Spec == Init /\ [][Next]_vars

\* Goroutines are scheduled and statements are answered.
FairSpec ==
  /\ Spec
  /\ WF_vars(Producer) /\ WF_vars(Drainer)
  /\ \A w \in Workers : WF_vars(Worker(w))

-------------------------------------------------------------------------------
TypeOK ==
  /\ source \in Sources /\ unique \in Uniqueness
  /\ phase \in {"open", "read", "flush", "rows", "count", "wait", "close", "closing", "done",
                "failed"}
  /\ result \in {ok, error}
  /\ cursor.rows \subseteq Rows
  /\ page \in Seq(Rows) /\ pos \in 0..upto \cup {0} /\ upto \in Nat
  /\ read \in Nat /\ added \in Nat
  /\ Len(recordsIn) <= Capacity /\ Len(statuses) <= Capacity
  /\ statuses \in Seq(BOOLEAN) /\ recordsIn \in Seq(Nat)
  /\ sent \in Nat /\ processed \in Nat
  /\ signals \in [{"cancel", "done", "complete"} -> {None, ok, error}]
  /\ drainer \in [at : {"on", "off"}, sending : BOOLEAN, err : BOOLEAN]
  /\ \A w \in Workers :
       /\ worker[w].at \in {"idle", "data", "idx", "good", "bad", "exit"}
       /\ worker[w].tries < MaxDuplicateRetries /\ worker[w].attempt < MaxDbProblemRetries
  /\ \A d, e \in data : d.rowid = e.rowid => d = e
  /\ strays \subseteq {d.rowid : d \in data}
  /\ closed \in BOOLEAN /\ wrapped \in BOOLEAN /\ gaveUp \in BOOLEAN /\ faults \in 0..MaxFaults

\* The rows the batch is there for, and those whose records it is to write.
Wanted ==
  CASE source.reader \in {"table"} \cup Custom ->
         {i \in 1..Len(source.tokens) : source.tokens[i] \in FirstToken..LastToken}
    [] source.reader = "csv" -> {i \in 1..Len(source.tokens) : i > HeaderLines}
    [] source.reader = "parquet" -> 1..Len(source.tokens)
ToWrite == RecordsOf(Wanted) \cap Passing

\* "Script execution should survive temporary DB failures": a batch that reports success has
\* read each row of its interval or file once, and written each record that passes, once and
\* with its index record, whatever statements had to be repeated and whichever rowids
\* collided; a unique index has no key twice.  Two things are excepted.  Pages that wrap skip
\* rows or repeat them (AllWritten).  And a record that does not compare equal when it is read
\* back may leave behind, after a time-out, a row without index records (WrittenOnce).
WrittenIsExact ==
  phase = "done" /\ ~wrapped =>
    /\ {d.record : d \in data} = ToWrite
    /\ \A d, e \in Owned : d.record = e.record => d = e
    /\ \A d \in data \ Owned : d.record \notin Exact
    /\ idx = {[key |-> KeyOf[d.record], rowid |-> d.rowid] : d \in Owned}
    /\ unique => \A d, e \in idx : d.key = e.key => d = e
    /\ read = Cardinality(Wanted)
    /\ added = Cardinality(Owned)

\* "The ONLY valid termination is an empty read", as another one "would silently drop all
\* remaining source rows and still report the batch as successful" (runCreateTableForBatch).
\* An empty page does that, too, when it has only rows that the page before ended with:
\* with a rowset_size of 1, or when rowset_size rows share a token.
AllWritten == phase = "done" => ToWrite \subseteq {d.record : d \in data}

\* "this existing row may be a leftover from a previous timeout write, and we got what we
\* wanted" (insertDataRecordWithRowid): but a row with a decimal2 field never compares equal
\* to the values written, so it is written again.
WrittenOnce == phase = "done" => \A d, e \in data : d.record = e.record => d = e

\* When the batch has returned nobody works for it any more: its data can be cleaned up,
\* or read, without a late worker writing (closeInserter).
QuietWhenReturned ==
  Ended => /\ \A w \in Workers : worker[w].at = "exit"
           /\ recordsIn = <<>>
           /\ drainer.at = "off"

\* The batch returns, whatever fails; unless the drainer has run out of patience, and the
\* records sent after that have nobody to count them, or its pages come round to the same
\* rows again and again, which they do only where rows share a token.
EndsOrHangs ==
  <>(\/ Ended
     \/ gaveUp /\ Hung
     \/ ReadsAgain /\ \E i, j \in Wanted : i # j /\ source.tokens[i] = source.tokens[j])
===============================================================================
