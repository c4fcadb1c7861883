----------------------------- MODULE DistinctTable -----------------------------
(***************************************************************************)
(* The data table and the unique index of a distinct_table node, and what  *)
(* its batches do to them: the insert workers of                           *)
(* pkg/proc/table_inserter.go, which claim a key in the index before they  *)
(* write the data row (insertDistinctIdxAndDataRecords), and the clean-up  *)
(* before a batch is handled again (DeleteDataAndUniqueIndexesByBatchIdx). *)
(*                                                                         *)
(* Every statement sent to the database is an action.  Batches run side by *)
(* side, in one daemon or in several, and so do the workers of a batch.    *)
(*                                                                         *)
(* A rowid is a random number of 63 bits.  Here the n-th rowid drawn for   *)
(* item i is <<i, n>>, unlike any other, unless a "collision" draws a      *)
(* rowid that the data table has already.                                  *)
(*                                                                         *)
(* A repeated insert compares what it wrote with what the driver reads:    *)
(* a decimal of the program is never equal to a decimal of the driver, and *)
(* the database keeps a time in milliseconds.  The records of Exact are    *)
(* the ones that are equal to themselves when they come back.              *)
(***************************************************************************)
EXTENDS Integers, FiniteSets

CONSTANTS
  Batches,              \* batches of the node
  Items,                \* rows that readers hand to insert workers, over all batches
  Keys,                 \* values of the unique index
  None,                 \* no rowid
  AmazonKeyspaces,      \* CassandraEngine is Amazon Keyspaces, not Cassandra
  PageSize,             \* HarvestForDeleteRowsetSize
  BatchOf, KeyOf,       \* BatchOf[i], KeyOf[i] of an item i
  RecordOf,             \* RecordOf[i]: the fields of item i
  Exact,                \* records without decimals and without fractions of a millisecond
  MaxDuplicateRetries,  \* attempts with another rowid
  MaxDbProblemRetries,  \* attempts of one statement
  FaultKinds,           \* subset of {"crash", "db", "collision"}
  MaxFaults             \* bound: number of faults in a behaviour

ASSUME DistinctAssumption ==
  /\ BatchOf \in [Items -> Batches]
  /\ KeyOf \in [Items -> Keys]
  /\ \A i, j \in Items : RecordOf[i] = RecordOf[j] => KeyOf[i] = KeyOf[j]
  /\ None \notin Items \X Nat
  /\ AmazonKeyspaces \in BOOLEAN
  /\ PageSize \in Nat \ {0}
  /\ MaxDuplicateRetries \in Nat \ {0}
  /\ MaxDbProblemRetries \in Nat \ {0}
  /\ MaxFaults \in Nat

VARIABLES
  data,      \* rows of the data table: [rowid, item], the item that gave the fields
  idx,       \* idx[k]: rowid of k's record in the unique index, or None
  phase,     \* phase[b]: what the handler of batch b does
  passed,    \* passed[b]: rows before the page state of b's clean-up
  more,      \* more[b]: the page state after the last page read is not empty
  harvest,   \* harvest[b]: rows of that page to be deleted (rowIdsToDelete)
  keyed,     \* keyed[b]: those of them whose index records are still to be deleted
  writer,    \* writer[i]: the insert worker that has item i
  draws,     \* draws[i]: number of rowids drawn for item i
  robbed,    \* history: an index record was taken for an orphan and was none
  disowned,  \* history: rowids of rows that their own workers took for another's
  faults     \* number of faults so far

tables == <<data, idx>>
cleaner == <<phase, passed, more, harvest, keyed>>
history == <<robbed, disowned>>
vars == <<tables, cleaner, writer, draws, history, faults>>

Rowids == Items \X Nat
Phases == {"scan", "dropIdx", "dropData", "writing", "complete", "failed"}
Steps == {"todo", "idx", "data", "undo", "checkIdx", "checkData", "drop", "done", "failed"}
Idle == [at |-> "todo", rowid |-> None, seen |-> None, tries |-> 0, attempt |-> 0]

ItemsOf(b) == {i \in Items : BatchOf[i] = b}
RowsOf(b) == {d \in data : BatchOf[d.item] = b}
HasRow(r) == \E d \in data : d.rowid = r

Fault(kind) ==
  /\ kind \in FaultKinds
  /\ faults < MaxFaults
  /\ faults' = faults + 1

\* The worker of item i goes on with another statement.
Goto(i, step) == writer' = [writer EXCEPT ![i].at = step, ![i].attempt = 0]

\* rowidRand.Int63().  A collision is so unlikely that it comes alone.
Fresh(i) == <<i, draws[i] + 1>>
Collisions ==
  IF "collision" \in FaultKinds /\ faults = 0 /\ MaxFaults > 0 THEN {d.rowid : d \in data} ELSE {}
Draw(i) == draws' = [draws EXCEPT ![i] = @ + 1]

\* Faulty variant: one attempt too many.
NextTry_OnceMore(i, r) ==
  IF writer[i].tries < MaxDuplicateRetries
  THEN writer' = [writer EXCEPT ![i] = [at |-> "idx", rowid |-> r, seen |-> None,
                                        tries |-> writer[i].tries + 1, attempt |-> 0]]
  ELSE Goto(i, "failed")

\* The retry loop of insertDistinctIdxAndDataRecords: once more, with rowid r,
\* or "cannot insert distinct idx/data records".
NextTry(i, r) ==
  IF writer[i].tries + 1 < MaxDuplicateRetries
  THEN writer' = [writer EXCEPT ![i] = [at |-> "idx", rowid |-> r, seen |-> None,
                                        tries |-> writer[i].tries + 1, attempt |-> 0]]
  ELSE Goto(i, "failed")

-------------------------------------------------------------------------------
\* insertDistinctIdxAndDataRecords, one statement per action.

\* A worker takes the item from RecordsIn.
Begin(i) ==
  /\ phase[BatchOf[i]] = "writing"
  /\ writer[i].at = "todo"
  /\ \/ /\ writer' = [writer EXCEPT ![i].at = "idx", ![i].rowid = Fresh(i)]
        /\ Draw(i)
        /\ UNCHANGED faults
     \/ /\ \E r \in Collisions : writer' = [writer EXCEPT ![i].at = "idx", ![i].rowid = r]
        /\ faults' = MaxFaults
        /\ UNCHANGED draws
  /\ UNCHANGED <<tables, cleaner, history>>

\* Faulty variant: a key that is there already means that its data row is there.
OnDuplicateKey_TrustsIndex(i) == Goto(i, "done")

\* ErrDuplicateKey: the record may be an orphan, look for its data row.
OnDuplicateKey(i) == Goto(i, "checkIdx")

\* INSERT INTO idx ... IF NOT EXISTS, answered.
InsertIdx(i) ==
  /\ writer[i].at = "idx"
  /\ LET k == KeyOf[i]
         mine == idx[k] = writer[i].rowid /\ writer[i].attempt > 0
     IN \/ /\ idx[k] = None
           /\ idx' = [idx EXCEPT ![k] = writer[i].rowid]
           /\ Goto(i, "data")
        \/ /\ mine           \* leftover of an attempt that reported an error
           /\ Goto(i, "data")
           /\ UNCHANGED idx
        \/ /\ idx[k] # None /\ ~mine
           /\ OnDuplicateKey(i)
           /\ UNCHANGED idx
  /\ UNCHANGED <<data, cleaner, draws, history, faults>>

\* The same statement ends in an error, applied or not: it is repeated while the
\* error is a time-out and attempts are left, then another rowid is tried.
InsertIdxFails(i) ==
  /\ writer[i].at = "idx"
  /\ Fault("db")
  /\ \/ UNCHANGED idx
     \/ idx[KeyOf[i]] = None /\ idx' = [idx EXCEPT ![KeyOf[i]] = writer[i].rowid]
  /\ \/ /\ writer[i].attempt + 1 < MaxDbProblemRetries
        /\ writer' = [writer EXCEPT ![i].attempt = @ + 1]
        /\ UNCHANGED draws
     \/ NextTry(i, Fresh(i)) /\ Draw(i)
  /\ UNCHANGED <<data, cleaner, history>>

\* The row that is there already compares equal, field by field, to what i wrote.
FoundEqual(i) ==
  /\ RecordOf[i] \in Exact
  /\ \E d \in data : d.rowid = writer[i].rowid /\ RecordOf[d.item] = RecordOf[i]

\* INSERT INTO data ... IF NOT EXISTS, answered.  A row that compares equal is a
\* leftover of an earlier attempt, if there was one; any other row, the worker's own
\* included if it does not compare equal, is a duplicate rowid.
InsertData(i) ==
  /\ writer[i].at = "data"
  /\ LET r == writer[i].rowid
         leftover == FoundEqual(i) /\ writer[i].attempt > 0
     IN \/ /\ ~HasRow(r)
           /\ data' = data \cup {[rowid |-> r, item |-> i]}
           /\ Goto(i, "done")
           /\ UNCHANGED disowned
        \/ /\ leftover
           /\ Goto(i, "done")
           /\ UNCHANGED <<data, disowned>>
        \/ /\ HasRow(r) /\ ~leftover
           /\ Goto(i, "undo")
           /\ disowned' = disowned \cup {d.rowid : d \in {e \in data : e.rowid = r /\ e.item = i}}
           /\ UNCHANGED data
  /\ UNCHANGED <<idx, cleaner, draws, robbed, faults>>

InsertDataFails(i) ==
  /\ writer[i].at = "data"
  /\ Fault("db")
  /\ \/ UNCHANGED data
     \/ /\ ~HasRow(writer[i].rowid)
        /\ data' = data \cup {[rowid |-> writer[i].rowid, item |-> i]}
  /\ \/ /\ writer[i].attempt + 1 < MaxDbProblemRetries
        /\ writer' = [writer EXCEPT ![i].attempt = @ + 1]
     \/ Goto(i, "failed")
  /\ UNCHANGED <<idx, cleaner, draws, history>>

\* Faulty variant: the claim on the key stays when the rowid is given up.
UndoIdx_KeepsClaim(i) ==
  /\ writer[i].at = "undo"
  /\ NextTry(i, Fresh(i))
  /\ Draw(i)
  /\ UNCHANGED <<tables, cleaner, history, faults>>

\* Duplicate rowid: deleteIdxRecordByKey, then another rowid.
UndoIdx(i) ==
  /\ writer[i].at = "undo"
  /\ idx' = [idx EXCEPT ![KeyOf[i]] = None]
  /\ NextTry(i, Fresh(i))
  /\ Draw(i)
  /\ UNCHANGED <<data, cleaner, history, faults>>

\* selectDataRowidByIdxKey reads the index record and then the data row.
CheckIdx(i) ==
  /\ writer[i].at = "checkIdx"
  /\ IF idx[KeyOf[i]] = None
     THEN Goto(i, "drop")
     ELSE writer' = [writer EXCEPT ![i].at = "checkData", ![i].seen = idx[KeyOf[i]]]
  /\ UNCHANGED <<tables, cleaner, draws, history, faults>>

CheckData(i) ==
  /\ writer[i].at = "checkData"
  /\ Goto(i, IF HasRow(writer[i].seen) THEN "done" ELSE "drop")
  /\ UNCHANGED <<tables, cleaner, draws, history, faults>>

\* The record is of use: its data row is there, or a worker is about to write it.
InUse(r) ==
  \/ HasRow(r)
  \/ \E j \in Items : writer[j].at = "data" /\ writer[j].rowid = r

\* deleteIdxRecordByKey of the supposed orphan, and once more with the same rowid.
DropOrphan(i) ==
  /\ writer[i].at = "drop"
  /\ idx' = [idx EXCEPT ![KeyOf[i]] = None]
  /\ robbed' = (robbed \/ InUse(idx[KeyOf[i]]))
  /\ NextTry(i, writer[i].rowid)
  /\ UNCHANGED <<data, cleaner, draws, disowned, faults>>

\* A select or a delete ends in an error: the item is reported as failed.
StatementFails(i) ==
  /\ writer[i].at \in {"undo", "checkIdx", "checkData", "drop"}
  /\ Fault("db")
  /\ Goto(i, "failed")
  /\ UNCHANGED <<tables, cleaner, draws, history>>

\* The drainer has a status for every item: success only if all are good.
EndBatch(b) ==
  /\ phase[b] = "writing"
  /\ \A i \in ItemsOf(b) : writer[i].at \in {"done", "failed"}
  /\ phase' = [phase EXCEPT ![b] =
                 IF \E i \in ItemsOf(b) : writer[i].at = "failed" THEN "failed" ELSE "complete"]
  /\ UNCHANGED <<tables, passed, more, harvest, keyed, writer, draws, history, faults>>

-------------------------------------------------------------------------------
\* DeleteDataAndUniqueIndexesByBatchIdx, which precedes the second handling.

\* A page read from the page state on, and whether the page state after it says
\* that there is more: surely so if rows are left, perhaps if it is full.  Amazon
\* Keyspaces returns "only a fraction of records page after page".
Page(b, page, isMore) ==
  /\ page \subseteq data \ passed[b]
  /\ page # {}
  /\ Cardinality(page) <= PageSize
  /\ page # data \ passed[b] => isMore
  /\ isMore => Cardinality(page) = PageSize \/ AmazonKeyspaces

\* Faulty variant: the end of the table is the end of the scan in no engine.
GoOn_NoStop(b, isMore, behind) ==
  /\ phase' = [phase EXCEPT ![b] = "scan"]
  /\ passed' = [passed EXCEPT ![b] = IF isMore THEN behind ELSE {}]

\* Reading goes on behind the page, or from the first row if the page state is
\* empty; only Amazon Keyspaces stops there.
GoOn(b, isMore, behind) ==
  /\ phase' = [phase EXCEPT ![b] = IF AmazonKeyspaces /\ ~isMore THEN "writing" ELSE "scan"]
  /\ passed' = [passed EXCEPT ![b] = IF isMore THEN behind ELSE {}]

\* Faulty variant: the keys of the whole page are harvested, not only of rows of b.
Harvest_KeysOfAll(b, page, isMore) ==
  /\ harvest' = [harvest EXCEPT ![b] = page \cap RowsOf(b)]
  /\ keyed' = [keyed EXCEPT ![b] = page]
  /\ more' = [more EXCEPT ![b] = isMore]
  /\ phase' = [phase EXCEPT ![b] = "dropIdx"]

\* rowIdsToDelete and keysToDeleteMap are filled from the rows of b on the page.
Harvest(b, page, isMore) ==
  /\ harvest' = [harvest EXCEPT ![b] = page \cap RowsOf(b)]
  /\ keyed' = [keyed EXCEPT ![b] = page \cap RowsOf(b)]
  /\ more' = [more EXCEPT ![b] = isMore]
  /\ phase' = [phase EXCEPT ![b] = "dropIdx"]

\* selectBatchPagedAllRowids, and what its caller makes of the page.
ScanPage(b) ==
  /\ phase[b] = "scan"
  /\ \/ /\ data \subseteq passed[b]                   \* rs.RowCount == 0
        /\ phase' = [phase EXCEPT ![b] = "writing"]
        /\ passed' = [passed EXCEPT ![b] = {}]
        /\ UNCHANGED <<more, harvest, keyed>>
     \/ \E page \in SUBSET data, isMore \in BOOLEAN :
          /\ Page(b, page, isMore)
          /\ \/ /\ page \cap RowsOf(b) = {}
                /\ GoOn(b, isMore, passed[b] \cup page)
                /\ UNCHANGED <<more, harvest, keyed>>
             \/ /\ page \cap RowsOf(b) # {}
                /\ Harvest(b, page, isMore)
                /\ UNCHANGED passed
  /\ UNCHANGED <<tables, writer, draws, history, faults>>

\* Faulty variant: the record goes whatever rowid it has.
IdxWithout_ByKeyOnly(d) == [idx EXCEPT ![KeyOf[d.item]] = None]

\* DELETE FROM idx WHERE key = ... AND rowid = ..., if the database takes it.
IdxWithout(d) == [idx EXCEPT ![KeyOf[d.item]] = IF @ = d.rowid THEN None ELSE @]

\* deleteIdxRecordByKeyAndRowid, one record at a time.  In a unique index rowid is no
\* part of the primary key (CreateIdxTableCql): the database may reject the statement,
\* and then the clean-up fails.
DropIdx(b) ==
  /\ phase[b] = "dropIdx"
  /\ \/ \E d \in keyed[b] :
          /\ idx' = IdxWithout(d)
          /\ keyed' = [keyed EXCEPT ![b] = @ \ {d}]
          /\ phase' = [phase EXCEPT ![b] = IF keyed[b] = {d} THEN "dropData" ELSE @]
     \/ /\ phase' = [phase EXCEPT ![b] = "failed"]
        /\ UNCHANGED <<idx, keyed>>
  /\ UNCHANGED <<data, passed, more, harvest, writer, draws, history, faults>>

\* deleteDataRecordByRowid: the rows of the page in one statement.  Then the page
\* state is reset.
DropData(b) ==
  /\ phase[b] = "dropData"
  /\ data' = {d \in data : \A h \in harvest[b] : h.rowid # d.rowid}
  /\ harvest' = [harvest EXCEPT ![b] = {}]
  /\ GoOn(b, more[b], {})
  /\ UNCHANGED <<idx, more, keyed, writer, draws, history, faults>>

CleanUpFails(b) ==
  /\ phase[b] \in {"scan", "dropIdx", "dropData"}
  /\ Fault("db")
  /\ phase' = [phase EXCEPT ![b] = "failed"]
  /\ UNCHANGED <<tables, passed, more, harvest, keyed, writer, draws, history>>

\* The handler of b is gone with its workers, or has given the message back for
\* lack of a connection: the next one finds a start row and cleans up.
Crash(b) ==
  /\ phase[b] \in {"scan", "dropIdx", "dropData", "writing"}
  /\ Fault("crash")
  /\ phase' = [phase EXCEPT ![b] = "scan"]
  /\ passed' = [passed EXCEPT ![b] = {}]
  /\ harvest' = [harvest EXCEPT ![b] = {}]
  /\ keyed' = [keyed EXCEPT ![b] = {}]
  /\ writer' = [i \in Items |-> IF BatchOf[i] = b THEN Idle ELSE writer[i]]
  /\ UNCHANGED <<tables, more, draws, history>>

-------------------------------------------------------------------------------
Init ==
  /\ data = {}
  /\ idx = [k \in Keys |-> None]
  /\ phase = [b \in Batches |-> "writing"]
  /\ passed = [b \in Batches |-> {}]
  /\ more = [b \in Batches |-> FALSE]
  /\ harvest = [b \in Batches |-> {}]
  /\ keyed = [b \in Batches |-> {}]
  /\ writer = [i \in Items |-> Idle]
  /\ draws = [i \in Items |-> 0]
  /\ robbed = FALSE
  /\ disowned = {}
  /\ faults = 0

Worker(i) ==
  \/ Begin(i)
  \/ InsertIdx(i) \/ InsertIdxFails(i)
  \/ InsertData(i) \/ InsertDataFails(i)
  \/ UndoIdx(i)
  \/ CheckIdx(i) \/ CheckData(i) \/ DropOrphan(i)
  \/ StatementFails(i)

Handler(b) ==
  \/ EndBatch(b)
  \/ ScanPage(b) \/ DropIdx(b) \/ DropData(b) \/ CleanUpFails(b)
  \/ Crash(b)

Next == (\E i \in Items : Worker(i)) \/ (\E b \in Batches : Handler(b))

Spec == Init /\ [][Next]_vars

\* A handler that is alive takes its next step.
CleanUp(b) == ScanPage(b) \/ DropIdx(b) \/ DropData(b)
FairSpec ==
  /\ Spec
  /\ \A i \in Items : WF_vars(Worker(i) /\ UNCHANGED faults)
  /\ \A b \in Batches : WF_vars(CleanUp(b)) /\ WF_vars(EndBatch(b))

-------------------------------------------------------------------------------
TypeOK ==
  /\ data \subseteq [rowid : Rowids, item : Items]
  /\ idx \in [Keys -> Rowids \cup {None}]
  /\ phase \in [Batches -> Phases]
  /\ passed \in [Batches -> SUBSET [rowid : Rowids, item : Items]]
  /\ more \in [Batches -> BOOLEAN]
  /\ harvest \in [Batches -> SUBSET [rowid : Rowids, item : Items]]
  /\ keyed \in [Batches -> SUBSET [rowid : Rowids, item : Items]]
  /\ writer \in [Items -> [at : Steps, rowid : Rowids \cup {None}, seen : Rowids \cup {None},
                           tries : 0 .. MaxDuplicateRetries - 1,
                           attempt : 0 .. MaxDbProblemRetries - 1]]
  /\ draws \in [Items -> Nat]
  /\ robbed \in BOOLEAN
  /\ disowned \subseteq Rowids
  /\ faults \in Nat

Rows(k) == {d \in data : KeyOf[d.item] = k}

\* Somebody has yet to see to key k.
Pending(k) == \E i \in Items : KeyOf[i] = k /\ writer[i].at # "done"

\* No key is lost: while a batch counts an item as done, the data table has a
\* row with its key, or some item with this key is still to be written.  Broken by
\* a claim in the index that outlives its writer and is taken for a row, the orphan
\* that insertDistinctIdxAndDataRecords looks for.
KeyKept == \A i \in Items : writer[i].at = "done" => Rows(KeyOf[i]) # {} \/ Pending(KeyOf[i])

\* Rows that stay: those of batches that are not going to be cleaned up.
Settled(d) == phase[BatchOf[d.item]] \in {"writing", "complete"}

\* Crashes, time-outs and clean-ups alone give no key two rows: of the rows that
\* stay, two have the same key only after an index record in use was taken for an
\* orphan, or because a worker found a row of its own after a time-out, took it for
\* another's and wrote a second one.  It is about the order of the deletes in a
\* clean-up and their conditions, and about what a repeated insert may undo.
SecondRowHasReason ==
  ~robbed => \A d, e \in data :
               /\ Settled(d) /\ d.rowid \notin disowned
               /\ Settled(e) /\ e.rowid \notin disowned
               /\ KeyOf[d.item] = KeyOf[e.item]
               => d = e

\* When all batches are complete, the index leads from every key to its row, as a
\* lookup on the distinct table needs it, unless a record in use was deleted.  A row
\* that was taken for another's and given up has been replaced by one with a claim.
IndexLeadsToRow ==
  ~robbed /\ (\A b \in Batches : phase[b] = "complete") =>
     \A i \in Items : \E d \in Rows(KeyOf[i]) : idx[KeyOf[i]] = d.rowid

\* glossary.md on distinct_table: "makes sure the record is unique using the
\* supplied unique index": complete batches leave one row per key.
RecordsUnique ==
  \A d, e \in data :
     /\ phase[BatchOf[d.item]] = "complete"
     /\ phase[BatchOf[e.item]] = "complete"
     /\ KeyOf[d.item] = KeyOf[e.item]
     => d = e

\* scriptconfig.md on rerun_policy: "let the daemon (same instance or another) execute
\* this batch again (default)": a clean-up comes to its end.
CleanUpEnds == \A b \in Batches : phase[b] = "scan" ~> phase[b] \in {"writing", "failed"}
===============================================================================
