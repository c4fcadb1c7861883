-------------------------- MODULE DistinctTableProofs --------------------------
(***************************************************************************)
(* Proofs about DistinctTable, for any number of batches, items and keys,  *)
(* of crashes and of failed statements, in both engines.                   *)
(*                                                                         *)
(* TInv: types.  IInv: what a rowid tells of its item, by which no key is  *)
(* lost.  LInv: who holds the claim of a key, by which no key has two rows *)
(* and the index leads to the row.                                         *)
(***************************************************************************)
EXTENDS DistinctTable, TLAPS

DataRows == [rowid : Rowids, item : Items]
Writers == [at : Steps, rowid : Rowids \cup {None}, seen : Rowids \cup {None},
            tries : 0 .. MaxDuplicateRetries - 1, attempt : 0 .. MaxDbProblemRetries - 1]
Working == {"idx", "data", "undo", "checkIdx", "checkData", "drop"}

-------------------------------------------------------------------------------
(* What the helpers of the retry loops do to the worker of one item. *)

\* Goto changes what the worker does next and nothing else of it.
LEMMA GotoEffect ==
  ASSUME NEW i \in Items, NEW step \in Steps, writer \in [Items -> Writers], Goto(i, step)
  PROVE  /\ writer' \in [Items -> Writers]
         /\ writer'[i].at = step
         /\ writer'[i].rowid = writer[i].rowid
         /\ writer'[i].seen = writer[i].seen
         /\ \A j \in Items \ {i} : writer'[j] = writer[j]
<1>1. 0 \in 0 .. MaxDbProblemRetries - 1
  BY DistinctAssumption
<1> QED
  BY <1>1 DEF Goto, Writers

\* The next attempt starts over at the index, with the rowid it is given.
LEMMA NextTryEffect ==
  ASSUME NEW i \in Items, NEW r \in Rowids, writer \in [Items -> Writers], NextTry(i, r)
  PROVE  /\ writer' \in [Items -> Writers]
         /\ writer'[i].at \in {"idx", "failed"}
         /\ writer'[i].rowid \in {r, writer[i].rowid}
         /\ writer'[i].at = "idx" => writer'[i].rowid = r
         /\ writer'[i].seen \in {None, writer[i].seen}
         /\ \A j \in Items \ {i} : writer'[j] = writer[j]
<1>1. CASE writer[i].tries + 1 < MaxDuplicateRetries
  <2> DEFINE new == [at |-> "idx", rowid |-> r, seen |-> None,
                     tries |-> writer[i].tries + 1, attempt |-> 0]
  <2>1. writer' = [writer EXCEPT ![i] = new]
    BY <1>1 DEF NextTry
  <2>2. writer[i].tries \in 0 .. MaxDuplicateRetries - 1
    BY DEF Writers
  <2>3. /\ writer[i].tries + 1 \in 0 .. MaxDuplicateRetries - 1
        /\ 0 \in 0 .. MaxDbProblemRetries - 1
    BY <1>1, <2>2, DistinctAssumption
  <2>4. new \in Writers
    BY <2>3 DEF Writers, Steps
  <2> QED
    BY <2>1, <2>4
<1>2. CASE ~(writer[i].tries + 1 < MaxDuplicateRetries)
  <2>1. Goto(i, "failed")
    BY <1>2 DEF NextTry
  <2> QED
    BY <2>1, GotoEffect DEF Steps
<1> QED
  BY <1>1, <1>2

\* A repeated statement: only the number of attempts changes.
LEMMA RetryEffect ==
  ASSUME NEW i \in Items, writer \in [Items -> Writers],
         writer[i].attempt + 1 < MaxDbProblemRetries,
         writer' = [writer EXCEPT ![i].attempt = @ + 1]
  PROVE  /\ writer' \in [Items -> Writers]
         /\ writer'[i].at = writer[i].at
         /\ writer'[i].rowid = writer[i].rowid
         /\ writer'[i].seen = writer[i].seen
         /\ \A j \in Items \ {i} : writer'[j] = writer[j]
<1>1. writer[i].attempt \in 0 .. MaxDbProblemRetries - 1
  BY DEF Writers
<1>2. writer[i].attempt + 1 \in 0 .. MaxDbProblemRetries - 1
  BY <1>1, DistinctAssumption
<1> QED
  BY <1>2 DEF Writers

\* A worker that has read an index record looks for the row it names.
LEMMA LookEffect ==
  ASSUME NEW i \in Items, NEW r \in Rowids \cup {None}, writer \in [Items -> Writers],
         writer' = [writer EXCEPT ![i].at = "checkData", ![i].seen = r]
  PROVE  /\ writer' \in [Items -> Writers]
         /\ writer'[i].at = "checkData"
         /\ writer'[i].rowid = writer[i].rowid
         /\ writer'[i].seen = r
         /\ \A j \in Items \ {i} : writer'[j] = writer[j]
BY DEF Writers, Steps

\* A fresh rowid names the item it was drawn for.
LEMMA FreshRowid ==
  ASSUME NEW i \in Items, draws \in [Items -> Nat]
  PROVE  Fresh(i) \in Rowids /\ Fresh(i)[1] = i
BY DEF Fresh, Rowids

-------------------------------------------------------------------------------
(* Type correctness. *)

\* One worker moves: the types of the tables and of the worker are all there is.
TableTypes == data \subseteq DataRows /\ idx \in [Keys -> Rowids \cup {None}]
CleanerTypes ==
  /\ phase \in [Batches -> Phases]
  /\ passed \in [Batches -> SUBSET DataRows]
  /\ more \in [Batches -> BOOLEAN]
  /\ harvest \in [Batches -> SUBSET DataRows]
  /\ keyed \in [Batches -> SUBSET DataRows]
OtherTypes ==
  draws \in [Items -> Nat] /\ robbed \in BOOLEAN /\ disowned \subseteq Rowids /\ faults \in Nat

LEMMA TypesInParts ==
  TypeOK <=> TableTypes /\ CleanerTypes /\ writer \in [Items -> Writers] /\ OtherTypes
BY DEF TypeOK, TableTypes, CleanerTypes, OtherTypes, DataRows, Writers

LEMMA IdleTyped == Idle \in Writers
<1>1. 0 \in 0 .. MaxDuplicateRetries - 1 /\ 0 \in 0 .. MaxDbProblemRetries - 1
  BY DistinctAssumption
<1> QED
  BY <1>1 DEF Idle, Writers, Steps

LEMMA InitTyped == Init => TypeOK
<1> SUFFICES ASSUME Init PROVE TypeOK
  OBVIOUS
<1>2. writer \in [Items -> Writers]
  BY IdleTyped DEF Init
<1>3. TableTypes
  BY DEF Init, TableTypes
<1>4. CleanerTypes
  BY DEF Init, CleanerTypes, Phases
<1>5. OtherTypes
  BY DEF Init, OtherTypes
<1> QED
  BY <1>2, <1>3, <1>4, <1>5, TypesInParts
-------------------------------------------------------------------------------
(* One step of a worker, whichever it is. *)

\* A worker that has begun has a rowid.
RowidDrawn == \A i \in Items : writer[i].at \in Working => writer[i].rowid \in Rowids

TInv == TypeOK /\ RowidDrawn

\* What the worker of item i may do to the tables and to itself.
Moves(i) ==
  /\ writer' \in [Items -> Writers]
  /\ \A j \in Items \ {i} : writer'[j] = writer[j]
  /\ writer'[i].at # "todo"
  /\ writer[i].at = "todo" => phase[BatchOf[i]] = "writing"
  /\ \/ writer'[i].rowid = Fresh(i)
     \/ writer[i].at \in Working /\ writer'[i].rowid = writer[i].rowid
     \/ "collision" \in FaultKinds /\ HasRow(writer'[i].rowid)
  /\ writer'[i].seen \in {None, writer[i].seen, idx[KeyOf[i]]}
  /\ data' \in {data, data \cup {[rowid |-> writer[i].rowid, item |-> i]}}
  /\ idx' \in {idx, [idx EXCEPT ![KeyOf[i]] = None],
               [idx EXCEPT ![KeyOf[i]] = writer[i].rowid]}
  /\ writer[i].at \in Working \/ UNCHANGED tables
  /\ writer'[i].at = "done" =>
        \E d \in data' : KeyOf[d.item] = KeyOf[i] \/ d.rowid = writer[i].seen
  /\ OtherTypes'
  /\ UNCHANGED cleaner

LEMMA WorkerMoves ==
  ASSUME TInv, NEW i \in Items, Worker(i)
  PROVE  Moves(i)
<1> USE DistinctAssumption
<1>1. /\ TableTypes /\ CleanerTypes /\ OtherTypes
      /\ writer \in [Items -> Writers]
  BY TypesInParts DEF TInv
<1>2. KeyOf[i] \in Keys /\ Fresh(i) \in Rowids
  BY <1>1, FreshRowid DEF OtherTypes
<1>3. writer[i].at \in Working => writer[i].rowid \in Rowids
  BY DEF TInv, RowidDrawn
<1>4. CASE Begin(i)
  <2>1. PICK r : /\ writer' = [writer EXCEPT ![i].at = "idx", ![i].rowid = r]
                 /\ r = Fresh(i) \/ ("collision" \in FaultKinds /\ HasRow(r))
    BY <1>4 DEF Begin, Collisions, HasRow
  <2>2. r \in Rowids
    BY <1>1, <1>2, <2>1 DEF HasRow, TableTypes, DataRows
  <2>3. /\ writer' \in [Items -> Writers]
        /\ \A j \in Items \ {i} : writer'[j] = writer[j]
        /\ writer'[i].at = "idx"
        /\ writer'[i].rowid = r
        /\ writer'[i].seen = writer[i].seen
    BY <1>1, <2>1, <2>2 DEF Writers, Steps
  <2>4. OtherTypes'
    BY <1>1, <1>4 DEF Begin, Draw, OtherTypes, history
  <2> QED
    BY <1>4, <2>1, <2>3, <2>4 DEF Begin, Moves, tables
<1>5. CASE InsertIdx(i)
  <2>1. /\ Goto(i, "data") \/ Goto(i, "checkIdx")
        /\ idx' = idx \/ idx' = [idx EXCEPT ![KeyOf[i]] = writer[i].rowid]
        /\ writer[i].at = "idx"
    BY <1>5 DEF InsertIdx, OnDuplicateKey
  <2> QED
    BY <1>1, <1>5, <2>1, GotoEffect DEF InsertIdx, Moves, OtherTypes, Steps, Working, history
<1>6. CASE InsertIdxFails(i)
  <2>1. /\ writer[i].at = "idx"
        /\ idx' = idx \/ idx' = [idx EXCEPT ![KeyOf[i]] = writer[i].rowid]
        /\ UNCHANGED <<data, cleaner>>
    BY <1>6 DEF InsertIdxFails
  <2>2. OtherTypes'
    BY <1>1, <1>6 DEF InsertIdxFails, Fault, Draw, OtherTypes, history
  <2>3. CASE NextTry(i, Fresh(i))
    BY <1>1, <1>2, <2>1, <2>2, <2>3, NextTryEffect DEF Moves, Working
  <2>4. CASE /\ writer[i].attempt + 1 < MaxDbProblemRetries
             /\ writer' = [writer EXCEPT ![i].attempt = @ + 1]
    BY <1>1, <2>1, <2>2, <2>4, RetryEffect DEF Moves, Working
  <2> QED
    BY <1>6, <2>3, <2>4 DEF InsertIdxFails
<1>7. CASE InsertData(i)
  <2>1. /\ writer[i].at = "data"
        /\ data' \in {data, data \cup {[rowid |-> writer[i].rowid, item |-> i]}}
        /\ UNCHANGED <<idx, cleaner, draws, robbed, faults>>
    BY <1>7 DEF InsertData
  <2>2. \/ Goto(i, "undo")
        \/ Goto(i, "done") /\ \E d \in data' : KeyOf[d.item] = KeyOf[i]
    <3> DEFINE new == [rowid |-> writer[i].rowid, item |-> i]
    <3>1. CASE data' = data \cup {new} /\ Goto(i, "done")
      <4>1. new \in data' /\ KeyOf[new.item] = KeyOf[i]
        BY <3>1
      <4> QED
        BY <3>1, <4>1
    <3>2. CASE FoundEqual(i) /\ UNCHANGED data /\ Goto(i, "done")
      <4>1. PICK d \in data : RecordOf[d.item] = RecordOf[i]
        BY <3>2 DEF FoundEqual
      <4>2. d \in data' /\ KeyOf[d.item] = KeyOf[i]
        BY <1>1, <3>2, <4>1 DEF TableTypes, DataRows
      <4> QED
        BY <3>2, <4>2
    <3>3. CASE Goto(i, "undo")
      BY <3>3
    <3> QED
      BY <1>7, <3>1, <3>2, <3>3 DEF InsertData
  <2>3. disowned' \subseteq Rowids
    BY <1>1, <1>7 DEF InsertData, OtherTypes, TableTypes, DataRows
  <2> QED
    BY <1>1, <2>1, <2>2, <2>3, GotoEffect DEF Moves, OtherTypes, Steps, Working
<1>8. CASE InsertDataFails(i)
  <2>1. /\ writer[i].at = "data"
        /\ data' \in {data, data \cup {[rowid |-> writer[i].rowid, item |-> i]}}
        /\ UNCHANGED <<idx, cleaner, draws>>
    BY <1>8 DEF InsertDataFails
  <2>2. OtherTypes'
    BY <1>1, <1>8 DEF InsertDataFails, Fault, OtherTypes, history
  <2>3. CASE Goto(i, "failed")
    BY <1>1, <2>1, <2>2, <2>3, GotoEffect DEF Moves, Steps, Working
  <2>4. CASE /\ writer[i].attempt + 1 < MaxDbProblemRetries
             /\ writer' = [writer EXCEPT ![i].attempt = @ + 1]
    BY <1>1, <2>1, <2>2, <2>4, RetryEffect DEF Moves, Working
  <2> QED
    BY <1>8, <2>3, <2>4 DEF InsertDataFails
<1>9. CASE UndoIdx(i)
  <2>1. OtherTypes'
    BY <1>1, <1>9 DEF UndoIdx, Draw, OtherTypes, history
  <2> QED
    BY <1>1, <1>2, <1>9, <2>1, NextTryEffect DEF UndoIdx, Moves, Working
<1>10. CASE CheckIdx(i)
  <2>1. CASE Goto(i, "drop")
    BY <1>1, <1>10, <2>1, GotoEffect DEF CheckIdx, Moves, OtherTypes, Steps, Working, tables, history
  <2>2. CASE writer' = [writer EXCEPT ![i].at = "checkData", ![i].seen = idx[KeyOf[i]]]
    <3>1. idx[KeyOf[i]] \in Rowids \cup {None}
      BY <1>1, <1>2 DEF TableTypes
    <3>2. /\ writer' \in [Items -> Writers]
          /\ \A j \in Items \ {i} : writer'[j] = writer[j]
          /\ writer'[i].at = "checkData"
          /\ writer'[i].rowid = writer[i].rowid
          /\ writer'[i].seen = idx[KeyOf[i]]
      BY <1>1, <2>2, <3>1, LookEffect
    <3> QED
      BY <1>1, <1>10, <3>2 DEF CheckIdx, Moves, OtherTypes, Working, tables, history
  <2> QED
    BY <1>10, <2>1, <2>2 DEF CheckIdx
<1>11. CASE CheckData(i)
  <2>1. \/ Goto(i, "drop")
        \/ Goto(i, "done") /\ \E d \in data : d.rowid = writer[i].seen
    BY <1>11 DEF CheckData, HasRow
  <2> QED
    BY <1>1, <1>11, <2>1, GotoEffect DEF CheckData, Moves, OtherTypes, Steps, Working, tables, history
<1>12. CASE DropOrphan(i)
  <2>1. OtherTypes'
    <3>1. robbed' \in BOOLEAN
      BY <1>1, <1>12 DEF DropOrphan, OtherTypes
    <3> QED
      BY <1>1, <1>12, <3>1 DEF DropOrphan, OtherTypes
  <2>2. writer[i].at \in Working /\ NextTry(i, writer[i].rowid)
    BY <1>12 DEF DropOrphan, Working
  <2> QED
    BY <1>1, <1>3, <1>12, <2>1, <2>2, NextTryEffect DEF DropOrphan, Moves
<1>13. CASE StatementFails(i)
  <2>1. OtherTypes'
    BY <1>1, <1>13 DEF StatementFails, Fault, OtherTypes, history
  <2> QED
    BY <1>1, <1>13, <2>1, GotoEffect DEF StatementFails, Moves, Steps, Working, tables
<1> QED
  BY <1>4, <1>5, <1>6, <1>7, <1>8, <1>9, <1>10, <1>11, <1>12, <1>13 DEF Worker

-------------------------------------------------------------------------------
(* Type correctness. *)

LEMMA WorkerTyped ==
  ASSUME TInv, NEW i \in Items, Worker(i)
  PROVE  TInv'
<1>1. /\ TableTypes /\ CleanerTypes /\ OtherTypes
      /\ writer \in [Items -> Writers]
  BY TypesInParts DEF TInv
<1>2. Moves(i)
  BY WorkerMoves
<1>3. KeyOf[i] \in Keys
  BY DistinctAssumption
<1>4. writer[i].at \in Working => writer[i].rowid \in Rowids
  BY DEF TInv, RowidDrawn
<1>5. TableTypes'
  <2>1. CASE UNCHANGED tables
    BY <1>1, <2>1 DEF TableTypes, tables
  <2>2. CASE writer[i].at \in Working
    <3>1. [rowid |-> writer[i].rowid, item |-> i] \in DataRows
      BY <1>4, <2>2 DEF DataRows
    <3>2. data' \subseteq DataRows
      BY <1>1, <1>2, <3>1 DEF TableTypes, Moves
    <3>3. idx' \in [Keys -> Rowids \cup {None}]
      BY <1>1, <1>2, <1>3, <1>4, <2>2 DEF TableTypes, Moves
    <3> QED
      BY <3>2, <3>3 DEF TableTypes
  <2> QED
    BY <1>2, <2>1, <2>2 DEF Moves
<1>6. CleanerTypes'
  BY <1>1, <1>2 DEF Moves, CleanerTypes, cleaner
<1>7. TypeOK'
  BY <1>2, <1>5, <1>6 DEF Moves, TypeOK, TableTypes, CleanerTypes, OtherTypes, DataRows, Writers
<1>8. RowidDrawn'
  <2>1. writer'[i].rowid \in Rowids
    <3>1. \A d \in data : d.rowid \in Rowids
      BY <1>1 DEF TableTypes, DataRows
    <3>2. Fresh(i) \in Rowids
      BY <1>1, FreshRowid DEF OtherTypes
    <3> QED
      BY <1>2, <1>4, <3>1, <3>2 DEF Moves, HasRow
  <2> QED
    BY <1>2, <2>1 DEF Moves, RowidDrawn, TInv
<1> QED
  BY <1>7, <1>8 DEF TInv

\* Rows are harvested from the data table and leave it; workers start over as Idle.
LEMMA HandlerTyped ==
  ASSUME TInv, NEW b \in Batches, Handler(b)
  PROVE  TInv'
<1>1. /\ TableTypes /\ CleanerTypes /\ OtherTypes
      /\ writer \in [Items -> Writers]
  BY TypesInParts DEF TInv
<1>2. data' \subseteq data
  BY DEF Handler, EndBatch, ScanPage, DropIdx, DropData, CleanUpFails, Crash, tables
<1>3. idx' \in [Keys -> Rowids \cup {None}]
  <2>1. CASE DropIdx(b)
    BY <1>1, <2>1 DEF DropIdx, IdxWithout, TableTypes
  <2>2. CASE UNCHANGED idx
    BY <1>1, <2>2 DEF TableTypes
  <2> QED
    BY <2>1, <2>2 DEF Handler, EndBatch, ScanPage, DropData, CleanUpFails, Crash, tables
<1>4. TableTypes'
  BY <1>1, <1>2, <1>3 DEF TableTypes
<1>5. CleanerTypes'
  <2>1. CASE EndBatch(b)
    BY <1>1, <2>1 DEF EndBatch, CleanerTypes, Phases
  <2>2. CASE ScanPage(b)
    <3>1. CASE /\ phase' = [phase EXCEPT ![b] = "writing"]
               /\ passed' = [passed EXCEPT ![b] = {}]
               /\ UNCHANGED <<more, harvest, keyed>>
      BY <1>1, <3>1 DEF CleanerTypes, Phases
    <3>2. ASSUME NEW page \in SUBSET data, NEW isMore \in BOOLEAN,
                 GoOn(b, isMore, passed[b] \cup page), UNCHANGED <<more, harvest, keyed>>
          PROVE  CleanerTypes'
      <4>1. passed[b] \cup page \in SUBSET DataRows
        BY <1>1 DEF TableTypes, CleanerTypes
      <4> QED
        BY <1>1, <3>2, <4>1 DEF GoOn, CleanerTypes, Phases
    <3>3. ASSUME NEW page \in SUBSET data, NEW isMore \in BOOLEAN,
                 Harvest(b, page, isMore), UNCHANGED passed
          PROVE  CleanerTypes'
      <4>1. page \cap RowsOf(b) \in SUBSET DataRows
        BY <1>1 DEF TableTypes
      <4> QED
        BY <1>1, <3>3, <4>1 DEF Harvest, CleanerTypes, Phases
    <3> QED
      BY <2>2, <3>1, <3>2, <3>3 DEF ScanPage
  <2>3. CASE DropIdx(b)
    BY <1>1, <2>3 DEF DropIdx, CleanerTypes, Phases
  <2>4. CASE DropData(b)
    BY <1>1, <2>4 DEF DropData, GoOn, CleanerTypes, Phases
  <2>5. CASE CleanUpFails(b)
    BY <1>1, <2>5 DEF CleanUpFails, CleanerTypes, Phases
  <2>6. CASE Crash(b)
    BY <1>1, <2>6 DEF Crash, CleanerTypes, Phases
  <2> QED
    BY <2>1, <2>2, <2>3, <2>4, <2>5, <2>6 DEF Handler
<1>6. OtherTypes'
  BY <1>1 DEF Handler, EndBatch, ScanPage, DropIdx, DropData, CleanUpFails, Crash, Fault, OtherTypes,
              history
<1>7. writer' \in [Items -> Writers] /\ RowidDrawn'
  <2>1. CASE Crash(b)
    <3>1. Idle \in Writers /\ Idle.at \notin Working
      BY IdleTyped DEF Idle, Working
    <3> QED
      BY <1>1, <2>1, <3>1 DEF Crash, TInv, RowidDrawn
  <2>2. CASE UNCHANGED writer
    BY <1>1, <2>2 DEF TInv, RowidDrawn
  <2> QED
    BY <2>1, <2>2 DEF Handler, EndBatch, ScanPage, DropIdx, DropData, CleanUpFails
<1>8. TypeOK'
  BY <1>4, <1>5, <1>6, <1>7 DEF TypeOK, TableTypes, CleanerTypes, OtherTypes, DataRows, Writers
<1> QED
  BY <1>7, <1>8 DEF TInv

LEMMA InitTInv == Init => TInv
<1> SUFFICES ASSUME Init PROVE TInv
  OBVIOUS
<1>1. RowidDrawn
  BY DEF Init, Idle, RowidDrawn, Working
<1> QED
  BY <1>1, InitTyped DEF TInv

LEMMA StepTInv == TInv /\ [Next]_vars => TInv'
<1> SUFFICES ASSUME TInv, [Next]_vars PROVE TInv'
  OBVIOUS
<1>1. CASE UNCHANGED vars
  BY <1>1 DEF vars, tables, cleaner, history, TInv, TypeOK, RowidDrawn
<1>2. CASE \E i \in Items : Worker(i)
  BY <1>2, WorkerTyped
<1>3. CASE \E b \in Batches : Handler(b)
  BY <1>3, HandlerTyped
<1> QED
  BY <1>1, <1>2, <1>3 DEF Next

\* Whatever fails, and whichever rowids are drawn, the state is well typed, and no
\* worker writes a row or a claim without a rowid.
THEOREM TablesTyped == Spec => []TypeOK
<1>1. TInv => TypeOK
  BY DEF TInv
<1> QED
  BY <1>1, InitTInv, StepTInv, PTL DEF Spec

-------------------------------------------------------------------------------
(* No key is lost, as long as no rowid is drawn twice.                      *)

\* The first part of a rowid is the item it was drawn for: data rows, claims in
\* the index and harvested rows are found under the item and the key they are of.
RowOfItem == \A d \in data : d.rowid[1] = d.item
ClaimOfKey == \A k \in Keys : idx[k] # None => KeyOf[idx[k][1]] = k
HarvestOfBatch ==
  \A b \in Batches : \A h \in harvest[b] : h.rowid[1] = h.item /\ BatchOf[h.item] = b
WriterOfItem ==
  \A i \in Items :
     /\ writer[i].at \in Working => writer[i].rowid[1] = i
     /\ writer[i].seen # None => KeyOf[writer[i].seen[1]] = KeyOf[i]

\* A batch is cleaned up before any of its items is taken by a worker, so the rows
\* that go are of items that are still to be written.
CleanBeforeWrite ==
  \A i \in Items :
     phase[BatchOf[i]] \in {"scan", "dropIdx", "dropData"} => writer[i].at = "todo"

IInv ==
  /\ TInv
  /\ RowOfItem
  /\ ClaimOfKey
  /\ HarvestOfBatch
  /\ WriterOfItem
  /\ CleanBeforeWrite
  /\ KeyKept

LEMMA InitIInv == Init => IInv
<1> SUFFICES ASSUME Init PROVE IInv
  OBVIOUS
<1>1. TInv
  BY InitTInv
<1>2. \A i \in Items : writer[i].at = "todo" /\ writer[i].seen = None
  BY DEF Init, Idle
<1>3. RowOfItem /\ ClaimOfKey /\ HarvestOfBatch
  BY DEF Init, RowOfItem, ClaimOfKey, HarvestOfBatch
<1>4. WriterOfItem /\ CleanBeforeWrite /\ KeyKept
  BY <1>2 DEF WriterOfItem, CleanBeforeWrite, KeyKept, Working
<1> QED
  BY <1>1, <1>3, <1>4 DEF IInv

LEMMA WorkerKeeps ==
  ASSUME IInv, "collision" \notin FaultKinds, NEW i \in Items, Worker(i)
  PROVE  IInv'
<1> USE DistinctAssumption
<1>1. TInv' /\ Moves(i)
  BY WorkerTyped, WorkerMoves DEF IInv
<1>2. /\ TableTypes /\ OtherTypes
      /\ writer \in [Items -> Writers]
  BY TypesInParts DEF IInv, TInv
<1>3. writer[i].at \in Working => writer[i].rowid[1] = i
  BY DEF IInv, WriterOfItem
<1>4. writer'[i].rowid[1] = i
  BY <1>1, <1>2, <1>3, FreshRowid DEF Moves, OtherTypes
<1>5. RowOfItem'
  <2>1. CASE UNCHANGED tables
    BY <2>1 DEF IInv, RowOfItem, tables
  <2>2. CASE writer[i].at \in Working
    BY <1>1, <1>3, <2>2 DEF Moves, IInv, RowOfItem
  <2> QED
    BY <1>1, <2>1, <2>2 DEF Moves
<1>6. ClaimOfKey'
  <2>1. CASE UNCHANGED tables
    BY <2>1 DEF IInv, ClaimOfKey, tables
  <2>2. CASE writer[i].at \in Working
    <3>1. ASSUME NEW k \in Keys, k # KeyOf[i] PROVE idx'[k] = idx[k]
      BY <1>1, <1>2, <3>1 DEF Moves, TableTypes
    <3>2. idx'[KeyOf[i]] \in {idx[KeyOf[i]], None, writer[i].rowid}
      BY <1>1, <1>2 DEF Moves, TableTypes
    <3> QED
      BY <1>3, <2>2, <3>1, <3>2 DEF IInv, ClaimOfKey
  <2> QED
    BY <1>1, <2>1, <2>2 DEF Moves
<1>7. HarvestOfBatch'
  BY <1>1 DEF Moves, cleaner, IInv, HarvestOfBatch
<1>8. WriterOfItem'
  <2>1. writer'[i].seen # None => KeyOf[writer'[i].seen[1]] = KeyOf[i]
    BY <1>1 DEF Moves, IInv, WriterOfItem, ClaimOfKey
  <2> QED
    BY <1>1, <1>4, <2>1 DEF Moves, IInv, WriterOfItem
<1>9. CleanBeforeWrite'
  BY <1>1 DEF Moves, cleaner, IInv, CleanBeforeWrite
<1>10. KeyKept'
  <2> SUFFICES ASSUME NEW j \in Items, writer'[j].at = "done"
               PROVE  Rows(KeyOf[j])' # {} \/ Pending(KeyOf[j])'
    BY DEF KeyKept
  <2>1. data \subseteq data'
    BY <1>1 DEF Moves
  <2>2. CASE KeyOf[j] = KeyOf[i] /\ writer'[i].at # "done"
    BY <2>2 DEF Pending
  <2>3. CASE KeyOf[j] = KeyOf[i] /\ writer'[i].at = "done"
    <3>1. PICK d \in data' : KeyOf[d.item] = KeyOf[i] \/ d.rowid = writer[i].seen
      BY <1>1, <2>3 DEF Moves
    <3>2. KeyOf[d.item] = KeyOf[j]
      <4>1. CASE KeyOf[d.item] = KeyOf[i]
        BY <2>3, <4>1
      <4>2. CASE d.rowid = writer[i].seen
        <5>1. d \in DataRows
          BY <1>1 DEF TInv, TypeOK, DataRows
        <5>2. d.rowid # None
          BY <5>1 DEF DataRows, Rowids
        <5>3. KeyOf[d.rowid[1]] = KeyOf[i]
          BY <4>2, <5>2 DEF IInv, WriterOfItem
        <5> QED
          BY <1>5, <2>3, <5>3 DEF RowOfItem
      <4> QED
        BY <3>1, <4>1, <4>2
    <3> QED
      BY <3>2 DEF Rows
  <2>4. CASE KeyOf[j] # KeyOf[i]
    <3>1. writer[j].at = "done"
      BY <1>1, <2>4 DEF Moves
    <3>2. Rows(KeyOf[j]) # {} \/ Pending(KeyOf[j])
      BY <3>1 DEF IInv, KeyKept
    <3>3. CASE Rows(KeyOf[j]) # {}
      BY <2>1, <3>3 DEF Rows
    <3>4. CASE Pending(KeyOf[j])
      BY <1>1, <2>4, <3>4 DEF Moves, Pending
    <3> QED
      BY <3>2, <3>3, <3>4
  <2> QED
    BY <2>2, <2>3, <2>4
<1> QED
  BY <1>1, <1>5, <1>6, <1>7, <1>8, <1>9, <1>10 DEF IInv

LEMMA HandlerKeeps ==
  ASSUME IInv, NEW b \in Batches, Handler(b)
  PROVE  IInv'
<1> USE DistinctAssumption
<1>1. TInv'
  BY HandlerTyped DEF IInv
<1>2. /\ TableTypes /\ CleanerTypes
      /\ writer \in [Items -> Writers]
  BY TypesInParts DEF IInv, TInv
<1>3. data' \subseteq data
  BY DEF Handler, EndBatch, ScanPage, DropIdx, DropData, CleanUpFails, Crash, tables
<1>4. RowOfItem'
  BY <1>3 DEF IInv, RowOfItem
<1>5. ClaimOfKey'
  <2>1. CASE DropIdx(b)
    <3>1. \A k \in Keys : idx'[k] \in {idx[k], None}
      BY <1>2, <2>1 DEF DropIdx, IdxWithout, TableTypes
    <3> QED
      BY <3>1 DEF IInv, ClaimOfKey
  <2>2. CASE UNCHANGED idx
    BY <2>2 DEF IInv, ClaimOfKey
  <2> QED
    BY <2>1, <2>2 DEF Handler, EndBatch, ScanPage, DropData, CleanUpFails, Crash, tables
<1>6. HarvestOfBatch'
  <2>1. \A c \in Batches : \A h \in harvest'[c] : h \in harvest[c] \/ (c = b /\ h \in RowsOf(b))
    <3>1. CASE ScanPage(b)
      <4>1. CASE UNCHANGED harvest
        BY <4>1
      <4>2. CASE \E page \in SUBSET data, isMore \in BOOLEAN : Harvest(b, page, isMore)
        BY <1>2, <4>2 DEF Harvest, CleanerTypes
      <4> QED
        BY <3>1, <4>1, <4>2 DEF ScanPage
    <3>2. CASE DropData(b) \/ Crash(b)
      BY <1>2, <3>2 DEF DropData, Crash, CleanerTypes
    <3>3. CASE UNCHANGED harvest
      BY <3>3
    <3> QED
      BY <3>1, <3>2, <3>3 DEF Handler, EndBatch, DropIdx, CleanUpFails
  <2> QED
    BY <2>1 DEF IInv, HarvestOfBatch, RowOfItem, RowsOf
<1>7. \A i \in Items : writer'[i] = writer[i] \/ (Crash(b) /\ BatchOf[i] = b /\ writer'[i] = Idle)
  BY <1>2 DEF Handler, EndBatch, ScanPage, DropIdx, DropData, CleanUpFails, Crash
<1>8. WriterOfItem'
  BY <1>7 DEF IInv, WriterOfItem, Idle, Working
<1>9. CleanBeforeWrite'
  <2>1. CASE Crash(b)
    <3>1. \A i \in Items : BatchOf[i] = b => writer'[i] = Idle
      BY <2>1 DEF Crash
    <3>2. \A i \in Items : BatchOf[i] # b =>
             writer'[i] = writer[i] /\ phase'[BatchOf[i]] = phase[BatchOf[i]]
      BY <1>2, <2>1 DEF Crash, CleanerTypes
    <3> QED
      BY <3>1, <3>2 DEF IInv, CleanBeforeWrite, Idle
  <2>2. CASE ~Crash(b)
    <3>1. writer' = writer
      BY <2>2 DEF Handler, EndBatch, ScanPage, DropIdx, DropData, CleanUpFails
    <3>2. \A c \in Batches : c # b => phase'[c] = phase[c]
      BY <2>2, <1>2 DEF Handler, EndBatch, ScanPage, GoOn, Harvest, DropIdx, DropData,
                        CleanUpFails, CleanerTypes
    <3>3. \/ phase'[b] \notin {"scan", "dropIdx", "dropData"}
          \/ phase[b] \in {"scan", "dropIdx", "dropData"}
      BY <2>2, <1>2 DEF Handler, EndBatch, ScanPage, GoOn, Harvest, DropIdx, DropData,
                        CleanUpFails, CleanerTypes
    <3> QED
      BY <3>1, <3>2, <3>3 DEF IInv, CleanBeforeWrite
  <2> QED
    BY <2>1, <2>2
<1>10. KeyKept'
  <2> SUFFICES ASSUME NEW j \in Items, writer'[j].at = "done"
               PROVE  Rows(KeyOf[j])' # {} \/ Pending(KeyOf[j])'
    BY DEF KeyKept
  <2>1. writer[j].at = "done"
    BY <1>7 DEF Idle
  <2>2. CASE Pending(KeyOf[j])
    BY <1>7, <2>2 DEF Pending, Idle
  <2>3. CASE Rows(KeyOf[j]) # {}
    <3>1. PICK d \in data : KeyOf[d.item] = KeyOf[j]
      BY <2>3 DEF Rows
    <3>2. CASE d \in data'
      BY <3>1, <3>2 DEF Rows
    <3>3. CASE d \notin data'
      <4>1. DropData(b)
        BY <3>3 DEF Handler, EndBatch, ScanPage, DropIdx, CleanUpFails, Crash, tables
      <4>2. PICK h \in harvest[b] : h.rowid = d.rowid
        BY <3>1, <3>3, <4>1 DEF DropData
      <4>3. d.item \in Items /\ BatchOf[d.item] = b
        BY <1>2, <3>1, <4>2 DEF IInv, RowOfItem, HarvestOfBatch, TableTypes, DataRows
      <4>4. writer'[d.item].at = "todo"
        BY <4>1, <4>3 DEF DropData, IInv, CleanBeforeWrite
      <4> QED
        BY <3>1, <4>3, <4>4 DEF Pending
    <3> QED
      BY <3>2, <3>3
  <2> QED
    BY <2>1, <2>2, <2>3 DEF IInv, KeyKept
<1> QED
  BY <1>1, <1>4, <1>5, <1>6, <1>8, <1>9, <1>10 DEF IInv

LEMMA StepIInv ==
  ASSUME "collision" \notin FaultKinds, IInv, [Next]_vars
  PROVE  IInv'
<1>1. CASE UNCHANGED vars
  BY <1>1 DEF vars, tables, cleaner, history, IInv, TInv, TypeOK, RowidDrawn, RowOfItem, ClaimOfKey,
              HarvestOfBatch, WriterOfItem, CleanBeforeWrite, KeyKept, Rows, Pending
<1>2. CASE \E i \in Items : Worker(i)
  BY <1>2, WorkerKeeps
<1>3. CASE \E b \in Batches : Handler(b)
  BY <1>3, HandlerKeeps
<1> QED
  BY <1>1, <1>2, <1>3 DEF Next

\* As long as no rowid is drawn twice, an item is reported as written only while a
\* row with its key is there or somebody has yet to write one: a claim that a crash,
\* a failed statement or a clean-up leaves in the index is never taken for a row.
THEOREM KeysKept ==
  ASSUME "collision" \notin FaultKinds
  PROVE  Spec => []KeyKept
<1>1. Init => IInv
  BY InitIInv
<1>2. IInv /\ [Next]_vars => IInv'
  BY StepIInv
<1>3. IInv => KeyKept
  BY DEF IInv
<1> QED
  BY <1>1, <1>2, <1>3, PTL DEF Spec

-------------------------------------------------------------------------------
(* The index leads to the rows that stay, as long as no rowid is drawn twice and *)
(* no record in use is taken for an orphan.                                      *)

Cleaning == {"scan", "dropIdx", "dropData"}

\* A rowid is under a row, or with a worker, only after it was drawn.
Drawn ==
  /\ \A d \in data : d.rowid[2] <= draws[d.item]
  /\ \A i \in Items : writer[i].at \in Working => writer[i].rowid[2] <= draws[i]

\* The worker of item i has not sent its row yet.
Unsent(i) ==
  \/ writer[i].at \in {"idx", "checkIdx", "checkData", "drop"}
  \/ writer[i].at = "data" /\ writer[i].attempt = 0

\* A worker has no row under its rowid until it sends one: a rowid that it gives up is
\* that of a row of its own, which it has just disowned.
NotYetWritten == \A i \in Items : Unsent(i) => ~HasRow(writer[i].rowid)
GivesUpOwn ==
  \A i \in Items :
    writer[i].at = "undo" => HasRow(writer[i].rowid) /\ writer[i].rowid \in disowned

WorkingWhileWriting ==
  \A i \in Items : writer[i].at \in Working => phase[BatchOf[i]] = "writing"

\* A clean-up leaves no row of its batch behind: there is none before the page state,
\* and none elsewhere when the page that is dealt with was the last one.
PassedClean == \A b \in Batches : phase[b] = "scan" => passed[b] \cap RowsOf(b) = {}
HarvestWhole ==
  \A b \in Batches :
    /\ phase[b] \in {"dropIdx", "dropData"} /\ ~more[b] => RowsOf(b) \subseteq harvest[b]
    /\ \A h \in keyed[b] : h.rowid[1] = h.item /\ BatchOf[h.item] = b

CompleteDone == \A i \in Items : phase[BatchOf[i]] = "complete" => writer[i].at = "done"

\* Who is about to write a row holds the claim, and who wrote a row that stays still does,
\* unless it has disowned the row.
ClaimsHeld ==
  ~robbed => \A i \in Items : writer[i].at \in {"data", "undo"} => idx[KeyOf[i]] = writer[i].rowid
RowsIndexed ==
  ~robbed => \A d \in data :
               Settled(d) /\ d.rowid \notin disowned => idx[KeyOf[d.item]] = d.rowid

LInv ==
  /\ IInv
  /\ Drawn /\ NotYetWritten /\ GivesUpOwn /\ WorkingWhileWriting /\ CompleteDone
  /\ PassedClean /\ HarvestWhole
  /\ ClaimsHeld /\ RowsIndexed

\* At the start there is no row, no claim, and no worker has begun.
LEMMA InitLInv == Init => LInv
<1> SUFFICES ASSUME Init PROVE LInv
  OBVIOUS
<1>1. IInv
  BY InitIInv
<1>2. \A i \in Items : writer[i].at = "todo" /\ phase[BatchOf[i]] = "writing"
  BY DistinctAssumption DEF Init, Idle
<1>3. data = {} /\ \A b \in Batches : phase[b] = "writing" /\ keyed[b] = {}
  BY DEF Init
<1>4. Drawn /\ NotYetWritten /\ GivesUpOwn /\ WorkingWhileWriting /\ CompleteDone
  BY <1>2, <1>3 DEF Drawn, NotYetWritten, GivesUpOwn, WorkingWhileWriting, CompleteDone, Unsent,
                    Working
<1>5. PassedClean /\ HarvestWhole
  BY <1>3 DEF PassedClean, HarvestWhole
<1>6. ClaimsHeld /\ RowsIndexed
  BY <1>2, <1>3 DEF ClaimsHeld, RowsIndexed
<1> QED
  BY <1>1, <1>4, <1>5, <1>6 DEF LInv

\* What the worker of item i may do, in more detail.
Claims(i) ==
  /\ writer[i].at = "idx" /\ idx[KeyOf[i]] = None
  /\ idx' = [idx EXCEPT ![KeyOf[i]] = writer[i].rowid] /\ robbed' = robbed
Unclaims(i) ==
  /\ writer[i].at = "drop"
  /\ idx' = [idx EXCEPT ![KeyOf[i]] = None]
  /\ robbed' = (robbed \/ InUse(idx[KeyOf[i]]))
Undoes(i) ==
  /\ writer[i].at = "undo" /\ writer'[i].at \in {"idx", "failed"}
  /\ idx' = [idx EXCEPT ![KeyOf[i]] = None] /\ robbed' = robbed
Works(i) ==
  /\ writer[i].at \in Working \cup {"todo"}
  /\ disowned \subseteq disowned'
  /\ draws' \in [Items -> Nat] /\ \A j \in Items : draws[j] <= draws'[j]
  /\ writer'[i].at \in Working => writer'[i].rowid[2] <= draws'[i]
  /\ \/ data' = data
     \/ /\ writer[i].at = "data" /\ idx' = idx /\ robbed' = robbed
        /\ data' = data \cup {[rowid |-> writer[i].rowid, item |-> i]}
  /\ Unsent(i)' => data' = data /\ ~HasRow(writer'[i].rowid)
  /\ (idx' = idx /\ robbed' = robbed) \/ Claims(i) \/ Unclaims(i) \/ Undoes(i)
  /\ writer'[i].at = "data" =>
       \/ writer[i].at = "data" /\ idx' = idx /\ writer'[i].rowid = writer[i].rowid
       \/ idx'[KeyOf[i]] = writer'[i].rowid
  /\ writer'[i].at = "undo" =>
       /\ writer[i].at = "data" /\ idx' = idx /\ data' = data
       /\ writer'[i].rowid = writer[i].rowid
       /\ HasRow(writer[i].rowid) /\ writer[i].rowid \in disowned'

\* The rowid that is drawn next is under no row.
LEMMA FreshIsNew ==
  ASSUME TypeOK, RowOfItem, Drawn, NEW i \in Items
  PROVE  /\ Fresh(i) \in Rowids /\ Fresh(i)[1] = i /\ Fresh(i)[2] = draws[i] + 1
         /\ ~HasRow(Fresh(i))
<1>1. draws[i] \in Nat
  BY DEF TypeOK
<1>2. Fresh(i) \in Rowids /\ Fresh(i)[1] = i /\ Fresh(i)[2] = draws[i] + 1
  BY <1>1 DEF Fresh, Rowids
<1>3. ASSUME NEW d \in data, d.rowid = Fresh(i)
      PROVE  FALSE
  <2>1. d.item = i /\ d.rowid[2] <= draws[i]
    BY <1>2, <1>3 DEF RowOfItem, Drawn
  <2>2. QED
    BY <1>1, <1>2, <1>3, <2>1
<1>4. QED
  BY <1>2, <1>3, Zenon DEF HasRow

\* A worker that draws a rowid.
LEMMA DrawEffect ==
  ASSUME NEW i \in Items, draws \in [Items -> Nat], Draw(i)
  PROVE  draws' \in [Items -> Nat] /\ draws'[i] = draws[i] + 1
         /\ \A j \in Items : draws[j] <= draws'[j]
BY DEF Draw

\* Goto starts to count the attempts again.
LEMMA GotoAttempt ==
  ASSUME NEW i \in Items, NEW step \in Steps, writer \in [Items -> Writers], Goto(i, step)
  PROVE  writer'[i].attempt = 0
BY DEF Goto, Writers

\* Every statement of a worker is of one of these forms.
LEMMA WorkerWorks ==
  ASSUME LInv, "collision" \notin FaultKinds, NEW i \in Items, Worker(i)
  PROVE  Works(i)
<1> USE DistinctAssumption
<1>1. /\ TableTypes /\ OtherTypes /\ writer \in [Items -> Writers]
      /\ TypeOK /\ RowOfItem /\ Drawn /\ draws \in [Items -> Nat]
  BY TypesInParts DEF LInv, IInv, TInv, OtherTypes
<1>2. /\ KeyOf[i] \in Keys /\ Fresh(i) \in Rowids /\ Fresh(i)[2] = draws[i] + 1
      /\ ~HasRow(Fresh(i))
  BY <1>1, FreshIsNew
<1>3. /\ writer[i].at \in Working => writer[i].rowid[1] = i /\ writer[i].rowid[2] <= draws[i]
      /\ writer[i].at \in {"idx", "checkIdx", "checkData", "drop"} => ~HasRow(writer[i].rowid)
      /\ writer[i].at = "data" /\ writer[i].attempt = 0 => ~HasRow(writer[i].rowid)
      /\ writer[i].at \in Working => writer[i].rowid \in Rowids
  BY DEF LInv, IInv, TInv, RowidDrawn, WriterOfItem, Drawn, NotYetWritten, Unsent
<1>4. \A j \in Items : draws[j] <= draws[j] /\ draws[j] \in Nat
  BY <1>1
<1>5. CASE Begin(i)
  <2>1. writer' = [writer EXCEPT ![i].at = "idx", ![i].rowid = Fresh(i)] /\ Draw(i)
    BY <1>5 DEF Begin, Collisions
  <2>2. writer'[i].at = "idx" /\ writer'[i].rowid = Fresh(i)
    BY <1>1, <2>1 DEF Writers
  <2>3. draws' \in [Items -> Nat] /\ draws'[i] = draws[i] + 1
        /\ \A j \in Items : draws[j] <= draws'[j]
    BY <1>1, <2>1, DrawEffect
  <2>4. writer'[i].rowid[2] <= draws'[i]
    BY <1>2, <1>4, <2>2, <2>3
  <2> QED
    BY <1>2, <1>5, <2>2, <2>3, <2>4 DEF Begin, Works, Unsent, tables, history
<1>6. CASE InsertIdx(i)
  <2>1. /\ UNCHANGED <<data, draws, robbed, disowned>> /\ writer[i].at = "idx"
        /\ \/ Goto(i, "data") /\ (Claims(i) \/ (idx' = idx /\ idx[KeyOf[i]] = writer[i].rowid))
           \/ Goto(i, "checkIdx") /\ idx' = idx
    BY <1>6 DEF InsertIdx, OnDuplicateKey, Claims, history
  <2>2. /\ writer'[i].at \in {"data", "checkIdx"} /\ writer'[i].rowid = writer[i].rowid
        /\ writer'[i].at = "data" => Claims(i) \/ (idx' = idx /\ idx[KeyOf[i]] = writer[i].rowid)
    BY <1>1, <2>1, GotoEffect DEF Steps
  <2>3. writer'[i].at = "data" => idx'[KeyOf[i]] = writer'[i].rowid
    BY <1>1, <1>2, <2>2 DEF Claims, TableTypes
  <2> QED
    BY <1>1, <1>3, <1>4, <2>1, <2>2, <2>3 DEF Works, Unsent, Working
<1>7. CASE InsertIdxFails(i)
  <2>1. /\ UNCHANGED <<data, robbed, disowned>> /\ writer[i].at = "idx"
        /\ idx' = idx \/ Claims(i)
    BY <1>7 DEF InsertIdxFails, Claims, history
  <2>2. CASE /\ writer[i].attempt + 1 < MaxDbProblemRetries
             /\ writer' = [writer EXCEPT ![i].attempt = @ + 1]
             /\ UNCHANGED draws
    <3>1. writer'[i].at = writer[i].at /\ writer'[i].rowid = writer[i].rowid
      BY <1>1, <2>2, RetryEffect
    <3> QED
      BY <1>1, <1>3, <1>4, <2>1, <2>2, <3>1 DEF Works, Unsent, Working
  <2>3. CASE NextTry(i, Fresh(i)) /\ Draw(i)
    <3>1. writer'[i].at \in {"idx", "failed"}
          /\ (writer'[i].at = "idx" => writer'[i].rowid = Fresh(i))
      BY <1>1, <1>2, <2>3, NextTryEffect
    <3>2. draws' \in [Items -> Nat] /\ draws'[i] = draws[i] + 1
          /\ \A j \in Items : draws[j] <= draws'[j]
      BY <1>1, <2>3, DrawEffect
    <3>3. writer'[i].at = "idx" => writer'[i].rowid[2] <= draws'[i]
      BY <1>2, <1>4, <3>1, <3>2
    <3> QED
      BY <1>2, <2>1, <3>1, <3>2, <3>3 DEF Works, Unsent, Working
  <2> QED
    BY <1>7, <2>2, <2>3 DEF InsertIdxFails
<1>8. CASE InsertData(i)
  <2>1. /\ writer[i].at = "data" /\ UNCHANGED <<idx, draws, robbed>>
        /\ data' = data \/ data' = data \cup {[rowid |-> writer[i].rowid, item |-> i]}
    BY <1>8 DEF InsertData
  <2>2. disowned \subseteq disowned'
    BY <1>8 DEF InsertData
  <2>3. CASE Goto(i, "done")
    <3>1. writer'[i].at = "done"
      BY <1>1, <2>3, GotoEffect DEF Steps
    <3> QED
      BY <1>1, <1>4, <2>1, <2>2, <3>1 DEF Works, Unsent, Working
  <2>4. CASE /\ HasRow(writer[i].rowid) /\ Goto(i, "undo") /\ data' = data
             /\ disowned' = disowned \cup
                  {d.rowid : d \in {e \in data : e.rowid = writer[i].rowid /\ e.item = i}}
    <3>1. writer'[i].at = "undo" /\ writer'[i].rowid = writer[i].rowid
      BY <1>1, <2>4, GotoEffect DEF Steps
    <3>2. PICK d \in data : d.rowid = writer[i].rowid
      BY <2>4 DEF HasRow
    <3>3. d.item = i
      BY <1>1, <1>3, <2>1, <3>2 DEF RowOfItem, Working
    <3>4. writer[i].rowid \in disowned'
      BY <2>4, <3>2, <3>3
    <3> QED
      BY <1>1, <1>3, <1>4, <2>1, <2>2, <2>4, <3>1, <3>4 DEF Works, Unsent, Working
  <2> QED
    BY <1>8, <2>3, <2>4 DEF InsertData
<1>9. CASE InsertDataFails(i)
  <2>1. /\ writer[i].at = "data" /\ UNCHANGED <<idx, draws, robbed, disowned>>
        /\ data' = data \/ data' = data \cup {[rowid |-> writer[i].rowid, item |-> i]}
    BY <1>9 DEF InsertDataFails, history
  <2>2. CASE /\ writer[i].attempt + 1 < MaxDbProblemRetries
             /\ writer' = [writer EXCEPT ![i].attempt = @ + 1]
    <3>1. writer'[i].at = writer[i].at /\ writer'[i].rowid = writer[i].rowid
      BY <1>1, <2>2, RetryEffect
    <3>2. writer'[i].attempt = writer[i].attempt + 1 /\ writer[i].attempt \in Nat
      BY <1>1, <2>2 DEF Writers
    <3>3. writer'[i].attempt # 0
      BY <3>2
    <3> QED
      BY <1>1, <1>3, <1>4, <2>1, <3>1, <3>3 DEF Works, Unsent, Working
  <2>3. CASE Goto(i, "failed")
    <3>1. writer'[i].at = "failed"
      BY <1>1, <2>3, GotoEffect DEF Steps
    <3> QED
      BY <1>1, <1>4, <2>1, <3>1 DEF Works, Unsent, Working
  <2> QED
    BY <1>9, <2>2, <2>3 DEF InsertDataFails
<1>10. CASE UndoIdx(i)
  <2>1. /\ UNCHANGED <<data, robbed, disowned>> /\ writer[i].at = "undo"
        /\ idx' = [idx EXCEPT ![KeyOf[i]] = None]
        /\ NextTry(i, Fresh(i)) /\ Draw(i)
    BY <1>10 DEF UndoIdx, history
  <2>2. /\ writer'[i].at \in {"idx", "failed"}
        /\ writer'[i].at = "idx" => writer'[i].rowid = Fresh(i)
    BY <1>1, <1>2, <2>1, NextTryEffect
  <2>3. draws' \in [Items -> Nat] /\ draws'[i] = draws[i] + 1
        /\ \A j \in Items : draws[j] <= draws'[j]
    BY <1>1, <2>1, DrawEffect
  <2>4. writer'[i].at = "idx" => writer'[i].rowid[2] <= draws'[i]
    BY <1>2, <1>4, <2>2, <2>3
  <2> QED
    BY <1>2, <2>1, <2>2, <2>3, <2>4 DEF Works, Undoes, Unsent, Working
<1>11. CASE CheckIdx(i)
  <2>1. UNCHANGED <<data, idx, draws, robbed, disowned>> /\ writer[i].at = "checkIdx"
    BY <1>11 DEF CheckIdx, tables, history
  <2>2. writer'[i].at \in {"drop", "checkData"} /\ writer'[i].rowid = writer[i].rowid
    <3>1. CASE Goto(i, "drop")
      BY <1>1, <3>1, GotoEffect DEF Steps
    <3>2. CASE writer' = [writer EXCEPT ![i].at = "checkData", ![i].seen = idx[KeyOf[i]]]
      BY <1>1, <3>2 DEF Writers
    <3> QED
      BY <1>11, <3>1, <3>2 DEF CheckIdx
  <2> QED
    BY <1>1, <1>3, <1>4, <2>1, <2>2 DEF Works, Unsent, Working
<1>12. CASE CheckData(i)
  <2>1. UNCHANGED <<data, idx, draws, robbed, disowned>> /\ writer[i].at = "checkData"
    BY <1>12 DEF CheckData, tables, history
  <2>2. writer'[i].at \in {"done", "drop"} /\ writer'[i].rowid = writer[i].rowid
    BY <1>1, <1>12, GotoEffect DEF CheckData, Steps
  <2> QED
    BY <1>1, <1>3, <1>4, <2>1, <2>2 DEF Works, Unsent, Working
<1>13. CASE DropOrphan(i)
  <2>1. UNCHANGED <<data, draws, disowned>> /\ Unclaims(i) /\ NextTry(i, writer[i].rowid)
        /\ writer[i].at = "drop"
    BY <1>13 DEF DropOrphan, Unclaims
  <2>2. /\ writer'[i].at \in {"idx", "failed"}
        /\ writer'[i].at = "idx" => writer'[i].rowid = writer[i].rowid
    BY <1>1, <1>3, <2>1, NextTryEffect DEF Working
  <2> QED
    BY <1>1, <1>3, <1>4, <2>1, <2>2 DEF Works, Unsent, Working
<1>14. CASE StatementFails(i)
  <2>1. /\ UNCHANGED <<data, idx, draws, robbed, disowned>> /\ Goto(i, "failed")
        /\ writer[i].at \in Working
    BY <1>14 DEF StatementFails, tables, history, Working
  <2>2. writer'[i].at = "failed"
    BY <1>1, <2>1, GotoEffect DEF Steps
  <2> QED
    BY <1>1, <1>4, <2>1, <2>2 DEF Works, Unsent, Working
<1> QED
  BY <1>5, <1>6, <1>7, <1>8, <1>9, <1>10, <1>11, <1>12, <1>13, <1>14 DEF Worker

\* A worker writes only rows that it has claimed, and takes a claim away from nobody who
\* needs it, unless it robs.
LEMMA WorkerKeepsLInv ==
  ASSUME LInv, "collision" \notin FaultKinds, NEW i \in Items, Worker(i)
  PROVE  LInv'
<1> USE DistinctAssumption
<1>1. IInv' /\ Moves(i) /\ Works(i)
  BY WorkerKeeps, WorkerMoves, WorkerWorks DEF LInv, IInv
<1>2. /\ TypeOK /\ TypeOK' /\ TableTypes /\ writer \in [Items -> Writers] /\ RowOfItem
      /\ draws \in [Items -> Nat]
  BY <1>1, TypesInParts DEF LInv, IInv, TInv, OtherTypes
<1>3. /\ phase' = phase /\ passed' = passed /\ more' = more /\ harvest' = harvest
      /\ keyed' = keyed /\ \A j \in Items \ {i} : writer'[j] = writer[j]
  BY <1>1 DEF Moves, cleaner
<1>4. \A j \in Items : writer[j].at \in Working =>
         writer[j].rowid \in Rowids /\ writer[j].rowid[1] = j /\ writer[j].rowid # None
  BY DEF LInv, IInv, TInv, RowidDrawn, WriterOfItem, Rowids
<1>5. phase[BatchOf[i]] = "writing"
  BY <1>1 DEF Works, Moves, LInv, WorkingWhileWriting
<1>6. \A d \in data' : d \in data \/ (/\ writer[i].at = "data" /\ idx' = idx /\ robbed' = robbed
                                      /\ d = [rowid |-> writer[i].rowid, item |-> i])
  BY <1>1 DEF Works
<1>7. Drawn'
  <2>1. \A j \in Items : draws[j] \in Nat /\ draws'[j] \in Nat /\ draws[j] <= draws'[j]
    BY <1>1, <1>2 DEF Works
  <2>2. ASSUME NEW d \in data'
        PROVE  d.rowid[2] <= draws'[d.item]
    <3>1. d.item \in Items /\ d.rowid[2] \in Nat
      BY <1>2 DEF TypeOK, Rowids
    <3>2. d.rowid[2] <= draws[d.item]
      BY <1>6, <2>2 DEF LInv, Drawn, Working
    <3> QED
      BY <2>1, <3>1, <3>2
  <2>3. ASSUME NEW j \in Items, writer'[j].at \in Working
        PROVE  writer'[j].rowid[2] <= draws'[j]
    <3>1. CASE j = i
      BY <1>1, <2>3, <3>1 DEF Works
    <3>2. CASE j # i
      <4>1. writer[j].rowid[2] <= draws[j] /\ writer[j].rowid[2] \in Nat
        BY <1>3, <1>4, <2>3, <3>2 DEF LInv, Drawn, Rowids
      <4> QED
        BY <1>3, <2>1, <3>2, <4>1
    <3> QED
      BY <3>1, <3>2
  <2> QED
    BY <2>2, <2>3 DEF Drawn
<1>8. NotYetWritten'
  <2>1. SUFFICES ASSUME NEW j \in Items
                 PROVE  Unsent(j)' => ~HasRow(writer[j].rowid)'
    BY DEF NotYetWritten
  <2>2. CASE j = i
    BY <1>1, <2>2 DEF Works, HasRow
  <2>3. CASE j # i
    <3>1. writer'[j] = writer[j]
      BY <1>3, <2>3
    <3>2. Unsent(j)' => Unsent(j) /\ writer[j].at \in Working
      BY <3>1 DEF Unsent, Working
    <3>3. Unsent(j) => ~HasRow(writer[j].rowid)
      BY DEF LInv, NotYetWritten
    <3>4. ASSUME NEW d \in data', d.rowid = writer[j].rowid, writer[j].at \in Working
          PROVE  d \in data
      <4>1. d \notin data => d.rowid = writer[i].rowid /\ writer[i].at \in Working
        BY <1>6 DEF Working
      <4> QED
        BY <1>4, <2>3, <3>4, <4>1
    <3>5. Unsent(j)' => ~HasRow(writer[j].rowid)'
      BY <3>1, <3>2, <3>3, <3>4 DEF HasRow
    <3> QED
      BY <3>5
  <2> QED
    BY <2>2, <2>3
<1>9. WorkingWhileWriting' /\ CompleteDone'
  BY <1>3, <1>5 DEF LInv, WorkingWhileWriting, CompleteDone
<1>10. \A b \in Batches : phase[b] \in Cleaning => RowsOf(b)' \subseteq RowsOf(b)
  <2>1. ASSUME NEW b \in Batches, phase[b] \in Cleaning, NEW d \in data', BatchOf[d.item] = b
        PROVE  d \in data
    BY <1>5, <1>6, <2>1 DEF Cleaning
  <2> QED
    BY <2>1 DEF RowsOf
<1>11. PassedClean' /\ HarvestWhole'
  BY <1>3, <1>10 DEF LInv, PassedClean, HarvestWhole, Cleaning
<1>12. ASSUME ~robbed', NEW k \in Keys, idx[k] # None, InUse(idx[k]),
              ~(writer[i].at = "undo" /\ idx[k] = writer[i].rowid)
       PROVE  idx'[k] = idx[k]
  <2>1. CASE idx' = idx
    BY <2>1
  <2>2. CASE Claims(i)
    BY <1>2, <1>12, <2>2 DEF Claims, TableTypes
  <2>3. CASE Unclaims(i)
    <3>1. ~InUse(idx[KeyOf[i]])
      BY <1>12, <2>3 DEF Unclaims
    <3> QED
      BY <1>2, <1>12, <2>3, <3>1 DEF Unclaims, TableTypes
  <2>4. CASE Undoes(i)
    <3>1. k # KeyOf[i]
      BY <1>12, <2>4 DEF Undoes, LInv, ClaimsHeld
    <3> QED
      BY <1>2, <2>4, <3>1 DEF Undoes, TableTypes
  <2> QED
    BY <1>1, <2>1, <2>2, <2>3, <2>4 DEF Works
<1>13. ~robbed' => ~robbed
  BY <1>1 DEF Works, Claims, Unclaims, Undoes
<1>14. ClaimsHeld'
  <2>1. SUFFICES ASSUME ~robbed', NEW j \in Items, writer'[j].at \in {"data", "undo"}
                 PROVE  idx'[KeyOf[j]] = writer'[j].rowid
    BY DEF ClaimsHeld
  <2>2. CASE j = i
    BY <1>1, <1>13, <2>1, <2>2 DEF Works, LInv, ClaimsHeld
  <2>3. CASE j # i
    <3>1. writer'[j] = writer[j] /\ writer[j].at \in {"data", "undo"}
      BY <1>3, <2>1, <2>3
    <3>2. idx[KeyOf[j]] = writer[j].rowid
      BY <1>13, <2>1, <3>1 DEF LInv, ClaimsHeld
    <3>3. idx[KeyOf[j]] # None /\ InUse(idx[KeyOf[j]])
      BY <1>4, <3>1, <3>2 DEF InUse, Working, LInv, GivesUpOwn
    <3>4. ~(writer[i].at = "undo" /\ idx[KeyOf[j]] = writer[i].rowid)
      BY <1>4, <2>3, <3>1, <3>2 DEF Working
    <3> QED
      BY <1>12, <2>1, <3>1, <3>2, <3>3, <3>4
  <2> QED
    BY <2>2, <2>3
<1>15. RowsIndexed'
  <2>1. SUFFICES ASSUME ~robbed', NEW d \in data', Settled(d)', d.rowid \notin disowned'
                 PROVE  idx'[KeyOf[d.item]] = d.rowid
    BY DEF RowsIndexed
  <2>2. CASE d \in data
    <3>1. d \in DataRows
      BY <1>2, <2>2 DEF TableTypes
    <3>2. d.rowid # None /\ KeyOf[d.item] \in Keys
      BY <3>1 DEF DataRows, Rowids
    <3>3. Settled(d)
      BY <1>3, <2>1 DEF Settled
    <3>4. d.rowid \notin disowned /\ idx[KeyOf[d.item]] = d.rowid
      BY <1>1, <1>13, <2>1, <2>2, <3>3 DEF Works, LInv, RowsIndexed
    <3>5. InUse(d.rowid)
      BY <2>2 DEF InUse, HasRow
    <3>6. ~(writer[i].at = "undo" /\ idx[KeyOf[d.item]] = writer[i].rowid)
      BY <3>4 DEF LInv, GivesUpOwn
    <3> QED
      BY <1>12, <2>1, <3>2, <3>4, <3>5, <3>6
  <2>3. CASE d \notin data
    BY <1>6, <1>13, <2>1, <2>3 DEF LInv, ClaimsHeld
  <2> QED
    BY <2>2, <2>3
<1>16. GivesUpOwn'
  <2>1. SUFFICES ASSUME NEW j \in Items, writer'[j].at = "undo"
                 PROVE  HasRow(writer[j].rowid)' /\ writer'[j].rowid \in disowned'
    BY DEF GivesUpOwn
  <2>2. data \subseteq data' /\ disowned \subseteq disowned'
    BY <1>1 DEF Works
  <2>3. CASE j = i
    BY <1>1, <2>1, <2>3 DEF Works, HasRow
  <2>4. CASE j # i
    BY <1>3, <2>1, <2>2, <2>4 DEF LInv, GivesUpOwn, HasRow
  <2> QED
    BY <2>3, <2>4
<1> QED
  BY <1>1, <1>7, <1>8, <1>9, <1>11, <1>14, <1>15, <1>16 DEF LInv

-------------------------------------------------------------------------------
\* What the clean-up of b knows of the rows of b.
CleanedWell(b) ==
  /\ phase[b] = "scan" => passed[b] \cap RowsOf(b) = {}
  /\ phase[b] \in {"dropIdx", "dropData"} /\ ~more[b] => RowsOf(b) \subseteq harvest[b]
  /\ \A h \in keyed[b] : h.rowid[1] = h.item /\ BatchOf[h.item] = b

\* The two parts of LInv about clean-ups, batch by batch.
LEMMA CleanedWellAll == PassedClean /\ HarvestWhole <=> \A b \in Batches : CleanedWell(b)
BY DEF PassedClean, HarvestWhole, CleanedWell

\* The rows of another batch, and the rows that stay, are none of a clean-up's business.
LEMMA HandlerKeepsLInv ==
  ASSUME LInv, NEW b \in Batches, Handler(b)
  PROVE  LInv'
<1> USE DistinctAssumption
<1>1. IInv'
  BY HandlerKeeps DEF LInv
<1>2. /\ TableTypes /\ CleanerTypes /\ writer \in [Items -> Writers] /\ RowOfItem
      /\ HarvestOfBatch /\ CleanBeforeWrite
  BY TypesInParts DEF LInv, IInv, TInv
<1>3. data' \subseteq data /\ draws' = draws /\ robbed' = robbed /\ disowned' = disowned
  BY DEF Handler, EndBatch, ScanPage, DropIdx, DropData, CleanUpFails, Crash, tables, history
<1>4. \A i \in Items : writer'[i] = writer[i] \/ (Crash(b) /\ BatchOf[i] = b /\ writer'[i] = Idle)
  BY <1>2 DEF Handler, EndBatch, ScanPage, DropIdx, DropData, CleanUpFails, Crash
<1>5. \A i \in Items : writer'[i].at # "todo" => writer'[i] = writer[i]
  BY <1>4 DEF Idle
<1>6. Drawn' /\ NotYetWritten'
  BY <1>3, <1>5 DEF LInv, Drawn, NotYetWritten, Unsent, HasRow, Working
<1>7. \A c \in Batches : c # b => /\ phase'[c] = phase[c] /\ passed'[c] = passed[c]
                                  /\ more'[c] = more[c] /\ harvest'[c] = harvest[c]
                                  /\ keyed'[c] = keyed[c]
  BY <1>2 DEF Handler, EndBatch, ScanPage, GoOn, Harvest, DropIdx, DropData, CleanUpFails,
              Crash, CleanerTypes
<1>8. \A c \in Batches : RowsOf(c)' \subseteq RowsOf(c)
  BY <1>3 DEF RowsOf
<1>9. \A i \in Items : BatchOf[i] \in Batches
  OBVIOUS
<1>10. WorkingWhileWriting' /\ CompleteDone'
  <2>1. ASSUME NEW i \in Items, BatchOf[i] = b, ~Crash(b)
        PROVE  /\ writer'[i].at \in Working => phase'[b] = "writing"
               /\ phase'[b] = "complete" => writer'[i].at = "done"
    <3>1. CASE EndBatch(b)
      <4>1. /\ writer[i].at \in {"done", "failed"} /\ writer' = writer
            /\ phase'[b] = "complete" => writer[i].at # "failed"
        BY <1>2, <2>1, <3>1 DEF EndBatch, ItemsOf, CleanerTypes
      <4> QED
        BY <4>1 DEF Working
    <3>2. CASE ScanPage(b) \/ DropIdx(b) \/ DropData(b) \/ CleanUpFails(b)
      <4>1. phase[b] \in Cleaning /\ writer' = writer
        BY <3>2 DEF ScanPage, DropIdx, DropData, CleanUpFails, Cleaning
      <4>2. writer[i].at = "todo"
        BY <1>2, <2>1, <4>1 DEF CleanBeforeWrite, Cleaning
      <4>3. phase'[b] # "complete"
        BY <1>2, <3>2 DEF ScanPage, GoOn, Harvest, DropIdx, DropData, CleanUpFails, CleanerTypes
      <4> QED
        BY <4>1, <4>2, <4>3 DEF Working
    <3> QED
      BY <2>1, <3>1, <3>2 DEF Handler
  <2>2. ASSUME NEW i \in Items, BatchOf[i] = b, Crash(b)
        PROVE  writer'[i].at \notin Working /\ phase'[b] # "complete"
    BY <1>2, <2>2 DEF Crash, Idle, Working, CleanerTypes
  <2>3. ASSUME NEW i \in Items, BatchOf[i] # b
        PROVE  writer'[i] = writer[i] /\ phase'[BatchOf[i]] = phase[BatchOf[i]]
    BY <1>4, <1>7, <1>9, <2>3
  <2>4. WorkingWhileWriting /\ CompleteDone
    BY DEF LInv
  <2>5. WorkingWhileWriting'
    <3>1. SUFFICES ASSUME NEW i \in Items, writer'[i].at \in Working
                   PROVE  phase'[BatchOf[i]] = "writing"
      BY DEF WorkingWhileWriting
    <3> QED
      BY <2>1, <2>2, <2>3, <2>4, <3>1 DEF WorkingWhileWriting
  <2>6. CompleteDone'
    <3>1. SUFFICES ASSUME NEW i \in Items, phase'[BatchOf[i]] = "complete"
                   PROVE  writer'[i].at = "done"
      BY DEF CompleteDone
    <3> QED
      BY <2>1, <2>2, <2>3, <2>4, <3>1 DEF CompleteDone
  <2> QED
    BY <2>5, <2>6
<1>11. CleanedWell(b)
  BY CleanedWellAll DEF LInv
<1>12. CleanedWell(b)'
  <2>1. CASE EndBatch(b) \/ CleanUpFails(b)
    BY <1>2, <1>11, <2>1 DEF EndBatch, CleanUpFails, CleanerTypes, CleanedWell
  <2>2. CASE ScanPage(b)
    <3>1. CASE /\ phase' = [phase EXCEPT ![b] = "writing"]
               /\ UNCHANGED <<more, harvest, keyed>>
      BY <1>2, <1>11, <3>1 DEF CleanerTypes, CleanedWell
    <3>2. ASSUME NEW page \in SUBSET data, NEW isMore \in BOOLEAN, page \cap RowsOf(b) = {},
                 GoOn(b, isMore, passed[b] \cup page), UNCHANGED <<more, harvest, keyed>>
          PROVE  CleanedWell(b)'
      <4>1. /\ phase'[b] \in {"writing", "scan"} /\ keyed' = keyed
            /\ passed'[b] \in {{}, passed[b] \cup page}
        BY <1>2, <3>2 DEF GoOn, CleanerTypes
      <4>2. passed[b] \cap RowsOf(b) = {}
        BY <1>11, <2>2 DEF CleanedWell, ScanPage
      <4>3. passed'[b] \cap RowsOf(b)' = {}
        BY <1>8, <3>2, <4>1, <4>2
      <4> QED
        BY <1>11, <4>1, <4>3 DEF CleanedWell
    <3>3. ASSUME NEW page \in SUBSET data, NEW isMore \in BOOLEAN, Page(b, page, isMore),
                 Harvest(b, page, isMore), UNCHANGED passed
          PROVE  CleanedWell(b)'
      <4>1. /\ phase'[b] = "dropIdx" /\ more'[b] = isMore
            /\ harvest'[b] = page \cap RowsOf(b) /\ keyed'[b] = page \cap RowsOf(b)
        BY <1>2, <3>3 DEF Harvest, CleanerTypes
      <4>2. ~isMore => page = data \ passed[b]
        BY <3>3 DEF Page
      <4>3. RowsOf(b) \subseteq data /\ passed[b] \cap RowsOf(b) = {}
        BY <1>11, <2>2 DEF RowsOf, ScanPage, CleanedWell
      <4>4. \A h \in RowsOf(b) : h.rowid[1] = h.item /\ BatchOf[h.item] = b
        BY <1>2 DEF RowsOf, RowOfItem
      <4>5. ~more'[b] => RowsOf(b)' \subseteq harvest'[b]
        BY <1>8, <4>1, <4>2, <4>3
      <4>6. \A h \in keyed'[b] : h.rowid[1] = h.item /\ BatchOf[h.item] = b
        BY <4>1, <4>4
      <4> QED
        BY <4>1, <4>5, <4>6 DEF CleanedWell
    <3> QED
      BY <2>2, <3>1, <3>2, <3>3 DEF ScanPage
  <2>3. CASE DropIdx(b)
    <3>1. /\ phase[b] = "dropIdx" /\ phase'[b] \in {"dropIdx", "dropData", "failed"}
          /\ more' = more /\ harvest' = harvest /\ keyed'[b] \subseteq keyed[b]
      BY <1>2, <2>3 DEF DropIdx, CleanerTypes
    <3> QED
      BY <1>8, <1>11, <3>1 DEF CleanedWell
  <2>4. CASE DropData(b)
    <3>1. passed'[b] = {} /\ keyed' = keyed /\ phase'[b] \in {"writing", "scan"}
      BY <1>2, <2>4 DEF DropData, GoOn, CleanerTypes
    <3> QED
      BY <1>11, <3>1 DEF CleanedWell
  <2>5. CASE Crash(b)
    BY <1>2, <2>5 DEF Crash, CleanerTypes, CleanedWell
  <2> QED
    BY <2>1, <2>2, <2>3, <2>4, <2>5 DEF Handler
<1>13. PassedClean' /\ HarvestWhole'
  <2>1. ASSUME NEW c \in Batches, c # b
        PROVE  CleanedWell(c)'
    BY <1>7, <1>8, <2>1, CleanedWellAll DEF LInv, CleanedWell
  <2> QED
    BY <1>12, <2>1 DEF PassedClean, HarvestWhole, CleanedWell
<1>14. ASSUME NEW k \in Keys, idx'[k] # idx[k]
       PROVE  phase[b] = "dropIdx" /\ \E h \in keyed[b] : h.rowid = idx[k]
  <2>1. DropIdx(b)
    BY <1>14 DEF Handler, EndBatch, ScanPage, DropData, CleanUpFails, Crash, tables
  <2>2. PICK h \in keyed[b] : idx' = IdxWithout(h)
    BY <1>14, <2>1 DEF DropIdx
  <2>3. h.rowid = idx[k]
    BY <1>2, <1>14, <2>2 DEF IdxWithout, TableTypes
  <2> QED
    BY <2>1, <2>3 DEF DropIdx
<1>15. ClaimsHeld'
  <2>1. SUFFICES ASSUME ~robbed', NEW i \in Items, writer'[i].at \in {"data", "undo"}
                 PROVE  idx'[KeyOf[i]] = writer'[i].rowid
    BY DEF ClaimsHeld
  <2>2. writer'[i] = writer[i] /\ writer[i].at \in {"data", "undo"}
    BY <1>5, <2>1
  <2>3. idx[KeyOf[i]] = writer[i].rowid /\ writer[i].rowid[1] = i
    BY <1>3, <2>1, <2>2 DEF LInv, IInv, ClaimsHeld, WriterOfItem, Working
  <2>4. phase[BatchOf[i]] = "writing"
    BY <2>2 DEF LInv, WorkingWhileWriting, Working
  <2>5. \A h \in keyed[b] : h.rowid[1] = h.item /\ BatchOf[h.item] = b
    BY <1>11 DEF CleanedWell
  <2>6. idx'[KeyOf[i]] = idx[KeyOf[i]]
    BY <1>14, <2>3, <2>4, <2>5
  <2> QED
    BY <2>2, <2>3, <2>6
<1>16. ASSUME phase[b] \notin {"writing", "complete"}, phase'[b] \in {"writing", "complete"}
       PROVE  RowsOf(b)' = {}
  <2>1. ScanPage(b) \/ DropData(b)
    BY <1>2, <1>16 DEF Handler, EndBatch, DropIdx, CleanUpFails, Crash, CleanerTypes
  <2>2. CASE ScanPage(b)
    <3>1. passed[b] \cap RowsOf(b) = {}
      BY <1>11, <2>2 DEF CleanedWell, ScanPage
    <3>2. CASE data \subseteq passed[b]
      BY <1>8, <3>1, <3>2 DEF RowsOf
    <3>3. ASSUME NEW page \in SUBSET data, NEW isMore \in BOOLEAN, Page(b, page, isMore),
                 page \cap RowsOf(b) = {}, GoOn(b, isMore, passed[b] \cup page)
          PROVE  RowsOf(b)' = {}
      <4>1. ~isMore
        BY <1>2, <1>16, <3>3 DEF GoOn, CleanerTypes
      <4>2. page = data \ passed[b]
        BY <3>3, <4>1 DEF Page
      <4> QED
        BY <1>8, <3>1, <3>3, <4>2 DEF RowsOf
    <3>4. ASSUME NEW page \in SUBSET data, NEW isMore \in BOOLEAN, Harvest(b, page, isMore)
          PROVE  FALSE
      BY <1>2, <1>16, <3>4 DEF Harvest, CleanerTypes
    <3> QED
      BY <2>2, <3>2, <3>3, <3>4 DEF ScanPage
  <2>3. CASE DropData(b)
    <3>1. ~more[b] /\ phase[b] = "dropData"
      BY <1>2, <1>16, <2>3 DEF DropData, GoOn, CleanerTypes
    <3>2. RowsOf(b) \subseteq harvest[b]
      BY <1>11, <3>1 DEF CleanedWell
    <3>3. \A d \in data' : d \in data /\ d \notin harvest[b]
      BY <2>3 DEF DropData
    <3> QED
      BY <3>2, <3>3 DEF RowsOf
  <2> QED
    BY <2>1, <2>2, <2>3
<1>17. RowsIndexed'
  <2>1. SUFFICES ASSUME ~robbed', NEW d \in data', Settled(d)', d.rowid \notin disowned'
                 PROVE  idx'[KeyOf[d.item]] = d.rowid
    BY DEF RowsIndexed
  <2>2. d \in data /\ d \in DataRows /\ d.item \in Items /\ d.rowid[1] = d.item
    BY <1>2, <1>3 DEF TableTypes, DataRows, RowOfItem
  <2>3. BatchOf[d.item] = b => d \in RowsOf(b)'
    BY DEF RowsOf
  <2>4. Settled(d)
    BY <1>7, <1>9, <1>16, <2>1, <2>2, <2>3 DEF Settled
  <2>5. idx[KeyOf[d.item]] = d.rowid
    BY <1>3, <2>1, <2>2, <2>4 DEF LInv, RowsIndexed
  <2>6. \A h \in keyed[b] : h.rowid[1] = h.item /\ BatchOf[h.item] = b
    BY <1>11 DEF CleanedWell
  <2>7. phase[b] = "dropIdx" => BatchOf[d.item] # b
    BY <2>4 DEF Settled
  <2>8. idx'[KeyOf[d.item]] = idx[KeyOf[d.item]]
    BY <1>14, <2>2, <2>5, <2>6, <2>7
  <2> QED
    BY <2>5, <2>8
<1>18. GivesUpOwn'
  <2>1. SUFFICES ASSUME NEW i \in Items, writer'[i].at = "undo"
                 PROVE  HasRow(writer[i].rowid)' /\ writer'[i].rowid \in disowned'
    BY DEF GivesUpOwn
  <2>2. writer'[i] = writer[i] /\ writer[i].at = "undo"
    BY <1>5, <2>1
  <2>3. writer[i].rowid \in disowned' /\ phase[BatchOf[i]] = "writing" /\ writer[i].rowid[1] = i
    BY <1>3, <2>2 DEF LInv, IInv, GivesUpOwn, WorkingWhileWriting, WriterOfItem, Working
  <2>4. PICK d \in data : d.rowid = writer[i].rowid
    BY <2>2 DEF LInv, GivesUpOwn, HasRow
  <2>5. d \in data'
    <3>1. SUFFICES ASSUME d \notin data' PROVE FALSE
      OBVIOUS
    <3>2. DropData(b)
      BY <3>1 DEF Handler, EndBatch, ScanPage, DropIdx, CleanUpFails, Crash, tables
    <3>3. PICK h \in harvest[b] : h.rowid = d.rowid
      BY <3>1, <3>2 DEF DropData
    <3>4. BatchOf[i] = b
      BY <1>2, <2>3, <2>4, <3>3 DEF HarvestOfBatch
    <3> QED
      BY <2>3, <3>2, <3>4 DEF DropData
  <2> QED
    BY <2>2, <2>3, <2>4, <2>5 DEF HasRow
<1> QED
  BY <1>1, <1>6, <1>10, <1>13, <1>15, <1>17, <1>18 DEF LInv

\* LInv is inductive.
LEMMA StepLInv ==
  ASSUME "collision" \notin FaultKinds, LInv, [Next]_vars
  PROVE  LInv'
<1>1. CASE UNCHANGED vars
  <2>1. IInv'
    BY <1>1, StepIInv DEF LInv
  <2>2. UNCHANGED <<data, idx, phase, passed, more, harvest, keyed, writer, draws, robbed, disowned>>
    BY <1>1 DEF vars, tables, cleaner, history
  <2>3. /\ Drawn' /\ NotYetWritten' /\ GivesUpOwn' /\ WorkingWhileWriting' /\ CompleteDone'
        /\ PassedClean' /\ HarvestWhole'
    BY <2>2 DEF LInv, Drawn, NotYetWritten, GivesUpOwn, Unsent, HasRow, WorkingWhileWriting, CompleteDone,
                PassedClean, HarvestWhole, RowsOf
  <2>4. ClaimsHeld' /\ RowsIndexed'
    BY <2>2 DEF LInv, ClaimsHeld, RowsIndexed, Settled
  <2> QED
    BY <2>1, <2>3, <2>4 DEF LInv
<1>2. CASE \E i \in Items : Worker(i)
  BY <1>2, WorkerKeepsLInv
<1>3. CASE \E b \in Batches : Handler(b)
  BY <1>3, HandlerKeepsLInv
<1> QED
  BY <1>1, <1>2, <1>3 DEF Next

\* One row that stays and is not disowned has the rowid of its key, and its item gave it.
LEMMA OneRowPerKey ==
  ASSUME LInv
  PROVE  SecondRowHasReason
<1> SUFFICES ASSUME ~robbed, NEW d \in data, NEW e \in data,
                    Settled(d), d.rowid \notin disowned, Settled(e), e.rowid \notin disowned,
                    KeyOf[d.item] = KeyOf[e.item]
             PROVE  d = e
  BY DEF SecondRowHasReason
<1>1. d \in DataRows /\ e \in DataRows
  BY DEF LInv, IInv, TInv, TypeOK, DataRows
<1>2. d.rowid = e.rowid
  BY DEF LInv, RowsIndexed
<1>3. d.item = e.item
  BY <1>2 DEF LInv, IInv, RowOfItem
<1> QED
  BY <1>1, <1>2, <1>3 DEF DataRows

\* Where every record comes back as it was written, a worker finds only its own row, and
\* only when it repeats the insert: it knows the row and disowns none.
AllExact == \A i \in Items : RecordOf[i] \in Exact
LEMMA NothingDisowned ==
  ASSUME "collision" \notin FaultKinds, AllExact, LInv, disowned = {}, [Next]_vars
  PROVE  disowned' = {}
<1>1. ASSUME NEW i \in Items, InsertData(i)
      PROVE  disowned' = {}
  <2>1. /\ writer[i].at = "data" /\ writer[i].rowid[1] = i /\ RowOfItem
        /\ writer[i].attempt = 0 => ~HasRow(writer[i].rowid)
    BY <1>1 DEF InsertData, LInv, IInv, WriterOfItem, NotYetWritten, Unsent, Working
  <2>2. writer[i].attempt \in Nat
    BY DistinctAssumption DEF LInv, IInv, TInv, TypeOK
  <2>3. HasRow(writer[i].rowid) => FoundEqual(i) /\ writer[i].attempt > 0
    <3>1. SUFFICES ASSUME NEW d \in data, d.rowid = writer[i].rowid
                   PROVE  FoundEqual(i) /\ writer[i].attempt > 0
      BY DEF HasRow
    <3>2. d.item = i
      BY <2>1, <3>1 DEF RowOfItem
    <3>3. writer[i].attempt # 0
      BY <2>1, <3>1 DEF HasRow
    <3> QED
      BY <2>2, <3>1, <3>2, <3>3 DEF FoundEqual, AllExact
  <2> QED
    BY <1>1, <2>3 DEF InsertData
<1>2. ASSUME NEW i \in Items, Worker(i), ~InsertData(i)
      PROVE  disowned' = disowned
  BY <1>2 DEF Worker, Begin, InsertIdx, InsertIdxFails, InsertDataFails, UndoIdx, CheckIdx,
              CheckData, DropOrphan, StatementFails, history
<1>3. ASSUME NEW b \in Batches, Handler(b)
      PROVE  disowned' = disowned
  BY <1>3 DEF Handler, EndBatch, ScanPage, DropIdx, DropData, CleanUpFails, Crash, history
<1>4. CASE UNCHANGED vars
  BY <1>4 DEF vars, history
<1> QED
  BY <1>1, <1>2, <1>3, <1>4 DEF Next

\* Where all batches are complete every item is done, so KeyKept gives a row, and the
\* index leads to it if it is not disowned.
LEMMA IndexOfCompleteTable ==
  ASSUME LInv, disowned = {}
  PROVE  IndexLeadsToRow
<1> USE DistinctAssumption
<1>1. SUFFICES ASSUME ~robbed, \A b \in Batches : phase[b] = "complete", NEW i \in Items
               PROVE  \E d \in Rows(KeyOf[i]) : idx[KeyOf[i]] = d.rowid
  BY DEF IndexLeadsToRow
<1>2. \A j \in Items : writer[j].at = "done"
  BY <1>1 DEF LInv, CompleteDone
<1>3. PICK d \in data : KeyOf[d.item] = KeyOf[i]
  BY <1>2 DEF LInv, IInv, KeyKept, Rows, Pending
<1>4. d.item \in Items
  BY <1>3 DEF LInv, IInv, TInv, TypeOK
<1>5. Settled(d)
  BY <1>1, <1>4 DEF Settled
<1>6. idx[KeyOf[i]] = d.rowid
  BY <1>1, <1>3, <1>5 DEF LInv, RowsIndexed
<1> QED
  BY <1>3, <1>6 DEF Rows

\* As long as no rowid is drawn twice, rows that stay have different keys, whatever crashes,
\* time-outs and clean-ups come in between, until an index record in use is taken for an
\* orphan, or a worker takes its own row for another's because a field does not come back as
\* it was written: a row is written under a claim, the index keeps the claim as long as the
\* row stays, and a clean-up leaves no row of its batch behind.
THEOREM SecondRowHasReasonHolds ==
  ASSUME "collision" \notin FaultKinds
  PROVE  Spec => []SecondRowHasReason
<1>1. Init => LInv
  BY InitLInv
<1>2. LInv /\ [Next]_vars => LInv'
  BY StepLInv
<1>3. LInv => SecondRowHasReason
  BY OneRowPerKey
<1> QED
  BY <1>1, <1>2, <1>3, PTL DEF Spec

\* As long as no rowid is drawn twice, and all records come back as they were written, a
\* table whose batches are all complete has a row for every key, and the index leads to it,
\* unless an index record in use was deleted.
THEOREM IndexLeadsToRowHolds ==
  ASSUME "collision" \notin FaultKinds, AllExact
  PROVE  Spec => []IndexLeadsToRow
<1>1. Init => LInv /\ disowned = {}
  BY InitLInv DEF Init
<1>2. LInv /\ disowned = {} /\ [Next]_vars => (LInv /\ disowned = {})'
  BY StepLInv, NothingDisowned
<1>3. LInv /\ disowned = {} => IndexLeadsToRow
  BY IndexOfCompleteTable
<1> QED
  BY <1>1, <1>2, <1>3, PTL DEF Spec
===============================================================================
