---------------------------- MODULE LookupJoinProofs ----------------------------
(***************************************************************************)
(* Proofs that a lookup never loses an error, however many key workers and *)
(* rowid workers share the keys and rowids of a page: a batch in which a   *)
(* select failed, or an expression, is not done (ErrorNeverLostHolds); and *)
(* that one that is done has written the join (JoinIsExactHolds).          *)
(*                                                                         *)
(* An error wanders: from the rowid worker to the key's own variable, when *)
(* the key ends to the variable of the page, and when the page ends to the *)
(* batch.  A key worker that takes its next key forgets the variable of    *)
(* the last one, so the proof is about when that may still hold an error.  *)
(*                                                                         *)
(* For the join, JInv says where the work of a batch without an error is:  *)
(* which keys wait, which rowids were handed over, which are in somebody's *)
(* hand.  What is left over of a left row's matches is what it has been    *)
(* joined with (JoinedTo), and the records written and the aggregate       *)
(* contexts are always those of the join with these rows only.             *)
(*                                                                         *)
(* KeyOf stands for what BuildKey makes of a row, so the last part is      *)
(* about OrderKeys: the keys of two records are equal, or one of them is   *)
(* less, as the records are by their components (KeysCompareAsRecords).    *)
(*                                                                         *)
(* The records of a table or a file come from a RecordWriter, which this   *)
(* module is about as well: its names do not meet those of LookupJoin.     *)
(* What the loader finds by trying an expression is what a type checker    *)
(* would find, node by node (NodesAgree): a value has the type found for   *)
(* its node, or it is the error of a value, or there is no type.  So the   *)
(* writer's state after any number of rows has the declared types          *)
(* (WriterInv), and its keys the order of its records.                     *)
(***************************************************************************)
EXTENDS LookupJoin, RecordWriter, FiniteSetTheorems, WellFoundedInduction, TLAPS

\* The records of the workers have the fields the code gives them.
Shapes ==
  /\ phase \in {"read", "lookup", "epilogue", "done", "failed"}
  /\ faults \in Nat /\ hErr \in BOOLEAN /\ selErr \in [KeyWorkers -> BOOLEAN]
  /\ DOMAIN kw = KeyWorkers /\ DOMAIN rw = KeyWorkers
  /\ \A w \in KeyWorkers :
       /\ {"at", "err"} \subseteq DOMAIN kw[w]
       /\ DOMAIN rw[w] = RowidWorkers
       /\ \A r \in RowidWorkers : "at" \in DOMAIN rw[w][r]

Resting(w) == kw[w].at \in {"idle", "stopped"}

\* Key workers work on a page only, and their rowid workers on a key only.
WorkIsNested ==
  /\ phase # "lookup" => \A w \in KeyWorkers : Resting(w)
  /\ \A w \in KeyWorkers :
       Resting(w) => \A r \in RowidWorkers : rw[w][r].at \in {"wait", "exit"}

\* A key worker that waits for its next key has no error of the last one, and one that has
\* stopped because of an error has passed it on.
ErrorIsPassedOn ==
  \A w \in KeyWorkers :
    /\ kw[w].at = "idle" => ~KeyFailed(w)
    /\ kw[w].at = "stopped" /\ KeyFailed(w) => hErr

\* Somebody has the error.
ErrorIsKept ==
  faults > 0 =>
    \/ phase = "failed"
    \/ phase = "lookup" /\ (hErr \/ \E w \in KeyWorkers : KeyFailed(w))

IInv == Shapes /\ WorkIsNested /\ ErrorIsPassedOn /\ ErrorIsKept

-------------------------------------------------------------------------------
LEMMA InitIInv == Init => IInv
<1> SUFFICES ASSUME Init PROVE IInv
  OBVIOUS
<1>1. Shapes
  BY DEF Init, Shapes, IdleKw, IdleRw
<1>2. \A w \in KeyWorkers : kw[w].at = "idle" /\ ~KeyFailed(w)
                            /\ \A r \in RowidWorkers : rw[w][r].at = "wait"
  BY DEF Init, IdleKw, IdleRw, KeyFailed
<1>3. QED
  BY <1>1, <1>2 DEF Init, IInv, WorkIsNested, Resting, ErrorIsPassedOn, ErrorIsKept

\* The batch: pages begin and end, and the error of a page ends the batch.
LEMMA BatchKeepsIInv ==
  ASSUME IInv, Batch
  PROVE  IInv'
<1> USE DEF IInv
<1>1. CASE ReadPage
  <2>1. CASE page = Len(LeftPages)
    BY <1>1, <2>1 DEF ReadPage, workers, Shapes, WorkIsNested, Resting, ErrorIsPassedOn,
                      KeyFailed, ErrorIsKept
  <2>2. CASE page # Len(LeftPages)
    <3>1. /\ phase' = "lookup" /\ faults' = faults /\ faults = 0
          /\ kw' = [w \in KeyWorkers |-> IdleKw]
          /\ rw' = [w \in KeyWorkers |-> [r \in RowidWorkers |-> IdleRw]]
          /\ selErr' = [w \in KeyWorkers |-> FALSE] /\ hErr' = FALSE
      BY <1>1, <2>2 DEF ReadPage, ErrorIsKept, Shapes
    <3>2. Shapes'
      BY <3>1 DEF Shapes, IdleKw, IdleRw
    <3>3. \A w \in KeyWorkers : /\ kw'[w].at = "idle" /\ ~kw'[w].err /\ ~selErr'[w]
                                /\ \A r \in RowidWorkers : rw'[w][r].at = "wait"
      BY <3>1 DEF IdleKw, IdleRw
    <3>4. QED
      BY <3>1, <3>2, <3>3 DEF WorkIsNested, Resting, ErrorIsPassedOn, KeyFailed, ErrorIsKept
  <2>3. QED
    BY <2>1, <2>2
<1>2. CASE EndLookup
  <2>1. UNCHANGED <<workers, faults>> /\ \A w \in KeyWorkers : kw[w].at = "stopped"
    BY <1>2 DEF EndLookup
  <2>2. phase = "lookup" /\ phase' = (IF hErr THEN "failed" ELSE "epilogue")
    BY <1>2 DEF EndLookup
  <2>3. faults > 0 => hErr
    BY <2>1, <2>2 DEF ErrorIsKept, ErrorIsPassedOn
  <2>4. QED
    BY <2>1, <2>2, <2>3 DEF workers, Shapes, WorkIsNested, Resting, ErrorIsPassedOn, KeyFailed,
                            ErrorIsKept
<1>3. CASE ReadPageFails \/ Epilogue \/ EpilogueFails
  <2>1. UNCHANGED workers /\ phase # "lookup"
    BY <1>3 DEF ReadPageFails, Epilogue, EpilogueFails
  <2>2. \/ phase' = "failed" /\ faults' = faults + 1
        \/ phase' = "read" /\ faults' = faults /\ phase # "failed"
    BY <1>3 DEF ReadPageFails, Epilogue, EpilogueFails, Fault
  <2>3. QED
    BY <2>1, <2>2 DEF workers, Shapes, WorkIsNested, Resting, ErrorIsPassedOn, KeyFailed,
                      ErrorIsKept
<1>4. QED
  BY <1>1, <1>2, <1>3 DEF Batch

\* A step that leaves the other key workers alone, and works on a page.
LEMMA OneKeyWorker ==
  ASSUME IInv, Shapes', NEW w \in KeyWorkers,
         phase' = phase, phase = "lookup",
         \A v \in KeyWorkers \ {w} : /\ kw'[v] = kw[v] /\ rw'[v] = rw[v]
                                      /\ selErr'[v] = selErr[v],
         hErr => hErr',
         Resting(w)' => \A r \in RowidWorkers : rw'[w][r].at \in {"wait", "exit"},
         kw'[w].at = "idle" => ~KeyFailed(w)',
         kw'[w].at = "stopped" /\ KeyFailed(w)' => hErr',
         KeyFailed(w) => KeyFailed(w)',
         faults' = faults \/ KeyFailed(w)'
  PROVE  IInv'
<1>1. WorkIsNested'
  BY DEF IInv, WorkIsNested, Resting
<1>2. ErrorIsPassedOn'
  BY DEF IInv, ErrorIsPassedOn, KeyFailed
<1>3. ErrorIsKept'
  BY DEF IInv, ErrorIsKept, KeyFailed
<1>4. QED
  BY <1>1, <1>2, <1>3 DEF IInv

\* A key worker's own steps.
LEMMA KeyWorkerKeepsIInv ==
  ASSUME IInv, NEW w \in KeyWorkers, KeyWorker(w)
  PROVE  IInv'
<1> USE DEF KeyFailed, Resting
<1>0. /\ \A v \in KeyWorkers : kw[v].at = "idle" => ~KeyFailed(v)
      /\ \A v \in KeyWorkers : kw[v].at = "stopped" /\ KeyFailed(v) => hErr
  BY DEF IInv, ErrorIsPassedOn
<1>a. phase # "lookup" => \A v \in KeyWorkers : kw[v].at \in {"idle", "stopped"}
  BY DEF IInv, WorkIsNested
<1>b. Shapes /\ \A v \in KeyWorkers : Resting(v) =>
        \A r \in RowidWorkers : rw[v][r].at \in {"wait", "exit"}
  BY DEF IInv, WorkIsNested
<1>1. CASE TakeKey(w)
  <2>1. PICK k \in keysCh : kw' = [kw EXCEPT ![w] = [IdleKw EXCEPT !.at = "select", !.key = k]]
    BY <1>1 DEF TakeKey
  <2>2. /\ phase = "lookup" /\ phase' = phase /\ hErr' = hErr /\ faults' = faults
        /\ kw[w].at = "idle"
        /\ rw' = [rw EXCEPT ![w] = [r \in RowidWorkers |-> IdleRw]]
        /\ selErr' = [selErr EXCEPT ![w] = FALSE]
    BY <1>1 DEF TakeKey
  <2>3. Shapes'
    BY <1>b, <2>1, <2>2 DEF Shapes, IdleKw, IdleRw
  <2>4. kw'[w].at = "select"
    BY <1>b, <2>1 DEF Shapes, IdleKw
  <2>5. QED
    BY <1>0, <1>b, <2>1, <2>2, <2>3, <2>4, OneKeyWorker DEF Shapes
<1>2. CASE NoMoreKeys(w)
  <2>1. /\ phase = "lookup" /\ phase' = phase /\ UNCHANGED <<hErr, faults, rw, selErr>>
        /\ kw[w].at = "idle" /\ kw' = [kw EXCEPT ![w].at = "stopped"]
    BY <1>2 DEF NoMoreKeys, KwGoto
  <2>2. Shapes' /\ kw'[w].at = "stopped" /\ kw'[w].err = kw[w].err
    BY <1>b, <2>1 DEF Shapes
  <2>3. QED
    BY <1>0, <1>b, <2>1, <2>2, OneKeyWorker DEF Shapes
<1>3. CASE SelectIndex(w)
  <2>1. /\ kw[w].at = "select" /\ UNCHANGED <<phase, hErr, faults, rw, selErr>>
        /\ \E u, m : kw' = [kw EXCEPT ![w].at = "feed", ![w].upto = u, ![w].more = m]
    BY <1>3 DEF SelectIndex
  <2>2. Shapes' /\ kw'[w].at = "feed" /\ kw'[w].err = kw[w].err
    BY <1>b, <2>1 DEF Shapes
  <2>3. QED
    BY <1>a, <1>b, <2>1, <2>2, OneKeyWorker DEF Shapes
<1>4. CASE SelectIndexFails(w)
  <2>1. /\ kw[w].at = "select" /\ UNCHANGED <<phase, hErr, rw, selErr>> /\ faults' = faults + 1
        /\ kw' = [kw EXCEPT ![w].at = "close", ![w].err = TRUE]
    BY <1>4 DEF SelectIndexFails, Fault
  <2>2. Shapes' /\ kw'[w].at = "close" /\ kw'[w].err
    BY <1>b, <2>1 DEF Shapes
  <2>3. QED
    BY <1>a, <1>b, <2>1, <2>2, OneKeyWorker DEF Shapes
<1>5. CASE PageFed(w)
  <2>1. /\ kw[w].at = "feed" /\ UNCHANGED <<phase, hErr, faults, rw, selErr>>
        /\ \E at \in {"select", "close"} : kw' = [kw EXCEPT ![w].at = at]
    BY <1>5 DEF PageFed, KwGoto
  <2>2. Shapes' /\ kw'[w].at \in {"select", "close"} /\ kw'[w].err = kw[w].err
    BY <1>b, <2>1 DEF Shapes
  <2>3. QED
    BY <1>a, <1>b, <2>1, <2>2, OneKeyWorker DEF Shapes
<1>6. CASE EndKey(w)
  <2>1. /\ kw[w].at = "close" /\ UNCHANGED <<phase, faults, rw, selErr>>
        /\ \A r \in RowidWorkers : rw[w][r].at = "exit"
        /\ kw' = [kw EXCEPT ![w].at = IF KeyFailed(w) THEN "stopped" ELSE "idle"]
        /\ hErr' = (hErr \/ KeyFailed(w))
    BY <1>6 DEF EndKey, KwGoto
  <2>2. /\ Shapes' /\ kw'[w].err = kw[w].err
        /\ kw'[w].at = IF KeyFailed(w) THEN "stopped" ELSE "idle"
    BY <1>b, <2>1 DEF Shapes
  <2>3. KeyFailed(w)' <=> KeyFailed(w)
    BY <2>1, <2>2
  <2>4. \A r \in RowidWorkers : rw'[w][r].at \in {"wait", "exit"}
    BY <2>1
  <2>5. /\ phase = "lookup" /\ (hErr => hErr')
        /\ \A v \in KeyWorkers \ {w} : kw'[v] = kw[v] /\ rw'[v] = rw[v] /\ selErr'[v] = selErr[v]
    BY <1>a, <1>b, <2>1 DEF Shapes
  <2>6. /\ kw'[w].at = "idle" => ~KeyFailed(w)'
        /\ kw'[w].at = "stopped" /\ KeyFailed(w)' => hErr'
    <3>1. CASE KeyFailed(w)
      <4>1. kw'[w].at = "stopped"
        BY <2>2, <3>1
      <4>2. hErr' = TRUE
        BY <2>1, <3>1
      <4>3. QED
        BY <4>1, <4>2
    <3>2. CASE ~KeyFailed(w)
      <4>1. kw'[w].at = "idle"
        BY <2>2, <3>2
      <4>2. QED
        BY <2>3, <3>2, <4>1
    <3>3. QED
      BY <3>1, <3>2
  <2>7. QED
    BY <2>1, <2>2, <2>3, <2>4, <2>5, <2>6, OneKeyWorker
<1>7. QED
  BY <1>1, <1>2, <1>3, <1>4, <1>5, <1>6 DEF KeyWorker

\* The steps of a rowid worker, which only a key worker that is busy has.
LEMMA RowidWorkerKeepsIInv ==
  ASSUME IInv, NEW w \in KeyWorkers, NEW r \in RowidWorkers, RowidWorker(w, r)
  PROVE  IInv'
<1> USE DEF KeyFailed, Resting
<1>a. phase # "lookup" => \A v \in KeyWorkers : kw[v].at \in {"idle", "stopped"}
  BY DEF IInv, WorkIsNested
<1>b. Shapes /\ \A v \in KeyWorkers : Resting(v) =>
        \A q \in RowidWorkers : rw[v][q].at \in {"wait", "exit"}
  BY DEF IInv, WorkIsNested
<1>1. phase' = phase /\ hErr' = hErr
  BY DEF RowidWorker, Feed, ChannelClosed, SelectRow, SelectRowFails, Filter, EvalGrouped, JoinRow,
         CountRow, JoinFails
<1>2. /\ \/ kw' = kw
         \/ kw[w].at = "feed" /\ kw' = [kw EXCEPT ![w].sent = @ + 1]
      /\ kw[w].at # "idle" /\ kw[w].at # "stopped"
  <2>1. Feed(w, r) \/ ChannelClosed(w, r) \/
        (kw' = kw /\ rw[w][r].at \in {"got", "lock", "eval", "row", "count"})
    BY DEF RowidWorker, SelectRow, SelectRowFails, Filter, EvalGrouped, JoinRow, CountRow, JoinFails
  <2>2. QED
    BY <1>b, <2>1 DEF Feed, ChannelClosed
<1>3. \/ selErr' = selErr /\ faults' = faults
      \/ selErr' = [selErr EXCEPT ![w] = TRUE] /\ faults' = faults + 1
  BY DEF RowidWorker, Feed, ChannelClosed, SelectRow, SelectRowFails, Filter, EvalGrouped, JoinRow,
         CountRow, JoinFails, Fault
<1>4. /\ DOMAIN rw' = KeyWorkers
      /\ \A v \in KeyWorkers : DOMAIN rw'[v] = RowidWorkers
      /\ \A v \in KeyWorkers : \A q \in RowidWorkers : DOMAIN rw'[v][q] = DOMAIN rw[v][q]
      /\ \A v \in KeyWorkers \ {w} : rw'[v] = rw[v]
  <2>1. CASE Feed(w, r)
    <3>1. PICK rowid : rw' = [rw EXCEPT ![w][r].at = "got", ![w][r].rowid = rowid]
      BY <2>1 DEF Feed
    <3>2. QED
      BY <1>b, <3>1 DEF Shapes
  <2>2. CASE Filter(w, r)
    <3>1. PICK at, todo : rw' = [rw EXCEPT ![w][r].at = at, ![w][r].todo = todo]
      BY <2>2 DEF Filter
    <3>2. QED
      BY <1>b, <3>1 DEF Shapes
  <2>3. CASE JoinRow(w, r) /\ rw[w][r].todo # {}
    <3> DEFINE l == CHOOSE x \in rw[w][r].todo : \A y \in rw[w][r].todo : x <= y
               one == IF Having(Record(l, rw[w][r].rowid, <<>>)) THEN 1 ELSE 0
    <3>1. rw' = [rw EXCEPT ![w][r].at = "count", ![w][r].left = one, ![w][r].tmp = written,
                           ![w][r].todo = @ \ {l}]
      BY <2>3 DEF JoinRow
    <3> HIDE DEF l, one
    <3>2. QED
      BY <1>b, <3>1 DEF Shapes
  <2>4. CASE \/ ChannelClosed(w, r) \/ SelectRow(w, r) \/ SelectRowFails(w, r)
             \/ EvalGrouped(w, r) \/ CountRow(w, r) \/ JoinFails(w, r)
             \/ (JoinRow(w, r) /\ rw[w][r].todo = {})
    <3>1. PICK at : rw' = [rw EXCEPT ![w][r].at = at]
      BY <2>4 DEF ChannelClosed, SelectRow, SelectRowFails, EvalGrouped, CountRow, JoinFails,
                  JoinRow, RwGoto
    <3>2. QED
      BY <1>b, <3>1 DEF Shapes
  <2>5. QED
    BY <2>1, <2>2, <2>3, <2>4 DEF RowidWorker
<1>5. Shapes'
  <2>1. /\ DOMAIN kw' = KeyWorkers
        /\ \A v \in KeyWorkers : {"at", "err"} \subseteq DOMAIN kw'[v]
    BY <1>b, <1>2 DEF Shapes
  <2>2. faults' \in Nat /\ selErr' \in [KeyWorkers -> BOOLEAN]
    <3>1. CASE selErr' = selErr /\ faults' = faults
      BY <1>b, <3>1 DEF Shapes
    <3>2. CASE selErr' = [selErr EXCEPT ![w] = TRUE] /\ faults' = faults + 1
      BY <1>b, <3>2 DEF Shapes
    <3>3. QED
      BY <1>3, <3>1, <3>2
  <2>3. QED
    BY <1>b, <1>1, <1>4, <2>1, <2>2 DEF Shapes
<1>6. \A v \in KeyWorkers \ {w} : kw'[v] = kw[v] /\ rw'[v] = rw[v] /\ selErr'[v] = selErr[v]
  BY <1>b, <1>2, <1>3, <1>4 DEF Shapes
<1>7. kw'[w].at = kw[w].at /\ kw'[w].err = kw[w].err
  BY <1>b, <1>2 DEF Shapes
<1>8. KeyFailed(w) => KeyFailed(w)'
  BY <1>b, <1>3, <1>7 DEF Shapes
<1>9. faults' = faults \/ KeyFailed(w)'
  BY <1>b, <1>3 DEF Shapes
<1>10. QED
  BY <1>a, <1>1, <1>2, <1>5, <1>6, <1>7, <1>8, <1>9, OneKeyWorker

\* However pages, keys and rowids are handed over, and whatever fails.
THEOREM IInvHolds == Spec => []IInv
<1>1. IInv /\ [Next]_vars => IInv'
  <2> SUFFICES ASSUME IInv, [Next]_vars PROVE IInv'
    OBVIOUS
  <2>1. CASE UNCHANGED vars
    BY <2>1 DEF vars, workers, IInv, Shapes, WorkIsNested, Resting, ErrorIsPassedOn, KeyFailed,
                ErrorIsKept
  <2>2. QED
    BY <2>1, BatchKeepsIInv, KeyWorkerKeepsIInv, RowidWorkerKeepsIInv DEF Next, Stopped
<1>2. QED
  BY <1>1, InitIInv, PTL DEF Spec

\* A select, a filter, an expression or an index key that failed, in any worker and however many
\* others go on, keeps the batch from being reported as done (firstSelectRightRowErr,
\* firstHandleKeyErr).
THEOREM ErrorNeverLostHolds == Spec => []ErrorNeverLost
<1>1. IInv => ErrorNeverLost
  BY DEF IInv, ErrorIsKept, ErrorNeverLost
<1>2. QED
  BY <1>1, IInvHolds, PTL

-------------------------------------------------------------------------------
\* Numbers below which nothing is missing: induction over a set, by the least number outside.
LEMMA AllNumbers ==
  ASSUME NEW P \in SUBSET Nat, 0 \in P, \A n \in P : n + 1 \in P
  PROVE  P = Nat
<1> DEFINE Less == OpToRel(<, Nat)
           Rest == Nat \ P
<1>1. \A n \in Nat, m \in Nat : m < n => <<m, n>> \in Less
  BY DEF OpToRel
<1>2. IsWellFoundedOn(Less, Nat)
  BY NatLessThanWellFounded
<1> HIDE DEF Less
<1>3. SUFFICES ASSUME Rest # {} PROVE FALSE
  OBVIOUS
<1>4. PICK n \in Rest : \A m \in Rest : ~ (<<m, n>> \in Less)
  BY <1>2, <1>3, WFMin
<1>5. n \in Nat \ {0} /\ n \notin P
  BY <1>4
<1>6. n - 1 \in Nat /\ n - 1 \notin P
  <2>1. n - 1 \in Nat /\ (n - 1) + 1 = n
    BY <1>5
  <2>2. QED
    BY <1>5, <2>1
<1>7. <<n - 1, n>> \in Less
  BY <1>1, <1>5, <1>6
<1>8. QED
  BY <1>4, <1>6, <1>7

-------------------------------------------------------------------------------
\* Sums over finite sets.
SumStep(s, T, val) ==
  IF T = {} THEN 0 ELSE LET x == CHOOSE x \in T : TRUE IN val[x] + s[T \ {x}]
IsSum(s, S, val) == s = [T \in SUBSET S |-> SumStep(s, T, val)]

\* A subset without one of its elements is smaller.
LEMMA SmallerSubset ==
  ASSUME NEW S, IsFiniteSet(S), NEW T \in SUBSET S
  PROVE  /\ IsFiniteSet(T) /\ Cardinality(T) \in Nat /\ Cardinality(T) <= Cardinality(S)
         /\ Cardinality(T) = 0 <=> T = {}
         /\ \A x \in T : Cardinality(T \ {x}) = Cardinality(T) - 1
<1>1. IsFiniteSet(T) /\ Cardinality(T) <= Cardinality(S)
  BY FS_Subset
<1>2. Cardinality(T) \in Nat
  BY <1>1, FS_CardinalityType
<1>3. Cardinality(T) = 0 <=> T = {}
  BY <1>1, FS_EmptySet
<1>4. \A x \in T : Cardinality(T \ {x}) = Cardinality(T) - 1
  BY <1>1, FS_RemoveElement
<1>5. QED
  BY <1>1, <1>2, <1>3, <1>4

LEMMA SumExists ==
  ASSUME NEW S, IsFiniteSet(S), NEW val \in [S -> Int]
  PROVE  \E s : IsSum(s, S, val)
<1> DEFINE Upto(g, n) == \A T \in SUBSET S : Cardinality(T) <= n => g[T] = SumStep(g, T, val)
           P == {n \in Nat : \E g \in [SUBSET S -> Int] : Upto(g, n)}
<1>1. 0 \in P
  <2> DEFINE g == [T \in SUBSET S |-> 0]
  <2>1. \A T \in SUBSET S : Cardinality(T) <= 0 => T = {}
    BY SmallerSubset
  <2>2. Upto(g, 0)
    BY <2>1 DEF SumStep
  <2>3. g \in [SUBSET S -> Int]
    OBVIOUS
  <2> HIDE DEF g
  <2>4. QED
    BY <2>2, <2>3
<1>2. ASSUME NEW n \in P PROVE n + 1 \in P
  <2>1. PICK g \in [SUBSET S -> Int] : Upto(g, n)
    BY <1>2
  <2> DEFINE h == [T \in SUBSET S |-> SumStep(g, T, val)]
  <2>2. h \in [SUBSET S -> Int]
    <3>1. ASSUME NEW T \in SUBSET S PROVE SumStep(g, T, val) \in Int
      <4>1. CASE T = {}
        BY <4>1 DEF SumStep
      <4>2. CASE T # {}
        <5> DEFINE x == CHOOSE y \in T : TRUE
        <5>1. x \in T
          BY <4>2
        <5> HIDE DEF x
        <5>2. val[x] \in Int /\ g[T \ {x}] \in Int
          BY <5>1
        <5>3. val[x] + g[T \ {x}] \in Int
          BY <5>2
        <5>4. QED
          BY <4>2, <5>3 DEF SumStep, x
      <4>3. QED
        BY <4>1, <4>2
    <3>2. QED
      BY <3>1
  <2>3. Upto(h, n + 1)
    <3> SUFFICES ASSUME NEW T \in SUBSET S, Cardinality(T) <= n + 1
                 PROVE  h[T] = SumStep(h, T, val)
      OBVIOUS
    <3>1. CASE T = {}
      BY <3>1 DEF SumStep
    <3>2. CASE T # {}
      <4> DEFINE x == CHOOSE y \in T : TRUE
      <4>1. x \in T
        BY <3>2
      <4> HIDE DEF x
      <4>2. T \ {x} \in SUBSET S /\ Cardinality(T \ {x}) <= n
        <5>1. Cardinality(T \ {x}) = Cardinality(T) - 1 /\ Cardinality(T) \in Nat
          BY <4>1, SmallerSubset
        <5>2. QED
          BY <5>1
      <4>3. g[T \ {x}] = h[T \ {x}]
        BY <2>1, <4>2
      <4> HIDE DEF h
      <4>4. SumStep(h, T, val) = SumStep(g, T, val)
        BY <3>2, <4>3 DEF SumStep, x
      <4>5. QED
        BY <4>4 DEF h
    <3>3. QED
      BY <3>1, <3>2
  <2> HIDE DEF h
  <2>4. QED
    BY <2>2, <2>3
<1>3. P = Nat
  <2> HIDE DEF P
  <2>1. P \in SUBSET Nat
    BY DEF P
  <2>2. QED
    BY <1>1, <1>2, <2>1, AllNumbers
<1>4. PICK g \in [SUBSET S -> Int] : Upto(g, Cardinality(S))
  <2>1. Cardinality(S) \in P
    BY <1>3, FS_CardinalityType
  <2>2. QED
    BY <2>1
<1>5. \A T \in SUBSET S : g[T] = SumStep(g, T, val)
  BY <1>4, SmallerSubset
<1>6. g = [T \in SUBSET S |-> SumStep(g, T, val)]
  BY <1>5
<1>7. QED
  BY <1>6 DEF IsSum

\* All subsets, the smaller ones first.
LEMMA BySize ==
  ASSUME NEW S, IsFiniteSet(S), NEW Good \in SUBSET SUBSET S,
         {} \in Good,
         \A T \in SUBSET S : (T # {} /\ \A x \in T : T \ {x} \in Good) => T \in Good
  PROVE  SUBSET S = Good
<1> DEFINE P == {n \in Nat : \A T \in SUBSET S : Cardinality(T) = n => T \in Good}
<1>1. 0 \in P
  BY SmallerSubset
<1>2. ASSUME NEW n \in P PROVE n + 1 \in P
  <2> SUFFICES ASSUME NEW T \in SUBSET S, Cardinality(T) = n + 1 PROVE T \in Good
    OBVIOUS
  <2>1. T # {} /\ \A x \in T : Cardinality(T \ {x}) = n
    BY SmallerSubset
  <2>2. \A x \in T : T \ {x} \in Good
    BY <2>1
  <2>3. QED
    BY <2>1, <2>2
<1>3. P = Nat
  <2> HIDE DEF P
  <2>1. P \in SUBSET Nat
    BY DEF P
  <2>2. QED
    BY <1>1, <1>2, <2>1, AllNumbers
<1>4. \A T \in SUBSET S : Cardinality(T) \in P
  BY <1>3, SmallerSubset
<1>5. QED
  BY <1>4

SumFn(S, val) == CHOOSE s : IsSum(s, S, val)

LEMMA SumUnfold ==
  ASSUME NEW S, IsFiniteSet(S), NEW val \in [S -> Int]
  PROVE  /\ Sums(S, val) = SumFn(S, val)[S]
         /\ \A T \in SUBSET S : SumFn(S, val)[T] = SumStep(SumFn(S, val), T, val)
         /\ SumFn(S, val) \in [SUBSET S -> Int]
<1> DEFINE s == SumFn(S, val)
<1>1. Sums(S, val) = SumFn(S, val)[S]
  BY DEF Sums, SumFn, IsSum, SumStep
<1>2. IsSum(s, S, val)
  BY SumExists DEF SumFn
<1> HIDE DEF s
<1>3. \A T \in SUBSET S : s[T] = SumStep(s, T, val)
  BY <1>2 DEF IsSum
<1>4. s \in [SUBSET S -> Int]
  <2> DEFINE Good == {T \in SUBSET S : s[T] \in Int}
  <2>1. {} \in Good
    <3>1. {} \in SUBSET S /\ SumStep(s, {}, val) = 0
      BY DEF SumStep
    <3>2. s[{}] = 0
      BY <1>3, <3>1
    <3>3. QED
      BY <3>1, <3>2
  <2>2. ASSUME NEW T \in SUBSET S, T # {}, \A x \in T : T \ {x} \in Good
        PROVE  T \in Good
    <3> DEFINE x == CHOOSE y \in T : TRUE
    <3>1. x \in T
      BY <2>2
    <3>2. s[T] = val[x] + s[T \ {x}]
      BY <1>3, <2>2 DEF SumStep
    <3> HIDE DEF x
    <3>3. val[x] \in Int /\ s[T \ {x}] \in Int
      BY <2>2, <3>1
    <3>4. QED
      BY <3>2, <3>3
  <2>3. SUBSET S = Good
    <3> HIDE DEF Good
    <3>1. Good \in SUBSET SUBSET S
      BY DEF Good
    <3>2. QED
      BY <2>1, <2>2, <3>1, BySize
  <2>4. \A T \in SUBSET S : s[T] \in Int
    BY <2>3
  <2>5. s = [T \in SUBSET S |-> s[T]]
    BY <1>2 DEF IsSum
  <2>6. QED
    BY <2>4, <2>5
<1>5. QED
  BY <1>1, <1>3, <1>4 DEF s

\* The sum does not depend on the element that is taken out first.
LEMMA SumRemove ==
  ASSUME NEW S, IsFiniteSet(S), NEW val \in [S -> Int], NEW T \in SUBSET S, NEW x \in T
  PROVE  SumFn(S, val)[T] = val[x] + SumFn(S, val)[T \ {x}]
<1> DEFINE s == SumFn(S, val)
           Good == {U \in SUBSET S : \A y \in U : s[U] = val[y] + s[U \ {y}]}
<1>1. /\ \A U \in SUBSET S : s[U] = SumStep(s, U, val)
      /\ s \in [SUBSET S -> Int]
  BY SumUnfold
<1> HIDE DEF s
<1>2. {} \in Good
  OBVIOUS
<1>3. ASSUME NEW U \in SUBSET S, U # {}, \A y \in U : U \ {y} \in Good
      PROVE  U \in Good
  <2> SUFFICES ASSUME NEW y \in U PROVE s[U] = val[y] + s[U \ {y}]
    BY <1>3
  <2> DEFINE z == CHOOSE v \in U : TRUE
  <2>1. z \in U
    OBVIOUS
  <2>2. s[U] = val[z] + s[U \ {z}]
    BY <1>1, <1>3 DEF SumStep
  <2> HIDE DEF z
  <2>3. CASE y = z
    BY <2>2, <2>3
  <2>4. CASE y # z
    <3>1. y \in U \ {z} /\ z \in U \ {y} /\ U \ {z} \in Good /\ U \ {y} \in Good
      BY <1>3, <2>1, <2>4
    <3>2. s[U \ {z}] = val[y] + s[(U \ {z}) \ {y}]
      BY <3>1
    <3>3. s[U \ {y}] = val[z] + s[(U \ {y}) \ {z}]
      BY <3>1
    <3>4. (U \ {z}) \ {y} = (U \ {y}) \ {z} /\ (U \ {y}) \ {z} \in SUBSET S
      OBVIOUS
    <3>5. val[y] \in Int /\ val[z] \in Int /\ s[(U \ {y}) \ {z}] \in Int
      BY <1>1, <2>1, <3>4
    <3>6. \A a, b, c \in Int : a + (b + c) = b + (a + c)
      OBVIOUS
    <3>7. val[z] + (val[y] + s[(U \ {y}) \ {z}]) = val[y] + (val[z] + s[(U \ {y}) \ {z}])
      BY <3>5, <3>6
    <3>8. QED
      BY <2>2, <3>2, <3>3, <3>4, <3>7, Zenon
  <2>5. QED
    BY <2>3, <2>4
<1>4. SUBSET S = Good
  <2> HIDE DEF Good
  <2>1. Good \in SUBSET SUBSET S
    BY DEF Good
  <2>2. \A U \in SUBSET S : (U # {} /\ \A y \in U : U \ {y} \in Good) => U \in Good
    BY <1>3
  <2>3. QED
    BY <1>2, <2>1, <2>2, BySize
<1>5. T \in Good
  BY <1>4
<1>6. QED
  BY <1>5 DEF s

\* The sum of a subset, as a part of any set it is in.
LEMMA SumAgrees ==
  ASSUME NEW S, IsFiniteSet(S), NEW val \in [S -> Int],
         NEW R, IsFiniteSet(R), NEW more \in [R -> Int],
         S \subseteq R, \A y \in S : val[y] = more[y]
  PROVE  SumFn(S, val)[S] = SumFn(R, more)[S]
<1> DEFINE s == SumFn(S, val)
           u == SumFn(R, more)
           Good == {T \in SUBSET S : s[T] = u[T]}
<1>1. /\ \A T \in SUBSET S : s[T] = SumStep(s, T, val)
      /\ \A T \in SUBSET R : u[T] = SumStep(u, T, more)
  BY SumUnfold
<1> HIDE DEF s, u
<1>2. {} \in Good
  BY <1>1 DEF SumStep
<1>3. ASSUME NEW T \in SUBSET S, T # {}, \A y \in T : T \ {y} \in Good
      PROVE  T \in Good
  <2> DEFINE z == CHOOSE v \in T : TRUE
  <2>1. z \in T
    BY <1>3
  <2>2. T \in SUBSET R
    OBVIOUS
  <2>3. s[T] = val[z] + s[T \ {z}] /\ u[T] = more[z] + u[T \ {z}]
    BY <1>1, <1>3, <2>2 DEF SumStep
  <2> HIDE DEF z
  <2>4. val[z] = more[z] /\ s[T \ {z}] = u[T \ {z}]
    BY <1>3, <2>1
  <2>5. QED
    BY <2>3, <2>4
<1>4. SUBSET S = Good
  <2> HIDE DEF Good
  <2>1. Good \in SUBSET SUBSET S
    BY DEF Good
  <2>2. \A U \in SUBSET S : (U # {} /\ \A y \in U : U \ {y} \in Good) => U \in Good
    BY <1>3
  <2>3. QED
    BY <1>2, <2>1, <2>2, BySize
<1>5. S \in Good
  BY <1>4
<1>6. QED
  BY <1>5 DEF s, u

LEMMA SumOfNone ==
  ASSUME NEW val \in [{} -> Int]
  PROVE  Sums({}, val) = 0
<1>1. IsFiniteSet({})
  BY FS_EmptySet
<1>2. Sums({}, val) = SumFn({}, val)[{}] /\ SumFn({}, val)[{}] = SumStep(SumFn({}, val), {}, val)
  BY <1>1, SumUnfold
<1>3. QED
  BY <1>2 DEF SumStep

\* One row more.
LEMMA SumOfOneMore ==
  ASSUME NEW S, IsFiniteSet(S), NEW val \in [S -> Int], NEW x, x \notin S,
         NEW more \in [S \cup {x} -> Int], \A y \in S : val[y] = more[y]
  PROVE  Sums(S \cup {x}, more) = Sums(S, val) + more[x] /\ Sums(S, val) \in Int
<1> DEFINE R == S \cup {x}
<1>1. IsFiniteSet(R)
  BY FS_AddElement
<1>2. R \ {x} = S /\ S \in SUBSET S /\ R \in SUBSET R /\ x \in R /\ S \subseteq R
      /\ more \in [R -> Int]
  OBVIOUS
<1> HIDE DEF R
<1>3. SumFn(R, more)[R] = more[x] + SumFn(R, more)[S]
  BY <1>1, <1>2, SumRemove
<1>4. SumFn(S, val)[S] = SumFn(R, more)[S]
  BY <1>1, <1>2, SumAgrees
<1>5. Sums(R, more) = SumFn(R, more)[R] /\ Sums(S, val) = SumFn(S, val)[S]
  BY <1>1, <1>2, SumUnfold
<1>6. SumFn(S, val)[S] \in Int /\ more[x] \in Int
  <2>1. SumFn(S, val) \in [SUBSET S -> Int] /\ S \in SUBSET S
    BY SumUnfold
  <2>2. QED
    BY <1>2, <2>1
<1>7. QED
  BY <1>3, <1>4, <1>5, <1>6 DEF R

-------------------------------------------------------------------------------
\* Texts put together one string after the other.
IsConcat(s, n, q, str) ==
  s = [i \in 0..n |-> IF i = 0 THEN <<>> ELSE Extended(s[i - 1], str[q[i]])]

LEMMA ConcatExists ==
  ASSUME NEW q, NEW str, NEW n \in Nat
  PROVE  \E s : IsConcat(s, n, q, str)
<1> DEFINE P == {m \in Nat : \E s : IsConcat(s, m, q, str)}
<1>1. 0 \in P
  <2> DEFINE s == [i \in 0..0 |-> <<>>]
  <2>1. s = [i \in 0..0 |-> IF i = 0 THEN <<>> ELSE Extended(s[i - 1], str[q[i]])]
    OBVIOUS
  <2> HIDE DEF s
  <2>2. QED
    BY <2>1 DEF IsConcat
<1>2. ASSUME NEW m \in P PROVE m + 1 \in P
  <2>1. PICK g : IsConcat(g, m, q, str)
    OBVIOUS
  <2> DEFINE h == [i \in 0..(m + 1) |-> IF i = 0 THEN <<>> ELSE Extended(g[i - 1], str[q[i]])]
  <2>2. \A i \in 0..m : g[i] = h[i]
    BY <2>1 DEF IsConcat
  <2>3. \A i \in 0..(m + 1) : h[i] = IF i = 0 THEN <<>> ELSE Extended(g[i - 1], str[q[i]])
    OBVIOUS
  <2>4. \A i \in 0..(m + 1) : i # 0 => g[i - 1] = h[i - 1]
    <3>1. \A i \in 0..(m + 1) : i # 0 => i - 1 \in 0..m
      OBVIOUS
    <3>2. QED
      BY <2>2, <3>1
  <2>5. h = [i \in 0..(m + 1) |-> h[i]]
    OBVIOUS
  <2> HIDE DEF h
  <2>6. h = [i \in 0..(m + 1) |-> IF i = 0 THEN <<>> ELSE Extended(h[i - 1], str[q[i]])]
    <3>1. \A i \in 0..(m + 1) : h[i] = IF i = 0 THEN <<>> ELSE Extended(h[i - 1], str[q[i]])
      BY <2>3, <2>4
    <3>2. QED
      BY <2>5, <3>1
  <2>7. QED
    BY <2>6 DEF IsConcat
<1>3. P = Nat
  <2> HIDE DEF P
  <2>1. P \in SUBSET Nat
    BY DEF P
  <2>2. QED
    BY <1>1, <1>2, <2>1, AllNumbers
<1>4. n \in P
  BY <1>3
<1>5. QED
  BY <1>4

LEMMA ConcatUnfold ==
  ASSUME NEW q, NEW str, NEW n \in Nat
  PROVE  \E s : IsConcat(s, n, q, str) /\ Concat(n, q, str) = s[n]
<1> DEFINE s == CHOOSE g : IsConcat(g, n, q, str)
<1>1. IsConcat(s, n, q, str)
  BY ConcatExists
<1>2. Concat(n, q, str) = s[n]
  BY DEF Concat, IsConcat
<1> HIDE DEF s
<1>3. QED
  BY <1>1, <1>2

\* The text of the first rows does not depend on those that follow.
LEMMA ConcatAgrees ==
  ASSUME NEW n \in Nat, NEW m \in Nat, NEW q, NEW str, NEW p, NEW other, NEW s, NEW t,
         n <= m, \A i \in 1..n : str[q[i]] = other[p[i]],
         IsConcat(s, n, q, str), IsConcat(t, m, p, other)
  PROVE  s[n] = t[n]
<1> DEFINE P == {i \in Nat : i <= n => s[i] = t[i]}
<1>0. /\ \A i \in 0..n : s[i] = IF i = 0 THEN <<>> ELSE Extended(s[i - 1], str[q[i]])
      /\ \A i \in 0..m : t[i] = IF i = 0 THEN <<>> ELSE Extended(t[i - 1], other[p[i]])
  BY DEF IsConcat
<1>1. 0 \in P
  BY <1>0
<1>2. ASSUME NEW i \in P PROVE i + 1 \in P
  <2> SUFFICES ASSUME i + 1 <= n PROVE s[i + 1] = t[i + 1]
    OBVIOUS
  <2>1. i + 1 \in 1..n /\ i + 1 \in 0..n /\ i + 1 \in 0..m /\ (i + 1) - 1 = i /\ i + 1 # 0
    OBVIOUS
  <2>2. s[i] = t[i]
    BY <2>1
  <2>3. s[i + 1] = Extended(s[i], str[q[i + 1]]) /\ t[i + 1] = Extended(t[i], other[p[i + 1]])
    BY <1>0, <2>1
  <2>4. QED
    BY <2>1, <2>2, <2>3
<1>3. P = Nat
  <2> HIDE DEF P
  <2>1. P \in SUBSET Nat
    BY DEF P
  <2>2. QED
    BY <1>1, <1>2, <2>1, AllNumbers
<1>4. n \in P
  BY <1>3
<1>5. QED
  BY <1>4

LEMMA ConcatOfNone == ASSUME NEW q, NEW str PROVE Concat(0, q, str) = <<>>
<1>1. PICK s : IsConcat(s, 0, q, str) /\ Concat(0, q, str) = s[0]
  BY ConcatUnfold
<1>2. QED
  BY <1>1 DEF IsConcat

LEMMA ConcatOfOneMore ==
  ASSUME NEW n \in Nat, NEW q, NEW str, NEW p, NEW other,
         \A i \in 1..n : str[q[i]] = other[p[i]]
  PROVE  Concat(n + 1, p, other) = Extended(Concat(n, q, str), other[p[n + 1]])
<1>1. PICK s : IsConcat(s, n, q, str) /\ Concat(n, q, str) = s[n]
  BY ConcatUnfold
<1>2. PICK t : IsConcat(t, n + 1, p, other) /\ Concat(n + 1, p, other) = t[n + 1]
  BY ConcatUnfold
<1>3. t[n + 1] = Extended(t[n], other[p[n + 1]])
  <2>1. n + 1 \in 0..(n + 1) /\ (n + 1) - 1 = n /\ n + 1 # 0
    OBVIOUS
  <2>2. QED
    BY <1>2, <2>1 DEF IsConcat
<1>4. s[n] = t[n]
  <2>1. n <= n + 1 /\ n + 1 \in Nat
    OBVIOUS
  <2>2. QED
    BY <1>1, <1>2, <2>1, ConcatAgrees
<1>5. QED
  BY <1>1, <1>2, <1>3, <1>4

-------------------------------------------------------------------------------
\* Integers that wrap around.
LEMMA ModShift ==
  ASSUME NEW M \in Nat \ {0}, NEW x \in Int, NEW k \in Int
  PROVE  (x - M * k) % M = x % M
<1> DEFINE y == x - M * k
           d == x \div M   r == x % M
           e == y \div M   q == y % M
<1>1. y \in Int
  OBVIOUS
<1>2. x = M * d + r /\ r \in 0..(M - 1) /\ d \in Int
  OBVIOUS
<1>3. y = M * e + q /\ q \in 0..(M - 1) /\ e \in Int
  <2> HIDE DEF y
  <2>1. QED
    BY <1>1
<1>4. y = x - M * k
  OBVIOUS
<1> HIDE DEF y, d, r, e, q
<1>5. M * (d - k - e) = q - r
  <2>1. M * d \in Int /\ M * k \in Int /\ M * e \in Int
    BY <1>2, <1>3
  <2>2. M * (d - k - e) = M * d - M * k - M * e
    BY <1>2, <1>3
  <2>3. QED
    BY <1>2, <1>3, <1>4, <2>1, <2>2
<1>6. \A c \in Int : c >= 1 => M * c >= M
  OBVIOUS
<1>7. \A c \in Int : c <= -1 => M * c <= -M
  OBVIOUS
<1>8. d - k - e = 0
  <2>1. d - k - e \in Int
    BY <1>2, <1>3
  <2>2. q - r < M /\ q - r > -M
    BY <1>2, <1>3
  <2> DEFINE c == d - k - e
  <2>3. c \in Int /\ M * c < M /\ M * c > -M
    BY <1>5, <2>1, <2>2
  <2> HIDE DEF c
  <2>4. ~(c >= 1) /\ ~(c <= -1)
    BY <1>6, <1>7, <2>3
  <2>5. c = 0
    BY <2>3, <2>4
  <2>6. QED
    BY <2>5 DEF c
<1>9. q - r = 0
  BY <1>5, <1>8
<1>10. q = r
  BY <1>2, <1>3, <1>9
<1>11. QED
  BY <1>10 DEF q, r, y

LEMMA DivMod ==
  ASSUME NEW M \in Nat \ {0}, NEW x \in Int
  PROVE  x = M * (x \div M) + (x % M) /\ x \div M \in Int /\ x % M \in 0..(M - 1)
OBVIOUS

LEMMA WrapOfSum ==
  ASSUME NEW a \in Int, NEW b \in Int
  PROVE  Wrap(Wrap(a) + b) = Wrap(a + b)
<1> DEFINE M == MaxInt - MinInt + 1
           z == a - MinInt
           k == z \div M
<1>1. M \in Nat \ {0} /\ MinInt \in Int /\ MaxInt \in Int /\ z \in Int
  BY AggregatesAssumption
<1>2. \A x \in Int : Wrap(x) = MinInt + ((x - MinInt) % M)
  BY <1>1 DEF Wrap
<1>3. z = a - MinInt
  OBVIOUS
<1> HIDE DEF M, z
<1>4. k \in Int /\ z = M * k + (z % M) /\ z % M \in Int
  BY <1>1, DivMod
<1> HIDE DEF k
<1>5. M * k \in Int
  BY <1>1, <1>4
<1>6. Wrap(a) = a - M * k
  <2>1. Wrap(a) = MinInt + (z % M)
    BY <1>2, <1>3
  <2>2. QED
    BY <1>1, <1>3, <1>4, <1>5, <2>1
<1>7. (Wrap(a) + b) - MinInt = ((a + b) - MinInt) - M * k /\ Wrap(a) + b \in Int
  BY <1>1, <1>5, <1>6
<1>8. (((a + b) - MinInt) - M * k) % M = ((a + b) - MinInt) % M
  <2>1. (a + b) - MinInt \in Int
    BY <1>1
  <2>2. QED
    BY <1>1, <1>4, <2>1, ModShift
<1>9. Wrap(Wrap(a) + b) = MinInt + (((Wrap(a) + b) - MinInt) % M)
  <2> DEFINE v == Wrap(a) + b
  <2>1. v \in Int
    BY <1>7
  <2> HIDE DEF v
  <2>2. Wrap(v) = MinInt + ((v - MinInt) % M)
    BY <1>2, <2>1
  <2>3. QED
    BY <2>2 DEF v
<1>10. Wrap(a + b) = MinInt + (((a + b) - MinInt) % M)
  <2> DEFINE v == a + b
  <2>1. v \in Int
    OBVIOUS
  <2> HIDE DEF v
  <2>2. Wrap(v) = MinInt + ((v - MinInt) % M)
    BY <1>2, <2>1
  <2>3. QED
    BY <2>2 DEF v
<1>11. QED
  BY <1>7, <1>8, <1>9, <1>10, Zenon

LEMMA WrapOfZero == Wrap(0) = 0
<1> DEFINE M == MaxInt - MinInt + 1
<1>1. M \in Nat \ {0} /\ 0 - MinInt \in 0..(M - 1) /\ MinInt \in Int
  BY AggregatesAssumption
<1> HIDE DEF M
<1>2. (0 - MinInt) % M = 0 - MinInt
  BY <1>1
<1>3. Wrap(0) = MinInt + ((0 - MinInt) % M)
  BY DEF Wrap, M
<1>4. QED
  BY <1>1, <1>2, <1>3

LEMMA WrapIsInt == ASSUME NEW a \in Int PROVE Wrap(a) \in Int
<1>1. MaxInt - MinInt + 1 \in Nat \ {0} /\ MinInt \in Int
  BY AggregatesAssumption
<1>2. QED
  BY <1>1 DEF Wrap

-------------------------------------------------------------------------------
\* The order of strings.
LEMMA LexIrreflexive == ASSUME NEW s \in Seq(Int) PROVE ~LexLess(s, s)
<1> SUFFICES ASSUME NEW n \in 1..Len(s), n <= Len(s) => s[n] < s[n] PROVE FALSE
  BY DEF LexLess
<1>1. n \in 1..Len(s) /\ s[n] \in Int /\ n <= Len(s)
  OBVIOUS
<1>2. QED
  BY <1>1

LEMMA LexTransitive ==
  ASSUME NEW s \in Seq(Int), NEW t \in Seq(Int), NEW u \in Seq(Int), LexLess(s, t), LexLess(t, u)
  PROVE  LexLess(s, u)
<1>0. Len(s) \in Nat /\ Len(t) \in Nat /\ Len(u) \in Nat
      /\ (\A i \in 1..Len(s) : s[i] \in Int) /\ (\A i \in 1..Len(t) : t[i] \in Int)
      /\ (\A i \in 1..Len(u) : u[i] \in Int)
  OBVIOUS
<1>1. PICK n \in 1..Len(t) : /\ n <= Len(s) + 1
                             /\ \A i \in 1..(n - 1) : s[i] = t[i]
                             /\ n <= Len(s) => s[n] < t[n]
  BY DEF LexLess
<1>2. PICK m \in 1..Len(u) : /\ m <= Len(t) + 1
                             /\ \A i \in 1..(m - 1) : t[i] = u[i]
                             /\ m <= Len(t) => t[m] < u[m]
  BY DEF LexLess
<1>3. CASE n < m
  <2>1. n \in 1..Len(u) /\ t[n] = u[n] /\ \A i \in 1..(n - 1) : s[i] = u[i]
    BY <1>0, <1>1, <1>2, <1>3
  <2>2. n <= Len(s) => s[n] < u[n]
    BY <1>1, <2>1
  <2>3. QED
    BY <1>1, <2>1, <2>2 DEF LexLess
<1>4. CASE n = m
  <2>1. n \in 1..Len(u) /\ \A i \in 1..(n - 1) : s[i] = u[i]
    BY <1>1, <1>2, <1>4
  <2>2. n <= Len(s) => s[n] < u[n]
    <3>1. SUFFICES ASSUME n <= Len(s) PROVE s[n] < u[n]
      OBVIOUS
    <3>2. s[n] < t[n] /\ t[n] < u[n]
      BY <1>0, <1>1, <1>2, <1>4, <3>1
    <3>3. s[n] \in Int /\ t[n] \in Int /\ u[n] \in Int
      BY <1>0, <1>1, <2>1, <3>1
    <3>4. QED
      BY <3>2, <3>3
  <2>3. QED
    BY <1>1, <2>1, <2>2 DEF LexLess
<1>5. CASE m < n
  <2>1. m \in 1..Len(u) /\ m <= Len(s) /\ m <= Len(t)
    BY <1>0, <1>1, <1>2, <1>5
  <2>4. \A i \in 1..(m - 1) : s[i] = u[i]
    <3>1. \A i \in 1..(m - 1) : i \in 1..(n - 1)
      BY <1>5
    <3>2. QED
      BY <1>1, <1>2, <3>1
  <2>2. s[m] = t[m] /\ t[m] < u[m]
    BY <1>0, <1>1, <1>2, <1>5, <2>1
  <2>3. s[m] < u[m] /\ m <= Len(s) + 1
    BY <1>0, <2>1, <2>2
  <2>5. QED
    BY <2>1, <2>3, <2>4 DEF LexLess
<1>6. QED
  BY <1>0, <1>1, <1>2, <1>3, <1>4, <1>5

LEMMA EmptyIsLeast ==
  ASSUME NEW s \in Seq(Int)
  PROVE  ~LexLess(s, <<>>) /\ (s # <<>> => LexLess(<<>>, s))
<1>1. ~LexLess(s, <<>>)
  BY DEF LexLess
<1>2. ASSUME s # <<>> PROVE LexLess(<<>>, s)
  <2>1. Len(s) \in Nat /\ 1 \in 1..Len(s)
    BY <1>2
  <2>2. Len(<<>>) = 0
    OBVIOUS
  <2>3. QED
    BY <2>1, <2>2 DEF LexLess
<1>3. QED
  BY <1>1, <1>2

-------------------------------------------------------------------------------
\* One value more, and the collector of min() or max() changes if the value is better.
LEMMA SmallestOfOneMore ==
  ASSUME NEW type, NEW X, NEW x, NEW best \in Smallest(type, X),
         type = "string" => X \subseteq Seq(Int) /\ x \in Seq(Int),
         type # "string" => X \subseteq Int /\ x \in Int /\ Top[type] \in Int
  PROVE  (IF Better(type, x, best, TRUE) THEN x ELSE best) \in Smallest(type, X \cup {x})
<1>1. CASE type # "string"
  <2>1. best \in X \cup {Top[type]} /\ \A y \in X \cup {Top[type]} : best <= y
    BY <1>1 DEF Smallest
  <2>2. X \cup {x} \cup {Top[type]} \subseteq Int
    BY <1>1
  <2>3. CASE x < best
    <3>1. \A y \in (X \cup {x}) \cup {Top[type]} : x <= y
      <4>1. x \in Int /\ best \in Int
        BY <1>1, <2>1, <2>2
      <4>2. \A y \in X \cup {Top[type]} : y \in Int /\ x <= y
        BY <2>1, <2>2, <2>3, <4>1
      <4>3. x <= x
        BY <4>1
      <4>4. QED
        BY <4>2, <4>3
    <3>2. QED
      BY <1>1, <2>3, <3>1 DEF Smallest, Better
  <2>4. CASE ~(x < best)
    <3>1. \A y \in (X \cup {x}) \cup {Top[type]} : best <= y
      BY <2>1, <2>2, <2>4
    <3>2. QED
      BY <1>1, <2>1, <2>4, <3>1 DEF Smallest, Better
  <2>5. QED
    BY <2>3, <2>4
<1>2. CASE type = "string"
  <2>1. CASE X = {}
    <3>1. best = <<>> /\ Better(type, x, best, TRUE)
      BY <1>2, <2>1 DEF Smallest, Better
    <3>2. ~LexLess(x, x)
      BY <1>2, LexIrreflexive
    <3>3. X \cup {x} = {x}
      BY <2>1
    <3>4. x \in Smallest(type, {x})
      BY <1>2, <3>2 DEF Smallest
    <3>5. QED
      BY <3>1, <3>3, <3>4
  <2>2. CASE <<>> \in X \cup {x} /\ X # {}
    <3>1. best \in X
      BY <1>2, <2>2 DEF Smallest
    <3>2. QED
      BY <1>2, <2>2, <3>1 DEF Smallest
  <2>3. CASE <<>> \notin X \cup {x} /\ X # {}
    <3>1. best \in X /\ best # <<>> /\ \A y \in X : ~LexLess(y, best)
      BY <1>2, <2>3 DEF Smallest
    <3>2. Better(type, x, best, TRUE) <=> LexLess(x, best)
      BY <1>2, <3>1 DEF Better
    <3>3. ~LexLess(x, x)
      BY <1>2, LexIrreflexive
    <3>4. CASE LexLess(x, best)
      <4>1. \A y \in X : ~LexLess(y, x)
        BY <1>2, <3>1, <3>4, LexTransitive
      <4>2. QED
        BY <1>2, <2>3, <3>2, <3>3, <3>4, <4>1 DEF Smallest
    <3>5. CASE ~LexLess(x, best)
      BY <1>2, <2>3, <3>1, <3>2, <3>5 DEF Smallest
    <3>6. QED
      BY <3>4, <3>5
  <2>4. QED
    BY <2>1, <2>2, <2>3
<1>3. QED
  BY <1>1, <1>2

LEMMA GreatestOfOneMore ==
  ASSUME NEW type, NEW X, NEW x, NEW best \in Greatest(type, X),
         type = "string" => X \subseteq Seq(Int) /\ x \in Seq(Int),
         type # "string" => X \subseteq Int /\ x \in Int /\ Bottom[type] \in Int
  PROVE  (IF Better(type, x, best, FALSE) THEN x ELSE best) \in Greatest(type, X \cup {x})
<1>1. CASE type # "string"
  <2>1. best \in X \cup {Bottom[type]} /\ \A y \in X \cup {Bottom[type]} : y <= best
    BY <1>1 DEF Greatest
  <2>2. X \cup {x} \cup {Bottom[type]} \subseteq Int
    BY <1>1
  <2>3. CASE x > best
    <3>1. \A y \in (X \cup {x}) \cup {Bottom[type]} : y <= x
      <4>1. x \in Int /\ best \in Int
        BY <1>1, <2>1, <2>2
      <4>2. \A y \in X \cup {Bottom[type]} : y \in Int /\ y <= x
        BY <2>1, <2>2, <2>3, <4>1
      <4>3. x <= x
        BY <4>1
      <4>4. QED
        BY <4>2, <4>3
    <3>2. QED
      BY <1>1, <2>3, <3>1 DEF Greatest, Better
  <2>4. CASE ~(x > best)
    <3>1. \A y \in (X \cup {x}) \cup {Bottom[type]} : y <= best
      BY <2>1, <2>2, <2>4
    <3>2. QED
      BY <1>1, <2>1, <2>4, <3>1 DEF Greatest, Better
  <2>5. QED
    BY <2>3, <2>4
<1>2. CASE type = "string"
  <2>0. x \in Seq(Int) /\ ~LexLess(x, x)
    BY <1>2, LexIrreflexive
  <2>1. CASE X = {}
    <3>1. best = <<>> /\ Better(type, x, best, FALSE)
      BY <1>2, <2>1 DEF Greatest, Better
    <3>2. X \cup {x} = {x}
      BY <2>1
    <3>3. x \in Greatest(type, {x})
      BY <1>2, <2>0 DEF Greatest
    <3>4. QED
      BY <3>1, <3>2, <3>3
  <2>2. CASE X # {}
    <3>1. best \in X /\ best \in Seq(Int) /\ \A y \in X : ~LexLess(best, y)
      BY <1>2, <2>2 DEF Greatest
    <3>2. Better(type, x, best, FALSE) <=> best = <<>> \/ LexLess(best, x)
      BY <1>2 DEF Better
    <3>3. CASE best = <<>>
      <4>1. \A y \in X : y = <<>>
        BY <1>2, <3>1, <3>3, EmptyIsLeast
      <4>2. \A y \in X \cup {x} : ~LexLess(x, y)
        BY <2>0, <4>1, EmptyIsLeast
      <4>3. QED
        BY <1>2, <3>2, <3>3, <4>2 DEF Greatest
    <3>4. CASE LexLess(best, x)
      <4>1. \A y \in X : ~LexLess(x, y)
        BY <1>2, <3>1, <3>4, LexTransitive
      <4>2. QED
        BY <1>2, <2>0, <3>2, <3>4, <4>1 DEF Greatest
    <3>5. CASE best # <<>> /\ ~LexLess(best, x)
      BY <1>2, <3>1, <3>2, <3>5 DEF Greatest
    <3>6. QED
      BY <3>3, <3>4, <3>5
  <2>3. QED
    BY <2>1, <2>2
<1>3. QED
  BY <1>1, <1>2

-------------------------------------------------------------------------------
\* An evaluation context has collected the rows S.
TypeOf(f) ==
  CHOOSE type \in ArgumentTypes(FnOf[f]) :
    /\ ArgumentsFit(f, FnOf[f], type)
    /\ Base[FnOf[f]] \in {"min", "max"} => LimitsKnown(type)
Values(f, S) == [r \in Counted(f, S) |-> ArgsOf[f][r][1].v]
ValueSet(f, S) == {Values(f, S)[r] : r \in Counted(f, S)}
Total(f, S) == Sums(Counted(f, S), Values(f, S))

Gathered(c, f, S) ==
  CASE Base[FnOf[f]] = "count" -> c.count = Cardinality(Counted(f, S))
    [] Base[FnOf[f]] = "sum"   ->
         c.sum[TypeOf(f)] = IF TypeOf(f) = "int" THEN Wrap(Total(f, S)) ELSE Total(f, S)
    [] Base[FnOf[f]] = "avg"   -> c.avg = Total(f, S) /\ c.avgCount = Cardinality(Counted(f, S))
    [] Base[FnOf[f]] = "string_agg" ->
         /\ c.sep = Sep
         /\ \E q \in Orders(Counted(f, S)) :
              c.str = Concat(Cardinality(Counted(f, S)), q, Values(f, S))
    [] Base[FnOf[f]] = "min"   -> c.min[TypeOf(f)] \in Smallest(TypeOf(f), ValueSet(f, S))
    [] Base[FnOf[f]] = "max"   -> c.max[TypeOf(f)] \in Greatest(TypeOf(f), ValueSet(f, S))

Context ==
  {"fn", "call", "value", "sep", "type", "count", "str", "sum", "avg", "avgCount", "min", "max"}
Collected(c, f, S) ==
  /\ DOMAIN c = Context
  /\ DOMAIN c.sum = NumTypes /\ DOMAIN c.min = DOMAIN Top /\ DOMAIN c.max = DOMAIN Bottom
  /\ c.call \in {NoCall, f} /\ Typed(c, TypeOf(f))
  /\ Gathered(c, f, S)
  /\ S # {} => c.value \in AllowedValues(f, S)

\* What is known of a field.
LEMMA FieldFits ==
  ASSUME NEW f \in Fields, FnOf[f] # "plain"
  PROVE  /\ FnOf[f] \in DOMAIN Base /\ TypeOf(f) \in ArgumentTypes(FnOf[f])
         /\ ArgumentsFit(f, FnOf[f], TypeOf(f))
         /\ Base[FnOf[f]] \in {"min", "max"} => LimitsKnown(TypeOf(f))
BY FieldsAssumption DEF TypeOf

LEMMA Functions ==
  ASSUME NEW fn \in DOMAIN Base
  PROVE  /\ Base[fn] \in {"string_agg", "sum", "count", "avg", "min", "max"}
         /\ Arity[fn] \in Nat
         /\ fn \in IfFuncs \/ Base[fn] # "count" => Arity[fn] >= 1
         /\ Base[fn] \in DOMAIN Base /\ Base[Base[fn]] = Base[fn]
BY DEF Base, Arity, IfFuncs

\* The argument of a row, and whether the row counts.
LEMMA RowFits ==
  ASSUME NEW f \in Fields, FnOf[f] # "plain", NEW r \in Data
  PROVE  /\ Len(ArgsOf[f][r]) = Arity[FnOf[f]]
         /\ Applied(FnOf[f], ArgsOf[f][r]) \in BOOLEAN
         /\ FnOf[f] \in IfFuncs => ArgsOf[f][r][Len(ArgsOf[f][r])].t = "bool"
         /\ Base[FnOf[f]] # "count" =>
              /\ ArgsOf[f][r][1].t = TypeOf(f)
              /\ ArgsOf[f][r][1].v \in IF TypeOf(f) = "string" THEN Seq(Int) ELSE Int
         /\ Counted(f, {r}) = IF Applied(FnOf[f], ArgsOf[f][r]) THEN {r} ELSE {}
<1>1. ArgumentsFit(f, FnOf[f], TypeOf(f))
  BY FieldFits
<1>2. QED
  BY <1>1 DEF ArgumentsFit, Applied, Counted

OneMore(f, S, r) ==
  /\ Counted(f, S \cup {r}) = Counted(f, S) \cup {r} /\ r \notin Counted(f, S)
  /\ \A x \in Counted(f, S) : Values(f, S)[x] = Values(f, S \cup {r})[x]
  /\ Values(f, S \cup {r})[r] = ArgsOf[f][r][1].v
NoneMore(f, S, r) ==
  Counted(f, S \cup {r}) = Counted(f, S) /\ Values(f, S \cup {r}) = Values(f, S)

LEMMA RowCounts ==
  ASSUME NEW f \in Fields, FnOf[f] # "plain", NEW S, NEW r \in Data, r \notin S,
         Counted(f, {r}) = {r}
  PROVE  OneMore(f, S, r)
<1>1. Counted(f, S \cup {r}) = Counted(f, S) \cup Counted(f, {r})
  BY DEF Counted
<1>2. Counted(f, S) \subseteq S
  BY DEF Counted
<1>3. QED
  BY <1>1, <1>2 DEF Values, OneMore

LEMMA RowLeftOut ==
  ASSUME NEW f \in Fields, FnOf[f] # "plain", NEW S, NEW r \in Data,
         Counted(f, {r}) = {}
  PROVE  NoneMore(f, S, r)
<1>1. Counted(f, S \cup {r}) = Counted(f, S) \cup Counted(f, {r})
  BY DEF Counted
<1>2. QED
  BY <1>1 DEF Values, NoneMore

LEMMA ValuesTyped ==
  ASSUME NEW f \in Fields, FnOf[f] # "plain", Base[FnOf[f]] # "count", NEW S \in SUBSET Data
  PROVE  /\ TypeOf(f) = "string" => Values(f, S) \in [Counted(f, S) -> Seq(Int)]
         /\ TypeOf(f) # "string" => Values(f, S) \in [Counted(f, S) -> Int]
         /\ Counted(f, S) \subseteq S
<1>1. Counted(f, S) \subseteq S
  BY DEF Counted
<1>2. \A r \in S : ArgsOf[f][r][1].v \in IF TypeOf(f) = "string" THEN Seq(Int) ELSE Int
  BY RowFits
<1>3. QED
  BY <1>1, <1>2 DEF Values

\* The values that are right, with the names used here.
LEMMA Allowed ==
  ASSUME NEW f \in Fields, FnOf[f] # "plain", NEW S \in SUBSET Data, S # {}
  PROVE  /\ Base[FnOf[f]] = "count" =>
              AllowedValues(f, S) = {Value("int", Cardinality(Counted(f, S)))}
         /\ Base[FnOf[f]] = "sum" =>
              AllowedValues(f, S) =
                {Value(TypeOf(f), IF TypeOf(f) = "int" THEN Wrap(Total(f, S)) ELSE Total(f, S))}
         /\ Base[FnOf[f]] = "avg" =>
              AllowedValues(f, S) =
                {Value(TypeOf(f), Average(TypeOf(f), Total(f, S), Cardinality(Counted(f, S))))}
         /\ Base[FnOf[f]] = "string_agg" =>
              AllowedValues(f, S) =
                {Value("string", Concat(Cardinality(Counted(f, S)), q, Values(f, S))) :
                   q \in Orders(Counted(f, S))}
         /\ Base[FnOf[f]] = "min" =>
              AllowedValues(f, S) =
                {Value(TypeOf(f), x) : x \in Smallest(TypeOf(f), ValueSet(f, S))}
         /\ Base[FnOf[f]] = "max" =>
              AllowedValues(f, S) =
                {Value(TypeOf(f), x) : x \in Greatest(TypeOf(f), ValueSet(f, S))}
<1> DEFINE one == CHOOSE r \in S : TRUE
<1>1. one \in Data
  OBVIOUS
<1>2. Base[FnOf[f]] # "count" => ArgsOf[f][one][1].t = TypeOf(f)
  BY <1>1, RowFits
<1>3. CASE Base[FnOf[f]] = "count"
  BY <1>3 DEF AllowedValues
<1>4. CASE Base[FnOf[f]] = "sum"
  BY <1>2, <1>4 DEF AllowedValues, Total, Values
<1>5. CASE Base[FnOf[f]] = "avg"
  BY <1>2, <1>5 DEF AllowedValues, Total, Values
<1>6. CASE Base[FnOf[f]] = "string_agg"
  BY <1>6 DEF AllowedValues, Values
<1>7. CASE Base[FnOf[f]] = "min"
  BY <1>2, <1>7 DEF AllowedValues, ValueSet, Values
<1>8. CASE Base[FnOf[f]] = "max"
  BY <1>2, <1>8 DEF AllowedValues, ValueSet, Values
<1>9. Base[FnOf[f]] \in {"string_agg", "sum", "count", "avg", "min", "max"}
  BY FieldFits, Functions
<1>10. QED
  BY <1>3, <1>4, <1>5, <1>6, <1>7, <1>8, <1>9

\* A context that has collected S, and whose next row is r.
Ready(d, f, S) ==
  /\ DOMAIN d = Context
  /\ DOMAIN d.sum = NumTypes /\ DOMAIN d.min = DOMAIN Top /\ DOMAIN d.max = DOMAIN Bottom
  /\ d.call \in {NoCall, f} /\ Typed(d, TypeOf(f))
  /\ Gathered(d, f, S)

NextRow(d, f, S, r) ==
  /\ f \in Fields /\ FnOf[f] # "plain"
  /\ S \in SUBSET Data /\ IsFiniteSet(S) /\ r \in Data \ S
  /\ Ready(d, f, S)

\* A step of a collector that succeeds, however it has changed the context.
LEMMA SuccessCollects ==
  ASSUME NEW c, NEW f, NEW S, NEW val,
         DOMAIN c = Context, DOMAIN c.sum = NumTypes,
         DOMAIN c.min = DOMAIN Top, DOMAIN c.max = DOMAIN Bottom,
         c.call \in {NoCall, f}, Typed(c, TypeOf(f)), Gathered(c, f, S), val \in AllowedValues(f, S)
  PROVE  Collected(Success(c, val).ctx, f, S)
<1> DEFINE e == [c EXCEPT !.value = val]
<1>1. Success(c, val).ctx = e
  BY DEF Success
<1>2. /\ DOMAIN e = Context /\ e.value = val
      /\ \A x \in Context \ {"value"} : e[x] = c[x]
  BY DEF Context
<1>3. /\ e.sum = c.sum /\ e.min = c.min /\ e.max = c.max /\ e.call = c.call /\ e.type = c.type
      /\ e.count = c.count /\ e.avg = c.avg /\ e.avgCount = c.avgCount /\ e.str = c.str
      /\ e.sep = c.sep
  BY <1>2 DEF Context
<1> HIDE DEF e
<1>4. Gathered(e, f, S)
  BY <1>3 DEF Gathered
<1>5. Typed(e, TypeOf(f))
  BY <1>3 DEF Typed
<1>6. QED
  BY <1>1, <1>2, <1>3, <1>4, <1>5 DEF Collected

LEMMA FiniteCounted ==
  ASSUME NEW f, NEW S, IsFiniteSet(S)
  PROVE  IsFiniteSet(Counted(f, S)) /\ Cardinality(Counted(f, S)) \in Nat
<1>1. Counted(f, S) \subseteq S
  BY DEF Counted
<1>2. IsFiniteSet(Counted(f, S))
  BY <1>1, FS_Subset
<1>3. QED
  BY <1>2, FS_CardinalityType

\* How many rows count.
LEMMA CountOfOneMore ==
  ASSUME NEW f \in Fields, FnOf[f] # "plain", NEW S \in SUBSET Data, NEW r \in Data \ S,
         IsFiniteSet(S)
  PROVE  /\ Cardinality(Counted(f, S)) \in Nat
         /\ Cardinality(Counted(f, S \cup {r})) =
              Cardinality(Counted(f, S)) + IF Applied(FnOf[f], ArgsOf[f][r]) THEN 1 ELSE 0
<1>1. IsFiniteSet(Counted(f, S)) /\ Cardinality(Counted(f, S)) \in Nat
  BY FiniteCounted
<1>2. CASE Applied(FnOf[f], ArgsOf[f][r])
  <2>1. Counted(f, {r}) = {r}
    BY <1>2, RowFits
  <2>a. OneMore(f, S, r)
    BY <2>1, RowCounts
  <2>2. Counted(f, S \cup {r}) = Counted(f, S) \cup {r} /\ r \notin Counted(f, S)
    BY <2>a DEF OneMore
  <2>3. Cardinality(Counted(f, S) \cup {r}) = Cardinality(Counted(f, S)) + 1
    BY <1>1, <2>2, FS_AddElement
  <2>4. QED
    BY <1>1, <1>2, <2>2, <2>3
<1>3. CASE ~Applied(FnOf[f], ArgsOf[f][r])
  <2>1. Counted(f, {r}) = {}
    BY <1>3, RowFits
  <2>2. Counted(f, S \cup {r}) = Counted(f, S)
    BY <2>1, RowLeftOut DEF NoneMore
  <2>3. QED
    BY <1>1, <1>3, <2>2
<1>4. QED
  BY <1>2, <1>3

\* Their total.
LEMMA TotalOfOneMore ==
  ASSUME NEW f \in Fields, FnOf[f] # "plain", NEW S \in SUBSET Data, NEW r \in Data \ S,
         IsFiniteSet(S), Base[FnOf[f]] # "count", TypeOf(f) # "string"
  PROVE  /\ Total(f, S) \in Int /\ ArgsOf[f][r][1].v \in Int
         /\ Total(f, S \cup {r}) =
              Total(f, S) + IF Applied(FnOf[f], ArgsOf[f][r]) THEN ArgsOf[f][r][1].v ELSE 0
<1> DEFINE T == Counted(f, S)
           val == Values(f, S)
           more == Values(f, S \cup {r})
           x == ArgsOf[f][r][1].v
<1>1. IsFiniteSet(T)
  BY FiniteCounted
<1>2. val \in [T -> Int] /\ more \in [Counted(f, S \cup {r}) -> Int] /\ x \in Int
  BY ValuesTyped, RowFits
<1>3. Total(f, S) = Sums(T, val) /\ Total(f, S \cup {r}) = Sums(Counted(f, S \cup {r}), more)
  BY DEF Total
<1>4. CASE Applied(FnOf[f], ArgsOf[f][r])
  <2>0. Counted(f, {r}) = {r}
    BY <1>4, RowFits
  <2>a. OneMore(f, S, r)
    BY <2>0, RowCounts
  <2>1. /\ Counted(f, S \cup {r}) = T \cup {r} /\ r \notin T
        /\ \A y \in T : val[y] = more[y]
        /\ more[r] = x
    BY <2>a DEF OneMore
  <2> HIDE DEF T, val, more, x
  <2>2. more \in [T \cup {r} -> Int]
    BY <1>2, <2>1
  <2>3. Sums(T \cup {r}, more) = Sums(T, val) + more[r] /\ Sums(T, val) \in Int
    BY <1>1, <1>2, <2>1, <2>2, SumOfOneMore
  <2>4. QED
    BY <1>2, <1>3, <1>4, <2>1, <2>3 DEF x
<1>5. CASE ~Applied(FnOf[f], ArgsOf[f][r])
  <2>0. Counted(f, {r}) = {}
    BY <1>5, RowFits
  <2>1. Counted(f, S \cup {r}) = T /\ more = val
    BY <2>0, RowLeftOut DEF NoneMore
  <2> HIDE DEF T, val, more, x
  <2>2. Sums(T, val) \in Int
    <3>1. SumFn(T, val) \in [SUBSET T -> Int] /\ Sums(T, val) = SumFn(T, val)[T]
      BY <1>1, <1>2, SumUnfold
    <3>2. QED
      BY <3>1
  <2>3. Total(f, S \cup {r}) = Total(f, S) /\ Total(f, S) \in Int
    BY <1>3, <2>1, <2>2
  <2>4. QED
    BY <1>2, <1>5, <2>3 DEF x
<1>6. QED
  BY <1>4, <1>5

\* The functions, one by one.
LEMMA CountCollects ==
  ASSUME NEW d, NEW f, NEW S, NEW r, NextRow(d, f, S, r), Base[FnOf[f]] = "count"
  PROVE  Collected(Count(d, Applied(FnOf[f], ArgsOf[f][r])).ctx, f, S \cup {r})
<1> USE DEF NextRow
<1> DEFINE n == d.count + IF Applied(FnOf[f], ArgsOf[f][r]) THEN 1 ELSE 0
           c == [d EXCEPT !.count = n]
<1>1. n = Cardinality(Counted(f, S \cup {r}))
  <2>1. d.count = Cardinality(Counted(f, S))
    BY DEF Ready, Gathered
  <2>2. QED
    BY <2>1, CountOfOneMore
<1>2. Value("int", n) \in AllowedValues(f, S \cup {r})
  <2>1. S \cup {r} \in SUBSET Data /\ S \cup {r} # {}
    OBVIOUS
  <2>2. QED
    BY <1>1, <2>1, Allowed
<1> HIDE DEF n
<1>3. /\ DOMAIN c = Context /\ c.count = n
      /\ c.sum = d.sum /\ c.min = d.min /\ c.max = d.max /\ c.call = d.call /\ c.type = d.type
  BY DEF Ready, Context
<1>4. Count(d, Applied(FnOf[f], ArgsOf[f][r])) = Success(c, Value("int", n))
  BY DEF Count, n
<1> HIDE DEF c
<1>5. Gathered(c, f, S \cup {r})
  BY <1>1, <1>3 DEF Gathered
<1>6. Typed(c, TypeOf(f))
  BY <1>3 DEF Typed, Ready
<1>7. QED
  BY <1>2, <1>3, <1>4, <1>5, <1>6, SuccessCollects DEF Ready

LEMMA SumCollects ==
  ASSUME NEW d, NEW f, NEW S, NEW r, NextRow(d, f, S, r), Base[FnOf[f]] = "sum"
  PROVE  Collected(SumAgg(d, ArgsOf[f][r][1], Applied(FnOf[f], ArgsOf[f][r])).ctx, f, S \cup {r})
<1> USE DEF NextRow
<1> DEFINE a == ArgsOf[f][r][1]
           apply == Applied(FnOf[f], ArgsOf[f][r])
           t == TypeOf(f)
           s == d.sum[t] + IF apply THEN a.v ELSE 0
           w == IF t = "int" THEN Wrap(s) ELSE s
           c == [d EXCEPT !.type = t, !.sum[t] = w]
<1>1. a.t = t /\ t \in NumTypes /\ t # "string"
  <2>1. t \in ArgumentTypes(FnOf[f])
    BY FieldFits
  <2>2. t \in NumTypes
    BY <2>1 DEF ArgumentTypes
  <2>3. QED
    BY <2>2, RowFits DEF NumTypes
<1>2. w = IF t = "int" THEN Wrap(Total(f, S \cup {r})) ELSE Total(f, S \cup {r})
  <2>1. /\ Total(f, S) \in Int /\ a.v \in Int
        /\ Total(f, S \cup {r}) = Total(f, S) + IF apply THEN a.v ELSE 0
    BY <1>1, TotalOfOneMore
  <2>2. d.sum[t] = IF t = "int" THEN Wrap(Total(f, S)) ELSE Total(f, S)
    BY DEF Ready, Gathered
  <2> DEFINE b == IF apply THEN a.v ELSE 0
  <2>3. b \in Int /\ s = d.sum[t] + b /\ Total(f, S \cup {r}) = Total(f, S) + b
    BY <2>1
  <2> HIDE DEF b, s, t
  <2>4. QED
    BY <2>1, <2>2, <2>3, WrapOfSum
<1>3. Value(t, w) \in AllowedValues(f, S \cup {r})
  <2>1. S \cup {r} \in SUBSET Data /\ S \cup {r} # {}
    OBVIOUS
  <2> HIDE DEF w, t
  <2>2. QED
    BY <1>2, <2>1, Allowed DEF t
<1>4. SumAgg(d, a, apply) = Success(c, Value(t, w))
  BY <1>1 DEF SumAgg, Ready
<1> HIDE DEF w, t
<1>5. /\ DOMAIN c = Context /\ c.type = t /\ DOMAIN c.sum = NumTypes /\ c.sum[t] = w
      /\ c.min = d.min /\ c.max = d.max /\ c.call = d.call
  BY <1>1 DEF Ready, Context
<1> HIDE DEF c
<1>6. Gathered(c, f, S \cup {r})
  BY <1>2, <1>5 DEF Gathered, t
<1>7. Typed(c, TypeOf(f))
  BY <1>5 DEF Typed, t
<1>8. QED
  BY <1>3, <1>4, <1>5, <1>6, <1>7, SuccessCollects DEF Ready

LEMMA AvgCollects ==
  ASSUME NEW d, NEW f, NEW S, NEW r, NextRow(d, f, S, r), Base[FnOf[f]] = "avg"
  PROVE  Collected(Avg(d, ArgsOf[f][r][1], Applied(FnOf[f], ArgsOf[f][r])).ctx, f, S \cup {r})
<1> USE DEF NextRow
<1> DEFINE a == ArgsOf[f][r][1]
           apply == Applied(FnOf[f], ArgsOf[f][r])
           t == TypeOf(f)
           s == d.avg + IF apply THEN a.v ELSE 0
           n == d.avgCount + IF apply THEN 1 ELSE 0
           c == [d EXCEPT !.type = t, !.avg = s, !.avgCount = n]
<1>1. a.t = t /\ t \in NumTypes /\ t # "string"
  <2>1. t \in ArgumentTypes(FnOf[f])
    BY FieldFits
  <2>2. t \in NumTypes
    BY <2>1 DEF ArgumentTypes
  <2>3. QED
    BY <2>2, RowFits DEF NumTypes
<1>2. d.avg = Total(f, S) /\ d.avgCount = Cardinality(Counted(f, S))
  BY DEF Ready, Gathered
<1>3. s = Total(f, S \cup {r})
  BY <1>1, <1>2, TotalOfOneMore
<1>4. n = Cardinality(Counted(f, S \cup {r}))
  BY <1>2, CountOfOneMore
<1>5. Value(t, Average(t, s, n)) \in AllowedValues(f, S \cup {r})
  <2>1. S \cup {r} \in SUBSET Data /\ S \cup {r} # {}
    OBVIOUS
  <2> HIDE DEF s, n, t
  <2>2. QED
    BY <1>3, <1>4, <2>1, Allowed DEF t
<1>6. Avg(d, a, apply) = Success(c, Value(t, Average(t, s, n)))
  BY <1>1 DEF Avg, Ready
<1> HIDE DEF s, n, t
<1>7. /\ DOMAIN c = Context /\ c.type = t /\ c.avg = s /\ c.avgCount = n
      /\ c.sum = d.sum /\ c.min = d.min /\ c.max = d.max /\ c.call = d.call
  BY DEF Ready, Context
<1> HIDE DEF c
<1>8. Gathered(c, f, S \cup {r})
  BY <1>3, <1>4, <1>7 DEF Gathered
<1>9. Typed(c, TypeOf(f))
  BY <1>7 DEF Typed, t
<1>10. QED
  BY <1>5, <1>6, <1>7, <1>8, <1>9, SuccessCollects DEF Ready

LEMMA OneOrNone ==
  ASSUME NEW f \in Fields, FnOf[f] # "plain", NEW S, NEW r \in Data, r \notin S
  PROVE  /\ Applied(FnOf[f], ArgsOf[f][r]) => OneMore(f, S, r)
         /\ ~Applied(FnOf[f], ArgsOf[f][r]) => NoneMore(f, S, r)
<1>1. CASE Applied(FnOf[f], ArgsOf[f][r])
  <2>1. Counted(f, {r}) = {r}
    BY <1>1, RowFits
  <2>2. OneMore(f, S, r)
    BY <2>1, RowCounts
  <2>3. QED
    BY <1>1, <2>2
<1>2. CASE ~Applied(FnOf[f], ArgsOf[f][r])
  <2>1. Counted(f, {r}) = {}
    BY <1>2, RowFits
  <2>2. NoneMore(f, S, r)
    BY <2>1, RowLeftOut
  <2>3. QED
    BY <1>2, <2>2
<1>3. QED
  BY <1>1, <1>2

\* One more row comes last.
LEMMA OrderOfOneMore ==
  ASSUME NEW T, NEW n \in Nat, n = Cardinality(T), IsFiniteSet(T), NEW r, r \notin T,
         NEW q \in Orders(T)
  PROVE  /\ [i \in 1..(n + 1) |-> IF i <= n THEN q[i] ELSE r] \in Orders(T \cup {r})
         /\ Cardinality(T \cup {r}) = n + 1
<1> DEFINE p == [i \in 1..(n + 1) |-> IF i <= n THEN q[i] ELSE r]
<1>1. Cardinality(T \cup {r}) = n + 1
  BY FS_AddElement
<1>2. q \in [1..n -> T] /\ \A i, j \in 1..n : q[i] = q[j] => i = j
  BY DEF Orders
<1>3. p \in [1..(n + 1) -> T \cup {r}]
  BY <1>2
<1>4. \A i, j \in 1..(n + 1) : p[i] = p[j] => i = j
  <2>1. \A i \in 1..(n + 1) : i \notin 1..n => i = n + 1
    OBVIOUS
  <2>2. \A i \in 1..n : p[i] = q[i] /\ p[i] \in T
    BY <1>2
  <2>3. p[n + 1] = r
    OBVIOUS
  <2> HIDE DEF p
  <2>4. QED
    BY <1>2, <2>1, <2>2, <2>3
<1> HIDE DEF p
<1>5. DOMAIN p = 1..(n + 1)
  BY <1>3
<1>6. p \in Orders(T \cup {r})
  BY <1>1, <1>3, <1>4, <1>5 DEF Orders
<1>7. QED
  BY <1>1, <1>6 DEF p

LEMMA StringAggCollects ==
  ASSUME NEW d, NEW f, NEW S, NEW r, NextRow(d, f, S, r), Base[FnOf[f]] = "string_agg"
  PROVE  Collected(StringAgg(d, ArgsOf[f][r][1], Applied(FnOf[f], ArgsOf[f][r])).ctx, f, S \cup {r})
<1> USE DEF NextRow
<1> DEFINE a == ArgsOf[f][r][1]
           apply == Applied(FnOf[f], ArgsOf[f][r])
           R == S \cup {r}
           T == Counted(f, S)
           U == Counted(f, R)
           n == Cardinality(T)
           val == Values(f, S)
           more == Values(f, R)
           s == IF apply THEN Extended(d.str, a.v) ELSE d.str
           c == [d EXCEPT !.str = s]
<1>1. TypeOf(f) = "string" /\ a.t = "string"
  <2>1. TypeOf(f) \in ArgumentTypes(FnOf[f])
    BY FieldFits
  <2>2. TypeOf(f) = "string"
    BY <2>1 DEF ArgumentTypes
  <2>3. QED
    BY <2>2, RowFits
<1>2. n \in Nat /\ IsFiniteSet(T)
  BY FiniteCounted
<1>3. d.sep = Sep /\ \E q \in Orders(T) : d.str = Concat(n, q, val)
  BY DEF Ready, Gathered
<1>11. PICK q \in Orders(T) : d.str = Concat(n, q, val)
  BY <1>3
<1>4. \E p \in Orders(U) : s = Concat(Cardinality(U), p, more)
  <2>1. CASE apply
    <3> DEFINE p == [i \in 1..(n + 1) |-> IF i <= n THEN q[i] ELSE r]
    <3>1. OneMore(f, S, r)
      BY <2>1, OneOrNone, Zenon
    <3>2. /\ U = T \cup {r} /\ r \notin T
          /\ \A y \in T : val[y] = more[y]
          /\ more[r] = a.v
      BY <3>1 DEF OneMore
    <3> HIDE DEF U, T, n, val, more
    <3>3. p \in Orders(U) /\ Cardinality(U) = n + 1
      <4>1. n = Cardinality(T) /\ r \notin T /\ q \in Orders(T)
        BY <1>11, <3>2 DEF n
      <4>2. p \in Orders(T \cup {r}) /\ Cardinality(T \cup {r}) = n + 1
        BY <1>2, <4>1, OrderOfOneMore
      <4>3. QED
        BY <3>2, <4>2
    <3>4. \A i \in 1..n : p[i] = q[i] /\ q[i] \in T
      BY <1>2 DEF Orders, n
    <3>5. p[n + 1] = r
      BY <1>2
    <3> HIDE DEF p
    <3>6. Concat(n + 1, p, more) = Extended(Concat(n, q, val), more[p[n + 1]])
      <4>1. \A i \in 1..n : val[q[i]] = more[p[i]]
        BY <3>2, <3>4
      <4>2. QED
        BY <1>2, <4>1, ConcatOfOneMore
    <3>7. s = Concat(Cardinality(U), p, more)
      BY <1>11, <2>1, <3>2, <3>3, <3>5, <3>6
    <3>8. QED
      BY <3>3, <3>7
  <2>2. CASE ~apply
    <3>1. NoneMore(f, S, r)
      BY <2>2, OneOrNone, Zenon
    <3>2. U = T /\ more = val
      BY <3>1 DEF NoneMore
    <3>3. QED
      BY <1>11, <2>2, <3>2
  <2>3. QED
    BY <2>1, <2>2
<1>5. Value("string", s) \in AllowedValues(f, R)
  <2>1. R \in SUBSET Data /\ R # {}
    OBVIOUS
  <2> HIDE DEF s, R
  <2>2. AllowedValues(f, R) = {Value("string", Concat(Cardinality(U), p, more)) : p \in Orders(U)}
    BY <2>1, Allowed
  <2>3. QED
    BY <1>4, <2>2
<1>6. StringAgg(d, a, apply) = Success(c, Value("string", s))
  BY <1>1, <1>3 DEF StringAgg, Extended
<1> HIDE DEF s, U, more
<1>7. /\ DOMAIN c = Context /\ c.str = s /\ c.type = d.type /\ c.sep = d.sep
      /\ c.sum = d.sum /\ c.min = d.min /\ c.max = d.max /\ c.call = d.call
  BY DEF Ready, Context
<1> HIDE DEF c
<1>8. Gathered(c, f, R)
  BY <1>3, <1>4, <1>7 DEF Gathered, U, more
<1>9. Typed(c, TypeOf(f))
  BY <1>7 DEF Typed, Ready
<1>10. QED
  BY <1>5, <1>6, <1>7, <1>8, <1>9, SuccessCollects DEF Ready

\* The extreme values.
LEMMA ValueSetOfOneMore ==
  ASSUME NEW f \in Fields, FnOf[f] # "plain", NEW S, NEW r \in Data, r \notin S
  PROVE  /\ Applied(FnOf[f], ArgsOf[f][r]) =>
              ValueSet(f, S \cup {r}) = ValueSet(f, S) \cup {ArgsOf[f][r][1].v}
         /\ ~Applied(FnOf[f], ArgsOf[f][r]) => ValueSet(f, S \cup {r}) = ValueSet(f, S)
<1>1. CASE Applied(FnOf[f], ArgsOf[f][r])
  <2>1. OneMore(f, S, r)
    BY <1>1, OneOrNone, Zenon
  <2>2. ValueSet(f, S \cup {r}) = ValueSet(f, S) \cup {ArgsOf[f][r][1].v}
    BY <2>1 DEF OneMore, ValueSet
  <2>3. QED
    BY <1>1, <2>2
<1>2. CASE ~Applied(FnOf[f], ArgsOf[f][r])
  <2>1. NoneMore(f, S, r)
    BY <1>2, OneOrNone, Zenon
  <2>2. ValueSet(f, S \cup {r}) = ValueSet(f, S)
    BY <2>1 DEF NoneMore, ValueSet
  <2>3. QED
    BY <1>2, <2>2
<1>3. QED
  BY <1>1, <1>2

LEMMA ExtremeArgument ==
  ASSUME NEW f \in Fields, FnOf[f] # "plain", NEW S \in SUBSET Data, NEW r \in Data \ S,
         Base[FnOf[f]] \in {"min", "max"}
  PROVE  /\ TypeOf(f) \in NumTypes \cup {"string"} /\ ArgsOf[f][r][1].t = TypeOf(f)
         /\ LimitsKnown(TypeOf(f))
         /\ TypeOf(f) = "string" => ValueSet(f, S) \subseteq Seq(Int) /\ ArgsOf[f][r][1].v \in Seq(Int)
         /\ TypeOf(f) # "string" => ValueSet(f, S) \subseteq Int /\ ArgsOf[f][r][1].v \in Int
<1>1. TypeOf(f) \in ArgumentTypes(FnOf[f]) /\ LimitsKnown(TypeOf(f))
  BY FieldFits
<1>2. TypeOf(f) \in NumTypes \cup {"string"}
  BY <1>1 DEF ArgumentTypes
<1>3. /\ TypeOf(f) = "string" => ValueSet(f, S) \subseteq Seq(Int)
      /\ TypeOf(f) # "string" => ValueSet(f, S) \subseteq Int
  BY ValuesTyped DEF ValueSet
<1>4. QED
  BY <1>1, <1>2, <1>3, RowFits

LEMMA MinCollects ==
  ASSUME NEW d, NEW f, NEW S, NEW r, NextRow(d, f, S, r), Base[FnOf[f]] = "min"
  PROVE  Collected(Min(d, ArgsOf[f][r][1], Applied(FnOf[f], ArgsOf[f][r])).ctx, f, S \cup {r})
<1> USE DEF NextRow
<1> DEFINE a == ArgsOf[f][r][1]
           apply == Applied(FnOf[f], ArgsOf[f][r])
           t == TypeOf(f)
           X == ValueSet(f, S)
           Y == ValueSet(f, S \cup {r})
           m == IF apply /\ Better(t, a.v, d.min[t], TRUE) THEN a.v ELSE d.min[t]
           c == [d EXCEPT !.type = t, !.min[t] = m]
<1>1. /\ t \in NumTypes \cup {"string"} /\ a.t = t /\ t \in DOMAIN Top
      /\ t = "string" => X \subseteq Seq(Int) /\ a.v \in Seq(Int)
      /\ t # "string" => X \subseteq Int /\ a.v \in Int /\ Top[t] \in Int
  BY ExtremeArgument DEF LimitsKnown
<1>2. d.min[t] \in Smallest(t, X)
  BY DEF Ready, Gathered
<1>3. m \in Smallest(t, Y)
  <2>1. CASE apply
    <3>1. Y = X \cup {a.v}
      BY <2>1, ValueSetOfOneMore
    <3> HIDE DEF X, Y, t, a
    <3>2. (IF Better(t, a.v, d.min[t], TRUE) THEN a.v ELSE d.min[t]) \in Smallest(t, X \cup {a.v})
      BY <1>1, <1>2, SmallestOfOneMore
    <3>3. QED
      BY <2>1, <3>1, <3>2
  <2>2. CASE ~apply
    <3>1. Y = X
      BY <2>2, ValueSetOfOneMore
    <3>2. QED
      BY <1>2, <2>2, <3>1
  <2>3. QED
    BY <2>1, <2>2
<1>4. Value(t, m) \in AllowedValues(f, S \cup {r})
  <2>1. S \cup {r} \in SUBSET Data /\ S \cup {r} # {}
    OBVIOUS
  <2> HIDE DEF m
  <2>2. AllowedValues(f, S \cup {r}) = {Value(t, x) : x \in Smallest(t, Y)}
    BY <2>1, Allowed
  <2>3. QED
    BY <1>3, <2>2
<1>5. Min(d, a, apply) = Success(c, Value(t, m))
  BY <1>1 DEF Min, Ready
<1> HIDE DEF m, t
<1>6. /\ DOMAIN c = Context /\ c.type = t /\ DOMAIN c.min = DOMAIN Top /\ c.min[t] = m
      /\ c.sum = d.sum /\ c.max = d.max /\ c.call = d.call
  BY <1>1 DEF Ready, Context
<1> HIDE DEF c
<1>7. Gathered(c, f, S \cup {r})
  BY <1>3, <1>6 DEF Gathered, t
<1>8. Typed(c, TypeOf(f))
  BY <1>6 DEF Typed, t
<1>9. QED
  BY <1>4, <1>5, <1>6, <1>7, <1>8, SuccessCollects DEF Ready

LEMMA MaxCollects ==
  ASSUME NEW d, NEW f, NEW S, NEW r, NextRow(d, f, S, r), Base[FnOf[f]] = "max"
  PROVE  Collected(Max(d, ArgsOf[f][r][1], Applied(FnOf[f], ArgsOf[f][r])).ctx, f, S \cup {r})
<1> USE DEF NextRow
<1> DEFINE a == ArgsOf[f][r][1]
           apply == Applied(FnOf[f], ArgsOf[f][r])
           t == TypeOf(f)
           X == ValueSet(f, S)
           Y == ValueSet(f, S \cup {r})
           m == IF apply /\ Better(t, a.v, d.max[t], FALSE) THEN a.v ELSE d.max[t]
           c == [d EXCEPT !.type = t, !.max[t] = m]
<1>1. /\ t \in NumTypes \cup {"string"} /\ a.t = t /\ t \in DOMAIN Bottom
      /\ t = "string" => X \subseteq Seq(Int) /\ a.v \in Seq(Int)
      /\ t # "string" => X \subseteq Int /\ a.v \in Int /\ Bottom[t] \in Int
  BY ExtremeArgument DEF LimitsKnown
<1>2. d.max[t] \in Greatest(t, X)
  BY DEF Ready, Gathered
<1>3. m \in Greatest(t, Y)
  <2>1. CASE apply
    <3>1. Y = X \cup {a.v}
      BY <2>1, ValueSetOfOneMore
    <3> HIDE DEF X, Y, t, a
    <3>2. (IF Better(t, a.v, d.max[t], FALSE) THEN a.v ELSE d.max[t]) \in Greatest(t, X \cup {a.v})
      BY <1>1, <1>2, GreatestOfOneMore
    <3>3. QED
      BY <2>1, <3>1, <3>2
  <2>2. CASE ~apply
    <3>1. Y = X
      BY <2>2, ValueSetOfOneMore
    <3>2. QED
      BY <1>2, <2>2, <3>1
  <2>3. QED
    BY <2>1, <2>2
<1>4. Value(t, m) \in AllowedValues(f, S \cup {r})
  <2>1. S \cup {r} \in SUBSET Data /\ S \cup {r} # {}
    OBVIOUS
  <2> HIDE DEF m
  <2>2. AllowedValues(f, S \cup {r}) = {Value(t, x) : x \in Greatest(t, Y)}
    BY <2>1, Allowed
  <2>3. QED
    BY <1>3, <2>2
<1>5. Max(d, a, apply) = Success(c, Value(t, m))
  BY <1>1 DEF Max, Ready
<1> HIDE DEF m, t
<1>6. /\ DOMAIN c = Context /\ c.type = t /\ DOMAIN c.max = DOMAIN Bottom /\ c.max[t] = m
      /\ c.sum = d.sum /\ c.min = d.min /\ c.call = d.call
  BY <1>1 DEF Ready, Context
<1> HIDE DEF c
<1>7. Gathered(c, f, S \cup {r})
  BY <1>3, <1>6 DEF Gathered, t
<1>8. Typed(c, TypeOf(f))
  BY <1>6 DEF Typed, t
<1>9. QED
  BY <1>4, <1>5, <1>6, <1>7, <1>8, SuccessCollects DEF Ready

LEMMA EvalCollects ==
  ASSUME NEW c, NEW f \in Fields, FnOf[f] # "plain", NEW S \in SUBSET Data, IsFiniteSet(S),
         NEW r \in Data \ S, Collected(c, f, S)
  PROVE  Collected(EvalAgg(c, f, FnOf[f], ArgsOf[f][r]).ctx, f, S \cup {r})
<1> DEFINE fn == FnOf[f]
           args == ArgsOf[f][r]
           apply == Applied(fn, args)
           d == [c EXCEPT !.call = f, !.fn = Base[fn]]
<1>1. /\ DOMAIN d = Context /\ d.call = f
      /\ d.type = c.type /\ d.sum = c.sum /\ d.min = c.min /\ d.max = c.max /\ d.str = c.str
      /\ d.count = c.count /\ d.avg = c.avg /\ d.avgCount = c.avgCount
      /\ d.sep = c.sep
  BY DEF Collected, Context
<1>2. CheckAgg(c, f, fn, args)
  BY RowFits DEF CheckAgg, Collected
<1>3. Base[fn] \in {"string_agg", "sum", "count", "avg", "min", "max"}
  BY FieldFits, Functions
<1>4. EvalAgg(c, f, fn, args) =
        CASE Base[fn] = "string_agg" -> StringAgg(d, args[1], apply)
          [] Base[fn] = "sum"        -> SumAgg(d, args[1], apply)
          [] Base[fn] = "avg"        -> Avg(d, args[1], apply)
          [] Base[fn] = "count"      -> Count(d, apply)
          [] Base[fn] = "min"        -> Min(d, args[1], apply)
          [] Base[fn] = "max"        -> Max(d, args[1], apply)
  BY <1>2 DEF EvalAgg
<1> HIDE DEF d
<1>5. Gathered(d, f, S)
  BY <1>1 DEF Gathered, Collected
<1>6. Typed(d, TypeOf(f))
  BY <1>1 DEF Typed, Collected
<1>7. NextRow(d, f, S, r)
  BY <1>1, <1>5, <1>6 DEF NextRow, Ready, Collected
<1>8. CASE Base[fn] = "string_agg"
  BY <1>4, <1>7, <1>8, StringAggCollects
<1>9. CASE Base[fn] = "sum"
  BY <1>4, <1>7, <1>9, SumCollects
<1>10. CASE Base[fn] = "count"
  BY <1>4, <1>7, <1>10, CountCollects
<1>11. CASE Base[fn] = "avg"
  BY <1>4, <1>7, <1>11, AvgCollects
<1>12. CASE Base[fn] = "min"
  BY <1>4, <1>7, <1>12, MinCollects
<1>13. CASE Base[fn] = "max"
  BY <1>4, <1>7, <1>13, MaxCollects
<1>14. QED
  BY <1>3, <1>8, <1>9, <1>10, <1>11, <1>12, <1>13

\* A new context has collected nothing.
LEMMA NewCollects ==
  ASSUME NEW f \in Fields, FnOf[f] # "plain"
  PROVE  Collected(NewCtx(f), f, {})
<1> DEFINE c == NewCtx(f)
           t == TypeOf(f)
<1>1. /\ DOMAIN c = Context /\ c.call = NoCall
      /\ c.type = IF Base[FnOf[f]] = "string_agg" THEN "string" ELSE "unknown"
      /\ c.count = 0 /\ c.str = <<>> /\ c.sum = [x \in NumTypes |-> 0]
      /\ c.avg = 0 /\ c.avgCount = 0 /\ c.min = Top /\ c.max = Bottom /\ c.sep = Sep
  BY DEF NewCtx, NewAggEvalCtx, Context
<1> HIDE DEF c
<1>2. /\ t \in ArgumentTypes(FnOf[f])
      /\ Base[FnOf[f]] \in {"min", "max"} => LimitsKnown(t)
      /\ Base[FnOf[f]] \in {"string_agg", "sum", "count", "avg", "min", "max"}
  BY FieldFits, Functions
<1>3. Typed(c, t)
  <2>1. Base[FnOf[f]] = "string_agg" => t = "string"
    BY <1>2 DEF ArgumentTypes
  <2>2. QED
    BY <1>1, <2>1 DEF Typed
<1>4. /\ Counted(f, {}) = {} /\ Values(f, {}) \in [{} -> Int] /\ ValueSet(f, {}) = {}
      /\ Cardinality(Counted(f, {})) = 0
  <2>1. Counted(f, {}) = {}
    BY DEF Counted
  <2>2. QED
    BY <2>1, FS_EmptySet DEF Values, ValueSet
<1>5. Total(f, {}) = 0
  BY <1>4, SumOfNone DEF Total
<1>6. Gathered(c, f, {})
  <2>1. CASE Base[FnOf[f]] = "count"
    BY <1>1, <1>4, <2>1 DEF Gathered
  <2>2. CASE Base[FnOf[f]] = "sum"
    <3>1. t \in NumTypes
      BY <1>2, <2>2 DEF ArgumentTypes
    <3>2. c.sum[t] = 0
      BY <1>1, <3>1
    <3>3. QED
      BY <1>5, <2>2, <3>2, WrapOfZero DEF Gathered
  <2>3. CASE Base[FnOf[f]] = "avg"
    BY <1>1, <1>4, <1>5, <2>3 DEF Gathered
  <2>4. CASE Base[FnOf[f]] = "string_agg"
    <3>1. <<>> \in Orders({})
      BY FS_EmptySet DEF Orders
    <3>2. Concat(0, <<>>, Values(f, {})) = <<>>
      BY ConcatOfNone
    <3>3. QED
      BY <1>1, <1>4, <2>4, <3>1, <3>2 DEF Gathered
  <2>5. CASE Base[FnOf[f]] = "min"
    <3>1. Top[t] \in Smallest(t, {})
      BY <1>2, <2>5, AggregatesAssumption DEF Smallest, LimitsKnown
    <3>2. QED
      BY <1>1, <1>4, <2>5, <3>1 DEF Gathered
  <2>6. CASE Base[FnOf[f]] = "max"
    <3>1. Bottom[t] \in Greatest(t, {})
      BY <1>2, <2>6, AggregatesAssumption DEF Greatest, LimitsKnown
    <3>2. QED
      BY <1>1, <1>4, <2>6, <3>1 DEF Gathered
  <2>7. QED
    BY <1>2, <2>1, <2>2, <2>3, <2>4, <2>5, <2>6
<1>7. QED
  BY <1>1, <1>3, <1>6 DEF Collected, c

\* What the record of a left row gets.
LEMMA SafeValueRight ==
  ASSUME NEW c, NEW f \in Fields, FnOf[f] # "plain", NEW S \in SUBSET Data, S # {},
         Collected(c, f, S), NEW default
  PROVE  GetSafeValue(c, default) \in AllowedValues(f, S)
<1>1. c.value \in AllowedValues(f, S)
  BY DEF Collected
<1>2. TypeOf(f) # "nil"
  <2>1. TypeOf(f) \in ArgumentTypes(FnOf[f])
    BY FieldFits
  <2>2. QED
    BY <2>1 DEF ArgumentTypes, NumTypes
<1>3. \A type, x : Value(type, x).t = type
  BY DEF Value
<1>4. Base[FnOf[f]] \in {"string_agg", "sum", "count", "avg", "min", "max"}
  BY FieldFits, Functions
<1>5. c.value.t # "nil"
  <2>1. CASE Base[FnOf[f]] = "count"
    BY <1>1, <1>3, <2>1, Allowed
  <2>2. CASE Base[FnOf[f]] = "sum"
    BY <1>1, <1>2, <1>3, <2>2, Allowed
  <2>3. CASE Base[FnOf[f]] = "avg"
    BY <1>1, <1>2, <1>3, <2>3, Allowed
  <2>4. CASE Base[FnOf[f]] = "string_agg"
    BY <1>1, <1>3, <2>4, Allowed
  <2>5. CASE Base[FnOf[f]] = "min"
    BY <1>1, <1>2, <1>3, <2>5, Allowed
  <2>6. CASE Base[FnOf[f]] = "max"
    BY <1>1, <1>2, <1>3, <2>6, Allowed
  <2>7. QED
    BY <1>4, <2>1, <2>2, <2>3, <2>4, <2>5, <2>6
<1>6. QED
  BY <1>1, <1>5 DEF GetSafeValue

-------------------------------------------------------------------------------
\* What a batch without an error has done.

\* The left rows whose page is being joined, and those whose page is done.
Current == IF phase \in {"lookup", "epilogue"} THEN LeftPages[page] ELSE {}
PagesDone == IF phase \in {"lookup", "epilogue"} THEN page - 1 ELSE page
Finished == UNION {LeftPages[i] : i \in 1..PagesDone}

Holds(w, k) == kw[w].at \in {"select", "feed", "close"} /\ kw[w].key = k
IndexRows(k, n) == {RowidsOf[k][i] : i \in 1..n}
Busy(w, q) == rw[w][q].at \in {"got", "lock", "eval", "row", "count"}

\* Rowid worker q of w is still to join the right row r with the left row l.
InHand(w, q, l, r) ==
  /\ Busy(w, q) /\ rw[w][q].rowid = r
  /\ rw[w][q].at \in {"row", "count"} => l \in rw[w][q].todo

\* Key worker w is still to see to it that r is joined with l.
Owed(w, l, r) ==
  /\ Holds(w, KeyOf[l])
  /\ \/ r \notin IndexRows(KeyOf[l], kw[w].sent)
     \/ \E q \in RowidWorkers : InHand(w, q, l, r)

\* The right rows that l has been joined with.
Pending(l, r) == KeyOf[l] \in keysCh \/ \E w \in KeyWorkers : Owed(w, l, r)
IsJoined(l, r) == l \in Finished \/ (l \in Current /\ ~Pending(l, r))
JoinedTo(l) == {r \in Matches(l) : IsJoined(l, r)}

Calm == ~hErr /\ \A w \in KeyWorkers : ~selErr[w] /\ ~kw[w].err

PagesInOrder ==
  /\ mode \in Modes
  /\ page \in 0..Len(LeftPages)
  /\ phase \in {"lookup", "epilogue"} => page > 0
  /\ phase = "done" => page = Len(LeftPages)
  /\ phase = "epilogue" => \A w \in KeyWorkers : kw[w].at = "stopped"
  /\ \A w \in KeyWorkers : phase \in {"lookup", "epilogue"} /\ kw[w].at = "stopped" => keysCh = {}

\* A key of the page waits in the channel, or one key worker has it, or it is done.
WorksOn(w) == kw[w].at \in {"select", "feed", "close"}
KeysOfPage == {KeyOf[l] : l \in Current}
KeysShared ==
  /\ phase = "lookup" => keysCh \subseteq KeysOfPage
  /\ \A w \in KeyWorkers : WorksOn(w) =>
       /\ kw[w].key \in KeysOfPage \ keysCh
       /\ \A v \in KeyWorkers : Holds(v, kw[w].key) => v = w

\* How far a key worker has come with the index, whatever pages it came in.
IndexReadBy(w) ==
  WorksOn(w) =>
    LET n == Len(RowidsOf[kw[w].key])
    IN /\ DOMAIN kw[w] = DOMAIN IdleKw
       /\ kw[w].upto \in 0..n /\ kw[w].sent \in 0..kw[w].upto
       /\ kw[w].at = "select" => kw[w].sent = kw[w].upto
       /\ kw[w].at = "close" => kw[w].sent = n
       /\ kw[w].at = "feed" => kw[w].more \/ kw[w].upto = n

\* A rowid that was handed over is with one rowid worker at most.
HandRight(w, q) ==
  /\ DOMAIN rw[w][q] = DOMAIN IdleRw
  /\ Busy(w, q) =>
       /\ rw[w][q].rowid \in IndexRows(kw[w].key, kw[w].sent)
       /\ \A p \in RowidWorkers : Busy(w, p) /\ rw[w][p].rowid = rw[w][q].rowid => p = q
       /\ rw[w][q].at # "got" => rw[w][q].rowid \in Data
       /\ rw[w][q].at \in {"eval", "row", "count"} => rw[w][q].rowid \in Passing
       /\ rw[w][q].at = "eval" => mode.group
       /\ rw[w][q].at \in {"row", "count"} => ~mode.group /\ rw[w][q].todo \subseteq LeftOf(kw[w].key)

Flow ==
  /\ Calm /\ PagesInOrder /\ KeysShared
  /\ \A w \in KeyWorkers : /\ Resting(w) \/ WorksOn(w)
                           /\ IndexReadBy(w)
                           /\ \A q \in RowidWorkers : HandRight(w, q)

FoundRight == phase \in {"lookup", "epilogue"} => found = {l \in Current : JoinedTo(l) # {}}

\* Rows are written one by one: what is to be there by now.
PlainSoFar ==
  {p \in Pairs : p.right \in JoinedTo(p.left)}
    \cup (IF mode.join = "left" THEN {Record(l, None, <<>>) : l \in Finished \ WithMatch} ELSE {})
PlainRight == ~mode.group => out = SetToBag({rec \in PlainSoFar : Having(rec)})

\* Grouped: the contexts of the page have collected what their rows are joined with.
ContextsRight ==
  mode.group /\ phase \in {"lookup", "epilogue"} =>
    /\ DOMAIN eCtx = Current
    /\ \A l \in Current :
         /\ DOMAIN eCtx[l] = Fields
         /\ \A f \in Fields : FnOf[f] # "plain" => Collected(eCtx[l][f], f, JoinedTo(l))

\* And there is a record for each left row of the pages that are done.
ToWrite(l) == mode.join = "left" \/ Matches(l) # {}
GroupsWritten ==
  mode.group =>
    /\ \A rec \in DOMAIN out :
         /\ out[rec] = 1 /\ Having(rec) /\ GroupedRight(rec)
         /\ rec.left \in Finished /\ ToWrite(rec.left)
         /\ \A other \in DOMAIN out : other.left = rec.left => other = rec
    /\ \A l \in Finished : ToWrite(l) => l \in NoHaving \/ \E rec \in DOMAIN out : rec.left = l

Results == FoundRight /\ PlainRight /\ ContextsRight /\ GroupsWritten
JInv == IInv /\ (faults = 0 => Flow /\ Results)

-------------------------------------------------------------------------------
\* The left rows and their right rows.
LEMMA PagesAreLeft ==
  ASSUME PagesInOrder
  PROVE  Current \subseteq Left /\ Finished \subseteq Left /\ Current \cap Finished = {}
<1>1. Len(LeftPages) \in Nat /\ page \in 0..Len(LeftPages)
  BY LookupAssumption DEF PagesInOrder
<1>2. CASE phase \in {"lookup", "epilogue"}
  <2>1. page \in 1..Len(LeftPages) /\ PagesDone = page - 1 /\ Current = LeftPages[page]
    BY <1>1, <1>2 DEF PagesInOrder, PagesDone, Current
  <2>2. \A i \in 1..(page - 1) : i \in 1..Len(LeftPages) /\ i # page
    BY <1>1, <2>1
  <2>3. \A i \in 1..(page - 1) : LeftPages[i] \cap LeftPages[page] = {} /\ LeftPages[i] \subseteq Left
    BY <2>1, <2>2, LookupAssumption DEF Left
  <2>4. QED
    BY <2>1, <2>3 DEF Finished, Left
<1>3. CASE phase \notin {"lookup", "epilogue"}
  <2>1. Current = {} /\ PagesDone = page
    BY <1>3 DEF Current, PagesDone
  <2>2. 1..page \subseteq 1..Len(LeftPages)
    BY <1>1
  <2>3. QED
    BY <2>1, <2>2 DEF Finished, Left
<1>4. QED
  BY <1>2, <1>3

LEMMA MatchesOfKey ==
  ASSUME NEW l \in Left
  PROVE  /\ Matches(l) = IndexRows(KeyOf[l], Len(RowidsOf[KeyOf[l]])) \cap Passing
         /\ Matches(l) \in SUBSET Data /\ Matches(l) \subseteq Rowids /\ IsFiniteSet(Matches(l))
         /\ KeyOf[l] \in Keys
<1> DEFINE k == KeyOf[l]
           n == Len(RowidsOf[k])
           g == [i \in 1..n |-> RowidsOf[k][i]]
<1>1. k \in Keys
  BY DEF Keys
<1>2. n \in Nat
  BY <1>1, LookupAssumption
<1>3. Matches(l) = IndexRows(k, n) \cap Passing
  BY DEF Matches, IndexRows
<1>4. IndexRows(k, n) \subseteq Rowids
  BY <1>1 DEF IndexRows, Rowids
<1>5. IsFiniteSet(IndexRows(k, n))
  <2>1. g \in Surjection(1..n, IndexRows(k, n))
    BY DEF Surjection, IndexRows
  <2>2. IsFiniteSet(1..n)
    BY <1>2, FS_Interval
  <2> HIDE DEF g, n
  <2>3. QED
    BY <2>1, <2>2, FS_Surjection
<1>6. Matches(l) \subseteq IndexRows(k, n) /\ Matches(l) \in SUBSET Data
  BY <1>3, LookupAssumption
<1>7. IsFiniteSet(Matches(l))
  BY <1>5, <1>6, FS_Subset
<1>8. QED
  BY <1>1, <1>3, <1>4, <1>6, <1>7

\* A rowid is at one place of the index only.
LEMMA NextRowid ==
  ASSUME NEW k \in Keys, NEW n \in Nat, n < Len(RowidsOf[k])
  PROVE  /\ IndexRows(k, n + 1) = IndexRows(k, n) \cup {RowidsOf[k][n + 1]}
         /\ RowidsOf[k][n + 1] \notin IndexRows(k, n)
<1>1. Len(RowidsOf[k]) \in Nat
  BY LookupAssumption
<1>2. n + 1 \in 1..Len(RowidsOf[k]) /\ 1..(n + 1) = 1..n \cup {n + 1}
      /\ \A i \in 1..n : i \in 1..Len(RowidsOf[k]) /\ i # n + 1
  BY <1>1
<1>3. \A i \in 1..n : RowidsOf[k][i] # RowidsOf[k][n + 1]
  BY <1>2, LookupAssumption
<1>4. QED
  BY <1>2, <1>3 DEF IndexRows

LEMMA JoinedToIsMatch == ASSUME NEW l PROVE JoinedTo(l) \subseteq Matches(l)
BY DEF JoinedTo

\* Bags of records that are there once.
LEMMA AddRecords ==
  ASSUME NEW S, NEW T, S \cap T = {}
  PROVE  SetToBag(S) (+) SetToBag(T) = SetToBag(S \cup T)
BY DEF SetToBag, (+)

\* A step at which nothing is joined or finished.
LEMMA SamePairs ==
  ASSUME phase' = phase, page' = page,
         \A l \in Current : \A r \in Matches(l) : Pending(l, r)' <=> Pending(l, r)
  PROVE  /\ Current' = Current /\ Finished' = Finished
         /\ \A l \in Left : JoinedTo(l)' = JoinedTo(l)
<1>1. Current' = Current /\ Finished' = Finished
  BY DEF Current, Finished, PagesDone
<1>2. QED
  BY <1>1 DEF JoinedTo, IsJoined

LEMMA QuietStep ==
  ASSUME Results, PagesInOrder, UNCHANGED <<mode, phase, found, eCtx, out>>,
         Current' = Current, Finished' = Finished, \A l \in Left : JoinedTo(l)' = JoinedTo(l)
  PROVE  Results'
<1>1. Current \subseteq Left
  BY PagesAreLeft
<1>2. FoundRight'
  BY <1>1 DEF Results, FoundRight
<1>3. PlainSoFar' = PlainSoFar
  <2>1. \A p \in Pairs : p.left \in Left
    BY DEF Pairs, Record
  <2>2. QED
    BY <2>1 DEF PlainSoFar
<1>4. PlainRight'
  BY <1>3 DEF Results, PlainRight
<1>5. ContextsRight'
  <2>1. Current' = Current /\ \A l \in Current : JoinedTo(l)' = JoinedTo(l)
    BY <1>1
  <2>2. QED
    BY <2>1 DEF Results, ContextsRight
<1>6. GroupsWritten'
  BY DEF Results, GroupsWritten, ToWrite
<1>7. QED
  BY <1>2, <1>4, <1>5, <1>6 DEF Results

-------------------------------------------------------------------------------
\* Steps of the workers.

\* A worker that is at work works on a page.
LEMMA WorkIsOnPage ==
  ASSUME IInv, Flow, NEW w \in KeyWorkers
  PROVE  /\ WorksOn(w) => phase = "lookup"
         /\ \A q \in RowidWorkers : Busy(w, q) => WorksOn(w)
         /\ WorksOn(w) => /\ kw[w].key \in Keys /\ Len(RowidsOf[kw[w].key]) \in Nat
                          /\ kw[w].sent \in Nat /\ kw[w].sent <= Len(RowidsOf[kw[w].key])
                          /\ \A l \in Current : KeyOf[l] = kw[w].key <=> l \in LeftOf(kw[w].key)
<1>1. WorksOn(w) => phase = "lookup"
  BY DEF IInv, WorkIsNested, Resting, WorksOn
<1>2. \A q \in RowidWorkers : Busy(w, q) => WorksOn(w)
  <2>1. Resting(w) \/ WorksOn(w)
    BY DEF Flow
  <2>2. QED
    BY <2>1 DEF IInv, WorkIsNested, Busy
<1>3. ASSUME WorksOn(w)
      PROVE  /\ kw[w].key \in Keys /\ Len(RowidsOf[kw[w].key]) \in Nat
             /\ kw[w].sent \in Nat /\ kw[w].sent <= Len(RowidsOf[kw[w].key])
             /\ \A l \in Current : KeyOf[l] = kw[w].key <=> l \in LeftOf(kw[w].key)
  <2>1. kw[w].key \in Keys
    BY <1>3, PagesAreLeft DEF Flow, KeysShared, KeysOfPage, Keys
  <2>2. Len(RowidsOf[kw[w].key]) \in Nat
    BY <2>1, LookupAssumption
  <2>3. kw[w].upto \in 0..Len(RowidsOf[kw[w].key]) /\ kw[w].sent \in 0..kw[w].upto
    BY <1>3 DEF Flow, IndexReadBy
  <2>4. Current = LeftRows
    BY <1>1, <1>3 DEF Current, LeftRows
  <2>5. QED
    BY <2>1, <2>2, <2>3, <2>4 DEF LeftOf
<1>4. QED
  BY <1>1, <1>2, <1>3

\* One key worker, with its rowid workers, has moved.
LEMMA WorkerStep ==
  ASSUME Flow, NEW w \in KeyWorkers, phase = "lookup",
         UNCHANGED <<mode, page, phase>>, keysCh' \subseteq keysCh,
         \A v \in KeyWorkers \ {w} : kw'[v] = kw[v] /\ rw'[v] = rw[v] /\ selErr'[v] = selErr[v],
         ~hErr', ~selErr'[w], ~kw'[w].err,
         Resting(w)' \/ WorksOn(w)', kw'[w].at = "stopped" => keysCh' = {},
         WorksOn(w)' => /\ kw'[w].key \in KeysOfPage \ keysCh'
                        /\ \A v \in KeyWorkers \ {w} : ~Holds(v, kw'[w].key),
         IndexReadBy(w)', \A q \in RowidWorkers : HandRight(w, q)'
  PROVE  Flow'
<1>1. Calm'
  BY DEF Flow, Calm
<1>2. Current' = Current
  BY DEF Current
<1>3. PagesInOrder'
  BY DEF Flow, PagesInOrder
<1>4. KeysShared'
  <2>1. keysCh' \subseteq KeysOfPage'
    BY <1>2 DEF Flow, KeysShared, KeysOfPage
  <2>2. ASSUME NEW v \in KeyWorkers, WorksOn(v)', v # w
        PROVE  /\ kw'[v].key \in KeysOfPage' \ keysCh'
               /\ \A u \in KeyWorkers : (Holds(u, kw[v].key))' => u = v
    <3>1. WorksOn(v) /\ kw'[v] = kw[v]
      BY <2>2 DEF WorksOn
    <3>2. kw[v].key \in KeysOfPage \ keysCh /\ \A u \in KeyWorkers : Holds(u, kw[v].key) => u = v
      BY <3>1 DEF Flow, KeysShared
    <3>3. kw'[v].key \in KeysOfPage' \ keysCh'
      BY <1>2, <3>1, <3>2 DEF KeysOfPage
    <3>4. ASSUME NEW u \in KeyWorkers, (Holds(u, kw[v].key))', u # v PROVE FALSE
      <4>1. CASE u = w
        <5>1. WorksOn(w)' /\ kw'[w].key = kw[v].key
          BY <3>1, <3>4, <4>1 DEF Holds, WorksOn
        <5>2. Holds(v, kw'[w].key)
          BY <3>1, <5>1 DEF Holds, WorksOn
        <5>3. QED
          BY <2>2, <5>1, <5>2
      <4>2. CASE u # w
        BY <3>1, <3>2, <3>4, <4>2 DEF Holds
      <4>3. QED
        BY <4>1, <4>2
    <3>5. QED
      BY <3>3, <3>4
  <2>3. ASSUME WorksOn(w)'
        PROVE  /\ kw'[w].key \in KeysOfPage' \ keysCh'
               /\ \A u \in KeyWorkers : (Holds(u, kw[w].key))' => u = w
    BY <1>2, <2>3 DEF KeysOfPage, Holds
  <2>4. QED
    BY <2>1, <2>2, <2>3 DEF KeysShared
<1>5. ASSUME NEW v \in KeyWorkers \ {w}
      PROVE  /\ Resting(v)' \/ WorksOn(v)'
             /\ IndexReadBy(v)' /\ \A q \in RowidWorkers : HandRight(v, q)'
  <2>1. kw'[v] = kw[v] /\ rw'[v] = rw[v]
    OBVIOUS
  <2>2. IndexReadBy(v) /\ \A q \in RowidWorkers : HandRight(v, q)
    BY DEF Flow
  <2>3. IndexReadBy(v)'
    BY <2>1, <2>2 DEF IndexReadBy, WorksOn
  <2>4. \A q \in RowidWorkers : HandRight(v, q)'
    BY <2>1, <2>2 DEF HandRight, Busy, LeftOf, LeftRows
  <2>5. Resting(v)' \/ WorksOn(v)'
    BY <2>1 DEF Flow, Resting, WorksOn
  <2>6. QED
    BY <2>3, <2>4, <2>5
<1>6. QED
  BY <1>1, <1>3, <1>4, <1>5 DEF Flow

\* What the others still have to do is the same.
LEMMA OthersOwe ==
  ASSUME NEW w \in KeyWorkers, \A v \in KeyWorkers \ {w} : kw'[v] = kw[v] /\ rw'[v] = rw[v],
         NEW l, NEW r
  PROVE  \A v \in KeyWorkers \ {w} : Owed(v, l, r)' <=> Owed(v, l, r)
BY DEF Owed, Holds, InHand, Busy

LEMMA SamePending ==
  ASSUME NEW w \in KeyWorkers, \A v \in KeyWorkers \ {w} : kw'[v] = kw[v] /\ rw'[v] = rw[v],
         NEW l, NEW r,
         (KeyOf[l] \in keysCh' \/ Owed(w, l, r)') <=> (KeyOf[l] \in keysCh \/ Owed(w, l, r))
  PROVE  Pending(l, r)' <=> Pending(l, r)
BY OthersOwe DEF Pending

\* One rowid worker has moved, and has at most passed on the rowid that it has.
LEMMA RowidWorkerStep ==
  ASSUME IInv, Flow, NEW w \in KeyWorkers, NEW q \in RowidWorkers, WorksOn(w),
         UNCHANGED <<mode, page, phase, keysCh, kw, selErr, hErr>>,
         \A v \in KeyWorkers \ {w} : rw'[v] = rw[v],
         \A p \in RowidWorkers \ {q} : rw'[w][p] = rw[w][p],
         DOMAIN rw'[w][q] = DOMAIN IdleRw,
         Busy(w, q)' =>
           /\ Busy(w, q) /\ rw'[w][q].rowid = rw[w][q].rowid
           /\ rw'[w][q].at # "got" => rw[w][q].rowid \in Data
           /\ rw'[w][q].at \in {"eval", "row", "count"} => rw[w][q].rowid \in Passing
           /\ rw'[w][q].at = "eval" => mode.group
           /\ rw'[w][q].at \in {"row", "count"} =>
                ~mode.group /\ rw'[w][q].todo \subseteq LeftOf(kw[w].key)
  PROVE  Flow'
<1>1. phase = "lookup"
  BY WorkIsOnPage
<1>2. ~hErr /\ ~selErr[w] /\ ~kw[w].err
  BY DEF Flow, Calm
<1>3. kw[w].at # "stopped" /\ WorksOn(w)' /\ kw'[w] = kw[w]
  BY DEF WorksOn
<1>4. /\ kw[w].key \in KeysOfPage \ keysCh
      /\ \A v \in KeyWorkers \ {w} : ~Holds(v, kw[w].key)
  BY DEF Flow, KeysShared
<1>5. IndexReadBy(w)'
  BY DEF Flow, IndexReadBy, WorksOn
<1>6. ASSUME NEW p \in RowidWorkers PROVE HandRight(w, p)'
  <2>0. HandRight(w, p) /\ HandRight(w, q)
    BY DEF Flow
  <2>1. \A x \in RowidWorkers : Busy(w, x)' => Busy(w, x) /\ rw'[w][x].rowid = rw[w][x].rowid
    BY DEF Busy
  <2>2. CASE p = q
    <3>1. DOMAIN rw'[w][q] = DOMAIN IdleRw
      OBVIOUS
    <3>2. ASSUME Busy(w, q)'
          PROVE  /\ rw'[w][q].rowid \in IndexRows(kw'[w].key, kw'[w].sent)
                 /\ \A x \in RowidWorkers : Busy(w, x)' /\ rw'[w][x].rowid = rw'[w][q].rowid => x = q
                 /\ rw'[w][q].at # "got" => rw'[w][q].rowid \in Data
                 /\ rw'[w][q].at \in {"eval", "row", "count"} => rw'[w][q].rowid \in Passing
                 /\ rw'[w][q].at = "eval" => mode'.group
                 /\ rw'[w][q].at \in {"row", "count"} =>
                      ~mode'.group /\ rw'[w][q].todo \subseteq LeftOf(kw'[w].key)
      BY <2>0, <2>1, <3>2 DEF HandRight
    <3>3. LeftOf(kw[w].key)' = LeftOf(kw'[w].key)
      BY DEF LeftOf, LeftRows
    <3>4. QED
      BY <2>2, <3>1, <3>2, <3>3 DEF HandRight
  <2>3. CASE p # q
    <3>1. rw'[w][p] = rw[w][p]
      BY <2>3
    <3>2. Busy(w, p)' <=> Busy(w, p)
      BY <3>1 DEF Busy
    <3>3. QED
      BY <2>0, <2>1, <3>1, <3>2 DEF HandRight, LeftOf, LeftRows
  <2>4. QED
    BY <2>2, <2>3
<1> HIDE DEF Flow
<1>7. QED
  BY <1>1, <1>2, <1>3, <1>4, <1>5, <1>6, WorkerStep

LEMMA SameInHand ==
  ASSUME IInv, Flow, NEW w \in KeyWorkers, NEW q \in RowidWorkers, WorksOn(w),
         UNCHANGED <<mode, page, phase, keysCh, kw>>,
         \A v \in KeyWorkers \ {w} : rw'[v] = rw[v],
         \A p \in RowidWorkers \ {q} : rw'[w][p] = rw[w][p],
         \A l \in LeftOf(kw[w].key) : \A r \in Matches(l) :
            InHand(w, q, l, r)' <=> InHand(w, q, l, r)
  PROVE  /\ Current' = Current /\ Finished' = Finished
         /\ \A l \in Left : JoinedTo(l)' = JoinedTo(l)
<1>1. ASSUME NEW l \in Current, NEW r \in Matches(l) PROVE Pending(l, r)' <=> Pending(l, r)
  <2>1. CASE KeyOf[l] = kw[w].key
    <3>1. l \in LeftOf(kw[w].key)
      BY <2>1, WorkIsOnPage
    <3>2. \A p \in RowidWorkers : InHand(w, p, l, r)' <=> InHand(w, p, l, r)
      BY <3>1 DEF InHand, Busy
    <3>3. Owed(w, l, r)' <=> Owed(w, l, r)
      BY <3>2 DEF Owed, Holds
    <3>4. QED
      BY <3>3, SamePending
  <2>2. CASE KeyOf[l] # kw[w].key
    <3>1. ~Owed(w, l, r) /\ ~Owed(w, l, r)'
      BY <2>2 DEF Owed, Holds
    <3>2. QED
      BY <3>1, SamePending
  <2>3. QED
    BY <2>1, <2>2
<1>2. QED
  BY <1>1, SamePairs

\* A rowid worker goes to another place of its loop.
OneRow(w, q) ==
  /\ \A v \in KeyWorkers \ {w} : rw'[v] = rw[v]
  /\ \A p \in RowidWorkers \ {q} : rw'[w][p] = rw[w][p]
  /\ DOMAIN rw'[w][q] = DOMAIN IdleRw /\ rw'[w][q].rowid = rw[w][q].rowid

LEMMA RowGoes ==
  ASSUME IInv, Flow, NEW w \in KeyWorkers, NEW q \in RowidWorkers, NEW step, RwGoto(w, q, step)
  PROVE  OneRow(w, q) /\ rw'[w][q].at = step /\ rw'[w][q].todo = rw[w][q].todo
<1>1. DOMAIN rw = KeyWorkers /\ DOMAIN rw[w] = RowidWorkers
  BY DEF IInv, Shapes
<1>2. DOMAIN rw[w][q] = {"at", "rowid", "todo", "left", "tmp"} /\ DOMAIN IdleRw = DOMAIN rw[w][q]
  BY DEF Flow, HandRight, IdleRw
<1>3. rw' = [rw EXCEPT ![w][q].at = step]
  BY DEF RwGoto
<1>4. QED
  BY <1>1, <1>2, <1>3 DEF OneRow

LEMMA KeyRowsAreLeft ==
  ASSUME Flow, phase = "lookup", NEW k
  PROVE  LeftOf(k) \subseteq Current /\ LeftOf(k) \subseteq Left
<1>1. Current \subseteq Left
  BY PagesAreLeft DEF Flow
<1>2. QED
  BY <1>1 DEF LeftOf, LeftRows, Current

LEMMA ChannelClosedKeeps ==
  ASSUME IInv, Flow, Results, NEW w \in KeyWorkers, NEW q \in RowidWorkers, ChannelClosed(w, q)
  PROVE  Flow' /\ Results'
<1>1. /\ UNCHANGED <<mode, page, phase, keysCh, kw, selErr, hErr, found, eCtx, out>>
      /\ WorksOn(w) /\ rw[w][q].at = "wait" /\ RwGoto(w, q, "exit")
  BY DEF ChannelClosed, results, WorksOn
<1>2. OneRow(w, q) /\ rw'[w][q].at = "exit"
  BY <1>1, RowGoes
<1>3. ~Busy(w, q) /\ ~Busy(w, q)'
  BY <1>1, <1>2 DEF Busy
<1>4. Flow'
  BY <1>1, <1>2, <1>3, RowidWorkerStep DEF OneRow
<1>5. /\ Current' = Current /\ Finished' = Finished
      /\ \A l \in Left : JoinedTo(l)' = JoinedTo(l)
  BY <1>1, <1>2, <1>3, SameInHand DEF OneRow, InHand
<1>6. QED
  BY <1>1, <1>4, <1>5, QuietStep DEF Flow

LEMMA SelectRowKeeps ==
  ASSUME IInv, Flow, Results, NEW w \in KeyWorkers, NEW q \in RowidWorkers, SelectRow(w, q)
  PROVE  Flow' /\ Results'
<1> DEFINE step == IF rw[w][q].rowid \in Data THEN "lock" ELSE "wait"
<1>1. /\ UNCHANGED <<mode, page, phase, keysCh, kw, selErr, hErr, found, eCtx, out>>
      /\ rw[w][q].at = "got" /\ RwGoto(w, q, step)
  BY DEF SelectRow, results, Flow, Calm
<1>2. OneRow(w, q) /\ rw'[w][q].at = step
  BY <1>1, RowGoes
<1>3. Busy(w, q) /\ WorksOn(w) /\ phase = "lookup"
  BY <1>1, WorkIsOnPage DEF Busy
<1>4. Busy(w, q)' => rw'[w][q].at = "lock" /\ rw[w][q].rowid \in Data
  BY <1>2 DEF Busy
<1>5. Flow'
  BY <1>1, <1>2, <1>3, <1>4, RowidWorkerStep DEF OneRow
<1>6. ASSUME NEW l \in LeftOf(kw[w].key), NEW r \in Matches(l)
      PROVE  InHand(w, q, l, r)' <=> InHand(w, q, l, r)
  <2>1. r \in Data
    BY <1>3, KeyRowsAreLeft, MatchesOfKey
  <2>2. QED
    BY <1>1, <1>2, <2>1 DEF InHand, Busy, OneRow
<1>7. /\ Current' = Current /\ Finished' = Finished
      /\ \A l \in Left : JoinedTo(l)' = JoinedTo(l)
  BY <1>1, <1>2, <1>3, <1>6, SameInHand DEF OneRow
<1>8. QED
  BY <1>1, <1>5, <1>7, QuietStep DEF Flow

LEMMA FilterKeeps ==
  ASSUME IInv, Flow, Results, NEW w \in KeyWorkers, NEW q \in RowidWorkers, Filter(w, q)
  PROVE  Flow' /\ Results'
<1> DEFINE step == IF rw[w][q].rowid \notin Passing THEN "wait"
                   ELSE IF mode.group THEN "eval" ELSE "row"
<1>1. /\ UNCHANGED <<mode, page, phase, keysCh, kw, selErr, hErr, found, eCtx, out>>
      /\ rw[w][q].at = "lock"
      /\ rw' = [rw EXCEPT ![w][q].at = step, ![w][q].todo = LeftOf(kw[w].key)]
  BY DEF Filter, results
<1>2. OneRow(w, q) /\ rw'[w][q].at = step /\ rw'[w][q].todo = LeftOf(kw[w].key)
  <2>1. DOMAIN rw = KeyWorkers /\ DOMAIN rw[w] = RowidWorkers
    BY DEF IInv, Shapes
  <2>2. DOMAIN rw[w][q] = {"at", "rowid", "todo", "left", "tmp"} /\ DOMAIN IdleRw = DOMAIN rw[w][q]
    BY DEF Flow, HandRight, IdleRw
  <2> HIDE DEF step
  <2>3. QED
    BY <1>1, <2>1, <2>2 DEF OneRow
<1>3. Busy(w, q) /\ WorksOn(w) /\ phase = "lookup"
  BY <1>1, WorkIsOnPage DEF Busy
<1>4. rw[w][q].rowid \in Data
  BY <1>1, <1>3 DEF Flow, HandRight
<1>5. Busy(w, q)' => /\ rw'[w][q].at \in {"eval", "row"} /\ rw[w][q].rowid \in Passing
                     /\ rw'[w][q].at = "eval" => mode.group
                     /\ rw'[w][q].at = "row" => ~mode.group
  BY <1>2 DEF Busy
<1>6. Flow'
  BY <1>1, <1>2, <1>3, <1>4, <1>5, RowidWorkerStep DEF OneRow
<1>7. ASSUME NEW l \in LeftOf(kw[w].key), NEW r \in Matches(l)
      PROVE  InHand(w, q, l, r)' <=> InHand(w, q, l, r)
  <2>1. r \in Passing
    BY <1>3, KeyRowsAreLeft, MatchesOfKey
  <2>2. QED
    BY <1>1, <1>2, <2>1 DEF InHand, Busy, OneRow
<1>8. /\ Current' = Current /\ Finished' = Finished
      /\ \A l \in Left : JoinedTo(l)' = JoinedTo(l)
  BY <1>1, <1>2, <1>3, <1>7, SameInHand DEF OneRow
<1>9. QED
  BY <1>1, <1>6, <1>8, QuietStep DEF Flow

LEMMA CountRowKeeps ==
  ASSUME IInv, Flow, Results, NEW w \in KeyWorkers, NEW q \in RowidWorkers, CountRow(w, q)
  PROVE  Flow' /\ Results'
<1>1. /\ UNCHANGED <<mode, page, phase, keysCh, kw, selErr, hErr, found, eCtx, out>>
      /\ rw[w][q].at = "count" /\ RwGoto(w, q, "row")
  BY DEF CountRow
<1>2. OneRow(w, q) /\ rw'[w][q].at = "row" /\ rw'[w][q].todo = rw[w][q].todo
  BY <1>1, RowGoes
<1>3. Busy(w, q) /\ WorksOn(w)
  BY <1>1, WorkIsOnPage DEF Busy
<1>4. /\ rw[w][q].rowid \in Data /\ rw[w][q].rowid \in Passing /\ ~mode.group
      /\ rw[w][q].todo \subseteq LeftOf(kw[w].key)
  BY <1>1, <1>3 DEF Flow, HandRight
<1>5. Flow'
  BY <1>1, <1>2, <1>3, <1>4, RowidWorkerStep DEF OneRow
<1>6. /\ Current' = Current /\ Finished' = Finished
      /\ \A l \in Left : JoinedTo(l)' = JoinedTo(l)
  BY <1>1, <1>2, <1>3, SameInHand DEF OneRow, InHand, Busy
<1>7. QED
  BY <1>1, <1>5, <1>6, QuietStep DEF Flow

\* The right row that q has is not joined with the left rows that are to do, and is a match.
LEMMA HandIsMatch ==
  ASSUME IInv, Flow, NEW w \in KeyWorkers, NEW q \in RowidWorkers,
         rw[w][q].at \in {"eval", "row", "count"}, NEW l \in LeftOf(kw[w].key)
  PROVE  /\ l \in Current /\ l \in Left /\ KeyOf[l] = kw[w].key /\ rw[w][q].rowid \in Matches(l)
         /\ rw[w][q].at = "eval" \/ l \in rw[w][q].todo => rw[w][q].rowid \notin JoinedTo(l)
<1> DEFINE r == rw[w][q].rowid
           k == kw[w].key
<1>1. Busy(w, q) /\ WorksOn(w) /\ phase = "lookup"
  BY WorkIsOnPage DEF Busy
<1>2. l \in Current /\ l \in Left /\ KeyOf[l] = k
  BY <1>1, KeyRowsAreLeft DEF LeftOf
<1>3. r \in IndexRows(k, kw[w].sent) /\ r \in Passing
  BY <1>1 DEF Flow, HandRight
<1>4. IndexRows(k, kw[w].sent) \subseteq IndexRows(k, Len(RowidsOf[k]))
  <2>1. 1..kw[w].sent \subseteq 1..Len(RowidsOf[k])
    BY <1>1, WorkIsOnPage
  <2>2. QED
    BY <2>1 DEF IndexRows
<1>5. r \in Matches(l)
  BY <1>2, <1>3, <1>4, MatchesOfKey
<1>6. ASSUME rw[w][q].at = "eval" \/ l \in rw[w][q].todo PROVE r \notin JoinedTo(l)
  <2>1. InHand(w, q, l, r)
    BY <1>1, <1>6 DEF InHand
  <2>2. Holds(w, KeyOf[l])
    BY <1>1, <1>2 DEF Holds, WorksOn
  <2>3. Pending(l, r)
    BY <2>1, <2>2 DEF Pending, Owed
  <2>4. l \notin Finished
    BY <1>2, PagesAreLeft DEF Flow
  <2>5. QED
    BY <2>3, <2>4 DEF JoinedTo, IsJoined
<1>7. QED
  BY <1>2, <1>5, <1>6

\* When q has joined its right row with the left rows L, the rest is as before.
JoinsMore(L, r) ==
  \A l \in Left : JoinedTo(l)' = IF l \in L THEN JoinedTo(l) \cup {r} ELSE JoinedTo(l)

LEMMA RowIsJoined ==
  ASSUME IInv, Flow, NEW w \in KeyWorkers, NEW q \in RowidWorkers,
         UNCHANGED <<mode, page, phase, keysCh, kw>>, OneRow(w, q),
         rw[w][q].at \in {"eval", "row"}, NEW r, r = rw[w][q].rowid, NEW k, k = kw[w].key,
         NEW L \in SUBSET LeftOf(k), \A l \in L : rw[w][q].at = "eval" \/ l \in rw[w][q].todo,
         \A l \in LeftOf(k) : InHand(w, q, l, r)' <=> l \notin L /\ InHand(w, q, l, r)
  PROVE  Current' = Current /\ Finished' = Finished /\ JoinsMore(L, r)
<1>1. Busy(w, q) /\ WorksOn(w) /\ phase = "lookup"
  BY WorkIsOnPage DEF Busy
<1>2. Current' = Current /\ Finished' = Finished
  BY DEF Current, Finished, PagesDone
<1>3. /\ LeftOf(k) \subseteq Current /\ Current \subseteq Left /\ Current \cap Finished = {}
      /\ \A l \in Current : KeyOf[l] = k <=> l \in LeftOf(k)
  BY <1>1, KeyRowsAreLeft, PagesAreLeft, WorkIsOnPage DEF Flow
<1>4. ASSUME NEW l \in LeftOf(k), NEW x \in Matches(l), x # r \/ l \notin L
      PROVE  Pending(l, x)' <=> Pending(l, x)
  <2>1. \A p \in RowidWorkers : InHand(w, p, l, x)' <=> InHand(w, p, l, x)
    BY <1>4 DEF InHand, Busy, OneRow
  <2>2. Owed(w, l, x)' <=> Owed(w, l, x)
    BY <2>1 DEF Owed, Holds
  <2>3. QED
    BY <2>2, SamePending DEF OneRow
<1>5. ASSUME NEW l \in Current \ LeftOf(k), NEW x PROVE Pending(l, x)' <=> Pending(l, x)
  <2>1. KeyOf[l] # k
    BY <1>3
  <2>2. ~Owed(w, l, x) /\ ~Owed(w, l, x)'
    BY <2>1 DEF Owed, Holds
  <2>3. QED
    BY <2>2, SamePending DEF OneRow
<1>6. ASSUME NEW l \in L PROVE r \in Matches(l) /\ ~Pending(l, r)'
  <2>1. r \in Matches(l) /\ KeyOf[l] = k
    BY HandIsMatch
  <2>2. KeyOf[l] \notin keysCh' /\ \A v \in KeyWorkers : Holds(v, k)' => v = w
    <3>1. k \notin keysCh /\ \A v \in KeyWorkers : Holds(v, k) => v = w
      BY <1>1 DEF Flow, KeysShared
    <3>2. \A v \in KeyWorkers : Holds(v, k)' <=> Holds(v, k)
      BY DEF Holds
    <3>3. QED
      BY <2>1, <3>1, <3>2
  <2>3. r \in IndexRows(k, kw'[w].sent)
    BY <1>1 DEF Flow, HandRight
  <2>4. ~InHand(w, q, l, r)'
    BY <1>3
  <2>5. ASSUME NEW p \in RowidWorkers \ {q} PROVE ~InHand(w, p, l, r)'
    <3>1. InHand(w, p, l, r)' => Busy(w, p) /\ rw[w][p].rowid = r
      BY DEF InHand, Busy, OneRow
    <3>2. \A x \in RowidWorkers : Busy(w, x) /\ rw[w][x].rowid = r => x = q
      BY <1>1 DEF Flow, HandRight
    <3>3. QED
      BY <3>1, <3>2
  <2>6. ~Owed(w, l, r)'
    BY <2>1, <2>3, <2>4, <2>5 DEF Owed
  <2>7. ASSUME NEW v \in KeyWorkers \ {w} PROVE ~Owed(v, l, r)'
    BY <2>1, <2>2 DEF Owed
  <2>8. QED
    BY <2>1, <2>2, <2>6, <2>7 DEF Pending
<1>7. ASSUME NEW l \in L PROVE JoinedTo(l)' = JoinedTo(l) \cup {r}
  <2>1. l \in LeftOf(k) /\ l \in Current /\ l \notin Finished
    BY <1>3
  <2>2. r \in Matches(l) /\ ~Pending(l, r)'
    BY <1>6
  <2>3. \A x \in Matches(l) \ {r} : Pending(l, x)' <=> Pending(l, x)
    BY <1>4, <2>1
  <2>4. QED
    BY <1>2, <2>1, <2>2, <2>3 DEF JoinedTo, IsJoined
<1>8. ASSUME NEW l \in Left \ L PROVE JoinedTo(l)' = JoinedTo(l)
  <2>1. l \in Current => \A x \in Matches(l) : Pending(l, x)' <=> Pending(l, x)
    BY <1>4, <1>5
  <2>2. QED
    BY <1>2, <2>1 DEF JoinedTo, IsJoined
<1>9. QED
  BY <1>2, <1>7, <1>8 DEF JoinsMore

\* Grouped: the contexts of all left rows of the key see the right row.
LEMMA EvalGroupedKeeps ==
  ASSUME IInv, Flow, Results, NEW w \in KeyWorkers, NEW q \in RowidWorkers, EvalGrouped(w, q)
  PROVE  Flow' /\ Results'
<1> SUFFICES ASSUME NEW r, r = rw[w][q].rowid, NEW k, k = kw[w].key, NEW L, L = LeftOf(k)
             PROVE  Flow' /\ Results'
  OBVIOUS
<1>1. /\ UNCHANGED <<mode, page, phase, keysCh, kw, selErr, hErr, out>>
      /\ rw[w][q].at = "eval" /\ RwGoto(w, q, "wait")
      /\ found' = found \cup L
      /\ eCtx' = [l \in DOMAIN eCtx |-> IF l \in L THEN Evaluated(l, r) ELSE eCtx[l]]
  BY DEF EvalGrouped
<1>2. OneRow(w, q) /\ rw'[w][q].at = "wait"
  BY <1>1, RowGoes
<1>3. /\ Busy(w, q) /\ WorksOn(w) /\ phase = "lookup" /\ ~Busy(w, q)'
  BY <1>1, <1>2, WorkIsOnPage DEF Busy
<1>4. mode.group /\ r \in Data
  BY <1>1, <1>3 DEF Flow, HandRight
<1>5. Flow'
  BY <1>1, <1>2, <1>3, RowidWorkerStep DEF OneRow
<1>6. /\ Current' = Current /\ Finished' = Finished
      /\ \A l \in Left : JoinedTo(l)' = IF l \in L THEN JoinedTo(l) \cup {r} ELSE JoinedTo(l)
  <2>1. \A l \in LeftOf(k) : InHand(w, q, l, r)' <=> l \notin L /\ InHand(w, q, l, r)
    BY <1>3 DEF InHand
  <2>2. /\ L \in SUBSET LeftOf(k) /\ rw[w][q].at \in {"eval", "row"}
        /\ \A l \in L : rw[w][q].at = "eval" \/ l \in rw[w][q].todo
    BY <1>1
  <2>3. Current' = Current /\ Finished' = Finished /\ JoinsMore(L, r)
    BY <1>1, <1>2, <2>1, <2>2, RowIsJoined
  <2>4. QED
    BY <2>3 DEF JoinsMore
<1>7. L \subseteq Current /\ Current \subseteq Left
  BY <1>3, KeyRowsAreLeft, PagesAreLeft DEF Flow
<1>8. FoundRight'
  BY <1>1, <1>3, <1>6, <1>7 DEF Results, FoundRight
<1>9. PlainRight' /\ GroupsWritten'
  BY <1>1, <1>4, <1>6 DEF Results, PlainRight, GroupsWritten, ToWrite
<1>10. ContextsRight'
  <2>1. DOMAIN eCtx = Current /\ \A l \in Current :
           /\ DOMAIN eCtx[l] = Fields
           /\ \A f \in Fields : FnOf[f] # "plain" => Collected(eCtx[l][f], f, JoinedTo(l))
    BY <1>3, <1>4 DEF Results, ContextsRight
  <2>2. DOMAIN eCtx' = Current'
    BY <1>1, <1>6, <2>1
  <2>3. ASSUME NEW l \in Current
        PROVE  /\ DOMAIN eCtx'[l] = Fields
               /\ \A f \in Fields : FnOf[f] # "plain" => Collected(eCtx'[l][f], f, JoinedTo(l)')
    <3>1. CASE l \in L
      <4>1. eCtx'[l] = Evaluated(l, r)
        BY <1>1, <2>1, <3>1
      <4>2. DOMAIN eCtx'[l] = Fields
        BY <4>1 DEF Evaluated
      <4>3. ASSUME NEW f \in Fields, FnOf[f] # "plain"
            PROVE  Collected(eCtx'[l][f], f, JoinedTo(l)')
        <5>1. eCtx'[l][f] = EvalAgg(eCtx[l][f], f, FnOf[f], ArgsOf[f][r]).ctx
          BY <4>1, <4>3 DEF Evaluated
        <5>2. r \notin JoinedTo(l)
          BY <1>1, <3>1, HandIsMatch
        <5>3. JoinedTo(l) \in SUBSET Data /\ IsFiniteSet(JoinedTo(l))
          <6>1. Matches(l) \in SUBSET Data /\ IsFiniteSet(Matches(l))
            BY <1>7, MatchesOfKey
          <6>2. QED
            BY <6>1, JoinedToIsMatch, FS_Subset
        <5>4. Collected(eCtx[l][f], f, JoinedTo(l))
          BY <2>1, <4>3
        <5>5. Collected(EvalAgg(eCtx[l][f], f, FnOf[f], ArgsOf[f][r]).ctx, f, JoinedTo(l) \cup {r})
          BY <1>4, <4>3, <5>2, <5>3, <5>4, EvalCollects
        <5>6. JoinedTo(l)' = JoinedTo(l) \cup {r}
          BY <1>6, <1>7, <3>1
        <5>7. QED
          BY <5>1, <5>5, <5>6
      <4>4. QED
        BY <4>2, <4>3
    <3>2. CASE l \notin L
      <4>1. eCtx'[l] = eCtx[l]
        BY <1>1, <2>1, <3>2
      <4>2. JoinedTo(l)' = JoinedTo(l)
        BY <1>6, <1>7, <3>2
      <4>3. QED
        BY <2>1, <4>1, <4>2
    <3>3. QED
      BY <3>1, <3>2
  <2>4. QED
    BY <1>6, <2>2, <2>3 DEF ContextsRight
<1>11. QED
  BY <1>5, <1>8, <1>9, <1>10 DEF Results

LEMMA LeastOfRows ==
  ASSUME NEW S \in SUBSET Nat, S # {}
  PROVE  (CHOOSE x \in S : \A y \in S : x <= y) \in S
<1>1. \E x \in S : \A y \in S : x <= y
  <2> DEFINE P == {n \in Nat : \A y \in S : n < y}
             Q == {n \in Nat : \A y \in S : n <= y}
  <2>1. SUFFICES ASSUME ~\E x \in S : \A y \in S : x <= y PROVE FALSE
    OBVIOUS
  <2>2. 0 \in Q
    OBVIOUS
  <2>3. \A n \in Q : n + 1 \in Q
    <3>1. SUFFICES ASSUME NEW n \in Q, NEW y \in S PROVE n + 1 <= y
      OBVIOUS
    <3>2. n \notin S
      BY <2>1
    <3>3. n <= y /\ n # y /\ n \in Nat /\ y \in Nat
      BY <3>2
    <3>4. QED
      BY <3>3
  <2>4. Q \in SUBSET Nat
    OBVIOUS
  <2> HIDE DEF Q
  <2>5. Q = Nat
    BY <2>2, <2>3, <2>4, AllNumbers
  <2>6. PICK y \in S : TRUE
    OBVIOUS
  <2>7. y + 1 \in Q
    BY <2>5
  <2>8. QED
    BY <2>7 DEF Q
<1>2. QED
  BY <1>1

\* Not grouped: the right row is joined with one left row.
LEMMA JoinRowKeeps ==
  ASSUME IInv, Flow, Results, NEW w \in KeyWorkers, NEW q \in RowidWorkers, JoinRow(w, q)
  PROVE  Flow' /\ Results'
<1>0. /\ UNCHANGED <<mode, page, phase, keysCh, kw, selErr, hErr, eCtx>>
      /\ rw[w][q].at = "row" /\ Busy(w, q)
  BY DEF JoinRow, Busy
<1>a. WorksOn(w) /\ phase = "lookup"
  BY <1>0, WorkIsOnPage
<1>b. /\ rw[w][q].rowid \in Data /\ rw[w][q].rowid \in Passing /\ ~mode.group
      /\ rw[w][q].todo \subseteq LeftOf(kw[w].key)
      /\ DOMAIN rw[w][q] = DOMAIN IdleRw
  BY <1>0 DEF Flow, HandRight
<1>1. CASE rw[w][q].todo = {}
  <2>1. RwGoto(w, q, "wait") /\ UNCHANGED <<found, out>>
    BY <1>1 DEF JoinRow
  <2>2. OneRow(w, q) /\ rw'[w][q].at = "wait"
    BY <2>1, RowGoes
  <2>3. ~Busy(w, q)' /\ \A l, r : ~InHand(w, q, l, r)
    BY <1>0, <1>1, <2>2 DEF Busy, InHand
  <2>4. Flow'
    BY <1>0, <1>a, <2>2, <2>3, RowidWorkerStep DEF OneRow
  <2>5. /\ Current' = Current /\ Finished' = Finished
        /\ \A l \in Left : JoinedTo(l)' = JoinedTo(l)
    BY <1>0, <1>a, <2>2, <2>3, SameInHand DEF OneRow, InHand
  <2>6. QED
    BY <1>0, <2>1, <2>4, <2>5, QuietStep DEF Flow
<1>2. CASE rw[w][q].todo # {}
  <2> DEFINE todo == rw[w][q].todo
             l0 == CHOOSE x \in todo : \A y \in todo : x <= y
  <2>1. l0 \in todo /\ todo \subseteq LeftOf(kw[w].key) /\ todo \subseteq Current /\ todo \subseteq Left
    <3>1. LeftOf(kw[w].key) \subseteq Current /\ LeftOf(kw[w].key) \subseteq Left /\ Left \subseteq Nat
      BY <1>a, KeyRowsAreLeft, LookupAssumption
    <3>2. todo \in SUBSET Nat
      BY <1>b, <3>1
    <3>3. l0 \in todo
      BY <1>2, <3>2, LeastOfRows
    <3>4. QED
      BY <1>b, <3>1, <3>3
  <2>2. SUFFICES ASSUME NEW r, r = rw[w][q].rowid, NEW k, k = kw[w].key, NEW l, l = l0
                 PROVE  Flow' /\ Results'
    OBVIOUS
  <2> DEFINE rec == Record(l, r, <<>>)
             one == IF Having(rec) THEN 1 ELSE 0
  <2>3. /\ found' = found \cup {l} /\ out' = Add(rec)
        /\ rw' = [rw EXCEPT ![w][q].at = "count", ![w][q].left = one, ![w][q].tmp = written,
                            ![w][q].todo = @ \ {l}]
    BY <1>2, <2>2 DEF JoinRow
  <2>4. OneRow(w, q) /\ rw'[w][q].at = "count" /\ rw'[w][q].todo = todo \ {l}
    <3>1. DOMAIN rw = KeyWorkers /\ DOMAIN rw[w] = RowidWorkers
      BY DEF IInv, Shapes
    <3>2. DOMAIN rw[w][q] = {"at", "rowid", "todo", "left", "tmp"}
      BY <1>b DEF IdleRw
    <3> HIDE DEF one
    <3>3. QED
      BY <1>b, <2>3, <3>1, <3>2 DEF OneRow
  <2>5. l \in rw[w][q].todo /\ l \in Current /\ l \in Left /\ l \in LeftOf(kw[w].key) /\ l \in LeftOf(k)
    BY <2>1, <2>2
  <2> HIDE DEF l0
  <2>6. Flow'
    <3>1. rw'[w][q].todo \subseteq LeftOf(kw[w].key)
      BY <1>b, <2>4
    <3>2. QED
      BY <1>0, <1>a, <1>b, <2>4, <3>1, RowidWorkerStep DEF OneRow
  <2>7. /\ Current' = Current /\ Finished' = Finished
        /\ \A x \in Left : JoinedTo(x)' = IF x \in {l} THEN JoinedTo(x) \cup {r} ELSE JoinedTo(x)
    <3>1. \A x \in LeftOf(k) : InHand(w, q, x, r)' <=> x \notin {l} /\ InHand(w, q, x, r)
      BY <1>0, <2>4 DEF InHand, Busy, OneRow
    <3>2. {l} \in SUBSET LeftOf(k) /\ \A x \in {l} : x \in rw[w][q].todo
      BY <2>5
    <3>3. Current' = Current /\ Finished' = Finished /\ JoinsMore({l}, r)
      BY <1>0, <2>2, <2>4, <3>1, <3>2, RowIsJoined
    <3>4. QED
      BY <3>3 DEF JoinsMore
  <2>8. r \in Matches(l) /\ r \notin JoinedTo(l) /\ r \in Rowids
    BY <1>0, <1>b, <2>2, <2>5, HandIsMatch, MatchesOfKey
  <2>9. FoundRight'
    <3>1. Current \subseteq Left
      BY PagesAreLeft DEF Flow
    <3>2. \A x \in Current : JoinedTo(x)' # {} <=> x = l \/ JoinedTo(x) # {}
      BY <2>7, <3>1
    <3>3. found = {x \in Current : JoinedTo(x) # {}}
      BY <1>a DEF Results, FoundRight
    <3>4. QED
      BY <1>0, <2>3, <2>5, <2>7, <3>2, <3>3 DEF FoundRight
  <2>10. PlainRight'
    <3>1. rec \in Pairs /\ rec.left = l /\ rec.right = r
      BY <2>5, <2>8 DEF Pairs, Record
    <3>2. \A p \in Pairs : p = rec <=> p.left = l /\ p.right = r
      BY DEF Pairs, Record
    <3>3. \A p \in Pairs : p.left \in Left
      BY DEF Pairs, Record
    <3>4. {p \in Pairs : p.right \in JoinedTo(p.left)}' =
             {p \in Pairs : p.right \in JoinedTo(p.left)} \cup {rec}
      BY <2>7, <3>1, <3>2, <3>3
    <3>5. PlainSoFar' = PlainSoFar \cup {rec}
      BY <1>0, <2>7, <3>4 DEF PlainSoFar
    <3>6. rec \notin PlainSoFar
      <4>1. r # None
        BY <1>b, <2>2, LookupAssumption
      <4>2. \A x : Record(x, None, <<>>) # rec
        BY <3>1, <4>1 DEF Record
      <4>3. QED
        BY <2>8, <3>1, <4>2 DEF PlainSoFar
    <3>7. out = SetToBag({x \in PlainSoFar : Having(x)})
      BY <1>b DEF Results, PlainRight
    <3> HIDE DEF rec
    <3>8. CASE Having(rec)
      <4>1. out' = out (+) SetToBag({rec})
        BY <2>3, <3>8 DEF Add
      <4>2. {x \in PlainSoFar : Having(x)}' = {x \in PlainSoFar : Having(x)} \cup {rec}
        BY <3>5, <3>8 DEF Having
      <4>3. {x \in PlainSoFar : Having(x)} \cap {rec} = {}
        BY <3>6
      <4>4. QED
        BY <3>7, <4>1, <4>2, <4>3, AddRecords DEF PlainRight
    <3>9. CASE ~Having(rec)
      <4>1. out' = out
        BY <2>3, <3>9 DEF Add
      <4>2. {x \in PlainSoFar : Having(x)}' = {x \in PlainSoFar : Having(x)}
        BY <3>5, <3>9 DEF Having
      <4>3. QED
        BY <3>7, <4>1, <4>2 DEF PlainRight
    <3>10. QED
      BY <3>8, <3>9
  <2>11. ContextsRight' /\ GroupsWritten'
    BY <1>0, <1>b DEF ContextsRight, GroupsWritten
  <2>12. QED
    BY <2>6, <2>9, <2>10, <2>11 DEF Results
<1>3. QED
  BY <1>1, <1>2

-------------------------------------------------------------------------------
\* Steps of the key workers.

\* The rowid workers of w have not moved.
LEMMA SameHands ==
  ASSUME Flow, NEW w \in KeyWorkers, UNCHANGED <<mode, page, rw>>,
         kw'[w].key = kw[w].key, kw'[w].sent = kw[w].sent
  PROVE  \A q \in RowidWorkers : HandRight(w, q)'
<1>1. \A q \in RowidWorkers : HandRight(w, q)
  BY DEF Flow
<1>2. QED
  BY <1>1 DEF HandRight, Busy, LeftOf, LeftRows

\* A key worker goes on with its key, or has gone on to the next place of its loop.
LEMMA KeyGoesOn ==
  ASSUME IInv, Flow, Results, NEW w \in KeyWorkers, WorksOn(w), WorksOn(w)', DOMAIN kw' = KeyWorkers,
         UNCHANGED <<mode, page, phase, keysCh, rw, selErr, hErr, found, eCtx, out>>,
         \A v \in KeyWorkers \ {w} : kw'[v] = kw[v],
         kw'[w].key = kw[w].key, kw'[w].sent = kw[w].sent, kw'[w].err = kw[w].err, IndexReadBy(w)'
  PROVE  Flow' /\ Results'
<1>1. phase = "lookup"
  BY WorkIsOnPage
<1>2. ~hErr /\ ~selErr[w] /\ ~kw[w].err
  BY DEF Flow, Calm
<1>3. kw'[w].at # "stopped"
  BY DEF WorksOn
<1>4. /\ kw[w].key \in KeysOfPage \ keysCh
      /\ \A v \in KeyWorkers \ {w} : ~Holds(v, kw[w].key)
  BY DEF Flow, KeysShared
<1>5. \A q \in RowidWorkers : HandRight(w, q)'
  BY SameHands
<1>6. Flow'
  BY <1>1, <1>2, <1>3, <1>4, <1>5, WorkerStep
<1>7. ASSUME NEW l, NEW r PROVE Pending(l, r)' <=> Pending(l, r)
  <2>1. Owed(w, l, r)' <=> Owed(w, l, r)
    BY DEF Owed, Holds, WorksOn, InHand, Busy
  <2>2. QED
    BY <2>1, SamePending
<1>8. /\ Current' = Current /\ Finished' = Finished
      /\ \A l \in Left : JoinedTo(l)' = JoinedTo(l)
  BY <1>7, SamePairs
<1>9. QED
  BY <1>6, <1>8, QuietStep DEF Flow

LEMMA SelectIndexKeeps ==
  ASSUME IInv, Flow, Results, NEW w \in KeyWorkers, SelectIndex(w)
  PROVE  Flow' /\ Results'
<1> DEFINE len == Len(RowidsOf[kw[w].key])
<1>1. /\ UNCHANGED <<mode, page, phase, keysCh, rw, selErr, hErr, found, eCtx, out>>
      /\ kw[w].at = "select" /\ WorksOn(w)
  BY DEF SelectIndex, results, WorksOn
<1>2. PICK n \in 0..PageSize, isMore \in BOOLEAN :
        /\ n <= len - kw[w].upto
        /\ kw' = [kw EXCEPT ![w].at = "feed", ![w].upto = @ + n,
                            ![w].more = MoreOf(n, len - kw[w].upto, isMore)]
  BY DEF SelectIndex
<1>3. /\ DOMAIN kw = KeyWorkers /\ DOMAIN kw[w] = DOMAIN IdleKw
      /\ kw[w].upto \in 0..len /\ kw[w].sent \in 0..kw[w].upto /\ len \in Nat
  BY <1>1, WorkIsOnPage DEF IInv, Shapes, Flow, IndexReadBy
<1>4. DOMAIN kw[w] = {"at", "key", "upto", "sent", "more", "err"}
  BY <1>3 DEF IdleKw
<1>5. /\ DOMAIN kw' = KeyWorkers /\ \A v \in KeyWorkers \ {w} : kw'[v] = kw[v]
      /\ DOMAIN kw'[w] = DOMAIN IdleKw
      /\ kw'[w].at = "feed" /\ kw'[w].key = kw[w].key /\ kw'[w].sent = kw[w].sent
      /\ kw'[w].err = kw[w].err /\ kw'[w].upto = kw[w].upto + n
      /\ kw'[w].more = MoreOf(n, len - kw[w].upto, isMore)
  BY <1>2, <1>3, <1>4
<1>6. kw'[w].more \/ kw'[w].upto = len
  <2>1. n < len - kw[w].upto \/ kw[w].upto + n = len
    BY <1>2, <1>3
  <2>2. QED
    BY <1>5, <2>1 DEF MoreOf
<1>7. kw'[w].upto \in 0..len /\ kw'[w].sent \in 0..kw'[w].upto
  BY <1>2, <1>3, <1>5
<1>8. IndexReadBy(w)'
  <2>1. Len(RowidsOf[kw'[w].key]) = len
    BY <1>5
  <2> HIDE DEF len
  <2>2. QED
    BY <1>5, <1>6, <1>7, <2>1 DEF IndexReadBy
<1>9. WorksOn(w)'
  BY <1>5 DEF WorksOn
<1>10. QED
  BY <1>1, <1>5, <1>8, <1>9, KeyGoesOn

LEMMA PageFedKeeps ==
  ASSUME IInv, Flow, Results, NEW w \in KeyWorkers, PageFed(w)
  PROVE  Flow' /\ Results'
<1> DEFINE len == Len(RowidsOf[kw[w].key])
           step == IF kw[w].more THEN "select" ELSE "close"
<1>1. /\ UNCHANGED <<mode, page, phase, keysCh, rw, selErr, hErr, found, eCtx, out>>
      /\ kw[w].at = "feed" /\ WorksOn(w) /\ kw[w].sent = kw[w].upto
      /\ kw' = [kw EXCEPT ![w].at = step]
  BY DEF PageFed, results, WorksOn, KwGoto
<1>2. /\ DOMAIN kw = KeyWorkers /\ DOMAIN kw[w] = DOMAIN IdleKw
      /\ kw[w].upto \in 0..len /\ kw[w].sent \in 0..kw[w].upto
      /\ kw[w].more \/ kw[w].upto = len
  BY <1>1 DEF IInv, Shapes, Flow, IndexReadBy
<1>3. DOMAIN kw[w] = {"at", "key", "upto", "sent", "more", "err"}
  BY <1>2 DEF IdleKw
<1>4. /\ DOMAIN kw' = KeyWorkers /\ \A v \in KeyWorkers \ {w} : kw'[v] = kw[v]
      /\ DOMAIN kw'[w] = DOMAIN IdleKw
      /\ kw'[w].at = step /\ kw'[w].key = kw[w].key /\ kw'[w].sent = kw[w].sent
      /\ kw'[w].err = kw[w].err /\ kw'[w].upto = kw[w].upto /\ kw'[w].more = kw[w].more
  BY <1>1, <1>2, <1>3
<1>5. IndexReadBy(w)'
  <2>1. Len(RowidsOf[kw'[w].key]) = len
    BY <1>4
  <2> HIDE DEF len
  <2>2. QED
    BY <1>1, <1>2, <1>4, <2>1 DEF IndexReadBy
<1>6. WorksOn(w)'
  BY <1>4 DEF WorksOn
<1>7. QED
  BY <1>1, <1>4, <1>5, <1>6, KeyGoesOn

\* A rowid is handed over.
LEMMA FeedKeeps ==
  ASSUME IInv, Flow, Results, NEW w \in KeyWorkers, NEW q \in RowidWorkers, Feed(w, q)
  PROVE  Flow' /\ Results'
<1> SUFFICES ASSUME NEW k, k = kw[w].key, NEW n, n = kw[w].sent, NEW x, x = RowidsOf[k][n + 1]
             PROVE  Flow' /\ Results'
  OBVIOUS
<1>1. /\ UNCHANGED <<mode, page, phase, keysCh, selErr, hErr, found, eCtx, out>>
      /\ kw[w].at = "feed" /\ WorksOn(w) /\ n < kw[w].upto /\ rw[w][q].at = "wait"
      /\ kw' = [kw EXCEPT ![w].sent = n + 1]
      /\ rw' = [rw EXCEPT ![w][q].at = "got", ![w][q].rowid = x]
  BY DEF Feed, results, WorksOn
<1>2. /\ DOMAIN kw = KeyWorkers /\ DOMAIN kw[w] = DOMAIN IdleKw
      /\ kw[w].upto \in 0..Len(RowidsOf[k]) /\ n \in 0..kw[w].upto
      /\ kw[w].more \/ kw[w].upto = Len(RowidsOf[k])
      /\ DOMAIN rw = KeyWorkers /\ DOMAIN rw[w] = RowidWorkers
      /\ DOMAIN rw[w][q] = DOMAIN IdleRw
  BY <1>1 DEF IInv, Shapes, Flow, IndexReadBy, HandRight
<1>3. k \in Keys /\ Len(RowidsOf[k]) \in Nat /\ phase = "lookup"
  BY <1>1, WorkIsOnPage
<1>4. n \in Nat /\ n < Len(RowidsOf[k]) /\ kw[w].upto \in Nat
  BY <1>1, <1>2, <1>3
<1>5. /\ \A v \in KeyWorkers \ {w} : kw'[v] = kw[v]
      /\ DOMAIN kw'[w] = DOMAIN IdleKw
      /\ kw'[w].at = "feed" /\ kw'[w].key = k /\ kw'[w].sent = n + 1
      /\ kw'[w].err = kw[w].err /\ kw'[w].upto = kw[w].upto /\ kw'[w].more = kw[w].more
  <2>1. DOMAIN kw[w] = {"at", "key", "upto", "sent", "more", "err"}
    BY <1>2 DEF IdleKw
  <2>2. QED
    BY <1>1, <1>2, <2>1
<1>6. /\ \A v \in KeyWorkers \ {w} : rw'[v] = rw[v]
      /\ \A p \in RowidWorkers \ {q} : rw'[w][p] = rw[w][p]
      /\ DOMAIN rw'[w][q] = DOMAIN IdleRw /\ rw'[w][q].at = "got" /\ rw'[w][q].rowid = x
  <2>1. DOMAIN rw[w][q] = {"at", "rowid", "todo", "left", "tmp"}
    BY <1>2 DEF IdleRw
  <2>2. QED
    BY <1>1, <1>2, <2>1
<1>7. IndexRows(k, n + 1) = IndexRows(k, n) \cup {x} /\ x \notin IndexRows(k, n)
  BY <1>3, <1>4, NextRowid
<1>8. IndexReadBy(w)'
  <2>1. n + 1 \in 0..kw[w].upto
    BY <1>1, <1>4
  <2>2. QED
    BY <1>2, <1>5, <2>1 DEF IndexReadBy
<1>9. ASSUME NEW p \in RowidWorkers PROVE HandRight(w, p)'
  <2>1. \A y \in RowidWorkers : /\ HandRight(w, y)
                                /\ Busy(w, y) => rw[w][y].rowid \in IndexRows(k, n)
    BY DEF Flow, HandRight
  <2>2. \A y \in RowidWorkers \ {q} : /\ Busy(w, y)' <=> Busy(w, y)
                                      /\ Busy(w, y) => rw'[w][y].rowid # x
    BY <1>6, <1>7, <2>1 DEF Busy
  <2>3. CASE p = q
    <3>1. \A y \in RowidWorkers : Busy(w, y)' /\ rw'[w][y].rowid = x => y = q
      BY <2>2
    <3>2. x \in IndexRows(k, n + 1)
      BY <1>7
    <3>3. QED
      BY <1>5, <1>6, <2>3, <3>1, <3>2 DEF HandRight
  <2>4. CASE p # q
    <3>1. rw'[w][p] = rw[w][p] /\ (Busy(w, p)' <=> Busy(w, p))
      BY <1>6, <2>2, <2>4
    <3>2. ASSUME Busy(w, p)
          PROVE  /\ rw[w][p].rowid \in IndexRows(k, n + 1)
                 /\ \A y \in RowidWorkers : Busy(w, y)' /\ rw'[w][y].rowid = rw[w][p].rowid => y = p
      <4>1. rw[w][p].rowid \in IndexRows(k, n) /\ rw[w][p].rowid # x
        BY <1>7, <2>1, <3>2
      <4>2. \A y \in RowidWorkers : Busy(w, y) /\ rw[w][y].rowid = rw[w][p].rowid => y = p
        BY <2>1, <3>2 DEF HandRight
      <4>3. QED
        BY <1>6, <1>7, <2>2, <4>1, <4>2
    <3>3. DOMAIN rw[w][p] = DOMAIN IdleRw
      BY <2>1 DEF HandRight
    <3>4. ASSUME Busy(w, p)
          PROVE  /\ rw[w][p].at # "got" => rw[w][p].rowid \in Data
                 /\ rw[w][p].at \in {"eval", "row", "count"} => rw[w][p].rowid \in Passing
                 /\ rw[w][p].at = "eval" => mode.group
                 /\ rw[w][p].at \in {"row", "count"} => ~mode.group /\ rw[w][p].todo \subseteq LeftOf(k)
      BY <2>1, <3>4 DEF HandRight
    <3>5. LeftOf(kw[w].key)' = LeftOf(k)
      BY <1>1, <1>5 DEF LeftOf, LeftRows
    <3>6. QED
      BY <1>1, <1>5, <3>1, <3>2, <3>3, <3>4, <3>5 DEF HandRight
  <2>5. QED
    BY <2>3, <2>4
<1>10. Flow'
  <2>1. ~hErr /\ ~selErr[w] /\ ~kw[w].err
    BY DEF Flow, Calm
  <2>2. /\ k \in KeysOfPage \ keysCh
        /\ \A v \in KeyWorkers \ {w} : ~Holds(v, k)
    BY <1>1 DEF Flow, KeysShared
  <2>3. WorksOn(w)' /\ kw'[w].at # "stopped"
    BY <1>5 DEF WorksOn
  <2>4. QED
    BY <1>1, <1>3, <1>5, <1>6, <1>8, <1>9, <2>1, <2>2, <2>3, WorkerStep
<1>11. ASSUME NEW l, NEW r PROVE Pending(l, r)' <=> Pending(l, r)
  <2>1. CASE KeyOf[l] = k
    <3>1. Holds(w, k) /\ Holds(w, k)'
      BY <1>1, <1>5 DEF Holds
    <3>2. \A p \in RowidWorkers \ {q} : InHand(w, p, l, r)' <=> InHand(w, p, l, r)
      BY <1>6 DEF InHand, Busy
    <3>3. ~InHand(w, q, l, r) /\ (InHand(w, q, l, r)' <=> r = x)
      BY <1>1, <1>6 DEF InHand, Busy
    <3>4. (r \notin IndexRows(k, n) \/ \E p \in RowidWorkers : InHand(w, p, l, r)) <=>
          (r \notin IndexRows(k, n + 1) \/ \E p \in RowidWorkers : InHand(w, p, l, r)')
      BY <1>7, <3>2, <3>3
    <3>5. Owed(w, l, r)' <=> Owed(w, l, r)
      BY <1>5, <2>1, <3>1, <3>4 DEF Owed
    <3>6. QED
      BY <1>1, <1>5, <1>6, <3>5, SamePending
  <2>2. CASE KeyOf[l] # k
    <3>1. ~Owed(w, l, r) /\ ~Owed(w, l, r)'
      BY <1>5, <2>2 DEF Owed, Holds
    <3>2. QED
      BY <1>1, <1>5, <1>6, <3>1, SamePending
  <2>3. QED
    BY <2>1, <2>2
<1>12. /\ Current' = Current /\ Finished' = Finished
       /\ \A l \in Left : JoinedTo(l)' = JoinedTo(l)
  BY <1>1, <1>11, SamePairs
<1>13. QED
  BY <1>1, <1>10, <1>12, QuietStep DEF Flow

\* A key is taken: all its rows are owed.
LEMMA TakeKeyKeeps ==
  ASSUME IInv, Flow, Results, NEW w \in KeyWorkers, TakeKey(w)
  PROVE  Flow' /\ Results'
<1>1. PICK k \in keysCh :
        /\ keysCh' = keysCh \ {k}
        /\ kw' = [kw EXCEPT ![w] = [IdleKw EXCEPT !.at = "select", !.key = k]]
  BY DEF TakeKey
<1>2. /\ UNCHANGED <<mode, page, phase, hErr, found, eCtx, out>>
      /\ phase = "lookup" /\ kw[w].at = "idle"
      /\ rw' = [rw EXCEPT ![w] = [q \in RowidWorkers |-> IdleRw]]
      /\ selErr' = [selErr EXCEPT ![w] = FALSE]
  BY DEF TakeKey, results
<1>3. DOMAIN kw = KeyWorkers /\ DOMAIN rw = KeyWorkers /\ selErr \in [KeyWorkers -> BOOLEAN]
  BY DEF IInv, Shapes
<1>4. /\ \A v \in KeyWorkers \ {w} : kw'[v] = kw[v] /\ rw'[v] = rw[v] /\ selErr'[v] = selErr[v]
      /\ kw'[w] = [IdleKw EXCEPT !.at = "select", !.key = k] /\ ~selErr'[w]
      /\ \A q \in RowidWorkers : rw'[w][q] = IdleRw
  BY <1>1, <1>2, <1>3
<1>5. /\ DOMAIN kw'[w] = DOMAIN IdleKw /\ kw'[w].at = "select" /\ kw'[w].key = k
      /\ kw'[w].upto = 0 /\ kw'[w].sent = 0 /\ ~kw'[w].err
  BY <1>4 DEF IdleKw
<1>6. k \in KeysOfPage /\ KeysOfPage \subseteq Keys
  BY <1>2, PagesAreLeft DEF Flow, KeysShared, KeysOfPage, Keys
<1>7. Flow'
  <2>1. WorksOn(w)' /\ kw'[w].at # "stopped"
    BY <1>5 DEF WorksOn
  <2>2. \A v \in KeyWorkers \ {w} : ~Holds(v, k)
    BY DEF Flow, KeysShared, Holds, WorksOn
  <2>3. IndexReadBy(w)'
    <3>1. Len(RowidsOf[k]) \in Nat
      BY <1>6, LookupAssumption
    <3>2. QED
      BY <1>5, <3>1 DEF IndexReadBy
  <2>4. \A q \in RowidWorkers : HandRight(w, q)'
    BY <1>4 DEF HandRight, Busy, IdleRw
  <2>5. ~hErr'
    BY <1>2 DEF Flow, Calm
  <2>6. /\ phase = "lookup" /\ UNCHANGED <<mode, page, phase>> /\ keysCh' \subseteq keysCh
        /\ kw'[w].key \in KeysOfPage \ keysCh' /\ ~selErr'[w] /\ ~kw'[w].err
        /\ \A v \in KeyWorkers \ {w} : ~Holds(v, kw'[w].key)
    BY <1>1, <1>2, <1>4, <1>5, <1>6, <2>2
  <2>7. \A v \in KeyWorkers \ {w} : kw'[v] = kw[v] /\ rw'[v] = rw[v] /\ selErr'[v] = selErr[v]
    BY <1>4
  <2>8. QED
    BY <2>1, <2>3, <2>4, <2>5, <2>6, <2>7, WorkerStep
<1>8. ASSUME NEW l, NEW r PROVE Pending(l, r)' <=> Pending(l, r)
  <2>1. ~Owed(w, l, r)
    BY <1>2 DEF Owed, Holds
  <2>2. Owed(w, l, r)' <=> KeyOf[l] = k
    <3>1. r \notin IndexRows(KeyOf[l], kw'[w].sent)
      BY <1>5 DEF IndexRows
    <3>2. QED
      BY <1>5, <3>1 DEF Owed, Holds
  <2>3. QED
    BY <1>1, <1>4, <2>1, <2>2, SamePending
<1>9. /\ Current' = Current /\ Finished' = Finished
      /\ \A l \in Left : JoinedTo(l)' = JoinedTo(l)
  BY <1>2, <1>8, SamePairs
<1>10. QED
  BY <1>2, <1>7, <1>9, QuietStep DEF Flow

\* A key worker that has no key stops, or one that has gets free of it.
LEMMA KeyIsLeft ==
  ASSUME IInv, Flow, Results, NEW w \in KeyWorkers, phase = "lookup",
         UNCHANGED <<mode, page, phase, keysCh, rw, selErr, found, eCtx, out>>,
         NEW step, kw' = [kw EXCEPT ![w].at = step], step \in {"idle", "stopped"}, ~hErr',
         step = "stopped" => keysCh = {},
         \A q \in RowidWorkers : ~Busy(w, q),
         WorksOn(w) => kw[w].at = "close"
  PROVE  Flow' /\ Results'
<1>1. DOMAIN kw = KeyWorkers /\ {"at", "err"} \subseteq DOMAIN kw[w]
  BY DEF IInv, Shapes
<1>2. /\ \A v \in KeyWorkers \ {w} : kw'[v] = kw[v]
      /\ kw'[w].at = step /\ kw'[w].err = kw[w].err
  BY <1>1
<1>3. ~WorksOn(w)' /\ Resting(w)'
  BY <1>2 DEF WorksOn, Resting
<1>4. Flow'
  <2>1. ~selErr[w] /\ ~kw[w].err
    BY DEF Flow, Calm
  <2>2. IndexReadBy(w)'
    BY <1>3 DEF IndexReadBy
  <2>3. \A q \in RowidWorkers : HandRight(w, q)'
    BY DEF Flow, HandRight, Busy
  <2>4. QED
    BY <1>2, <1>3, <2>1, <2>2, <2>3, WorkerStep
<1>5. ASSUME NEW l \in Current, NEW r \in Matches(l) PROVE Pending(l, r)' <=> Pending(l, r)
  <2>1. ~Owed(w, l, r)'
    BY <1>3 DEF Owed, Holds, WorksOn
  <2>2. ~Owed(w, l, r)
    <3>1. SUFFICES ASSUME Holds(w, KeyOf[l]) PROVE r \in IndexRows(KeyOf[l], kw[w].sent)
      BY DEF Owed, InHand
    <3>2. WorksOn(w) /\ kw[w].key = KeyOf[l]
      BY <3>1 DEF Holds, WorksOn
    <3>3. kw[w].sent = Len(RowidsOf[KeyOf[l]])
      BY <3>2 DEF Flow, IndexReadBy
    <3>4. l \in Left
      BY PagesAreLeft DEF Flow
    <3>5. QED
      BY <3>3, <3>4, MatchesOfKey
  <2>3. QED
    BY <1>2, <2>1, <2>2, SamePending
<1>6. /\ Current' = Current /\ Finished' = Finished
      /\ \A l \in Left : JoinedTo(l)' = JoinedTo(l)
  BY <1>5, SamePairs
<1>7. QED
  BY <1>4, <1>6, QuietStep DEF Flow

LEMMA NoMoreKeysKeeps ==
  ASSUME IInv, Flow, Results, NEW w \in KeyWorkers, NoMoreKeys(w)
  PROVE  Flow' /\ Results'
<1>1. /\ UNCHANGED <<mode, page, phase, keysCh, rw, selErr, hErr, found, eCtx, out>>
      /\ phase = "lookup" /\ kw[w].at = "idle" /\ keysCh = {}
      /\ kw' = [kw EXCEPT ![w].at = "stopped"]
  BY DEF NoMoreKeys, KwGoto, results
<1>2. ~WorksOn(w) /\ \A q \in RowidWorkers : ~Busy(w, q)
  BY <1>1, WorkIsOnPage DEF WorksOn
<1>3. ~hErr'
  BY <1>1 DEF Flow, Calm
<1>4. QED
  BY <1>1, <1>2, <1>3, KeyIsLeft

LEMMA EndKeyKeeps ==
  ASSUME IInv, Flow, Results, NEW w \in KeyWorkers, EndKey(w)
  PROVE  Flow' /\ Results'
<1>0. ~KeyFailed(w) /\ ~hErr
  BY DEF Flow, Calm, KeyFailed
<1>1. /\ UNCHANGED <<mode, page, phase, keysCh, rw, selErr, found, eCtx, out>>
      /\ kw[w].at = "close" /\ kw' = [kw EXCEPT ![w].at = "idle"] /\ ~hErr'
      /\ \A q \in RowidWorkers : rw[w][q].at = "exit"
  BY <1>0 DEF EndKey, KwGoto, results
<1>2. phase = "lookup" /\ \A q \in RowidWorkers : ~Busy(w, q)
  BY <1>1, WorkIsOnPage DEF WorksOn, Busy
<1>3. QED
  BY <1>1, <1>2, KeyIsLeft

-------------------------------------------------------------------------------
\* Steps of the batch.
LEMMA NextPagesAreLeft ==
  PagesInOrder' => (Current \subseteq Left /\ Finished \subseteq Left /\ Current \cap Finished = {})'
<1>1. PagesInOrder => Current \subseteq Left /\ Finished \subseteq Left /\ Current \cap Finished = {}
  BY PagesAreLeft
<1>2. QED
  BY <1>1, PTL

LEMMA ReadPageKeeps ==
  ASSUME IInv, Flow, Results, ReadPage
  PROVE  Flow' /\ Results'
<1>0. phase = "read" /\ UNCHANGED <<mode, out>> /\ Current = {} /\ PagesDone = page
  BY DEF ReadPage, Current, PagesDone
<1>a. Len(LeftPages) \in Nat /\ page \in 0..Len(LeftPages)
  BY LookupAssumption DEF Flow, PagesInOrder
<1>1. CASE page = Len(LeftPages)
  <2>1. phase' = "done" /\ UNCHANGED <<page, keysCh, kw, rw, selErr, hErr, found, eCtx>>
    BY <1>1 DEF ReadPage, workers
  <2>2. Current' = {} /\ Finished' = Finished
    BY <1>0, <2>1 DEF Current, Finished, PagesDone
  <2>3. \A l \in Left : JoinedTo(l)' = JoinedTo(l)
    BY <1>0, <2>2 DEF JoinedTo, IsJoined
  <2>4. PlainSoFar' = PlainSoFar
    <3>1. \A p \in Pairs : p.left \in Left
      BY DEF Pairs, Record
    <3>2. QED
      BY <1>0, <2>2, <2>3, <3>1 DEF PlainSoFar
  <2>5. Results'
    BY <1>0, <2>1, <2>2, <2>4
    DEF Results, FoundRight, PlainRight, ContextsRight, GroupsWritten, ToWrite
  <2>6. Calm' /\ PagesInOrder'
    BY <1>0, <1>1, <2>1 DEF Flow, Calm, PagesInOrder
  <2>7. ASSUME NEW w \in KeyWorkers
        PROVE  /\ ~WorksOn(w)' /\ Resting(w)'
               /\ \A q \in RowidWorkers : HandRight(w, q)'
    <3>1. Resting(w) /\ kw'[w] = kw[w] /\ rw'[w] = rw[w]
      BY <1>0, <2>1 DEF IInv, WorkIsNested
    <3>2. \A q \in RowidWorkers : HandRight(w, q) /\ ~Busy(w, q)
      BY <3>1 DEF Flow, IInv, WorkIsNested, Busy
    <3>3. QED
      BY <3>1, <3>2 DEF WorksOn, Resting, HandRight, Busy
  <2>8. Flow'
    BY <2>1, <2>6, <2>7 DEF Flow, KeysShared, IndexReadBy
  <2>9. QED
    BY <2>5, <2>8
<1>2. CASE page # Len(LeftPages)
  <2>1. /\ page' = page + 1 /\ phase' = "lookup"
        /\ keysCh' = {KeyOf[l] : l \in LeftPages[page + 1]}
        /\ kw' = [w \in KeyWorkers |-> IdleKw]
        /\ rw' = [w \in KeyWorkers |-> [r \in RowidWorkers |-> IdleRw]]
        /\ selErr' = [w \in KeyWorkers |-> FALSE] /\ hErr' = FALSE /\ found' = {}
        /\ eCtx' = [l \in IF mode.group THEN LeftPages[page + 1] ELSE {} |->
                      [f \in Fields |-> NewCtx(f)]]
    BY <1>2 DEF ReadPage
  <2>2. page' \in 1..Len(LeftPages) /\ page' - 1 = page
    BY <1>a, <1>2, <2>1
  <2>3. Current' = LeftPages[page + 1] /\ Finished' = Finished /\ PagesDone' = page
    BY <1>0, <2>1, <2>2 DEF Current, Finished, PagesDone
  <2>4. ASSUME NEW w \in KeyWorkers
        PROVE  /\ kw'[w].at = "idle" /\ ~kw'[w].err /\ ~selErr'[w]
               /\ \A q \in RowidWorkers : rw'[w][q] = IdleRw
    BY <2>1 DEF IdleKw
  <2>5. Calm' /\ PagesInOrder'
    BY <1>0, <2>1, <2>2, <2>4 DEF Flow, Calm, PagesInOrder
  <2>6. ASSUME NEW w \in KeyWorkers
        PROVE  /\ ~WorksOn(w)' /\ Resting(w)'
               /\ \A q \in RowidWorkers : HandRight(w, q)'
    BY <2>4 DEF WorksOn, Resting, HandRight, Busy, IdleRw
  <2>7. Flow'
    BY <2>1, <2>3, <2>5, <2>6 DEF Flow, KeysShared, KeysOfPage, IndexReadBy
  <2>8. Current' \subseteq Left /\ Current' \cap Finished' = {}
    <3>1. (Current \subseteq Left /\ Finished \subseteq Left /\ Current \cap Finished = {})'
      BY <2>5, NextPagesAreLeft
    <3>2. QED
      BY <3>1
  <2>9. \A l \in Left : JoinedTo(l)' = JoinedTo(l)
    <3>1. \A l \in Current' : \A r : Pending(l, r)'
      BY <2>1, <2>3 DEF Pending
    <3>2. QED
      BY <1>0, <2>3, <3>1 DEF JoinedTo, IsJoined
  <2>10. \A l \in Current' : JoinedTo(l)' = {}
    <3>1. \A l \in Current' : \A r : Pending(l, r)'
      BY <2>1, <2>3 DEF Pending
    <3>2. QED
      BY <2>8, <3>1 DEF JoinedTo, IsJoined
  <2>11. FoundRight'
    BY <2>1, <2>10 DEF FoundRight
  <2>12. PlainRight'
    <3>1. \A p \in Pairs : p.left \in Left
      BY DEF Pairs, Record
    <3>2. PlainSoFar' = PlainSoFar
      BY <1>0, <2>3, <2>9, <3>1 DEF PlainSoFar
    <3>3. QED
      BY <1>0, <3>2 DEF Results, PlainRight
  <2>13. ContextsRight'
    <3>1. SUFFICES ASSUME mode.group
                   PROVE  /\ DOMAIN eCtx' = Current'
                          /\ \A l \in Current' :
                               /\ DOMAIN eCtx'[l] = Fields
                               /\ \A f \in Fields : FnOf[f] # "plain" =>
                                    Collected(eCtx'[l][f], f, JoinedTo(l)')
      BY <1>0 DEF ContextsRight
    <3>2. eCtx' = [l \in Current' |-> [f \in Fields |-> NewCtx(f)]]
      BY <2>1, <2>3, <3>1
    <3>3. \A f \in Fields : FnOf[f] # "plain" => Collected(NewCtx(f), f, {})
      BY NewCollects
    <3>4. QED
      BY <2>10, <3>2, <3>3
  <2>14. GroupsWritten'
    BY <1>0, <2>3 DEF Results, GroupsWritten, ToWrite
  <2>15. QED
    BY <2>7, <2>11, <2>12, <2>13, <2>14 DEF Results
<1>3. QED
  BY <1>1, <1>2

LEMMA EndLookupKeeps ==
  ASSUME IInv, Flow, Results, EndLookup
  PROVE  Flow' /\ Results'
<1>1. /\ phase = "lookup" /\ phase' = "epilogue" /\ \A w \in KeyWorkers : kw[w].at = "stopped"
      /\ UNCHANGED <<mode, page, keysCh, kw, rw, selErr, hErr, found, eCtx, out>>
  BY DEF EndLookup, workers, Flow, Calm
<1>2. Current' = Current /\ Finished' = Finished
  BY <1>1 DEF Current, Finished, PagesDone
<1>3. \A l \in Left : JoinedTo(l)' = JoinedTo(l)
  <2>1. \A l, r : Pending(l, r)' <=> Pending(l, r)
    BY <1>1 DEF Pending, Owed, Holds, InHand, Busy
  <2>2. QED
    BY <1>2, <2>1 DEF JoinedTo, IsJoined
<1>4. Flow'
  <2>1. Calm' /\ PagesInOrder'
    BY <1>1 DEF Flow, Calm, PagesInOrder
  <2>2. ASSUME NEW w \in KeyWorkers
        PROVE  /\ ~WorksOn(w)' /\ Resting(w)'
               /\ \A q \in RowidWorkers : HandRight(w, q)'
    <3>1. Resting(w) /\ kw'[w] = kw[w] /\ rw'[w] = rw[w]
      BY <1>1 DEF Resting
    <3>2. \A q \in RowidWorkers : HandRight(w, q) /\ ~Busy(w, q)
      BY <3>1 DEF Flow, IInv, WorkIsNested, Busy
    <3>3. QED
      BY <3>1, <3>2 DEF WorksOn, Resting, HandRight, Busy
  <2>3. QED
    BY <1>1, <2>1, <2>2 DEF Flow, KeysShared, IndexReadBy
<1>5. FoundRight'
  BY <1>1, <1>2, <1>3, PagesAreLeft DEF Results, FoundRight, Flow
<1>6. PlainRight'
  <2>1. \A p \in Pairs : p.left \in Left
    BY DEF Pairs, Record
  <2>2. PlainSoFar' = PlainSoFar
    BY <1>1, <1>2, <1>3, <2>1 DEF PlainSoFar
  <2>3. QED
    BY <1>1, <2>2 DEF Results, PlainRight
<1>7. ContextsRight'
  <2>1. Current \subseteq Left
    BY PagesAreLeft DEF Flow
  <2>2. \A l \in Current : JoinedTo(l)' = JoinedTo(l)
    BY <1>3, <2>1
  <2>3. QED
    BY <1>1, <1>2, <2>2 DEF Results, ContextsRight
<1>8. GroupsWritten'
  BY <1>1, <1>2 DEF Results, GroupsWritten, ToWrite
<1>9. QED
  BY <1>4, <1>5, <1>6, <1>7, <1>8 DEF Results

\* When the workers are done with the page, each left row is joined with all its matches.
LEMMA PageIsJoined ==
  ASSUME Flow, phase = "epilogue"
  PROVE  \A l \in Current : JoinedTo(l) = Matches(l)
<1>1. keysCh = {} /\ \A w \in KeyWorkers : kw[w].at = "stopped"
  BY LookupAssumption DEF Flow, PagesInOrder
<1>2. \A l, r : ~Pending(l, r)
  BY <1>1 DEF Pending, Owed, Holds
<1>3. QED
  BY <1>2 DEF JoinedTo, IsJoined

LEMMA FinishedIsJoined == ASSUME NEW l \in Finished PROVE JoinedTo(l) = Matches(l)
BY DEF JoinedTo, IsJoined

\* A record of the epilogue is right.
LEMMA GroupedRecordRight ==
  ASSUME Flow, Results, phase = "epilogue", mode.group, NEW l \in Current
  PROVE  GroupedRight(GroupedRecord(l)) /\ GroupedRecord(l).left = l
<1> DEFINE rec == GroupedRecord(l)
<1>1. l \in Left /\ JoinedTo(l) = Matches(l)
  BY PagesAreLeft, PageIsJoined DEF Flow
<1>2. /\ rec.left = l
      /\ \A f \in Fields :
           rec.fields[f] = IF FnOf[f] = "plain" THEN Value("plain", l)
                           ELSE IF l \in found THEN GetSafeValue(eCtx[l][f], DefaultOf[f])
                           ELSE DefaultOf[f]
  BY DEF GroupedRecord, Record
<1>3. l \in found <=> Matches(l) # {}
  BY <1>1 DEF Results, FoundRight
<1>4. \A f \in Fields : FnOf[f] # "plain" => Collected(eCtx[l][f], f, Matches(l))
  BY <1>1 DEF Results, ContextsRight
<1> HIDE DEF rec
<1>5. ASSUME NEW f \in Fields, FnOf[f] # "plain", Matches(l) # {}
      PROVE  rec.fields[f] \in AllowedValues(f, Matches(l))
  <2>1. Matches(l) \in SUBSET Data
    BY <1>1, MatchesOfKey
  <2>2. GetSafeValue(eCtx[l][f], DefaultOf[f]) \in AllowedValues(f, Matches(l))
    BY <1>4, <1>5, <2>1, SafeValueRight
  <2>3. QED
    BY <1>2, <1>3, <1>5, <2>2
<1>6. GroupedRight(rec)
  BY <1>2, <1>3, <1>5 DEF GroupedRight
<1>7. QED
  BY <1>2, <1>6 DEF rec

LEMMA EpilogueKeeps ==
  ASSUME IInv, Flow, Results, Epilogue
  PROVE  Flow' /\ Results'
<1>1. /\ phase = "epilogue" /\ phase' = "read"
      /\ UNCHANGED <<mode, page, keysCh, kw, rw, selErr, hErr, found, eCtx>>
      /\ out' = out (+) SetToBag(Written(EpilogueRows))
  BY DEF Epilogue, workers
<1>2. /\ page \in 1..Len(LeftPages) /\ Current = LeftPages[page] /\ LeftRows = Current
      /\ PagesDone = page - 1 /\ PagesDone' = page /\ Current' = {}
  <2>1. Len(LeftPages) \in Nat
    BY LookupAssumption
  <2>2. QED
    BY <1>1, <2>1 DEF Flow, PagesInOrder, Current, LeftRows, PagesDone
<1>3. Finished' = Finished \cup Current
  <2>1. 1..page = 1..(page - 1) \cup {page}
    BY <1>2
  <2>2. QED
    BY <1>2, <2>1 DEF Finished
<1>4. Current \subseteq Left /\ Finished \subseteq Left /\ Current \cap Finished = {}
  BY PagesAreLeft DEF Flow
<1>5. \A l \in Current : JoinedTo(l) = Matches(l)
  BY <1>1, PageIsJoined
<1>6. \A l \in Left : JoinedTo(l)' = JoinedTo(l)
  BY <1>2, <1>3, <1>5 DEF JoinedTo, IsJoined
<1>7. mode.join \in {"left", "inner"} /\ mode.group \in BOOLEAN
  BY LookupAssumption DEF Flow, PagesInOrder
<1>8. found = {l \in Current : Matches(l) # {}}
  BY <1>1, <1>5 DEF Results, FoundRight
<1>9. Flow'
  <2>1. Calm' /\ PagesInOrder'
    BY <1>1 DEF Flow, Calm, PagesInOrder
  <2>2. ASSUME NEW w \in KeyWorkers
        PROVE  /\ ~WorksOn(w)' /\ Resting(w)'
               /\ \A q \in RowidWorkers : HandRight(w, q)'
    <3>1. Resting(w) /\ kw'[w] = kw[w] /\ rw'[w] = rw[w]
      BY <1>1 DEF IInv, WorkIsNested
    <3>2. \A q \in RowidWorkers : HandRight(w, q) /\ ~Busy(w, q)
      BY <3>1 DEF Flow, IInv, WorkIsNested, Busy
    <3>3. QED
      BY <3>1, <3>2 DEF WorksOn, Resting, HandRight, Busy
  <2>3. QED
    BY <1>1, <2>1, <2>2 DEF Flow, KeysShared, IndexReadBy
<1>10. FoundRight' /\ ContextsRight'
  BY <1>1 DEF FoundRight, ContextsRight
<1>11. PlainRight'
  <2>1. SUFFICES ASSUME ~mode.group PROVE out' = SetToBag({rec \in PlainSoFar : Having(rec)}')
    BY <1>1 DEF PlainRight
  <2> DEFINE Lonely == IF mode.join = "left" THEN {Record(l, None, <<>>) : l \in Current \ WithMatch}
                       ELSE {}
             Old == {rec \in PlainSoFar : Having(rec)}
             New == {rec \in Lonely : Having(rec)}
  <2>2. Current \ found = Current \ WithMatch
    BY <1>4, <1>8 DEF WithMatch
  <2>3. Written(EpilogueRows) = New
    <3>1. {EpilogueRecord(l) : l \in EpilogueRows} = Lonely
      BY <1>2, <1>7, <2>1, <2>2 DEF EpilogueRows, EpilogueRecord
    <3>2. QED
      BY <3>1 DEF Written
  <2>4. PlainSoFar' = PlainSoFar \cup Lonely
    <3>1. \A p \in Pairs : p.left \in Left
      BY DEF Pairs, Record
    <3>2. {p \in Pairs : p.right \in JoinedTo(p.left)}' = {p \in Pairs : p.right \in JoinedTo(p.left)}
      BY <1>6, <3>1
    <3>3. {Record(l, None, <<>>) : l \in Finished' \ WithMatch} =
             {Record(l, None, <<>>) : l \in Finished \ WithMatch}
               \cup {Record(l, None, <<>>) : l \in Current \ WithMatch}
      BY <1>3
    <3>4. CASE mode.join = "left"
      BY <1>1, <3>2, <3>3, <3>4 DEF PlainSoFar
    <3>5. CASE mode.join # "left"
      BY <1>1, <3>2, <3>5 DEF PlainSoFar
    <3>6. QED
      BY <3>4, <3>5
  <2>5. Lonely \cap PlainSoFar = {}
    <3>1. \A l : Record(l, None, <<>>).left = l /\ Record(l, None, <<>>).right = None
      BY DEF Record
    <3>2. \A p \in Pairs : p.right \in JoinedTo(p.left) => p.right # None
      <4>1. SUFFICES ASSUME NEW p \in Pairs, p.right \in JoinedTo(p.left) PROVE p.right # None
        OBVIOUS
      <4>2. p.left \in Left
        BY DEF Pairs, Record
      <4>3. p.right \in Data
        BY <4>1, <4>2, JoinedToIsMatch, MatchesOfKey
      <4>4. QED
        BY <4>3, LookupAssumption
    <3>3. \A rec \in Lonely : rec.left \in Current /\ rec.right = None
      BY <3>1
    <3>4. \A rec \in PlainSoFar : rec.left \in Finished \/ rec.right # None
      BY <3>1, <3>2 DEF PlainSoFar
    <3>5. QED
      BY <1>4, <3>3, <3>4
  <2>6. out = SetToBag(Old)
    BY <2>1 DEF Results, PlainRight
  <2>7. {rec \in PlainSoFar : Having(rec)}' = Old \cup New
    BY <2>4 DEF Having
  <2>8. Old \cap New = {}
    BY <2>5
  <2> HIDE DEF Old, New
  <2>9. QED
    BY <1>1, <2>3, <2>6, <2>7, <2>8, AddRecords
<1>12. GroupsWritten'
  <2>1. SUFFICES ASSUME mode.group
                 PROVE  /\ \A rec \in DOMAIN out' :
                             /\ out'[rec] = 1 /\ Having(rec) /\ GroupedRight(rec)
                             /\ rec.left \in Finished' /\ ToWrite(rec.left)
                             /\ \A other \in DOMAIN out' : other.left = rec.left => other = rec
                        /\ \A l \in Finished' : ToWrite(l) =>
                             l \in NoHaving \/ \E rec \in DOMAIN out' : rec.left = l
    BY <1>1 DEF GroupsWritten, ToWrite
  <2> DEFINE WrittenRows == {l \in Current : ToWrite(l)}
             New == {rec \in {GroupedRecord(l) : l \in WrittenRows} : Having(rec)}
  <2>2. Written(EpilogueRows) = New
    <3>1. EpilogueRows = WrittenRows
      BY <1>2, <1>7, <1>8, <2>1 DEF EpilogueRows, ToWrite
    <3>2. QED
      BY <2>1, <3>1 DEF Written, EpilogueRecord
  <2>3. \A rec \in DOMAIN out :
          /\ out[rec] = 1 /\ Having(rec) /\ GroupedRight(rec)
          /\ rec.left \in Finished /\ ToWrite(rec.left)
          /\ \A other \in DOMAIN out : other.left = rec.left => other = rec
    BY <2>1 DEF Results, GroupsWritten
  <2>4. \A l \in Current : GroupedRight(GroupedRecord(l)) /\ GroupedRecord(l).left = l
    BY <1>1, <2>1, GroupedRecordRight
  <2>5. \A rec \in New : /\ Having(rec) /\ GroupedRight(rec)
                         /\ rec.left \in Current /\ ToWrite(rec.left)
                         /\ \A other \in New : other.left = rec.left => other = rec
    BY <2>4
  <2>6. /\ DOMAIN out' = DOMAIN out \cup New
        /\ \A rec \in DOMAIN out : rec \notin New => out'[rec] = out[rec] + 0
        /\ \A rec \in New : rec \notin DOMAIN out => out'[rec] = 0 + 1
    <3>1. out' = out (+) SetToBag(New)
      BY <1>1, <2>2
    <3> HIDE DEF New
    <3>2. QED
      BY <3>1 DEF SetToBag, (+)
  <2> HIDE DEF New
  <2>7. DOMAIN out \cap New = {}
    BY <1>4, <2>3, <2>5
  <2>8. ASSUME NEW rec \in DOMAIN out'
        PROVE  /\ out'[rec] = 1 /\ Having(rec) /\ GroupedRight(rec)
               /\ rec.left \in Finished' /\ ToWrite(rec.left)
               /\ \A other \in DOMAIN out' : other.left = rec.left => other = rec
    <3>1. CASE rec \in DOMAIN out
      BY <1>3, <1>4, <2>3, <2>5, <2>6, <2>7, <3>1
    <3>2. CASE rec \in New
      BY <1>3, <1>4, <2>3, <2>5, <2>6, <2>7, <3>2
    <3>3. QED
      BY <2>6, <3>1, <3>2
  <2>9. ASSUME NEW l \in Finished', ToWrite(l), l \notin NoHaving
        PROVE  \E rec \in DOMAIN out' : rec.left = l
    <3>1. CASE l \in Finished
      <4>1. \E rec \in DOMAIN out : rec.left = l
        BY <2>1, <2>9, <3>1 DEF Results, GroupsWritten
      <4>2. QED
        BY <2>6, <4>1
    <3>2. CASE l \in Current
      <4>1. GroupedRecord(l) \in New
        BY <2>4, <2>9, <3>2 DEF New, Having
      <4>2. QED
        BY <2>4, <2>6, <3>2, <4>1
    <3>3. QED
      BY <1>3, <3>1, <3>2
  <2>10. QED
    BY <2>8, <2>9
<1>13. QED
  BY <1>9, <1>10, <1>11, <1>12 DEF Results

-------------------------------------------------------------------------------
LEMMA InitJInv == Init => JInv
<1> SUFFICES ASSUME Init PROVE JInv
  OBVIOUS
<1>1. IInv
  BY InitIInv
<1>2. /\ mode \in Modes /\ page = 0 /\ phase = "read" /\ keysCh = {} /\ hErr = FALSE
      /\ out = EmptyBag
      /\ \A w \in KeyWorkers : /\ kw[w].at = "idle" /\ ~kw[w].err /\ ~selErr[w]
                               /\ \A q \in RowidWorkers : rw[w][q] = IdleRw
  BY DEF Init, IdleKw
<1>3. Current = {} /\ Finished = {}
  BY <1>2 DEF Current, Finished, PagesDone
<1>4. Flow
  <2>1. Calm /\ PagesInOrder
    BY <1>2, LookupAssumption DEF Calm, PagesInOrder
  <2>2. ASSUME NEW w \in KeyWorkers
        PROVE  /\ ~WorksOn(w) /\ Resting(w)
               /\ \A q \in RowidWorkers : HandRight(w, q)
    BY <1>2 DEF WorksOn, Resting, HandRight, Busy, IdleRw
  <2>3. QED
    BY <1>2, <2>1, <2>2 DEF Flow, KeysShared, IndexReadBy
<1>5. PlainRight
  <2>1. \A l : JoinedTo(l) = {}
    BY <1>3 DEF JoinedTo, IsJoined
  <2>2. PlainSoFar = {}
    BY <1>3, <2>1 DEF PlainSoFar
  <2>3. {rec \in PlainSoFar : Having(rec)} = {}
    BY <2>2
  <2>4. QED
    BY <1>2, <2>3 DEF PlainRight, EmptyBag
<1>6. FoundRight /\ ContextsRight
  BY <1>2 DEF FoundRight, ContextsRight
<1>7. GroupsWritten
  <2>1. DOMAIN out = {}
    BY <1>2 DEF EmptyBag, SetToBag
  <2>2. QED
    BY <1>3, <2>1 DEF GroupsWritten
<1>8. QED
  BY <1>1, <1>4, <1>5, <1>6, <1>7 DEF JInv, Results

\* However the workers share keys, rowids and pages among them.
THEOREM JInvHolds == Spec => []JInv
<1>1. JInv /\ IInv' /\ [Next]_vars => JInv'
  <2> SUFFICES ASSUME JInv, IInv', [Next]_vars, faults' = 0 PROVE Flow' /\ Results'
    BY DEF JInv
  <2>1. IInv /\ faults \in Nat
    BY DEF JInv, IInv, Shapes
  <2>2. \A kind : ~Fault(kind)
    BY <2>1 DEF Fault
  <2>3. CASE UNCHANGED vars
    <3>1. Flow /\ Results
      BY <2>3 DEF JInv, vars
    <3>2. /\ UNCHANGED <<mode, page, phase, keysCh, kw, rw, selErr, hErr, found, eCtx, out>>
      BY <2>3 DEF vars, workers, results
    <3>3. Flow'
      BY <3>1, <3>2 DEF Flow, Calm, PagesInOrder, KeysShared, KeysOfPage, Current, Resting, WorksOn,
                        Holds, IndexReadBy, HandRight, Busy, LeftOf, LeftRows
    <3>4. \A l \in Current : \A r \in Matches(l) : Pending(l, r)' <=> Pending(l, r)
      BY <3>2 DEF Pending, Owed, Holds, InHand, Busy
    <3>5. QED
      BY <3>1, <3>2, <3>3, <3>4, SamePairs, QuietStep DEF Flow
  <2>4. CASE Batch
    <3>1. faults' = faults
      BY <2>2, <2>4 DEF Batch, ReadPage, ReadPageFails, EndLookup, Epilogue, EpilogueFails
    <3>2. Flow /\ Results
      BY <3>1 DEF JInv
    <3>3. QED
      BY <2>1, <2>2, <2>4, <3>2, ReadPageKeeps, EndLookupKeeps, EpilogueKeeps
      DEF Batch, ReadPageFails, EpilogueFails
  <2>5. ASSUME NEW w \in KeyWorkers, KeyWorker(w) PROVE Flow' /\ Results'
    <3>1. \/ TakeKey(w) \/ NoMoreKeys(w) \/ SelectIndex(w) \/ PageFed(w) \/ EndKey(w)
      BY <2>2, <2>5 DEF KeyWorker, SelectIndexFails
    <3>2. faults' = faults
      BY <3>1 DEF TakeKey, NoMoreKeys, SelectIndex, PageFed, EndKey
    <3>3. Flow /\ Results
      BY <3>2 DEF JInv
    <3>4. QED
      BY <2>1, <3>1, <3>3, TakeKeyKeeps, NoMoreKeysKeeps, SelectIndexKeeps, PageFedKeeps, EndKeyKeeps
  <2>6. ASSUME NEW w \in KeyWorkers, NEW q \in RowidWorkers, RowidWorker(w, q)
        PROVE  Flow' /\ Results'
    <3>1. \/ Feed(w, q) \/ ChannelClosed(w, q) \/ SelectRow(w, q) \/ Filter(w, q)
          \/ EvalGrouped(w, q) \/ JoinRow(w, q) \/ CountRow(w, q)
      BY <2>2, <2>6 DEF RowidWorker, SelectRowFails, JoinFails
    <3>2. faults' = faults
      BY <3>1 DEF Feed, ChannelClosed, SelectRow, Filter, EvalGrouped, JoinRow, CountRow
    <3>3. Flow /\ Results
      BY <3>2 DEF JInv
    <3>4. QED
      BY <2>1, <3>1, <3>3, FeedKeeps, ChannelClosedKeeps, SelectRowKeeps, FilterKeeps,
         EvalGroupedKeeps, JoinRowKeeps, CountRowKeeps
  <2>7. QED
    BY <2>3, <2>4, <2>5, <2>6 DEF Next, Stopped
<1>2. QED
  BY <1>1, InitJInv, IInvHolds, PTL DEF Spec

\* "finds matching rows in the lookup table, performs join operations" (glossary.md): a batch
\* that is done has written exactly the rows of the join, each once, with aggregates of all
\* the matching rows (runCreateTableRelForBatch, EvalFunc).
THEOREM JoinIsExactHolds == Spec => []JoinIsExact
<1>1. JInv => JoinIsExact
  <2> SUFFICES ASSUME JInv, phase = "done"
               PROVE  /\ \A rec \in BagToSet(out) : Having(rec) /\ out[rec] = 1
                      /\ ~mode.group => BagToSet(out) = {rec \in PlainJoin : Having(rec)}
                      /\ mode.group =>
                           /\ \A rec \in BagToSet(out) : GroupedRight(rec)
                           /\ \A l \in Left :
                                Cardinality({rec \in BagToSet(out) : rec.left = l})
                                  <= IF mode.join = "left" \/ Matches(l) # {} THEN 1 ELSE 0
                           /\ \A l \in IF mode.join = "left" THEN Left ELSE WithMatch :
                                l \in NoHaving \/ \E rec \in BagToSet(out) : rec.left = l
    BY DEF JoinIsExact
  <2>1. Flow /\ Results
    BY DEF JInv, IInv, ErrorIsKept, Shapes
  <2>2. Finished = Left
    BY <2>1 DEF Flow, PagesInOrder, Finished, PagesDone, Left
  <2>3. BagToSet(out) = DOMAIN out
    BY DEF BagToSet
  <2>4. mode.group \in BOOLEAN
    BY <2>1, LookupAssumption DEF Flow, PagesInOrder
  <2>5. ASSUME ~mode.group
        PROVE  /\ \A rec \in DOMAIN out : Having(rec) /\ out[rec] = 1
               /\ DOMAIN out = {rec \in PlainJoin : Having(rec)}
    <3>1. PlainSoFar = PlainJoin
      <4>1. \A p \in Pairs : p.left \in Left
        BY DEF Pairs, Record
      <4>2. \A p \in Pairs : JoinedTo(p.left) = Matches(p.left)
        BY <2>2, <4>1, FinishedIsJoined
      <4>3. QED
        BY <2>2, <4>2 DEF PlainSoFar, PlainJoin
    <3>2. out = SetToBag({rec \in PlainJoin : Having(rec)})
      BY <2>1, <2>5, <3>1 DEF Results, PlainRight
    <3>3. QED
      BY <3>2 DEF SetToBag
  <2>6. ASSUME mode.group
        PROVE  /\ \A rec \in DOMAIN out : Having(rec) /\ out[rec] = 1 /\ GroupedRight(rec)
               /\ \A l \in Left :
                    Cardinality({rec \in DOMAIN out : rec.left = l})
                      <= IF mode.join = "left" \/ Matches(l) # {} THEN 1 ELSE 0
               /\ \A l \in IF mode.join = "left" THEN Left ELSE WithMatch :
                    l \in NoHaving \/ \E rec \in DOMAIN out : rec.left = l
    <3>1. /\ \A rec \in DOMAIN out :
               /\ out[rec] = 1 /\ Having(rec) /\ GroupedRight(rec) /\ ToWrite(rec.left)
               /\ \A other \in DOMAIN out : other.left = rec.left => other = rec
          /\ \A l \in Left : ToWrite(l) => l \in NoHaving \/ \E rec \in DOMAIN out : rec.left = l
      BY <2>1, <2>2, <2>6 DEF Results, GroupsWritten
    <3>2. ASSUME NEW l \in Left
          PROVE  Cardinality({rec \in DOMAIN out : rec.left = l})
                   <= IF mode.join = "left" \/ Matches(l) # {} THEN 1 ELSE 0
      <4> DEFINE S == {rec \in DOMAIN out : rec.left = l}
      <4>1. CASE S = {}
        <5>1. Cardinality(S) = 0
          BY <4>1, FS_EmptySet
        <5>2. QED
          BY <5>1
      <4>2. CASE S # {}
        <5>1. PICK rec \in S : TRUE
          BY <4>2
        <5>2. S = {rec}
          BY <3>1, <5>1
        <5>3. Cardinality(S) = 1
          BY <5>2, FS_Singleton
        <5>4. mode.join = "left" \/ Matches(l) # {}
          BY <3>1, <5>1 DEF ToWrite
        <5>5. QED
          BY <5>3, <5>4
      <4>3. QED
        BY <4>1, <4>2
    <3>3. QED
      BY <3>1, <3>2 DEF ToWrite, WithMatch
  <2>7. QED
    BY <2>3, <2>4, <2>5, <2>6
<1>2. QED
  BY <1>1, JInvHolds, PTL

-------------------------------------------------------------------------------
\* The smallest number of a set.
LEMMA SmallestNumber ==
  ASSUME NEW S \in SUBSET Nat, S # {}
  PROVE  \E n \in S : \A m \in S : n <= m
<1> DEFINE Less == OpToRel(<, Nat)
<1>1. \A n \in Nat, m \in Nat : m < n => <<m, n>> \in Less
  BY DEF OpToRel
<1>2. IsWellFoundedOn(Less, Nat)
  BY NatLessThanWellFounded
<1> HIDE DEF Less
<1>3. PICK n \in S : \A m \in S : ~ (<<m, n>> \in Less)
  BY <1>2, WFMin
<1>4. \A m \in S : ~ (m < n)
  BY <1>1, <1>3
<1>5. QED
  BY <1>4

-------------------------------------------------------------------------------
\* Strings of one length.
Chars(n) == {s \in Seq(Int) : Len(s) = n}

\* s and t differ first at k, where s is less.
LessAt(s, t, k) == s[k] < t[k] /\ \A i \in 1..(k - 1) : s[i] = t[i]

LEMMA LexSameLength ==
  ASSUME NEW n \in Nat, NEW s \in Chars(n), NEW t \in Chars(n)
  PROVE  LexLess(s, t) <=> \E k \in 1..n : LessAt(s, t, k)
<1>1. Len(s) = n /\ Len(t) = n
  BY DEF Chars
<1>2. \A k \in 1..n : k <= n + 1 /\ k <= n
  OBVIOUS
<1>3. QED
  BY <1>1, <1>2 DEF LexLess, LessAt

LEMMA CharsDiffer ==
  ASSUME NEW n \in Nat, NEW s \in Chars(n), NEW t \in Chars(n), s # t
  PROVE  \E k \in 1..n : s[k] # t[k] /\ \A i \in 1..(k - 1) : s[i] = t[i]
<1> DEFINE D == {k \in 1..n : s[k] # t[k]}
<1>1. D # {}
  BY DEF Chars
<1>2. PICK k \in D : \A m \in D : k <= m
  <2>1. D \in SUBSET Nat
    OBVIOUS
  <2> HIDE DEF D
  <2>2. QED
    BY <1>1, <2>1, SmallestNumber
<1>3. \A i \in 1..(k - 1) : i \in 1..n /\ ~ (k <= i)
  BY <1>2
<1>4. QED
  BY <1>2, <1>3

LEMMA CharsTyped ==
  ASSUME NEW n \in Nat, NEW s \in Chars(n)
  PROVE  \A k \in 1..n : s[k] \in Int
BY DEF Chars

LEMMA LexTotal ==
  ASSUME NEW n \in Nat, NEW s \in Chars(n), NEW t \in Chars(n)
  PROVE  /\ s = t \/ LexLess(s, t) \/ LexLess(t, s)
         /\ LexLess(s, t) => s # t /\ ~LexLess(t, s)
<1>1. s = t \/ LexLess(s, t) \/ LexLess(t, s)
  <2> SUFFICES ASSUME s # t PROVE LexLess(s, t) \/ LexLess(t, s)
    OBVIOUS
  <2>1. PICK k \in 1..n : s[k] # t[k] /\ \A i \in 1..(k - 1) : s[i] = t[i]
    BY CharsDiffer
  <2>2. s[k] < t[k] \/ t[k] < s[k]
    BY <2>1, CharsTyped
  <2>3. LessAt(s, t, k) \/ LessAt(t, s, k)
    BY <2>1, <2>2 DEF LessAt
  <2>4. QED
    BY <2>3, LexSameLength
<1>2. ASSUME LexLess(s, t), LexLess(t, s) PROVE FALSE
  <2>1. PICK k \in 1..n : LessAt(s, t, k)
    BY <1>2, LexSameLength
  <2>2. PICK m \in 1..n : LessAt(t, s, m)
    BY <1>2, LexSameLength
  <2>3. k \in 1..(m - 1) \/ m \in 1..(k - 1) \/ k = m
    OBVIOUS
  <2>4. QED
    BY <2>1, <2>2, <2>3, CharsTyped DEF LessAt
<1>3. ~LexLess(s, s)
  <2>1. \A k \in 1..n : ~LessAt(s, s, k)
    BY CharsTyped DEF LessAt
  <2>2. QED
    BY <2>1, LexSameLength
<1>4. QED
  BY <1>1, <1>2, <1>3

\* One string after another.
Concatenates(n, a, b, m, x, y) ==
  /\ a \o x \in Chars(n + m) /\ b \o y \in Chars(n + m)
  /\ LexLess(a \o x, b \o y) <=> (LexLess(a, b) \/ (a = b /\ LexLess(x, y)))
  /\ a \o x = b \o y <=> (a = b /\ x = y)

LEMMA LexConcat ==
  ASSUME NEW n \in Nat, NEW a \in Chars(n), NEW b \in Chars(n),
         NEW m \in Nat, NEW x \in Chars(m), NEW y \in Chars(m)
  PROVE  Concatenates(n, a, b, m, x, y)
<1> DEFINE s == a \o x
           t == b \o y
<1>0. Len(a) = n /\ Len(b) = n /\ Len(x) = m /\ Len(y) = m
      /\ a \in Seq(Int) /\ b \in Seq(Int) /\ x \in Seq(Int) /\ y \in Seq(Int)
  BY DEF Chars
<1>1. s \in Chars(n + m) /\ t \in Chars(n + m)
  <2>1. s \in Seq(Int) /\ t \in Seq(Int)
    BY <1>0
  <2>2. Len(s) = n + m /\ Len(t) = n + m
    <3>1. Len(a \o x) = Len(a) + Len(x)
      BY <1>0
    <3>2. Len(b \o y) = Len(b) + Len(y)
      BY <1>0
    <3>3. QED
      BY <1>0, <3>1, <3>2
  <2>3. QED
    BY <2>1, <2>2 DEF Chars
<1>2. \A i \in 1..n : s[i] = a[i] /\ t[i] = b[i]
  BY <1>0
<1>3. \A i \in 1..m : s[n + i] = x[i] /\ t[n + i] = y[i]
  BY <1>0
<1> HIDE DEF s, t
<1>4. (s = t) => a = b /\ x = y
  <2> SUFFICES ASSUME s = t PROVE a = b /\ x = y
    OBVIOUS
  <2>1. \A i \in 1..n : a[i] = b[i]
    BY <1>2
  <2>2. \A i \in 1..m : x[i] = y[i]
    BY <1>3
  <2>3. QED
    BY <1>0, <2>1, <2>2
<1>5. ASSUME LexLess(s, t) PROVE LexLess(a, b) \/ (a = b /\ LexLess(x, y))
  <2>1. PICK k \in 1..(n + m) : LessAt(s, t, k)
    BY <1>1, <1>5, LexSameLength, n + m \in Nat
  <2>2. CASE k <= n
    <3>1. k \in 1..n /\ \A i \in 1..(k - 1) : i \in 1..n
      BY <2>2
    <3>2. LessAt(a, b, k)
      BY <1>2, <2>1, <3>1 DEF LessAt
    <3>3. QED
      BY <3>1, <3>2, LexSameLength
  <2>3. CASE ~ (k <= n)
    <3>1. k - n \in 1..m /\ n + (k - n) = k
      BY <2>3
    <3>2. \A i \in 1..n : i \in 1..(k - 1)
      BY <2>3
    <3>3. a = b
      <4>1. \A i \in 1..n : a[i] = b[i]
        BY <1>2, <2>1, <3>2 DEF LessAt
      <4>2. QED
        BY <1>0, <4>1
    <3>4. \A i \in 1..((k - n) - 1) : i \in 1..m /\ n + i \in 1..(k - 1)
      BY <3>1
    <3>5. LessAt(x, y, k - n)
      <4>1. x[k - n] < y[k - n]
        BY <1>3, <2>1, <3>1 DEF LessAt
      <4>2. \A i \in 1..((k - n) - 1) : x[i] = y[i]
        BY <1>3, <2>1, <3>4 DEF LessAt
      <4>3. QED
        BY <4>1, <4>2 DEF LessAt
    <3>6. QED
      BY <3>1, <3>3, <3>5, LexSameLength
  <2>4. QED
    BY <2>2, <2>3
<1>6. ASSUME LexLess(a, b) PROVE LexLess(s, t)
  <2>1. PICK k \in 1..n : LessAt(a, b, k)
    BY <1>6, LexSameLength
  <2>2. k \in 1..(n + m) /\ \A i \in 1..(k - 1) : i \in 1..n
    OBVIOUS
  <2>3. LessAt(s, t, k)
    BY <1>2, <2>1, <2>2 DEF LessAt
  <2>4. QED
    BY <1>1, <2>2, <2>3, LexSameLength, n + m \in Nat
<1>7. ASSUME a = b, LexLess(x, y) PROVE LexLess(s, t)
  <2>1. PICK k \in 1..m : LessAt(x, y, k)
    BY <1>7, LexSameLength
  <2>2. n + k \in 1..(n + m)
    OBVIOUS
  <2>3. ASSUME NEW i \in 1..((n + k) - 1) PROVE s[i] = t[i]
    <3>1. CASE i <= n
      <4>1. i \in 1..n
        BY <3>1
      <4>2. QED
        BY <1>2, <1>7, <4>1
    <3>2. CASE ~ (i <= n)
      <4>1. i - n \in 1..(k - 1) /\ i - n \in 1..m /\ n + (i - n) = i
        BY <3>2
      <4>2. QED
        BY <1>3, <2>1, <4>1 DEF LessAt
    <3>3. QED
      BY <3>1, <3>2
  <2>4. LessAt(s, t, n + k)
    BY <1>3, <2>1, <2>3 DEF LessAt
  <2>5. QED
    BY <1>1, <2>2, <2>4, LexSameLength, n + m \in Nat
<1>8. QED
  BY <1>1, <1>4, <1>5, <1>6, <1>7 DEF s, t, Concatenates

\* Every character turned round.
LEMMA LexOpposite ==
  ASSUME NEW n \in Nat, NEW s \in Chars(n), NEW t \in Chars(n), NEW u \in Chars(n), NEW v \in Chars(n),
         \A k \in 1..n : (s[k] = t[k] <=> u[k] = v[k]) /\ (s[k] < t[k] <=> v[k] < u[k])
  PROVE  LexLess(s, t) <=> LexLess(v, u)
<1>1. \A k \in 1..n : \A i \in 1..(k - 1) : i \in 1..n
  OBVIOUS
<1>2. \A k \in 1..n : LessAt(s, t, k) <=> LessAt(v, u, k)
  BY <1>1 DEF LessAt
<1>3. QED
  BY <1>2, LexSameLength

-------------------------------------------------------------------------------
\* The digits of a number.
IsCut(q, n, k) == q = [i \in 0..k |-> IF i = 0 THEN n ELSE q[i - 1] \div 10]

LEMMA CutExists ==
  ASSUME NEW n, NEW k \in Nat
  PROVE  \E q : IsCut(q, n, k)
<1> DEFINE P == {i \in Nat : \E q : IsCut(q, n, i)}
<1>1. 0 \in P
  <2> DEFINE q == [i \in 0..0 |-> n]
  <2>1. q = [i \in 0..0 |-> IF i = 0 THEN n ELSE q[i - 1] \div 10]
    OBVIOUS
  <2> HIDE DEF q
  <2>2. QED
    BY <2>1 DEF IsCut
<1>2. ASSUME NEW m \in P PROVE m + 1 \in P
  <2>1. PICK g : IsCut(g, n, m)
    OBVIOUS
  <2> DEFINE h == [i \in 0..(m + 1) |-> IF i = 0 THEN n ELSE g[i - 1] \div 10]
  <2>2. \A i \in 0..m : g[i] = h[i]
    BY <2>1 DEF IsCut
  <2>3. \A i \in 0..(m + 1) : h[i] = IF i = 0 THEN n ELSE g[i - 1] \div 10
    OBVIOUS
  <2>4. \A i \in 0..(m + 1) : i # 0 => g[i - 1] = h[i - 1]
    <3>1. \A i \in 0..(m + 1) : i # 0 => i - 1 \in 0..m
      OBVIOUS
    <3>2. QED
      BY <2>2, <3>1
  <2>5. h = [i \in 0..(m + 1) |-> h[i]]
    OBVIOUS
  <2> HIDE DEF h
  <2>6. h = [i \in 0..(m + 1) |-> IF i = 0 THEN n ELSE h[i - 1] \div 10]
    <3>1. \A i \in 0..(m + 1) : h[i] = IF i = 0 THEN n ELSE h[i - 1] \div 10
      BY <2>3, <2>4
    <3>2. QED
      BY <2>5, <3>1
  <2>7. QED
    BY <2>6 DEF IsCut
<1>3. P = Nat
  <2> HIDE DEF P
  <2>1. P \in SUBSET Nat
    BY DEF P
  <2>2. QED
    BY <1>1, <1>2, <2>1, AllNumbers
<1>4. k \in P
  BY <1>3
<1>5. QED
  BY <1>4

LEMMA CutUnfold ==
  ASSUME NEW n, NEW k \in Nat
  PROVE  \E q : IsCut(q, n, k) /\ WithoutLast(n, k) = q[k]
<1> DEFINE q == CHOOSE g : IsCut(g, n, k)
<1>1. IsCut(q, n, k)
  BY CutExists
<1>2. WithoutLast(n, k) = q[k]
  BY DEF WithoutLast, IsCut
<1> HIDE DEF q
<1>3. QED
  BY <1>1, <1>2

LEMMA CutAgrees ==
  ASSUME NEW n, NEW k \in Nat, NEW m \in Nat, k <= m,
         NEW q, NEW p, IsCut(q, n, k), IsCut(p, n, m)
  PROVE  q[k] = p[k]
<1> DEFINE P == {i \in Nat : i <= k => q[i] = p[i]}
<1>0. /\ \A i \in 0..k : q[i] = IF i = 0 THEN n ELSE q[i - 1] \div 10
      /\ \A i \in 0..m : p[i] = IF i = 0 THEN n ELSE p[i - 1] \div 10
  BY DEF IsCut
<1>1. 0 \in P
  BY <1>0
<1>2. ASSUME NEW i \in P PROVE i + 1 \in P
  <2> SUFFICES ASSUME i + 1 <= k PROVE q[i + 1] = p[i + 1]
    OBVIOUS
  <2>1. i + 1 \in 0..k /\ i + 1 \in 0..m /\ (i + 1) - 1 = i /\ i + 1 # 0 /\ i <= k
    OBVIOUS
  <2>2. q[i + 1] = q[i] \div 10 /\ p[i + 1] = p[i] \div 10
    BY <1>0, <2>1
  <2>3. QED
    BY <2>1, <2>2
<1>3. P = Nat
  <2> HIDE DEF P
  <2>1. P \in SUBSET Nat
    BY DEF P
  <2>2. QED
    BY <1>1, <1>2, <2>1, AllNumbers
<1>4. k \in P
  BY <1>3
<1>5. QED
  BY <1>4

LEMMA CutStep ==
  ASSUME NEW n, NEW k \in Nat
  PROVE  WithoutLast(n, k + 1) = WithoutLast(n, k) \div 10
<1>1. PICK q : IsCut(q, n, k) /\ WithoutLast(n, k) = q[k]
  BY CutUnfold
<1>2. k + 1 \in Nat /\ k <= k + 1
  OBVIOUS
<1>3. PICK p : IsCut(p, n, k + 1) /\ WithoutLast(n, k + 1) = p[k + 1]
  BY <1>2, CutUnfold
<1>4. p[k + 1] = p[k] \div 10
  <2>1. k + 1 \in 0..(k + 1) /\ (k + 1) - 1 = k /\ k + 1 # 0
    OBVIOUS
  <2>2. QED
    BY <1>3, <2>1 DEF IsCut
<1>5. q[k] = p[k]
  BY <1>1, <1>2, <1>3, CutAgrees
<1>6. QED
  BY <1>1, <1>3, <1>4, <1>5

LEMMA CutNothing == ASSUME NEW n PROVE WithoutLast(n, 0) = n
<1>1. PICK q : IsCut(q, n, 0) /\ WithoutLast(n, 0) = q[0]
  BY CutUnfold
<1>2. QED
  BY <1>1 DEF IsCut

LEMMA Division ==
  ASSUME NEW n \in Nat
  PROVE  /\ n \div 10 \in Nat /\ n % 10 \in 0..9 /\ n = 10 * (n \div 10) + (n % 10)
OBVIOUS

LEMMA CutIsNumber ==
  ASSUME NEW n \in Nat, NEW k \in Nat
  PROVE  WithoutLast(n, k) \in Nat
<1> DEFINE P == {i \in Nat : WithoutLast(n, i) \in Nat}
<1>1. 0 \in P
  BY CutNothing
<1>2. ASSUME NEW i \in P PROVE i + 1 \in P
  BY CutStep, Division
<1>3. P = Nat
  <2> HIDE DEF P
  <2>1. P \in SUBSET Nat
    BY DEF P
  <2>2. QED
    BY <1>1, <1>2, <2>1, AllNumbers
<1>4. QED
  BY <1>3

LEMMA CutIsMonotone ==
  ASSUME NEW n \in Nat, NEW m \in Nat, n <= m, NEW k \in Nat
  PROVE  WithoutLast(n, k) <= WithoutLast(m, k)
<1> DEFINE P == {i \in Nat : WithoutLast(n, i) <= WithoutLast(m, i)}
<1>1. 0 \in P
  BY CutNothing
<1>2. ASSUME NEW i \in P PROVE i + 1 \in P
  <2> DEFINE a == WithoutLast(n, i)
             b == WithoutLast(m, i)
  <2>1. a \in Nat /\ b \in Nat /\ a <= b
    BY CutIsNumber
  <2>2. WithoutLast(n, i + 1) = a \div 10 /\ WithoutLast(m, i + 1) = b \div 10
    BY CutStep
  <2> HIDE DEF a, b
  <2>3. a \div 10 <= b \div 10
    <3>1. a \div 10 \in Nat /\ a % 10 \in 0..9 /\ a = 10 * (a \div 10) + (a % 10)
      BY <2>1, Division
    <3>2. b \div 10 \in Nat /\ b % 10 \in 0..9 /\ b = 10 * (b \div 10) + (b % 10)
      BY <2>1, Division
    <3>3. QED
      BY <2>1, <3>1, <3>2
  <2>4. QED
    BY <2>2, <2>3
<1>3. P = Nat
  <2> HIDE DEF P
  <2>1. P \in SUBSET Nat
    BY DEF P
  <2>2. QED
    BY <1>1, <1>2, <2>1, AllNumbers
<1>4. QED
  BY <1>3

\* What is equal stays equal when more digits are cut off.
LEMMA CutStaysEqual ==
  ASSUME NEW n \in Nat, NEW m \in Nat, NEW i \in Nat, WithoutLast(n, i) = WithoutLast(m, i),
         NEW k \in Nat, i <= k
  PROVE  WithoutLast(n, k) = WithoutLast(m, k)
<1> DEFINE P == {j \in Nat : i <= j => WithoutLast(n, j) = WithoutLast(m, j)}
<1>1. 0 \in P
  <2>1. i <= 0 => i = 0
    OBVIOUS
  <2>2. QED
    BY <2>1
<1>2. ASSUME NEW j \in P PROVE j + 1 \in P
  <2>1. i <= j + 1 => i <= j \/ i = j + 1
    OBVIOUS
  <2>2. QED
    BY <2>1, CutStep
<1>3. P = Nat
  <2> HIDE DEF P
  <2>1. P \in SUBSET Nat
    BY DEF P
  <2>2. QED
    BY <1>1, <1>2, <2>1, AllNumbers
<1>4. QED
  BY <1>3

LEMMA DigitsAreChars ==
  ASSUME NEW n \in Nat, NEW w \in Nat
  PROVE  /\ Digits(n, w) \in Chars(w)
         /\ \A k \in 1..w : Digits(n, w)[k] \in Zero..Nine
<1>1. \A k \in 1..w : Digits(n, w)[k] = Zero + (WithoutLast(n, w - k) % 10)
  BY DEF Digits
<1>2. \A k \in 1..w : w - k \in Nat
  OBVIOUS
<1>3. \A k \in 1..w : Zero + (WithoutLast(n, w - k) % 10) \in Zero..Nine
  <2> SUFFICES ASSUME NEW k \in 1..w PROVE Zero + (WithoutLast(n, w - k) % 10) \in Zero..Nine
    OBVIOUS
  <2>1. WithoutLast(n, w - k) \in Nat
    BY <1>2, CutIsNumber
  <2>2. WithoutLast(n, w - k) % 10 \in 0..9
    BY <2>1, Division
  <2>3. QED
    BY <2>2 DEF Zero, Nine
<1>4. Digits(n, w) \in [1..w -> Int]
  BY <1>3 DEF Digits, Zero, Nine
<1>5. Digits(n, w) \in Seq(Int) /\ Len(Digits(n, w)) = w
  BY <1>4
<1>6. QED
  BY <1>1, <1>3, <1>5 DEF Chars

LEMMA SmallerDigits ==
  ASSUME NEW w \in Nat, NEW n, NEW m, Fits(n, w), Fits(m, w), n < m
  PROVE  LexLess(Digits(n, w), Digits(m, w))
<1> DEFINE S == {i \in Nat : WithoutLast(n, i) = WithoutLast(m, i)}
<1>0. n \in Nat /\ m \in Nat
  BY DEF Fits
<1>1. w \in S
  BY DEF Fits
<1>2. PICK i \in S : \A j \in S : i <= j
  <2>1. S \in SUBSET Nat
    OBVIOUS
  <2> HIDE DEF S
  <2>2. QED
    BY <1>1, <2>1, SmallestNumber
<1>3. i # 0
  BY <1>0, CutNothing
<1>4. i - 1 \in Nat /\ i - 1 \notin S /\ i <= w /\ (i - 1) + 1 = i
  BY <1>1, <1>2, <1>3
<1> DEFINE a == WithoutLast(n, i - 1)
           b == WithoutLast(m, i - 1)
           k == (w - i) + 1
<1>5. a \in Nat /\ b \in Nat /\ a < b
  <2>1. a \in Nat /\ b \in Nat
    BY <1>0, <1>4, CutIsNumber
  <2>2. a <= b
    BY <1>0, <1>4, CutIsMonotone
  <2>3. a # b
    BY <1>4
  <2> HIDE DEF a, b
  <2>4. QED
    BY <2>1, <2>2, <2>3
<1>6. a \div 10 = b \div 10
  <2>1. WithoutLast(n, i) = a \div 10 /\ WithoutLast(m, i) = b \div 10
    BY <1>4, CutStep
  <2>2. QED
    BY <1>2, <2>1
<1>7. k \in 1..w /\ w - k = i - 1
  BY <1>3, <1>4
<1>8. Digits(n, w)[k] < Digits(m, w)[k]
  <2>1. Digits(n, w)[k] = Zero + (a % 10) /\ Digits(m, w)[k] = Zero + (b % 10)
    BY <1>7 DEF Digits
  <2> HIDE DEF a, b
  <2>2. a % 10 \in 0..9 /\ a = 10 * (a \div 10) + (a % 10) /\ a \div 10 \in Nat
    BY <1>5, Division
  <2>3. b % 10 \in 0..9 /\ b = 10 * (b \div 10) + (b % 10) /\ b \div 10 \in Nat
    BY <1>5, Division
  <2>4. a % 10 < b % 10
    BY <1>5, <1>6, <2>2, <2>3
  <2>5. QED
    BY <2>1, <2>2, <2>3, <2>4 DEF Zero
<1>9. ASSUME NEW j \in 1..(k - 1) PROVE Digits(n, w)[j] = Digits(m, w)[j]
  <2>1. j \in 1..w /\ w - j \in Nat /\ i <= w - j
    BY <1>4, <1>7
  <2>2. WithoutLast(n, w - j) = WithoutLast(m, w - j)
    BY <1>0, <1>2, <2>1, CutStaysEqual
  <2>3. QED
    BY <2>1, <2>2 DEF Digits
<1> HIDE DEF k
<1>10. LessAt(Digits(n, w), Digits(m, w), k)
  BY <1>8, <1>9 DEF LessAt
<1>11. QED
  BY <1>0, <1>7, <1>10, LexSameLength, DigitsAreChars

LEMMA DigitsInOrder ==
  ASSUME NEW w \in Nat, NEW n, NEW m, Fits(n, w), Fits(m, w)
  PROVE  /\ LexLess(Digits(n, w), Digits(m, w)) <=> n < m
         /\ Digits(n, w) = Digits(m, w) <=> n = m
<1>0. n \in Nat /\ m \in Nat
  BY DEF Fits
<1>1. Digits(n, w) \in Chars(w) /\ Digits(m, w) \in Chars(w)
  BY <1>0, DigitsAreChars
<1>2. n < m \/ n = m \/ m < n
  BY <1>0
<1>3. n < m => ~ (m < n) /\ n # m
  BY <1>0
<1>4. n < m => LexLess(Digits(n, w), Digits(m, w))
  BY SmallerDigits
<1>5. m < n => LexLess(Digits(m, w), Digits(n, w))
  BY SmallerDigits
<1>6. QED
  BY <1>0, <1>1, <1>2, <1>3, <1>4, <1>5, LexTotal

-------------------------------------------------------------------------------
\* Numbers with their sign.
LEMMA OneChar ==
  ASSUME NEW c \in Int
  PROVE  <<c>> \in Chars(1) /\ <<c>>[1] = c
<1>1. <<c>> \in Seq(Int) /\ Len(<<c>>) = 1 /\ <<c>>[1] = c
  OBVIOUS
<1>2. QED
  BY <1>1 DEF Chars

LEMMA FirstChar ==
  ASSUME NEW c \in Int, NEW d \in Int, NEW n \in Nat, NEW s \in Chars(n), NEW t \in Chars(n)
  PROVE  /\ <<c>> \o s \in Chars(n + 1)
         /\ c < d => LexLess(<<c>> \o s, <<d>> \o t)
         /\ LexLess(<<c>> \o s, <<c>> \o t) <=> LexLess(s, t)
<1>1. /\ <<c>> \in Chars(1) /\ <<c>>[1] = c
      /\ <<d>> \in Chars(1) /\ <<d>>[1] = d
  BY OneChar
<1>2. 1 \in Nat /\ 1 + n = n + 1
  OBVIOUS
<1>3. <<c>> \o s \in Chars(n + 1)
  <2>1. <<c>> \o s \in Chars(1 + n)
    BY <1>1, <1>2, LexConcat DEF Concatenates
  <2>2. QED
    BY <1>2, <2>1
<1>4. c < d => LexLess(<<c>>, <<d>>)
  <2> SUFFICES ASSUME c < d PROVE LexLess(<<c>>, <<d>>)
    OBVIOUS
  <2>1. LessAt(<<c>>, <<d>>, 1)
    BY <1>1 DEF LessAt
  <2>2. QED
    BY <1>1, <1>2, <2>1, LexSameLength
<1>5. ~LexLess(<<c>>, <<c>>)
  BY <1>1, <1>2, LexTotal
<1>6. c < d => LexLess(<<c>> \o s, <<d>> \o t)
  BY <1>1, <1>2, <1>4, LexConcat DEF Concatenates
<1>7. LexLess(<<c>> \o s, <<c>> \o t) <=> LexLess(s, t)
  <2> DEFINE a == <<c>>
  <2>1. a \in Chars(1) /\ ~LexLess(a, a)
    BY <1>1, <1>5
  <2> HIDE DEF a
  <2>2. LexLess(a \o s, a \o t) <=> (LexLess(a, a) \/ (a = a /\ LexLess(s, t)))
    BY <1>2, <2>1, LexConcat DEF Concatenates
  <2>3. LexLess(a \o s, a \o t) <=> LexLess(s, t)
    BY <2>1, <2>2
  <2>4. QED
    BY <2>3 DEF a
<1>8. QED
  BY <1>3, <1>6, <1>7

Flip(c) == IF c \in Zero..Nine THEN Zero + Nine - c ELSE c

LEMMA FlippedChars ==
  ASSUME NEW n \in Nat, NEW s \in Chars(n)
  PROVE  /\ Flipped(s) \in Chars(n)
         /\ \A k \in 1..n : Flipped(s)[k] = Flip(s[k])
<1>1. DOMAIN s = 1..n
  BY DEF Chars
<1>2. \A k \in 1..n : Flipped(s)[k] = Flip(s[k])
  BY <1>1 DEF Flipped, Flip
<1>3. \A k \in 1..n : Flip(s[k]) \in Int
  BY CharsTyped DEF Flip, Zero, Nine
<1>4. Flipped(s) \in [1..n -> Int]
  BY <1>1, <1>2, <1>3 DEF Flipped
<1>5. Flipped(s) \in Seq(Int) /\ Len(Flipped(s)) = n
  BY <1>4
<1>6. QED
  BY <1>2, <1>5 DEF Chars

LEMMA FlippedFirst ==
  ASSUME NEW n \in Nat, NEW s \in Chars(n)
  PROVE  Flipped(<<Minus>> \o s) = <<Minus>> \o Flipped(s)
<1>0. Minus \in Int /\ Flip(Minus) = Minus /\ n + 1 \in Nat
  BY DEF Minus, Flip, Zero, Nine
<1> DEFINE t == <<Minus>> \o s
           u == <<Minus>> \o Flipped(s)
<1>1. Flipped(s) \in Chars(n) /\ \A k \in 1..n : Flipped(s)[k] = Flip(s[k])
  BY FlippedChars
<1>2. t \in Chars(n + 1) /\ u \in Chars(n + 1)
  BY <1>0, <1>1, FirstChar
<1>3. Flipped(t) \in Chars(n + 1) /\ \A k \in 1..(n + 1) : Flipped(t)[k] = Flip(t[k])
  BY <1>0, <1>2, FlippedChars
<1>4. t[1] = Minus /\ u[1] = Minus
  BY <1>0, <1>1 DEF Chars
<1>5. \A k \in 1..n : t[k + 1] = s[k] /\ u[k + 1] = Flipped(s)[k]
  BY <1>0, <1>1 DEF Chars
<1> HIDE DEF t, u
<1>6. ASSUME NEW k \in 1..(n + 1) PROVE Flipped(t)[k] = u[k]
  <2>1. CASE k = 1
    BY <1>0, <1>3, <1>4, <2>1
  <2>2. CASE k # 1
    <3>1. k - 1 \in 1..n /\ (k - 1) + 1 = k
      BY <2>2
    <3>2. t[k] = s[k - 1] /\ u[k] = Flipped(s)[k - 1]
      BY <1>5, <3>1
    <3>3. QED
      BY <1>1, <1>3, <3>1, <3>2
  <2>3. QED
    BY <2>1, <2>2
<1>7. Flipped(t) = u
  <2> DEFINE v == Flipped(t)
  <2>1. v \in Seq(Int) /\ u \in Seq(Int) /\ Len(v) = n + 1 /\ Len(u) = n + 1
    BY <1>2, <1>3 DEF Chars
  <2>2. \A k \in 1..(n + 1) : v[k] = u[k]
    BY <1>6
  <2> HIDE DEF v
  <2>3. v = u
    BY <2>1, <2>2
  <2>4. QED
    BY <2>3 DEF v
<1>8. QED
  BY <1>7 DEF t, u

\* The digits of negative numbers.
LEMMA FlippedDigits ==
  ASSUME NEW w \in Nat, NEW n, NEW m, Fits(n, w), Fits(m, w)
  PROVE  LexLess(Flipped(Digits(n, w)), Flipped(Digits(m, w))) <=> m < n
<1> DEFINE a == Digits(n, w)
           b == Digits(m, w)
<1>1. a \in Chars(w) /\ b \in Chars(w)
      /\ \A k \in 1..w : a[k] \in Zero..Nine /\ b[k] \in Zero..Nine
  BY DigitsAreChars DEF Fits
<1>2. LexLess(b, a) <=> m < n
  BY DigitsInOrder
<1> HIDE DEF a, b
<1>3. /\ Flipped(a) \in Chars(w) /\ \A k \in 1..w : Flipped(a)[k] = Flip(a[k])
      /\ Flipped(b) \in Chars(w) /\ \A k \in 1..w : Flipped(b)[k] = Flip(b[k])
  BY <1>1, FlippedChars
<1>4. ASSUME NEW k \in 1..w
      PROVE  /\ b[k] = a[k] <=> Flipped(b)[k] = Flipped(a)[k]
             /\ b[k] < a[k] <=> Flipped(a)[k] < Flipped(b)[k]
  BY <1>1, <1>3 DEF Flip, Zero, Nine
<1>5. LexLess(b, a) <=> LexLess(Flipped(a), Flipped(b))
  BY <1>1, <1>3, <1>4, LexOpposite
<1>6. QED
  BY <1>2, <1>5 DEF a, b

\* What is formatted for a number below zero: its magnitude, or, as it has none, the
\* smallest integer itself.
MagnitudeOf(n, a, w) ==
  \/ a = -n /\ Fits(a, w)
  \/ a = n /\ Fits(-n, w - 1)

LEMMA PaddedChars ==
  ASSUME NEW w \in Nat \ {0}, NEW n \in Int, n < 0, NEW a, MagnitudeOf(n, a, w)
  PROVE  Padded(a, w) \in Chars(w) /\ Flipped(Padded(a, w)) \in Chars(w)
<1>1. CASE a = -n /\ Fits(a, w)
  <2>1. Padded(a, w) = Digits(a, w) /\ a \in Nat
    BY <1>1 DEF Padded, Fits
  <2>2. QED
    BY <2>1, DigitsAreChars, FlippedChars
<1>2. CASE a = n /\ Fits(-n, w - 1)
  <2>1. Padded(a, w) = <<Minus>> \o Digits(-n, w - 1) /\ w - 1 \in Nat /\ (w - 1) + 1 = w
        /\ -n \in Nat /\ Minus \in Int
    BY <1>2 DEF Padded, Fits, Minus
  <2>2. Digits(-n, w - 1) \in Chars(w - 1)
    BY <2>1, DigitsAreChars
  <2>3. Padded(a, w) \in Chars((w - 1) + 1)
    BY <2>1, <2>2, FirstChar
  <2>4. Padded(a, w) \in Chars(w)
    BY <2>1, <2>3
  <2>5. QED
    BY <2>4, FlippedChars
<1>3. QED
  BY <1>1, <1>2 DEF MagnitudeOf

LEMMA SmallerNegative ==
  ASSUME NEW w \in Nat \ {0}, NEW n \in Int, NEW m \in Int, n < m, m < 0,
         NEW a, MagnitudeOf(n, a, w), Fits(-m, w)
  PROVE  LexLess(Flipped(Padded(a, w)), Flipped(Padded(-m, w)))
<1>0. Padded(-m, w) = Digits(-m, w) /\ -m \in Nat
  BY DEF Padded
<1>1. CASE a = -n /\ Fits(a, w)
  <2>1. Padded(a, w) = Digits(-n, w) /\ -m < -n /\ Fits(-n, w)
    BY <1>1 DEF Padded, Fits
  <2>2. QED
    BY <1>0, <2>1, FlippedDigits
<1>2. CASE a = n /\ Fits(-n, w - 1)
  <2>1. Padded(a, w) = <<Minus>> \o Digits(-n, w - 1) /\ w - 1 \in Nat /\ -n \in Nat /\ Minus \in Int
    BY <1>2 DEF Padded, Minus
  <2>2. Digits(-n, w - 1) \in Chars(w - 1)
    BY <2>1, DigitsAreChars
  <2>3. Flipped(Padded(a, w)) = <<Minus>> \o Flipped(Digits(-n, w - 1))
    BY <2>1, <2>2, FlippedFirst
  <2>4. Flipped(Digits(-n, w - 1)) \in Chars(w - 1)
    BY <2>1, <2>2, FlippedChars
  <2>5. Flipped(Padded(a, w))[1] = Minus
    <3>1. \A u \in Seq(Int) : (<<Minus>> \o u)[1] = Minus
      BY <2>1
    <3>2. Flipped(Digits(-n, w - 1)) \in Seq(Int)
      BY <2>4 DEF Chars
    <3>3. QED
      BY <2>3, <3>1, <3>2
  <2>6. Flipped(Digits(-m, w)) \in Chars(w) /\ 1 \in 1..w
        /\ Flipped(Digits(-m, w))[1] = Flip(Digits(-m, w)[1])
        /\ Digits(-m, w)[1] \in Zero..Nine
    BY <1>0, DigitsAreChars, FlippedChars
  <2>7. Minus < Flip(Digits(-m, w)[1])
    BY <2>6 DEF Flip, Minus, Zero, Nine
  <2>8. LessAt(Flipped(Padded(a, w)), Flipped(Digits(-m, w)), 1)
    BY <2>5, <2>6, <2>7 DEF LessAt
  <2>9. Flipped(Padded(a, w)) \in Chars(w)
    <3>1. n < 0
      OBVIOUS
    <3>2. QED
      BY <3>1, PaddedChars
  <2>10. QED
    BY <1>0, <2>6, <2>8, <2>9, LexSameLength
<1>3. QED
  BY <1>1, <1>2 DEF MagnitudeOf

\* a is what is formatted for n.
Formatted(n, a, w) ==
  n \in Int /\ IF n >= 0 THEN a = n /\ Fits(n, w) ELSE MagnitudeOf(n, a, w)

LEMMA SignedKeyParts ==
  ASSUME NEW w \in Nat \ {0}, NEW n, NEW a, Formatted(n, a, w)
  PROVE  /\ SignedKey(n, a, w) \in Chars(w + 1)
         /\ n >= 0 => /\ SignedKey(n, a, w) = <<Zero>> \o Digits(n, w)
                      /\ Digits(n, w) \in Chars(w)
         /\ n < 0 => /\ SignedKey(n, a, w) = <<Minus>> \o Flipped(Padded(a, w))
                     /\ Flipped(Padded(a, w)) \in Chars(w)
<1>0. n \in Int /\ Zero \in Int /\ Minus \in Int /\ w \in Nat
  BY DEF Formatted, Zero, Minus
<1>1. CASE n >= 0
  <2>1. a = n /\ n \in Nat /\ ~ (n < 0)
    BY <1>0, <1>1 DEF Formatted
  <2>2. SignedKey(n, a, w) = <<Zero>> \o Digits(n, w)
    BY <1>1, <2>1 DEF SignedKey, Padded
  <2>3. Digits(n, w) \in Chars(w)
    BY <1>0, <2>1, DigitsAreChars
  <2>4. <<Zero>> \o Digits(n, w) \in Chars(w + 1)
    BY <1>0, <2>3, FirstChar
  <2>5. QED
    BY <2>1, <2>2, <2>3, <2>4
<1>2. CASE ~ (n >= 0)
  <2>1. n < 0 /\ MagnitudeOf(n, a, w)
    BY <1>0, <1>2 DEF Formatted
  <2>2. Padded(a, w) \in Chars(w) /\ Flipped(Padded(a, w)) \in Chars(w)
    BY <1>0, <2>1, PaddedChars
  <2>3. SignedKey(n, a, w) = <<Minus>> \o Flipped(Padded(a, w))
    BY <1>0, <1>2, <2>2, FlippedFirst DEF SignedKey
  <2>4. <<Minus>> \o Flipped(Padded(a, w)) \in Chars(w + 1)
    BY <1>0, <2>2, FirstChar
  <2>5. QED
    BY <1>2, <2>2, <2>3, <2>4
<1>3. QED
  BY <1>1, <1>2

LEMMA SmallerSigned ==
  ASSUME NEW w \in Nat \ {0}, NEW n, NEW a, Formatted(n, a, w),
         NEW m, NEW b, Formatted(m, b, w), n < m, m < 0 => b = -m
  PROVE  LexLess(SignedKey(n, a, w), SignedKey(m, b, w))
<1>0. n \in Int /\ m \in Int /\ Zero \in Int /\ Minus \in Int /\ Minus < Zero /\ w \in Nat
  BY DEF Formatted, Zero, Minus
<1>1. CASE n >= 0
  <2>1. m >= 0 /\ Fits(n, w) /\ Fits(m, w)
    BY <1>0, <1>1 DEF Formatted
  <2>2. LexLess(Digits(n, w), Digits(m, w))
    BY <1>0, <2>1, SmallerDigits
  <2>3. /\ SignedKey(n, a, w) = <<Zero>> \o Digits(n, w) /\ Digits(n, w) \in Chars(w)
        /\ SignedKey(m, b, w) = <<Zero>> \o Digits(m, w) /\ Digits(m, w) \in Chars(w)
    BY <1>1, <2>1, SignedKeyParts
  <2>4. LexLess(<<Zero>> \o Digits(n, w), <<Zero>> \o Digits(m, w))
    BY <1>0, <2>2, <2>3, FirstChar
  <2>5. QED
    BY <2>3, <2>4
<1>2. CASE n < 0 /\ m >= 0
  <2>1. /\ SignedKey(n, a, w) = <<Minus>> \o Flipped(Padded(a, w))
        /\ Flipped(Padded(a, w)) \in Chars(w)
        /\ SignedKey(m, b, w) = <<Zero>> \o Digits(m, w) /\ Digits(m, w) \in Chars(w)
    BY <1>2, SignedKeyParts
  <2>2. LexLess(<<Minus>> \o Flipped(Padded(a, w)), <<Zero>> \o Digits(m, w))
    BY <1>0, <2>1, FirstChar
  <2>3. QED
    BY <2>1, <2>2
<1>3. CASE n < 0 /\ m < 0
  <2>1. MagnitudeOf(n, a, w) /\ MagnitudeOf(m, b, w) /\ b = -m
    BY <1>0, <1>3 DEF Formatted
  <2>2. Fits(-m, w)
    <3>1. -m # m
      BY <1>0, <1>3
    <3>2. QED
      BY <2>1, <3>1 DEF MagnitudeOf
  <2>3. LexLess(Flipped(Padded(a, w)), Flipped(Padded(b, w)))
    BY <1>0, <1>3, <2>1, <2>2, SmallerNegative
  <2>4. /\ SignedKey(n, a, w) = <<Minus>> \o Flipped(Padded(a, w))
        /\ Flipped(Padded(a, w)) \in Chars(w)
        /\ SignedKey(m, b, w) = <<Minus>> \o Flipped(Padded(b, w))
        /\ Flipped(Padded(b, w)) \in Chars(w)
    BY <1>3, SignedKeyParts
  <2>5. LexLess(<<Minus>> \o Flipped(Padded(a, w)), <<Minus>> \o Flipped(Padded(b, w)))
    BY <1>0, <2>3, <2>4, FirstChar
  <2>6. QED
    BY <2>4, <2>5
<1>4. QED
  BY <1>0, <1>1, <1>2, <1>3

LEMMA SignedInOrder ==
  ASSUME NEW w \in Nat \ {0}, NEW n, NEW a, Formatted(n, a, w),
         NEW m, NEW b, Formatted(m, b, w),
         n < m /\ m < 0 => b = -m, m < n /\ n < 0 => a = -n, n = m => a = b
  PROVE  /\ SignedKey(n, a, w) \in Chars(w + 1) /\ SignedKey(m, b, w) \in Chars(w + 1)
         /\ LexLess(SignedKey(n, a, w), SignedKey(m, b, w)) <=> n < m
<1>0. n \in Int /\ m \in Int /\ w + 1 \in Nat
  BY DEF Formatted
<1>1. SignedKey(n, a, w) \in Chars(w + 1) /\ SignedKey(m, b, w) \in Chars(w + 1)
  BY SignedKeyParts
<1>2. n < m => LexLess(SignedKey(n, a, w), SignedKey(m, b, w))
  BY SmallerSigned
<1>3. m < n => LexLess(SignedKey(m, b, w), SignedKey(n, a, w))
  BY SmallerSigned
<1>4. n = m => SignedKey(n, a, w) = SignedKey(m, b, w)
  OBVIOUS
<1>5. n < m \/ n = m \/ m < n
  BY <1>0
<1>6. n < m => ~ (m < n) /\ n # m
  BY <1>0
<1>7. QED
  BY <1>0, <1>1, <1>2, <1>3, <1>4, <1>5, <1>6, LexTotal

-------------------------------------------------------------------------------
\* Strings, padded to one length.
LEMMA LargestNumber ==
  ASSUME NEW n \in Nat, NEW S \in SUBSET (1..n), S # {}
  PROVE  \E k \in S : \A j \in S : j <= k
<1> DEFINE R == {n - k : k \in S}
<1>1. R \in SUBSET Nat /\ R # {}
  <2>1. \A k \in S : n - k \in Nat
    OBVIOUS
  <2>2. R \in SUBSET Nat
    BY <2>1
  <2>3. PICK k \in S : TRUE
    OBVIOUS
  <2>4. n - k \in R
    OBVIOUS
  <2> HIDE DEF R
  <2>5. QED
    BY <2>2, <2>4
<1> HIDE DEF R
<1>2. PICK r \in R : \A q \in R : r <= q
  BY <1>1, SmallestNumber
<1>3. PICK k \in S : r = n - k
  BY DEF R
<1>4. \A j \in S : n - j \in R
  BY DEF R
<1>5. \A j \in S : j <= k
  BY <1>2, <1>3, <1>4
<1>6. QED
  BY <1>5

\* p is a, with spaces up to length n; a has no space at its end.
IsPadded(p, a, n) ==
  /\ p \in Chars(n) /\ a \in Seq(Int) /\ Len(a) <= n
  /\ \A k \in 1..Len(a) : p[k] = a[k] /\ a[k] >= Space
  /\ \A k \in 1..n : k > Len(a) => p[k] = Space
  /\ Len(a) > 0 => a[Len(a)] > Space

LEMMA PaddedInOrder ==
  ASSUME NEW n \in Nat, NEW p, NEW a, IsPadded(p, a, n), NEW q, NEW b, IsPadded(q, b, n)
  PROVE  LexLess(p, q) <=> LexLess(a, b)
<1>0. p \in Chars(n) /\ q \in Chars(n) /\ Len(a) \in 0..n /\ Len(b) \in 0..n /\ Space \in Int
      /\ a \in Seq(Int) /\ b \in Seq(Int)
  BY DEF IsPadded, Space
<1>1. /\ \A k \in 1..Len(a) : p[k] = a[k] /\ a[k] >= Space /\ a[k] \in Int
      /\ \A k \in 1..Len(b) : q[k] = b[k] /\ b[k] >= Space /\ b[k] \in Int
      /\ \A k \in 1..n : k > Len(a) => p[k] = Space
      /\ \A k \in 1..n : k > Len(b) => q[k] = Space
  BY <1>0 DEF IsPadded
<1>2. ASSUME LexLess(p, q) PROVE LexLess(a, b)
  <2>1. PICK k \in 1..n : LessAt(p, q, k)
    BY <1>0, <1>2, LexSameLength
  <2>2. k <= Len(b)
    <3> SUFFICES ASSUME ~ (k <= Len(b)) PROVE FALSE
      OBVIOUS
    <3>1. k > Len(b)
      BY <1>0
    <3>2. q[k] = Space
      BY <1>1, <3>1
    <3>3. k \in 1..Len(a) \/ k > Len(a)
      BY <1>0
    <3>4. p[k] \in Int /\ p[k] >= Space
      BY <1>0, <1>1, <3>3
    <3>5. QED
      BY <1>0, <2>1, <3>2, <3>4 DEF LessAt
  <2>3. CASE k <= Len(a)
    <3>1. k \in 1..Len(b) /\ k \in 1..Len(a) /\ k <= Len(a) + 1
      BY <1>0, <2>2, <2>3
    <3>2. \A i \in 1..(k - 1) : i \in 1..Len(a) /\ i \in 1..Len(b)
      BY <3>1
    <3>3. a[k] < b[k]
      BY <1>1, <2>1, <3>1 DEF LessAt
    <3>4. \A i \in 1..(k - 1) : a[i] = b[i]
      BY <1>1, <2>1, <3>2 DEF LessAt
    <3>5. QED
      BY <3>1, <3>3, <3>4 DEF LexLess
  <2>4. CASE ~ (k <= Len(a))
    <3> DEFINE m == Len(a) + 1
    <3>1. m \in 1..Len(b) /\ m <= Len(a) + 1 /\ ~ (m <= Len(a))
      BY <1>0, <2>2, <2>4
    <3>2. \A i \in 1..(m - 1) : i \in 1..(k - 1) /\ i \in 1..Len(a) /\ i \in 1..Len(b)
      BY <1>0, <2>2, <2>4
    <3> HIDE DEF m
    <3>3. \A i \in 1..(m - 1) : a[i] = b[i]
      BY <1>1, <2>1, <3>2 DEF LessAt
    <3>4. QED
      BY <3>1, <3>3 DEF LexLess
  <2>5. QED
    BY <2>3, <2>4
<1>3. ASSUME LexLess(a, b) PROVE LexLess(p, q)
  <2>1. PICK k \in 1..Len(b) : /\ k <= Len(a) + 1
                               /\ \A i \in 1..(k - 1) : a[i] = b[i]
                               /\ k <= Len(a) => a[k] < b[k]
    BY <1>3 DEF LexLess
  <2>2. k \in 1..n /\ \A i \in 1..(k - 1) : i \in 1..Len(a) /\ i \in 1..Len(b)
    BY <1>0, <2>1
  <2>3. \A i \in 1..(k - 1) : p[i] = q[i]
    BY <1>1, <2>1, <2>2
  <2>4. CASE k <= Len(a)
    <3>1. k \in 1..Len(a)
      BY <1>0, <2>4
    <3>2. LessAt(p, q, k)
      BY <1>1, <2>1, <2>3, <2>4, <3>1 DEF LessAt
    <3>3. QED
      BY <1>0, <2>2, <3>2, LexSameLength
  <2>5. CASE ~ (k <= Len(a))
    <3> DEFINE D == {i \in 1..Len(b) : i >= k /\ b[i] > Space}
    <3>1. Len(b) \in D
      <4>1. Len(b) > 0 /\ Len(b) \in 1..Len(b) /\ Len(b) >= k
        BY <1>0
      <4>2. b[Len(b)] > Space
        BY <4>1 DEF IsPadded
      <4>3. QED
        BY <4>1, <4>2
    <3>2. D \in SUBSET Nat
      OBVIOUS
    <3>3. \A i \in 1..Len(b) : i \in D <=> (i >= k /\ b[i] > Space)
      OBVIOUS
    <3>4. D \subseteq 1..Len(b)
      OBVIOUS
    <3> HIDE DEF D
    <3>5. PICK m \in D : \A i \in D : m <= i
      BY <3>1, <3>2, SmallestNumber
    <3>6. m \in 1..Len(b) /\ m \in 1..n /\ m >= k /\ b[m] > Space /\ k = Len(a) + 1
      BY <1>0, <2>1, <2>5, <3>3, <3>4, <3>5
    <3>7. ASSUME NEW i \in 1..(m - 1) PROVE p[i] = q[i]
      <4>1. CASE i < k
        <5>1. i \in 1..(k - 1)
          BY <4>1
        <5>2. QED
          BY <2>3, <5>1
      <4>2. CASE ~ (i < k)
        <5>1. i \in 1..Len(b) /\ i \in 1..n /\ i >= k /\ i > Len(a) /\ ~ (m <= i)
          BY <1>0, <3>6, <4>2
        <5>2. i \notin D
          BY <3>5, <5>1
        <5>3. b[i] = Space
          <6>1. ~ (b[i] > Space)
            BY <3>3, <5>1, <5>2
          <6>2. b[i] \in Int /\ b[i] >= Space
            BY <1>1, <5>1
          <6>3. QED
            BY <1>0, <6>1, <6>2
        <5>4. QED
          BY <1>1, <5>1, <5>3
      <4>3. QED
        BY <4>1, <4>2
    <3>8. p[m] < q[m]
      <4>1. m > Len(a)
        BY <1>0, <3>6
      <4>2. p[m] = Space /\ q[m] = b[m] /\ b[m] \in Int
        BY <1>1, <3>6, <4>1
      <4>3. QED
        BY <1>0, <3>6, <4>2
    <3>9. LessAt(p, q, m)
      BY <3>7, <3>8 DEF LessAt
    <3>10. QED
      BY <1>0, <3>6, <3>9, LexSameLength
  <2>6. QED
    BY <2>4, <2>5
<1>4. QED
  BY <1>2, <1>3

\* What the key has in place of a character.
Shown(c, comp) == IF comp.ignoreCase THEN Upper(c) ELSE c

LEMMA ShownChar ==
  ASSUME NEW c \in Printable, NEW comp
  PROVE  Shown(c, comp) \in Int /\ Shown(c, comp) >= Space /\ (Shown(c, comp) = Space <=> c = Space)
<1>1. /\ Upper(c) \in Int /\ Upper(c) >= Space /\ (Upper(c) = Space <=> c = Space)
      /\ c \in Int /\ c >= Space
  BY DEF Upper, Space, Printable
<1>2. Shown(c, comp) = Upper(c) \/ Shown(c, comp) = c
  BY DEF Shown
<1>3. QED
  BY <1>1, <1>2

LEMMA KeyIsPadded ==
  ASSUME NEW comp, comp.len \in Nat, NEW s \in Seq(Printable)
  PROVE  IsPadded(StringKey(s, comp), Significant(s, comp), comp.len)
<1> DEFINE l == IF Len(s) < comp.len THEN Len(s) ELSE comp.len
           cut == SubSeq(s, 1, l)
           last == {k \in DOMAIN cut : cut[k] # Space}
           n == IF last = {} THEN 0 ELSE CHOOSE k \in last : \A j \in last : j <= k
           a == [k \in 1..n |-> Shown(cut[k], comp)]
           p == [k \in 1..comp.len |-> IF k > Len(s) THEN Space ELSE Shown(s[k], comp)]
<1>1. l \in Nat /\ l <= Len(s) /\ l <= comp.len /\ Len(s) \in Nat
      /\ (l = Len(s) \/ l = comp.len)
  OBVIOUS
<1> HIDE DEF l
<1>2. Len(cut) = l /\ DOMAIN cut = 1..l /\ \A k \in 1..l : cut[k] = s[k]
  BY <1>1
<1>3. \A k \in 1..Len(s) : s[k] \in Printable
  OBVIOUS
<1>4. last \subseteq 1..l /\ \A k \in 1..l : k \in last <=> s[k] # Space
  BY <1>2
<1> HIDE DEF cut, last
<1>5. /\ n \in 0..l
      /\ n > 0 => n \in last
      /\ \A k \in last : k <= n
  <2>1. CASE last = {}
    BY <1>1, <2>1
  <2>2. CASE last # {}
    <3>1. \E k \in last : \A j \in last : j <= k
      <4>1. last \in SUBSET (1..l)
        BY <1>4
      <4>2. QED
        BY <1>1, <2>2, <4>1, LargestNumber
    <3>2. n \in last /\ \A j \in last : j <= n
      BY <2>2, <3>1
    <3> HIDE DEF n
    <3>3. QED
      BY <1>1, <1>4, <3>2
  <2>3. QED
    BY <2>1, <2>2
<1>6. Significant(s, comp) = a
  BY DEF Significant, Shown, a, n, last, cut, l
<1>7. StringKey(s, comp) = p
  BY DEF StringKey, Shown
<1> HIDE DEF n
<1>8. \A k \in 1..n : k \in 1..l /\ k \in 1..Len(s) /\ k \in 1..comp.len
  BY <1>1, <1>5
<1>9. \A k \in 1..n : a[k] = Shown(s[k], comp)
  BY <1>2, <1>8
<1>10. \A k \in 1..Len(s) : /\ Shown(s[k], comp) \in Int /\ Shown(s[k], comp) >= Space
                            /\ Shown(s[k], comp) = Space <=> s[k] = Space
  BY <1>3, ShownChar
<1>11. a \in Seq(Int) /\ Len(a) = n
  <2>1. n \in Nat
    BY <1>1, <1>5
  <2>2. \A k \in 1..n : Shown(cut[k], comp) \in Int
    BY <1>2, <1>8, <1>10
  <2>3. a \in [1..n -> Int]
    BY <2>2
  <2> HIDE DEF a
  <2>4. QED
    BY <2>1, <2>3
<1>12. p \in Chars(comp.len)
  <2>1. \A k \in 1..comp.len : p[k] = IF k > Len(s) THEN Space ELSE Shown(s[k], comp)
    OBVIOUS
  <2>2. ASSUME NEW k \in 1..comp.len PROVE p[k] \in Int
    <3>1. k > Len(s) \/ k \in 1..Len(s)
      BY <1>1
    <3>2. QED
      BY <1>10, <2>1, <3>1 DEF Space
  <2>3. p \in [1..comp.len -> Int]
    <3>1. DOMAIN p = 1..comp.len /\ p = [k \in 1..comp.len |-> p[k]]
      OBVIOUS
    <3> HIDE DEF p
    <3>2. QED
      BY <2>2, <3>1
  <2> HIDE DEF p
  <2>4. p \in Seq(Int) /\ Len(p) = comp.len
    BY <2>3
  <2>5. QED
    BY <2>4 DEF Chars
<1>13. \A k \in 1..n : p[k] = a[k] /\ a[k] >= Space
  <2> SUFFICES ASSUME NEW k \in 1..n PROVE p[k] = a[k] /\ a[k] >= Space
    OBVIOUS
  <2>1. k \in 1..Len(s) /\ k \in 1..comp.len /\ ~ (k > Len(s))
    BY <1>1, <1>8
  <2>2. p[k] = Shown(s[k], comp)
    BY <2>1
  <2>3. QED
    BY <1>9, <1>10, <2>1, <2>2
<1>14. ASSUME NEW k \in 1..comp.len, k > n PROVE p[k] = Space
  <2>1. CASE k > Len(s)
    BY <2>1
  <2>2. CASE ~ (k > Len(s))
    <3>1. k \in 1..Len(s) /\ k \in 1..l
      BY <1>1, <2>2
    <3>2. k \notin last
      <4>1. ~ (k <= n)
        BY <1>1, <1>5, <1>14
      <4>2. QED
        BY <1>5, <4>1
    <3>3. s[k] = Space
      BY <1>4, <3>1, <3>2
    <3>4. QED
      BY <1>10, <2>2, <3>1, <3>3
  <2>3. QED
    BY <2>1, <2>2
<1>15. n > 0 => a[n] > Space
  <2> SUFFICES ASSUME n > 0 PROVE a[n] > Space
    OBVIOUS
  <2>1. n \in 1..n /\ n \in last
    BY <1>1, <1>5
  <2>2. s[n] # Space /\ n \in 1..Len(s)
    BY <1>4, <1>8, <2>1
  <2>3. a[n] = Shown(s[n], comp)
    BY <1>9, <2>1
  <2>4. a[n] \in Int /\ a[n] >= Space /\ a[n] # Space
    BY <1>10, <2>2, <2>3
  <2>5. QED
    BY <2>4 DEF Space
<1>16. n <= comp.len
  BY <1>1, <1>5
<1> HIDE DEF a, p
<1>17. IsPadded(p, a, comp.len)
  BY <1>11, <1>12, <1>13, <1>14, <1>15, <1>16 DEF IsPadded
<1>18. QED
  BY <1>6, <1>7, <1>17

-------------------------------------------------------------------------------
\* The components of a record.

\* Two values of one type that the formats of the key have room for.
Comparable(x, y, comp) ==
  /\ x.t = y.t
  /\ ValueFits(x, comp) /\ ValueFits(y, comp)

KeyLength(type, comp) ==
  CASE type = "int"              -> Width + 1
    [] type \in {"float", "dec"} -> (Width + 4) + 1
    [] type = "time"             -> Width
    [] type = "string"           -> comp.len
    [] type = "bool"             -> 1

LEMMA FitsInMore ==
  ASSUME NEW n, NEW w \in Nat \ {0}, Fits(n, w - 1)
  PROVE  Fits(n, w)
<1>1. w - 1 \in Nat /\ (w - 1) + 1 = w
  OBVIOUS
<1>2. WithoutLast(n, (w - 1) + 1) = WithoutLast(n, w - 1) \div 10
  BY <1>1, CutStep
<1>3. 0 \div 10 = 0
  OBVIOUS
<1>4. QED
  BY <1>1, <1>2, <1>3 DEF Fits

LEMMA WrapsToItself ==
  ASSUME NEW n \in MinInt..MaxInt
  PROVE  Wrap(n) = n
<1>1. MinInt \in Int /\ MaxInt \in Int
  BY AggregatesAssumption
<1> DEFINE d == n - MinInt
           m == MaxInt - MinInt + 1
<1>2. d \in 0..(m - 1) /\ m \in Nat \ {0}
  BY <1>1, AggregatesAssumption
<1>3. n = MinInt + d
  BY <1>1
<1> HIDE DEF d, m
<1>4. d % m = d
  BY <1>2
<1>5. Wrap(n) = MinInt + (d % m)
  BY DEF Wrap, d, m
<1>6. QED
  BY <1>3, <1>4, <1>5

LEMMA WrapOfSmallest == Wrap(-MinInt) = MinInt
<1>1. MinInt \in Int /\ MinInt < 0 /\ MaxInt = -MinInt - 1
  BY AggregatesAssumption, KeysAssumption
<1> DEFINE m == MaxInt - MinInt + 1
<1>2. m \in Nat \ {0} /\ -MinInt - MinInt = m
  BY <1>1
<1> HIDE DEF m
<1>3. m % m = 0
  BY <1>2
<1>4. Wrap(-MinInt) = MinInt + (m % m)
  BY <1>2 DEF Wrap, m
<1>5. QED
  BY <1>1, <1>3, <1>4

\* What is formatted for an integer.
AbsOf(n) == IF n >= 0 THEN n ELSE Wrap(-n)

LEMMA IntIsFormatted ==
  ASSUME NEW n \in MinInt..MaxInt, Fits(Absolute(n), Width - 1)
  PROVE  /\ Formatted(n, AbsOf(n), Width)
         /\ n < 0 /\ n # MinInt => AbsOf(n) = -n
<1>0. MinInt \in Int /\ MinInt < 0 /\ MaxInt = -MinInt - 1 /\ n \in Int /\ Width \in Nat \ {0}
  BY AggregatesAssumption, KeysAssumption
<1>1. Fits(Absolute(n), Width)
  BY <1>0, FitsInMore
<1>2. CASE n >= 0
  <2>1. ~ (n < 0) /\ AbsOf(n) = n /\ Absolute(n) = n
    BY <1>0, <1>2 DEF AbsOf, Absolute
  <2>2. QED
    BY <1>0, <1>1, <1>2, <2>1 DEF Formatted
<1>3. CASE n < 0 /\ n # MinInt
  <2>1. ~ (n >= 0) /\ -n \in MinInt..MaxInt
    BY <1>0, <1>3
  <2>2. Absolute(n) = -n /\ AbsOf(n) = -n
    BY <2>1, WrapsToItself DEF Absolute, AbsOf
  <2>3. QED
    BY <1>0, <1>1, <2>1, <2>2 DEF Formatted, MagnitudeOf
<1>4. CASE n = MinInt
  <2>1. ~ (n >= 0)
    BY <1>0, <1>4
  <2>2. AbsOf(n) = n /\ Absolute(n) = -n
    BY <1>4, <2>1, WrapOfSmallest DEF AbsOf, Absolute
  <2>3. QED
    BY <1>0, <1>4, <2>1, <2>2 DEF Formatted, MagnitudeOf
<1>5. QED
  BY <1>0, <1>2, <1>3, <1>4

LEMMA IntsInOrder ==
  ASSUME NEW n \in MinInt..MaxInt, Fits(Absolute(n), Width - 1),
         NEW m \in MinInt..MaxInt, Fits(Absolute(m), Width - 1)
  PROVE  /\ SignedKey(n, AbsOf(n), Width) \in Chars(Width + 1)
         /\ SignedKey(m, AbsOf(m), Width) \in Chars(Width + 1)
         /\ LexLess(SignedKey(n, AbsOf(n), Width), SignedKey(m, AbsOf(m), Width)) <=> n < m
<1>0. MinInt \in Int /\ MaxInt \in Int /\ Width \in Nat \ {0}
  BY AggregatesAssumption, KeysAssumption
<1>1. Formatted(n, AbsOf(n), Width) /\ Formatted(m, AbsOf(m), Width)
  BY IntIsFormatted
<1>2. n < m => m # MinInt
  BY <1>0
<1>3. m < n => n # MinInt
  BY <1>0
<1>4. n < m /\ m < 0 => AbsOf(m) = -m
  BY <1>2, IntIsFormatted
<1>5. m < n /\ n < 0 => AbsOf(n) = -n
  BY <1>3, IntIsFormatted
<1>6. n = m => AbsOf(n) = AbsOf(m)
  OBVIOUS
<1> DEFINE a == AbsOf(n)
           b == AbsOf(m)
<1> HIDE DEF a, b
<1>7. /\ Formatted(n, a, Width) /\ Formatted(m, b, Width)
      /\ n < m /\ m < 0 => b = -m
      /\ m < n /\ n < 0 => a = -n
      /\ n = m => a = b
  BY <1>1, <1>4, <1>5, <1>6 DEF a, b
<1>8. /\ SignedKey(n, a, Width) \in Chars(Width + 1) /\ SignedKey(m, b, Width) \in Chars(Width + 1)
      /\ LexLess(SignedKey(n, a, Width), SignedKey(m, b, Width)) <=> n < m
  BY <1>0, <1>7, SignedInOrder
<1>9. QED
  BY <1>8 DEF a, b

LEMMA FractionsInOrder ==
  ASSUME NEW w \in Nat \ {0}, NEW n \in Int, Fits(Absolute(n), w), NEW m \in Int, Fits(Absolute(m), w)
  PROVE  /\ SignedKey(n, Absolute(n), w) \in Chars(w + 1)
         /\ SignedKey(m, Absolute(m), w) \in Chars(w + 1)
         /\ LexLess(SignedKey(n, Absolute(n), w), SignedKey(m, Absolute(m), w)) <=> n < m
<1> DEFINE a == Absolute(n)
           b == Absolute(m)
<1>1. /\ Formatted(n, a, w) /\ Formatted(m, b, w)
      /\ n < 0 => a = -n
      /\ m < 0 => b = -m
      /\ n = m => a = b
  BY DEF Formatted, MagnitudeOf, Absolute
<1> HIDE DEF a, b
<1>2. /\ SignedKey(n, a, w) \in Chars(w + 1) /\ SignedKey(m, b, w) \in Chars(w + 1)
      /\ LexLess(SignedKey(n, a, w), SignedKey(m, b, w)) <=> n < m
  BY <1>1, SignedInOrder
<1>3. QED
  BY <1>2 DEF a, b

LEMMA BoolsInOrder ==
  ASSUME NEW x \in BOOLEAN, NEW y \in BOOLEAN
  PROVE  LET k(b) == IF b THEN <<84>> ELSE <<70>>
         IN k(x) \in Chars(1) /\ k(y) \in Chars(1) /\ (LexLess(k(x), k(y)) <=> ~x /\ y)
<1>1. <<84>> \in Chars(1) /\ <<70>> \in Chars(1) /\ <<84>>[1] = 84 /\ <<70>>[1] = 70 /\ 1 \in Nat
  BY OneChar
<1>2. LexLess(<<70>>, <<84>>)
  <2>1. LessAt(<<70>>, <<84>>, 1)
    BY <1>1 DEF LessAt
  <2>2. QED
    BY <1>1, <2>1, LexSameLength
<1>3. ~LexLess(<<84>>, <<70>>) /\ ~LexLess(<<70>>, <<70>>) /\ ~LexLess(<<84>>, <<84>>)
  BY <1>1, <1>2, LexTotal
<1>4. QED
  BY <1>1, <1>2, <1>3

LEMMA ValuesInOrder ==
  ASSUME NEW x, NEW y, NEW comp, Comparable(x, y, comp)
  PROVE  /\ KeyLength(x.t, comp) \in Nat
         /\ ValueKey(x, comp) \in Chars(KeyLength(x.t, comp))
         /\ ValueKey(y, comp) \in Chars(KeyLength(x.t, comp))
         /\ LexLess(ValueKey(x, comp), ValueKey(y, comp)) <=> ValueBefore(x, y, comp)
<1>0. Width \in Nat \ {0} /\ Width + 4 \in Nat \ {0} /\ Width + 1 \in Nat /\ (Width + 4) + 1 \in Nat
  BY KeysAssumption
<1>1. x.t = y.t /\ ValueFits(x, comp) /\ ValueFits(y, comp)
  BY DEF Comparable
<1>2. CASE x.t = "int"
  <2>1. /\ x.v \in MinInt..MaxInt /\ Fits(Absolute(x.v), Width - 1)
        /\ y.v \in MinInt..MaxInt /\ Fits(Absolute(y.v), Width - 1)
    BY <1>1, <1>2 DEF ValueFits
  <2>2. /\ ValueKey(x, comp) = SignedKey(x.v, AbsOf(x.v), Width)
        /\ ValueKey(y, comp) = SignedKey(y.v, AbsOf(y.v), Width)
    BY <1>1, <1>2 DEF ValueKey, AbsOf
  <2>3. KeyLength(x.t, comp) = Width + 1
    BY <1>2 DEF KeyLength
  <2>4. ValueBefore(x, y, comp) <=> x.v < y.v
    BY <1>2 DEF ValueBefore
  <2>5. QED
    BY <1>0, <2>1, <2>2, <2>3, <2>4, IntsInOrder
<1>3. CASE x.t \in {"float", "dec"}
  <2>1. /\ x.v \in Int /\ Fits(Absolute(x.v), Width + 4)
        /\ y.v \in Int /\ Fits(Absolute(y.v), Width + 4)
    BY <1>1, <1>3 DEF ValueFits
  <2>2. /\ ValueKey(x, comp) = SignedKey(x.v, Absolute(x.v), Width + 4)
        /\ ValueKey(y, comp) = SignedKey(y.v, Absolute(y.v), Width + 4)
    BY <1>1, <1>3 DEF ValueKey, Absolute
  <2>3. KeyLength(x.t, comp) = (Width + 4) + 1
    BY <1>3 DEF KeyLength
  <2>4. ValueBefore(x, y, comp) <=> x.v < y.v
    BY <1>3 DEF ValueBefore
  <2>5. QED
    BY <1>0, <2>1, <2>2, <2>3, <2>4, FractionsInOrder
<1>4. CASE x.t = "time"
  <2>1. Fits(x.v, Width) /\ Fits(y.v, Width) /\ x.v \in Nat /\ y.v \in Nat
    BY <1>1, <1>4 DEF ValueFits, Fits
  <2>2. /\ ValueKey(x, comp) = Digits(x.v, Width)
        /\ ValueKey(y, comp) = Digits(y.v, Width)
    BY <1>1, <1>4, <2>1 DEF ValueKey, Padded
  <2>3. KeyLength(x.t, comp) = Width
    BY <1>4 DEF KeyLength
  <2>4. ValueBefore(x, y, comp) <=> x.v < y.v
    BY <1>4 DEF ValueBefore
  <2>5. QED
    BY <1>0, <2>1, <2>2, <2>3, <2>4, DigitsInOrder, DigitsAreChars
<1>5. CASE x.t = "string"
  <2>1. x.v \in Seq(Printable) /\ y.v \in Seq(Printable) /\ comp.len \in Nat
    BY <1>1, <1>5 DEF ValueFits
  <2>2. ValueKey(x, comp) = StringKey(x.v, comp) /\ ValueKey(y, comp) = StringKey(y.v, comp)
    BY <1>1, <1>5 DEF ValueKey
  <2>3. KeyLength(x.t, comp) = comp.len
    BY <1>5 DEF KeyLength
  <2>4. ValueBefore(x, y, comp) <=> LexLess(Significant(x.v, comp), Significant(y.v, comp))
    BY <1>5 DEF ValueBefore
  <2>5. /\ IsPadded(StringKey(x.v, comp), Significant(x.v, comp), comp.len)
        /\ IsPadded(StringKey(y.v, comp), Significant(y.v, comp), comp.len)
    BY <2>1, KeyIsPadded
  <2>6. StringKey(x.v, comp) \in Chars(comp.len) /\ StringKey(y.v, comp) \in Chars(comp.len)
    BY <2>5 DEF IsPadded
  <2>7. LexLess(StringKey(x.v, comp), StringKey(y.v, comp))
          <=> LexLess(Significant(x.v, comp), Significant(y.v, comp))
    BY <2>1, <2>5, PaddedInOrder
  <2>8. QED
    BY <2>1, <2>2, <2>3, <2>4, <2>6, <2>7
<1>6. CASE x.t = "bool"
  <2>1. x.v \in BOOLEAN /\ y.v \in BOOLEAN
    BY <1>1, <1>6 DEF ValueFits
  <2>2. /\ ValueKey(x, comp) = IF x.v THEN <<84>> ELSE <<70>>
        /\ ValueKey(y, comp) = IF y.v THEN <<84>> ELSE <<70>>
    BY <1>1, <1>6 DEF ValueKey
  <2>3. KeyLength(x.t, comp) = 1
    BY <1>6 DEF KeyLength
  <2>4. ValueBefore(x, y, comp) <=> ~x.v /\ y.v
    BY <1>6 DEF ValueBefore
  <2>5. QED
    BY <2>1, <2>2, <2>3, <2>4, BoolsInOrder
<1>7. QED
  BY <1>1, <1>2, <1>3, <1>4, <1>5, <1>6 DEF ValueFits

LEMMA InvertedChars ==
  ASSUME NEW n \in Nat, NEW s \in Chars(n)
  PROVE  Inverted(s) \in Chars(n) /\ \A k \in 1..n : Inverted(s)[k] = 255 - s[k]
<1>1. DOMAIN s = 1..n
  BY DEF Chars
<1>2. \A k \in 1..n : Inverted(s)[k] = 255 - s[k] /\ 255 - s[k] \in Int
  BY <1>1, CharsTyped DEF Inverted
<1>3. Inverted(s) \in [1..n -> Int]
  BY <1>1, <1>2 DEF Inverted
<1>4. Inverted(s) \in Seq(Int) /\ Len(Inverted(s)) = n
  BY <1>3
<1>5. QED
  BY <1>2, <1>4 DEF Chars

LEMMA InvertedInOrder ==
  ASSUME NEW n \in Nat, NEW s \in Chars(n), NEW t \in Chars(n)
  PROVE  LexLess(Inverted(s), Inverted(t)) <=> LexLess(t, s)
<1>1. /\ Inverted(s) \in Chars(n) /\ \A k \in 1..n : Inverted(s)[k] = 255 - s[k]
      /\ Inverted(t) \in Chars(n) /\ \A k \in 1..n : Inverted(t)[k] = 255 - t[k]
  BY InvertedChars
<1>2. \A k \in 1..n : s[k] \in Int /\ t[k] \in Int
  BY CharsTyped
<1>3. \A k \in 1..n : /\ t[k] = s[k] <=> Inverted(t)[k] = Inverted(s)[k]
                      /\ t[k] < s[k] <=> Inverted(s)[k] < Inverted(t)[k]
  BY <1>1, <1>2
<1>4. QED
  BY <1>1, <1>3, LexOpposite

\* One record before another in a component.
Prior(r, q, comp) ==
  IF comp.desc THEN ValueBefore(q[comp.name], r[comp.name], comp)
  ELSE ValueBefore(r[comp.name], q[comp.name], comp)

ComparableIn(r, q, comp) == Comparable(r[comp.name], q[comp.name], comp)

LEMMA ComponentsInOrder ==
  ASSUME NEW r, NEW q, NEW comp, ComparableIn(r, q, comp)
  PROVE  \E n \in Nat :
           /\ ComponentKey(r, comp) \in Chars(n) /\ ComponentKey(q, comp) \in Chars(n)
           /\ LexLess(ComponentKey(r, comp), ComponentKey(q, comp)) <=> Prior(r, q, comp)
           /\ LexLess(ComponentKey(q, comp), ComponentKey(r, comp)) <=> Prior(q, r, comp)
<1> DEFINE x == r[comp.name]
           y == q[comp.name]
           n == KeyLength(x.t, comp)
<1>1. Comparable(x, y, comp) /\ Comparable(y, x, comp) /\ y.t = x.t
  BY DEF ComparableIn, Comparable
<1>2. /\ ComponentKey(r, comp) = IF comp.desc THEN Inverted(ValueKey(x, comp)) ELSE ValueKey(x, comp)
      /\ ComponentKey(q, comp) = IF comp.desc THEN Inverted(ValueKey(y, comp)) ELSE ValueKey(y, comp)
  BY DEF ComponentKey
<1>3. /\ Prior(r, q, comp) = IF comp.desc THEN ValueBefore(y, x, comp) ELSE ValueBefore(x, y, comp)
      /\ Prior(q, r, comp) = IF comp.desc THEN ValueBefore(x, y, comp) ELSE ValueBefore(y, x, comp)
  BY DEF Prior
<1> HIDE DEF x, y
<1>4. /\ n \in Nat /\ ValueKey(x, comp) \in Chars(n) /\ ValueKey(y, comp) \in Chars(n)
      /\ LexLess(ValueKey(x, comp), ValueKey(y, comp)) <=> ValueBefore(x, y, comp)
      /\ LexLess(ValueKey(y, comp), ValueKey(x, comp)) <=> ValueBefore(y, x, comp)
  BY <1>1, ValuesInOrder
<1> HIDE DEF n
<1>5. /\ Inverted(ValueKey(x, comp)) \in Chars(n) /\ Inverted(ValueKey(y, comp)) \in Chars(n)
      /\ LexLess(Inverted(ValueKey(x, comp)), Inverted(ValueKey(y, comp))) <=> ValueBefore(y, x, comp)
      /\ LexLess(Inverted(ValueKey(y, comp)), Inverted(ValueKey(x, comp))) <=> ValueBefore(x, y, comp)
  BY <1>4, InvertedChars, InvertedInOrder
<1>6. CASE comp.desc
  BY <1>2, <1>3, <1>4, <1>5, <1>6
<1>7. CASE ~comp.desc
  BY <1>2, <1>3, <1>4, <1>7
<1>8. QED
  BY <1>6, <1>7

\* The key of the first components.
Longer(key, rec, comp) == key \o ComponentKey(rec, comp)
IsKey(s, rec, comps, n) ==
  s = [k \in 0..n |-> IF k = 0 THEN <<>> ELSE Longer(s[k - 1], rec, comps[k])]

LEMMA KeyExists ==
  ASSUME NEW rec, NEW comps, NEW n \in Nat
  PROVE  \E s : IsKey(s, rec, comps, n)
<1> DEFINE P == {m \in Nat : \E s : IsKey(s, rec, comps, m)}
<1>1. 0 \in P
  <2> DEFINE s == [i \in 0..0 |-> <<>>]
  <2>1. s = [i \in 0..0 |-> IF i = 0 THEN <<>> ELSE Longer(s[i - 1], rec, comps[i])]
    OBVIOUS
  <2> HIDE DEF s
  <2>2. QED
    BY <2>1 DEF IsKey
<1>2. ASSUME NEW m \in P PROVE m + 1 \in P
  <2>1. PICK g : IsKey(g, rec, comps, m)
    OBVIOUS
  <2> DEFINE h == [i \in 0..(m + 1) |-> IF i = 0 THEN <<>> ELSE Longer(g[i - 1], rec, comps[i])]
  <2>2. \A i \in 0..m : g[i] = h[i]
    BY <2>1 DEF IsKey
  <2>3. \A i \in 0..(m + 1) : h[i] = IF i = 0 THEN <<>> ELSE Longer(g[i - 1], rec, comps[i])
    OBVIOUS
  <2>4. \A i \in 0..(m + 1) : i # 0 => g[i - 1] = h[i - 1]
    <3>1. \A i \in 0..(m + 1) : i # 0 => i - 1 \in 0..m
      OBVIOUS
    <3>2. QED
      BY <2>2, <3>1
  <2>5. h = [i \in 0..(m + 1) |-> h[i]]
    OBVIOUS
  <2> HIDE DEF h
  <2>6. h = [i \in 0..(m + 1) |-> IF i = 0 THEN <<>> ELSE Longer(h[i - 1], rec, comps[i])]
    <3>1. \A i \in 0..(m + 1) : h[i] = IF i = 0 THEN <<>> ELSE Longer(h[i - 1], rec, comps[i])
      BY <2>3, <2>4
    <3>2. QED
      BY <2>5, <3>1
  <2>7. QED
    BY <2>6 DEF IsKey
<1>3. P = Nat
  <2> HIDE DEF P
  <2>1. P \in SUBSET Nat
    BY DEF P
  <2>2. QED
    BY <1>1, <1>2, <2>1, AllNumbers
<1>4. n \in P
  BY <1>3
<1>5. QED
  BY <1>4

LEMMA KeyUnfold ==
  ASSUME NEW rec, NEW comps, Len(comps) \in Nat
  PROVE  \E s : IsKey(s, rec, comps, Len(comps)) /\ BuildKey(rec, comps) = s[Len(comps)]
<1> DEFINE s == CHOOSE g : IsKey(g, rec, comps, Len(comps))
<1>1. \E g : IsKey(g, rec, comps, Len(comps))
  BY KeyExists
<1>2. IsKey(s, rec, comps, Len(comps))
  BY <1>1
<1>3. BuildKey(rec, comps) = s[Len(comps)]
  BY DEF BuildKey, IsKey, Longer
<1> HIDE DEF s
<1>4. QED
  BY <1>2, <1>3

\* r comes before q, or is like q, as far as the first k components tell.
BeforeIn(r, q, comps, k) ==
  \E j \in 1..k :
    /\ Prior(r, q, comps[j])
    /\ \A c \in 1..(j - 1) : ~Prior(r, q, comps[c]) /\ ~Prior(q, r, comps[c])
SameIn(r, q, comps, k) == \A c \in 1..k : ~Prior(r, q, comps[c]) /\ ~Prior(q, r, comps[c])

\* s and t are of one length and compare as the records do.
KeysAgree(s, t, r, q, comps, k) ==
  \E n \in Nat :
    /\ s \in Chars(n) /\ t \in Chars(n)
    /\ LexLess(s, t) <=> BeforeIn(r, q, comps, k)
    /\ s = t <=> SameIn(r, q, comps, k)

LEMMA OneMoreComponent ==
  ASSUME NEW k \in Nat, NEW r, NEW q, NEW comps, NEW s, NEW t, KeysAgree(s, t, r, q, comps, k),
         ComparableIn(r, q, comps[k + 1])
  PROVE  KeysAgree(s \o ComponentKey(r, comps[k + 1]), t \o ComponentKey(q, comps[k + 1]),
                   r, q, comps, k + 1)
<1>1. PICK n \in Nat : /\ s \in Chars(n) /\ t \in Chars(n)
                       /\ LexLess(s, t) <=> BeforeIn(r, q, comps, k)
                       /\ s = t <=> SameIn(r, q, comps, k)
  BY DEF KeysAgree
<1> DEFINE x == ComponentKey(r, comps[k + 1])
           y == ComponentKey(q, comps[k + 1])
           before == Prior(r, q, comps[k + 1])
           after == Prior(q, r, comps[k + 1])
<1>2. PICK m \in Nat : /\ x \in Chars(m) /\ y \in Chars(m)
                       /\ LexLess(x, y) <=> before
                       /\ LexLess(y, x) <=> after
  BY ComponentsInOrder
<1>3. x = y <=> ~before /\ ~after
  <2> HIDE DEF x, y
  <2>1. /\ x = y \/ LexLess(x, y) \/ LexLess(y, x)
        /\ LexLess(x, y) => x # y
        /\ LexLess(y, x) => y # x
    BY <1>2, LexTotal
  <2>2. QED
    BY <1>2, <2>1
<1>4. BeforeIn(r, q, comps, k + 1) <=> (BeforeIn(r, q, comps, k) \/ (SameIn(r, q, comps, k) /\ before))
  <2>1. \A j \in 1..(k + 1) : j \in 1..k \/ j = k + 1
    OBVIOUS
  <2>2. \A j \in 1..k : j \in 1..(k + 1)
    OBVIOUS
  <2>3. k + 1 \in 1..(k + 1) /\ (k + 1) - 1 = k
    OBVIOUS
  <2>4. QED
    BY <2>1, <2>2, <2>3 DEF BeforeIn, SameIn
<1>5. SameIn(r, q, comps, k + 1) <=> (SameIn(r, q, comps, k) /\ ~before /\ ~after)
  <2>1. \A j \in 1..(k + 1) : j \in 1..k \/ j = k + 1
    OBVIOUS
  <2>2. \A j \in 1..k : j \in 1..(k + 1)
    OBVIOUS
  <2>3. k + 1 \in 1..(k + 1)
    OBVIOUS
  <2>4. QED
    BY <2>1, <2>2, <2>3 DEF SameIn
<1> HIDE DEF x, y, before, after
<1>6. n + m \in Nat
  OBVIOUS
<1>7. /\ s \o x \in Chars(n + m) /\ t \o y \in Chars(n + m)
      /\ LexLess(s \o x, t \o y) <=> (LexLess(s, t) \/ (s = t /\ LexLess(x, y)))
      /\ s \o x = t \o y <=> (s = t /\ x = y)
  <2>1. Concatenates(n, s, t, m, x, y)
    BY <1>1, <1>2, LexConcat
  <2>2. QED
    BY <2>1 DEF Concatenates
<1>8. /\ LexLess(s \o x, t \o y) <=> BeforeIn(r, q, comps, k + 1)
      /\ s \o x = t \o y <=> SameIn(r, q, comps, k + 1)
  BY <1>1, <1>2, <1>3, <1>4, <1>5, <1>7
<1>9. KeysAgree(s \o x, t \o y, r, q, comps, k + 1)
  BY <1>6, <1>7, <1>8 DEF KeysAgree
<1>10. QED
  BY <1>9 DEF x, y

LEMMA NoComponent == ASSUME NEW r, NEW q, NEW comps PROVE KeysAgree(<<>>, <<>>, r, q, comps, 0)
<1>1. <<>> \in Chars(0) /\ 0 \in Nat
  BY DEF Chars
<1>2. ~LexLess(<<>>, <<>>)
  BY <1>1, LexTotal
<1>3. ~BeforeIn(r, q, comps, 0) /\ SameIn(r, q, comps, 0)
  BY DEF BeforeIn, SameIn
<1>4. QED
  BY <1>1, <1>2, <1>3 DEF KeysAgree

LEMMA KeysAgreeUpTo ==
  ASSUME NEW r, NEW q, NEW comps, Len(comps) \in Nat,
         \A k \in 1..Len(comps) : ComparableIn(r, q, comps[k])
  PROVE  KeysAgree(BuildKey(r, comps), BuildKey(q, comps), r, q, comps, Len(comps))
<1> DEFINE n == Len(comps)
<1>1. PICK s : IsKey(s, r, comps, n) /\ BuildKey(r, comps) = s[n]
  BY KeyUnfold
<1>2. PICK t : IsKey(t, q, comps, n) /\ BuildKey(q, comps) = t[n]
  BY KeyUnfold
<1>3. \A k \in 0..n : /\ s[k] = IF k = 0 THEN <<>> ELSE s[k - 1] \o ComponentKey(r, comps[k])
                      /\ t[k] = IF k = 0 THEN <<>> ELSE t[k - 1] \o ComponentKey(q, comps[k])
  BY <1>1, <1>2 DEF IsKey, Longer
<1> DEFINE P == {k \in Nat : k <= n => KeysAgree(s[k], t[k], r, q, comps, k)}
<1>4. 0 \in P
  <2>1. s[0] = <<>> /\ t[0] = <<>>
    BY <1>3
  <2>2. QED
    BY <2>1, NoComponent
<1>5. ASSUME NEW k \in P PROVE k + 1 \in P
  <2> SUFFICES ASSUME k + 1 <= n PROVE KeysAgree(s[k + 1], t[k + 1], r, q, comps, k + 1)
    OBVIOUS
  <2>1. k \in Nat /\ k <= n /\ k + 1 \in 0..n /\ k + 1 \in 1..n /\ k + 1 # 0 /\ (k + 1) - 1 = k
    OBVIOUS
  <2>2. KeysAgree(s[k], t[k], r, q, comps, k)
    BY <2>1
  <2>3. /\ s[k + 1] = s[k] \o ComponentKey(r, comps[k + 1])
        /\ t[k + 1] = t[k] \o ComponentKey(q, comps[k + 1])
    BY <1>3, <2>1
  <2>4. ComparableIn(r, q, comps[k + 1])
    BY <2>1
  <2> DEFINE u == s[k]
             v == t[k]
  <2> HIDE DEF u, v
  <2>5. KeysAgree(u \o ComponentKey(r, comps[k + 1]), v \o ComponentKey(q, comps[k + 1]),
                  r, q, comps, k + 1)
    BY <2>1, <2>2, <2>4, OneMoreComponent DEF u, v
  <2>6. QED
    BY <2>3, <2>5 DEF u, v
<1>6. P = Nat
  <2> HIDE DEF P
  <2>1. P \in SUBSET Nat
    BY DEF P
  <2>2. QED
    BY <1>4, <1>5, <2>1, AllNumbers
<1>7. n \in P
  BY <1>6
<1>8. KeysAgree(s[n], t[n], r, q, comps, n)
  BY <1>7
<1>9. QED
  BY <1>1, <1>2, <1>8

(* Of two records, BuildKey (pkg/sc/key.go) gives the smaller key to the one that comes     *)
(* first by the components, and they have the same key exactly if neither comes first: an   *)
(* index, the top rows of a file and the priority of dependency events rely on the keys for *)
(* their order, and a lookup takes records of one key to be equal in its fields.  It holds  *)
(* for every list of components, ascending and descending, and for every value the formats  *)
(* have room for: every int64, the smallest one too, floats and decimals of the digits that *)
(* fit, times from the year 1 on, strings without characters below the space, booleans.     *)
THEOREM KeysCompareAsRecords ==
  ASSUME NEW C, NEW comps \in Seq(C), NEW r, NEW q,
         \A k \in DOMAIN comps : ComparableIn(r, q, comps[k])
  PROVE  /\ LexLess(BuildKey(r, comps), BuildKey(q, comps)) <=> RecordBefore(r, q, comps)
         /\ BuildKey(r, comps) = BuildKey(q, comps)
              <=> ~RecordBefore(r, q, comps) /\ ~RecordBefore(q, r, comps)
<1> DEFINE n == Len(comps)
           a == BuildKey(r, comps)
           b == BuildKey(q, comps)
<1>1. n \in Nat /\ DOMAIN comps = 1..n
  OBVIOUS
<1>2. \A k \in 1..n : ComparableIn(r, q, comps[k]) /\ ComparableIn(q, r, comps[k])
  BY <1>1 DEF ComparableIn, Comparable
<1>3. KeysAgree(a, b, r, q, comps, n) /\ KeysAgree(b, a, q, r, comps, n)
  BY <1>1, <1>2, KeysAgreeUpTo
<1>4. RecordBefore(r, q, comps) <=> BeforeIn(r, q, comps, n)
  BY <1>1 DEF RecordBefore, BeforeIn, Prior
<1>5. RecordBefore(q, r, comps) <=> BeforeIn(q, r, comps, n)
  BY <1>1 DEF RecordBefore, BeforeIn, Prior
<1>6. PICK m \in Nat : /\ a \in Chars(m) /\ b \in Chars(m)
                       /\ LexLess(a, b) <=> BeforeIn(r, q, comps, n)
  BY <1>3 DEF KeysAgree
<1>7. LexLess(b, a) <=> BeforeIn(q, r, comps, n)
  BY <1>3 DEF KeysAgree
<1> HIDE DEF a, b
<1>8. /\ a = b \/ LexLess(a, b) \/ LexLess(b, a)
      /\ LexLess(a, b) => a # b
      /\ LexLess(b, a) => a # b
  BY <1>6, LexTotal
<1>9. LexLess(a, b) <=> RecordBefore(r, q, comps)
  BY <1>4, <1>6
<1>10. a = b <=> ~RecordBefore(r, q, comps) /\ ~RecordBefore(q, r, comps)
  BY <1>4, <1>5, <1>6, <1>7, <1>8
<1>11. QED
  BY <1>9, <1>10 DEF a, b

-------------------------------------------------------------------------------
\* A writer: a value of an operator or a function has the type found for it, or there is
\* none, or it is the error of a value.

Tags == FieldTypes \cup {"goint"}
ValueErrors == {ZeroError, ParseError, PanicError}
HardOps == {"/", "%"} \cup DOMAIN ConvertType

\* A value and the type that was found for it.
Agrees(val, type, hard) ==
  \/ val.t = type /\ type \in Tags
  \/ val = TypeError /\ type = "none"
  \/ val \in ValueErrors /\ type \in Tags /\ hard

LEMMA ValueParts == \A type, x : Value(type, x).t = type /\ Value(type, x).v = x
BY DEF Value

LEMMA ErrorKinds ==
  /\ TypeError.t = "error" /\ ZeroError.t = "error" /\ ParseError.t = "error"
  /\ PanicError.t = "error" /\ TypeError \notin ValueErrors
BY DEF TypeError, Error, ZeroError, ParseError, PanicError, ValueErrors, Value

LEMMA NumberTypes == Numbers = {"int", "float", "dec", "goint"} /\ Numbers \subseteq Tags
BY DEF Numbers, NumTypes, Tags, FieldTypes

LEMMA IntOpAgrees ==
  ASSUME NEW x, NEW y, NEW op \in ArithOps
  PROVE  Agrees(IntOp(x, op, y), "int", op \in HardOps)
<1>1. CASE op \in {"+", "-", "*"}
  BY <1>1, ValueParts DEF IntOp, Agrees, Tags, FieldTypes
<1>2. CASE op \in {"/", "%"}
  BY <1>2, ValueParts DEF IntOp, Agrees, Tags, FieldTypes, HardOps, ValueErrors
<1>3. QED
  BY <1>1, <1>2 DEF ArithOps

LEMMA FloatOpAgrees ==
  ASSUME NEW x, NEW y, NEW op \in ArithOps
  PROVE  Agrees(FloatOp(x, op, y), IF op = "%" THEN "none" ELSE "float", op \in HardOps)
BY ValueParts DEF ArithOps, FloatOp, Agrees, Tags, FieldTypes

LEMMA DecimalOpAgrees ==
  ASSUME NEW x, NEW y, NEW op \in ArithOps
  PROVE  Agrees(DecimalOp(x, op, y), IF op = "%" THEN "none" ELSE "dec", op \in HardOps)
<1>1. CASE op \in {"+", "-", "*", "%"}
  BY <1>1, ValueParts DEF DecimalOp, Agrees, Tags, FieldTypes
<1>2. CASE op = "/"
  BY <1>2, ValueParts DEF DecimalOp, Agrees, Tags, FieldTypes, HardOps, ValueErrors
<1>3. QED
  BY <1>1, <1>2 DEF ArithOps

LEMMA InPair ==
  ASSUME NEW a, NEW b
  PROVE  /\ \A x : {a, b} = {x} <=> a = x /\ b = x
         /\ \A x : x \in {a, b} <=> a = x \/ b = x
         /\ \A S : {a, b} \subseteq S <=> a \in S /\ b \in S
  OBVIOUS

LEMMA ArithmeticAgrees ==
  ASSUME NEW op \in ArithOps, NEW l, NEW r, l.t \in Tags, r.t \in Tags, NEW t,
         t[1] = l.t, t[2] = r.t
  PROVE  Agrees(Arithmetic(l, op, r), OperatorType(op, t), op \in HardOps)
<1> DEFINE texts == l.t = "string" /\ r.t = "string"
           numeric == l.t \in Numbers /\ r.t \in Numbers
           whole == l.t \in {"int", "goint"} /\ r.t \in {"int", "goint"}
           float == l.t = "float" \/ r.t = "float"
           dec == l.t = "dec" \/ r.t = "dec"
<1>0. /\ op \notin {"!", "neg"} /\ op \notin BoolOps /\ op \notin CompareOps
  BY DEF ArithOps, BoolOps, CompareOps
<1>1. OperatorType(op, t) =
        IF op = "+" /\ texts THEN "string"
        ELSE IF ~numeric \/ (op = "%" /\ ~whole) THEN "none"
        ELSE IF float THEN "float" ELSE IF dec THEN "dec" ELSE "int"
  BY <1>0 DEF OperatorType
<1> DEFINE c == CommonType(l.t, r.t)
           x == Cast(l, c)
           y == Cast(r, c)
<1>2. c = IF float THEN "float" ELSE IF dec THEN "dec" ELSE "int"
  BY DEF CommonType
<1>9. {l.t, r.t} \subseteq Numbers <=> numeric
  OBVIOUS
<1>3. /\ l.t = "string" => Arithmetic(l, op, r) = IF r.t = "string" /\ op = "+"
                             THEN Value("string", l.v \o r.v) ELSE TypeError
      /\ l.t # "string" /\ ~numeric => Arithmetic(l, op, r) = TypeError
      /\ l.t # "string" /\ numeric =>
           /\ (c = "int" => Arithmetic(l, op, r) = IntOp(x, op, y))
           /\ (c = "float" => Arithmetic(l, op, r) = FloatOp(x, op, y))
           /\ (c = "dec" => Arithmetic(l, op, r) = DecimalOp(x, op, y))
  <2> HIDE DEF numeric
  <2>1. l.t = "string" => Arithmetic(l, op, r) = IF r.t = "string" /\ op = "+"
                             THEN Value("string", l.v \o r.v) ELSE TypeError
    BY DEF Arithmetic
  <2>2. l.t # "string" /\ ~numeric => Arithmetic(l, op, r) = TypeError
    BY <1>9 DEF Arithmetic
  <2>3. l.t # "string" /\ numeric /\ c = "int" => Arithmetic(l, op, r) = IntOp(x, op, y)
    BY <1>9 DEF Arithmetic
  <2>4. l.t # "string" /\ numeric /\ c = "float" => Arithmetic(l, op, r) = FloatOp(x, op, y)
    BY <1>9 DEF Arithmetic
  <2>5. l.t # "string" /\ numeric /\ c = "dec" => Arithmetic(l, op, r) = DecimalOp(x, op, y)
    BY <1>9 DEF Arithmetic
  <2>6. QED
    BY <2>1, <2>2, <2>3, <2>4, <2>5
<1>4. /\ texts => l.t = "string" /\ r.t = "string"
      /\ l.t = "string" => ~numeric
      /\ whole => ~float /\ ~dec
      /\ numeric /\ ~float /\ ~dec => whole
      /\ l.t = "string" /\ r.t = "string" => texts
  BY NumberTypes
<1> HIDE DEF texts, numeric, whole, float, dec, c, x, y
<1>5. CASE op = "+" /\ texts
  <2>1. OperatorType(op, t) = "string" /\ Arithmetic(l, op, r) = Value("string", l.v \o r.v)
    BY <1>1, <1>3, <1>4, <1>5
  <2>2. QED
    BY <2>1, ValueParts DEF Agrees, Tags, FieldTypes
<1>6. CASE ~(op = "+" /\ texts) /\ ~numeric
  <2>1. OperatorType(op, t) = "none" /\ Arithmetic(l, op, r) = TypeError
    BY <1>1, <1>3, <1>4, <1>6
  <2>2. QED
    BY <2>1 DEF Agrees
<1>7. CASE ~(op = "+" /\ texts) /\ numeric
  <2>1. /\ c = "int" => Arithmetic(l, op, r) = IntOp(x, op, y)
        /\ c = "float" => Arithmetic(l, op, r) = FloatOp(x, op, y)
        /\ c = "dec" => Arithmetic(l, op, r) = DecimalOp(x, op, y)
    BY <1>3, <1>4, <1>7
  <2>2. CASE float
    <3>1. Arithmetic(l, op, r) = FloatOp(x, op, y)
      BY <1>2, <2>1, <2>2
    <3>2. OperatorType(op, t) = IF op = "%" THEN "none" ELSE "float"
      BY <1>1, <1>4, <1>7, <2>2
    <3>3. QED
      BY <3>1, <3>2, FloatOpAgrees
  <2>3. CASE ~float /\ dec
    <3>1. Arithmetic(l, op, r) = DecimalOp(x, op, y)
      BY <1>2, <2>1, <2>3
    <3>2. OperatorType(op, t) = IF op = "%" THEN "none" ELSE "dec"
      BY <1>1, <1>4, <1>7, <2>3
    <3>3. QED
      BY <3>1, <3>2, DecimalOpAgrees
  <2>4. CASE ~float /\ ~dec
    <3>1. Arithmetic(l, op, r) = IntOp(x, op, y)
      BY <1>2, <2>1, <2>4
    <3>2. OperatorType(op, t) = "int"
      BY <1>1, <1>4, <1>7, <2>4
    <3>3. QED
      BY <3>1, <3>2, IntOpAgrees
  <2>5. QED
    BY <2>2, <2>3, <2>4
<1>8. QED
  BY <1>5, <1>6, <1>7

LEMMA LogicAgrees ==
  ASSUME NEW op \in BoolOps, NEW l, NEW r, l.t \in Tags, r.t \in Tags, NEW t,
         t[1] = l.t, t[2] = r.t
  PROVE  Agrees(Logic(l, op, r), OperatorType(op, t), op \in HardOps)
<1>1. OperatorType(op, t) = IF l.t = "bool" /\ r.t = "bool" THEN "bool" ELSE "none"
  BY DEF OperatorType, BoolOps, CompareOps, ArithOps
<1>2. QED
  BY <1>1, ValueParts DEF Logic, Agrees, Tags, FieldTypes

LEMMA ComparisonAgrees ==
  ASSUME NEW op \in CompareOps, NEW l, NEW r, l.t \in Tags, r.t \in Tags, NEW t,
         t[1] = l.t, t[2] = r.t
  PROVE  Agrees(Comparison(l, op, r), OperatorType(op, t), op \in HardOps)
<1> DEFINE fine == \/ l.t = "time" /\ r.t = "time"
                   \/ l.t = "string" /\ r.t = "string"
                   \/ l.t = "bool" /\ r.t = "bool" /\ op \in {"==", "!="}
                   \/ l.t \in Numbers /\ r.t \in Numbers
<1>0. {l.t, r.t} \subseteq Numbers <=> l.t \in Numbers /\ r.t \in Numbers
  OBVIOUS
<1>1. OperatorType(op, t) = IF fine THEN "bool" ELSE "none"
  BY DEF OperatorType, BoolOps, CompareOps, ArithOps
<1>2. fine => Comparison(l, op, r).t = "bool"
  BY <1>0, ValueParts DEF Comparison
<1>3. ~fine => Comparison(l, op, r) = TypeError
  BY <1>0 DEF Comparison
<1> HIDE DEF fine
<1>4. QED
  BY <1>1, <1>2, <1>3 DEF Agrees, Tags, FieldTypes

LEMMA UnaryAgrees ==
  ASSUME NEW op \in UnaryOps, NEW l, l.t \in Tags, NEW t, t[1] = l.t
  PROVE  Agrees(EvalUnary(op, l), OperatorType(op, t), op \in HardOps)
<1>1. CASE op = "!"
  <2>1. OperatorType(op, t) = IF l.t = "bool" THEN "bool" ELSE "none"
    BY <1>1 DEF OperatorType, BoolOps, CompareOps, ArithOps
  <2>2. QED
    BY <1>1, <2>1, ValueParts DEF EvalUnary, Agrees, Tags, FieldTypes
<1>2. CASE op = "neg"
  <2>1. OperatorType(op, t) = IF l.t \in Numbers THEN Recorded(l.t) ELSE "none"
    BY <1>2 DEF OperatorType, BoolOps, CompareOps, ArithOps
  <2>2. EvalUnary(op, l) = CASE l.t \in {"int", "goint"} -> Value("int", Wrap(-l.v))
                            [] l.t \in {"float", "dec"} -> Value(l.t, -l.v)
                            [] OTHER -> TypeError
    BY <1>2 DEF EvalUnary
  <2>3. QED
    BY <2>1, <2>2, ValueParts, NumberTypes DEF Recorded, Agrees, Tags, FieldTypes
<1>3. QED
  BY <1>1, <1>2 DEF UnaryOps

\* Operands that have values of the types found for them.
Operands(vals, t, n) ==
  /\ n \in Nat
  /\ DOMAIN vals = 1..n /\ Len(vals) = n /\ DOMAIN t = 1..n /\ Len(t) = n
  /\ \A j \in 1..n : vals[j].t = t[j] /\ t[j] \in Tags

LEMMA ConvertAgrees ==
  ASSUME NEW val, val.t \in Tags, NEW type \in {"int", "float", "dec"}
  PROVE  Agrees(Convert(val, type), IF val.t # "time" THEN type ELSE "none", TRUE)
<1> DEFINE parsed == ParseInt(val.v)
<1>1. parsed = ParseError \/ parsed.t = "int"
  BY ValueParts DEF ParseInt
<1> HIDE DEF parsed
<1>2. CASE val.t = "string"
  <2>1. Convert(val, type) \in ValueErrors \/ Convert(val, type).t = type
    BY <1>1, <1>2, ValueParts, ErrorKinds DEF Convert, Failed, parsed, ValueErrors
  <2>2. QED
    BY <1>2, <2>1 DEF Agrees, Tags, FieldTypes
<1>3. CASE val.t = "time"
  BY <1>3 DEF Convert, Agrees
<1>4. CASE val.t \in {"bool", "int", "goint", "float", "dec"}
  <2>1. Convert(val, type).t = type \/ Convert(val, type) = PanicError
    BY <1>4, ValueParts DEF Convert
  <2>2. QED
    BY <1>4, <2>1 DEF Agrees, Tags, FieldTypes, ValueErrors
<1>5. QED
  BY <1>2, <1>3, <1>4 DEF Tags, FieldTypes

LEMMA FunctionSets ==
  /\ \A fn \in DOMAIN ConvertType : ConvertType[fn] \in {"int", "float", "dec"} /\ fn \in HardOps
                                    /\ fn \notin DOMAIN Arity
  /\ \A fn \in DOMAIN IifType : IifType[fn] \in FieldTypes
                                /\ fn \notin DOMAIN Arity /\ fn \notin DOMAIN ConvertType
  /\ \A fn \in {"len", "string"} : /\ fn \notin DOMAIN Arity /\ fn \notin DOMAIN ConvertType
                                   /\ fn \notin DOMAIN IifType
BY DEF ConvertType, IifType, Arity, HardOps, FieldTypes

LEMMA FunctionAgrees ==
  ASSUME NEW fn \in FunctionNames, fn \notin DOMAIN Arity,
         NEW n, NEW vals, NEW t, Operands(vals, t, n)
  PROVE  Agrees(CallFunction(fn, vals), FunctionType(fn, t), fn \in HardOps)
<1> USE DEF Operands
<1>1. CASE fn \in DOMAIN ConvertType
  <2> DEFINE type == ConvertType[fn]
  <2>1. /\ CallFunction(fn, vals) = IF n = 1 THEN Convert(vals[1], type) ELSE TypeError
        /\ FunctionType(fn, t) = IF n = 1 /\ t[1] # "time" THEN type ELSE "none"
    BY <1>1, FunctionSets DEF CallFunction, FunctionType
  <2>2. type \in {"int", "float", "dec"} /\ fn \in HardOps
    BY <1>1, FunctionSets
  <2> HIDE DEF type
  <2>3. CASE n = 1
    <3>1. vals[1].t = t[1] /\ vals[1].t \in Tags
      BY <2>3
    <3>2. QED
      BY <2>1, <2>2, <2>3, <3>1, ConvertAgrees
  <2>4. CASE n # 1
    BY <2>1, <2>4 DEF Agrees
  <2>5. QED
    BY <2>3, <2>4
<1>2. CASE fn \in DOMAIN IifType
  <2> DEFINE type == IifType[fn]
  <2>1. /\ CallFunction(fn, vals) = IF n = 3 THEN Iif(vals, type) ELSE TypeError
        /\ FunctionType(fn, t) = IF n = 3 /\ t[1] = "bool" /\ t[2] = type /\ t[3] = type
                                 THEN type ELSE "none"
    BY <1>2, FunctionSets DEF CallFunction, FunctionType
  <2>2. type \in Tags
    BY <1>2, FunctionSets DEF Tags
  <2> HIDE DEF type
  <2>4. CASE n = 3
    <3>1. /\ vals[1].t = t[1] /\ vals[2].t = t[2] /\ vals[3].t = t[3]
      BY <2>4
    <3>2. Iif(vals, type) = IF t[1] = "bool" /\ t[2] = type /\ t[3] = type
                            THEN (IF vals[1].v THEN vals[2] ELSE vals[3]) ELSE TypeError
      BY <3>1 DEF Iif
    <3>3. QED
      BY <2>1, <2>2, <2>4, <3>1, <3>2 DEF Agrees
  <2>5. CASE n # 3
    BY <2>1, <2>5 DEF Agrees
  <2>6. QED
    BY <2>4, <2>5
<1>3. CASE fn = "len"
  <2>1. /\ CallFunction(fn, vals) = IF n = 1 /\ vals[1].t = "string"
                                    THEN Value("goint", Len(vals[1].v)) ELSE TypeError
        /\ FunctionType(fn, t) = IF n = 1 /\ t[1] = "string" THEN "goint" ELSE "none"
    BY <1>3, FunctionSets DEF CallFunction, FunctionType
  <2>2. n = 1 => vals[1].t = t[1]
    OBVIOUS
  <2>3. QED
    BY <2>1, <2>2, ValueParts DEF Agrees, Tags
<1>4. CASE fn = "string"
  <2>1. /\ CallFunction(fn, vals) = IF n = 1 THEN Value("string", <<>>) ELSE TypeError
        /\ FunctionType(fn, t) = IF n = 1 THEN "string" ELSE "none"
    BY <1>4, FunctionSets DEF CallFunction, FunctionType
  <2>2. QED
    BY <2>1, ValueParts DEF Agrees, Tags, FieldTypes
<1>5. QED
  BY <1>1, <1>2, <1>3, <1>4 DEF FunctionNames

\* The type of the result of an operator or a function.
OperationType(op, t) == IF op \in FunctionNames THEN FunctionType(op, t) ELSE OperatorType(op, t)

LEMMA OperatorSets ==
  /\ \A op \in UnaryOps : op \notin BinaryOps /\ op \notin FunctionNames /\ op \notin {"lit", "field"}
  /\ \A op \in BinaryOps : op \notin UnaryOps /\ op \notin FunctionNames /\ op \notin {"lit", "field"}
  /\ \A op \in FunctionNames : op \notin UnaryOps /\ op \notin BinaryOps /\ op \notin {"lit", "field"}
  /\ \A op \in BoolOps : op \notin ArithOps
  /\ \A op \in CompareOps : op \notin ArithOps /\ op \notin BoolOps
BY DEF UnaryOps, BinaryOps, ArithOps, BoolOps, CompareOps, FunctionNames, Arity, ConvertType, IifType

LEMMA OperationAgrees ==
  ASSUME NEW op, NEW n, NEW vals, NEW t, Operands(vals, t, n), op \notin DOMAIN Arity,
         \/ op \in UnaryOps /\ n = 1
         \/ op \in BinaryOps /\ n = 2
         \/ op \in FunctionNames
  PROVE  Agrees(Operation(op, vals), OperationType(op, t), op \in HardOps)
<1>1. CASE op \in UnaryOps /\ n = 1
  <2>1. /\ Operation(op, vals) = EvalUnary(op, vals[1])
        /\ OperationType(op, t) = OperatorType(op, t)
    BY <1>1, OperatorSets DEF Operation, OperationType
  <2>2. vals[1].t \in Tags /\ t[1] = vals[1].t
    BY <1>1 DEF Operands
  <2>3. QED
    BY <1>1, <2>1, <2>2, UnaryAgrees
<1>2. CASE op \in BinaryOps /\ n = 2
  <2> DEFINE l == vals[1]
             r == vals[2]
  <2>1. /\ Operation(op, vals) = EvalBinary(l, op, r)
        /\ OperationType(op, t) = OperatorType(op, t)
    BY <1>2, OperatorSets DEF Operation, OperationType
  <2>2. l.t \in Tags /\ t[1] = l.t /\ r.t \in Tags /\ t[2] = r.t
    BY <1>2 DEF Operands
  <2> HIDE DEF l, r
  <2>3. CASE op \in ArithOps
    <3>1. EvalBinary(l, op, r) = Arithmetic(l, op, r)
      BY <2>3 DEF EvalBinary
    <3>2. QED
      BY <2>1, <2>2, <2>3, <3>1, ArithmeticAgrees
  <2>4. CASE op \in BoolOps
    <3>1. EvalBinary(l, op, r) = Logic(l, op, r)
      BY <2>4, OperatorSets DEF EvalBinary
    <3>2. QED
      BY <2>1, <2>2, <2>4, <3>1, LogicAgrees
  <2>5. CASE op \in CompareOps
    <3>1. EvalBinary(l, op, r) = Comparison(l, op, r)
      BY <2>5, OperatorSets DEF EvalBinary
    <3>2. QED
      BY <2>1, <2>2, <2>5, <3>1, ComparisonAgrees
  <2>6. QED
    BY <1>2, <2>3, <2>4, <2>5 DEF BinaryOps
<1>3. CASE op \in FunctionNames
  <2>1. /\ Operation(op, vals) = CallFunction(op, vals)
        /\ OperationType(op, t) = FunctionType(op, t)
    BY <1>3, OperatorSets DEF Operation, OperationType
  <2>2. QED
    BY <1>3, <2>1, FunctionAgrees
<1>4. QED
  BY <1>1, <1>2, <1>3

\* In a plain context aggregate functions are errors.
LEMMA AggregateRefused ==
  ASSUME NEW op \in DOMAIN Arity, NEW vals
  PROVE  Operation(op, vals) = TypeError
<1>1. op \in FunctionNames
  BY DEF FunctionNames
<1>2. Operation(op, vals) = CallFunction(op, vals)
  BY <1>1, OperatorSets DEF Operation
<1>3. op \notin DOMAIN ConvertType /\ op \notin DOMAIN IifType /\ op # "len" /\ op # "string"
  BY FunctionSets
<1>4. QED
  BY <1>2, <1>3 DEF CallFunction

-------------------------------------------------------------------------------
\* The nodes of an expression, one after the other.

\* The values, or the types, of a node's operands.
OperandsOf(v, node) == [j \in DOMAIN node.args |-> v[node.args[j]]]

\* The two functions over the nodes are alike.
NodeStep(node, operands, env, kind) ==
  IF kind = "value" THEN NodeValue(node, operands, env) ELSE NodeType(node, operands, env)
IsFound(v, e, env, kind, D) ==
  v = [k \in D |-> NodeStep(e[k], OperandsOf(v, e[k]), env, kind)]
IsValues(v, e, row) ==
  v = [k \in DOMAIN e |-> NodeValue(e[k], [j \in DOMAIN e[k].args |-> v[e[k].args[j]]], row)]
IsTypes(t, e, types) ==
  t = [k \in DOMAIN e |-> NodeType(e[k], [j \in DOMAIN e[k].args |-> t[e[k].args[j]]], types)]

\* Operands come first.
OperandsFirst(e) ==
  /\ Len(e) \in Nat \ {0} /\ DOMAIN e = 1..Len(e)
  /\ \A k \in DOMAIN e : \A j \in DOMAIN e[k].args : e[k].args[j] \in 1..(k - 1)

LEMMA ExpressionIsOrdered == ASSUME NEW e, IsExpression(e) PROVE OperandsFirst(e)
BY DEF IsExpression, OperandsFirst

LEMMA FoundExists ==
  ASSUME NEW e, OperandsFirst(e), NEW env, NEW kind
  PROVE  \E v : IsFound(v, e, env, kind, DOMAIN e)
<1> DEFINE N == Len(e)
           P == {m \in Nat : m <= N => \E v : IsFound(v, e, env, kind, 1..m)}
<1>0. /\ N \in Nat /\ DOMAIN e = 1..N
      /\ \A k \in 1..N : \A j \in DOMAIN e[k].args : e[k].args[j] \in 1..(k - 1)
  BY DEF OperandsFirst
<1>1. 0 \in P
  <2> DEFINE v == [k \in 1..0 |-> 0]
  <2>1. v = [k \in 1..0 |-> NodeStep(e[k], OperandsOf(v, e[k]), env, kind)]
    OBVIOUS
  <2> HIDE DEF v
  <2>2. IsFound(v, e, env, kind, 1..0)
    BY <2>1 DEF IsFound
  <2>3. QED
    BY <2>2
<1> HIDE DEF N
<1>2. ASSUME NEW m \in P PROVE m + 1 \in P
  <2> SUFFICES ASSUME m + 1 <= N PROVE \E v : IsFound(v, e, env, kind, 1..(m + 1))
    BY <1>2
  <2>0. m \in Nat /\ m <= N
    BY <1>0
  <2>1. PICK g : IsFound(g, e, env, kind, 1..m)
    BY <2>0
  <2> DEFINE h == [k \in 1..(m + 1) |-> IF k <= m THEN g[k]
                                        ELSE NodeStep(e[k], OperandsOf(g, e[k]), env, kind)]
  <2>2. \A k \in 1..m : g[k] = NodeStep(e[k], OperandsOf(g, e[k]), env, kind)
    BY <2>1 DEF IsFound
  <2>3. \A k \in 1..(m + 1) : h[k] = NodeStep(e[k], OperandsOf(g, e[k]), env, kind)
    <3>1. \A k \in 1..(m + 1) : k <= m => k \in 1..m
      BY <2>0
    <3>2. QED
      BY <2>2, <3>1
  <2>4. \A k \in 1..m : h[k] = g[k]
    BY <2>0
  <2>5. h = [k \in 1..(m + 1) |-> h[k]]
    OBVIOUS
  <2> HIDE DEF h
  <2>6. \A k \in 1..(m + 1) : OperandsOf(g, e[k]) = OperandsOf(h, e[k])
    <3> SUFFICES ASSUME NEW k \in 1..(m + 1) PROVE OperandsOf(g, e[k]) = OperandsOf(h, e[k])
      OBVIOUS
    <3>1. \A j \in DOMAIN e[k].args : e[k].args[j] \in 1..m
      <4>1. k \in 1..N /\ \A i \in 1..(k - 1) : i \in 1..m
        BY <1>0, <2>0
      <4>2. QED
        BY <1>0, <4>1
    <3>2. \A j \in DOMAIN e[k].args : g[e[k].args[j]] = h[e[k].args[j]]
      BY <2>4, <3>1
    <3>3. QED
      BY <3>2 DEF OperandsOf
  <2>7. h = [k \in 1..(m + 1) |-> NodeStep(e[k], OperandsOf(h, e[k]), env, kind)]
    <3>1. \A k \in 1..(m + 1) : h[k] = NodeStep(e[k], OperandsOf(h, e[k]), env, kind)
      BY <2>3, <2>6
    <3>2. QED
      BY <2>5, <3>1
  <2>8. IsFound(h, e, env, kind, 1..(m + 1))
    BY <2>7 DEF IsFound
  <2>9. QED
    BY <2>8
<1>3. P = Nat
  <2> HIDE DEF P
  <2>1. P \in SUBSET Nat
    BY DEF P
  <2>2. QED
    BY <1>1, <1>2, <2>1, AllNumbers
<1>4. N \in P
  BY <1>0, <1>3
<1>5. \E v : IsFound(v, e, env, kind, 1..N)
  BY <1>0, <1>4
<1>6. QED
  BY <1>0, <1>5

LEMMA ValuesUnfold ==
  ASSUME NEW e, OperandsFirst(e), NEW row
  PROVE  /\ DOMAIN NodeValues(e, row) = DOMAIN e
         /\ \A k \in DOMAIN e :
              NodeValues(e, row)[k] = NodeValue(e[k], OperandsOf(NodeValues(e, row), e[k]), row)
<1>1. PICK g : IsFound(g, e, row, "value", DOMAIN e)
  BY FoundExists
<1>2. IsValues(g, e, row)
  BY <1>1 DEF IsFound, NodeStep, IsValues, OperandsOf
<1> DEFINE v == CHOOSE x : IsValues(x, e, row)
<1>3. IsValues(v, e, row)
  BY <1>2
<1>4. NodeValues(e, row) = v
  BY DEF NodeValues, IsValues
<1> HIDE DEF v
<1>5. QED
  BY <1>3, <1>4 DEF IsValues, OperandsOf

LEMMA TypesUnfold ==
  ASSUME NEW e, OperandsFirst(e), NEW types
  PROVE  /\ DOMAIN NodeTypes(e, types) = DOMAIN e
         /\ \A k \in DOMAIN e :
              NodeTypes(e, types)[k] = NodeType(e[k], OperandsOf(NodeTypes(e, types), e[k]), types)
<1>1. PICK g : IsFound(g, e, types, "type", DOMAIN e)
  BY FoundExists
<1>2. IsTypes(g, e, types)
  BY <1>1 DEF IsFound, NodeStep, IsTypes, OperandsOf
<1> DEFINE t == CHOOSE x : IsTypes(x, e, types)
<1>3. IsTypes(t, e, types)
  BY <1>2
<1>4. NodeTypes(e, types) = t
  BY DEF NodeTypes, IsTypes
<1> HIDE DEF t
<1>5. QED
  BY <1>3, <1>4 DEF IsTypes, OperandsOf

LEMMA FirstOfFailed ==
  ASSUME NEW n \in Nat, NEW vals, DOMAIN vals = 1..n, SomeFailed(vals)
  PROVE  \E k \in 1..n : FirstFailed(vals) = vals[k] /\ Failed(vals[k])
<1> DEFINE S == {k \in 1..n : Failed(vals[k])}
<1>1. S \in SUBSET Nat /\ S # {}
  BY DEF SomeFailed
<1>2. PICK m \in S : \A k \in S : m <= k
  BY <1>1, SmallestNumber
<1>3. \A j \in 1..(m - 1) : ~Failed(vals[j])
  BY <1>2
<1> DEFINE Q(k) == Failed(vals[k]) /\ \A j \in 1..(k - 1) : ~Failed(vals[j])
           c == CHOOSE k \in DOMAIN vals : Q(k)
<1>4. m \in DOMAIN vals /\ Q(m)
  BY <1>2, <1>3
<1>5. c \in DOMAIN vals /\ Q(c)
  BY <1>4
<1>6. FirstFailed(vals) = vals[c]
  BY DEF FirstFailed
<1> HIDE DEF c
<1>7. QED
  BY <1>5, <1>6

\* The row has the fields of the expression, of the types that are said.
Conforms(e, row, types) ==
  \A f \in FieldsOf(e) :
    /\ f \in DOMAIN row /\ f \in DOMAIN types
    /\ row[f].t = types[f] /\ types[f] \in FieldTypes
HardAt(e, k) == e[k].op \in HardOps
AggregateAt(e, k) == e[k].op \in DOMAIN Arity

\* Node k has a value of its type; or the error of a value; or no type, or aggregates.
NodeAgrees(e, v, t, k) ==
  \/ v[k].t = t[k] /\ t[k] \in Tags /\ ~AggregateAt(e, k)
  \/ v[k] \in ValueErrors /\ DependsOnValue(e)
  \/ v[k] = TypeError /\ (t[k] = "none" \/ \E i \in 1..k : AggregateAt(e, i))

LEMMA FailedNode ==
  /\ \A val : val.t \in Tags => ~Failed(val)
  /\ \A val \in ValueErrors : Failed(val)
  /\ Failed(TypeError)
  /\ "none" \notin Tags /\ "error" \notin Tags
BY ErrorKinds DEF Failed, Tags, FieldTypes, ValueErrors

\* The shape of a node that is not a leaf.
LEMMA InnerNode ==
  ASSUME NEW e, IsExpression(e), NEW k \in 1..Len(e), e[k].op \notin {"lit", "field"}
  PROVE  \E n \in Nat :
           /\ DOMAIN e[k].args = 1..n /\ Len(e[k].args) = n
           /\ \A j \in 1..n : e[k].args[j] \in 1..(k - 1)
           /\ \/ e[k].op \in UnaryOps /\ n = 1
              \/ e[k].op \in BinaryOps /\ n = 2
              \/ e[k].op \in FunctionNames
<1> DEFINE n == Len(e[k].args)
<1>1. k \in DOMAIN e
  BY DEF IsExpression
<1>2. /\ n \in Nat /\ DOMAIN e[k].args = 1..n
      /\ \A j \in 1..n : e[k].args[j] \in 1..(k - 1)
      /\ \/ e[k].op = "lit" /\ n = 0 /\ e[k].val.t \in {"int", "float", "dec", "string", "bool"}
         \/ e[k].op = "field" /\ n = 0
         \/ e[k].op \in UnaryOps /\ n = 1
         \/ e[k].op \in BinaryOps /\ n = 2
         \/ e[k].op \in FunctionNames
  BY <1>1 DEF IsExpression
<1>3. Len(e[k].args) = n
  OBVIOUS
<1> HIDE DEF n
<1>4. \/ e[k].op \in UnaryOps /\ n = 1
      \/ e[k].op \in BinaryOps /\ n = 2
      \/ e[k].op \in FunctionNames
  BY <1>2
<1>5. QED
  BY <1>2, <1>3, <1>4

LEMMA OperandsLength ==
  ASSUME NEW v, NEW node, NEW n \in Nat, DOMAIN node.args = 1..n
  PROVE  /\ DOMAIN OperandsOf(v, node) = 1..n /\ Len(OperandsOf(v, node)) = n
         /\ \A j \in 1..n : OperandsOf(v, node)[j] = v[node.args[j]]
<1> DEFINE S == {v[node.args[j]] : j \in 1..n}
           s == OperandsOf(v, node)
<1>1. s = [j \in 1..n |-> v[node.args[j]]]
  BY DEF OperandsOf
<1>2. s \in [1..n -> S]
  BY <1>1
<1> HIDE DEF S
<1>3. s \in Seq(S) /\ Len(s) = n
  BY <1>2
<1>4. QED
  BY <1>1, <1>3

LEMMA InnerNodeAgrees ==
  ASSUME NEW e, IsExpression(e), NEW v, NEW t, NEW row, NEW types,
         NEW k \in 1..Len(e), e[k].op \notin {"lit", "field"},
         v[k] = NodeValue(e[k], OperandsOf(v, e[k]), row),
         t[k] = NodeType(e[k], OperandsOf(t, e[k]), types),
         \A i \in 1..(k - 1) : NodeAgrees(e, v, t, i)
  PROVE  NodeAgrees(e, v, t, k)
<1> DEFINE op == e[k].op
           vals == OperandsOf(v, e[k])
           ts == OperandsOf(t, e[k])
<1>0. Len(e) \in Nat /\ DOMAIN e = 1..Len(e)
  BY DEF IsExpression
<1>1. PICK n \in Nat :
         /\ DOMAIN e[k].args = 1..n /\ Len(e[k].args) = n
         /\ \A j \in 1..n : e[k].args[j] \in 1..(k - 1)
         /\ \/ op \in UnaryOps /\ n = 1
            \/ op \in BinaryOps /\ n = 2
            \/ op \in FunctionNames
  BY InnerNode
<1>2. /\ DOMAIN vals = 1..n /\ Len(vals) = n /\ DOMAIN ts = 1..n /\ Len(ts) = n
      /\ \A j \in 1..n : vals[j] = v[e[k].args[j]] /\ ts[j] = t[e[k].args[j]]
  BY <1>1, OperandsLength
<1>3. /\ v[k] = IF SomeFailed(vals) THEN FirstFailed(vals) ELSE Operation(op, vals)
      /\ t[k] = IF \E j \in 1..n : ts[j] = "none" THEN "none" ELSE OperationType(op, ts)
  BY <1>2 DEF NodeValue, NodeType, OperationType
<1>4. \A j \in 1..n : NodeAgrees(e, v, t, e[k].args[j])
  BY <1>1
<1> HIDE DEF vals, ts
<1>5. CASE SomeFailed(vals)
  <2>1. PICK j \in 1..n : FirstFailed(vals) = vals[j] /\ Failed(vals[j])
    BY <1>2, <1>5, FirstOfFailed
  <2> DEFINE i == e[k].args[j]
  <2>2. i \in 1..(k - 1) /\ v[k] = v[i] /\ Failed(v[i]) /\ ts[j] = t[i] /\ NodeAgrees(e, v, t, i)
    BY <1>1, <1>2, <1>3, <1>4, <1>5, <2>1
  <2> HIDE DEF i
  <2>3. CASE v[i] \in ValueErrors /\ DependsOnValue(e)
    BY <2>2, <2>3 DEF NodeAgrees
  <2>4. CASE v[i] = TypeError /\ t[i] = "none"
    <3>1. t[k] = "none"
      BY <1>3, <2>2, <2>4
    <3>2. QED
      BY <2>2, <2>4, <3>1 DEF NodeAgrees
  <2>5. CASE v[i] = TypeError /\ \E m \in 1..i : AggregateAt(e, m)
    <3>1. \E m \in 1..k : AggregateAt(e, m)
      <4>1. \A m \in 1..i : m \in 1..k
        BY <1>0, <2>2
      <4>2. QED
        BY <2>5, <4>1
    <3>2. QED
      BY <2>2, <2>5, <3>1 DEF NodeAgrees
  <2>6. ~(v[i].t \in Tags)
    BY <2>2, FailedNode
  <2>7. QED
    BY <2>2, <2>3, <2>4, <2>5, <2>6 DEF NodeAgrees
<1>6. CASE ~SomeFailed(vals)
  <2>1. \A j \in 1..n : ~Failed(vals[j])
    BY <1>2, <1>6 DEF SomeFailed
  <2>2. \A j \in 1..n : vals[j].t = ts[j] /\ ts[j] \in Tags
    BY <1>2, <1>4, <2>1, FailedNode DEF NodeAgrees
  <2>3. Operands(vals, ts, n)
    BY <1>2, <2>2 DEF Operands
  <2>4. v[k] = Operation(op, vals) /\ t[k] = OperationType(op, ts)
    BY <1>3, <1>6, <2>2, FailedNode
  <2>5. CASE op \in DOMAIN Arity
    <3>1. v[k] = TypeError
      BY <2>4, <2>5, AggregateRefused
    <3>2. AggregateAt(e, k) /\ k \in 1..k
      BY <1>0, <2>5 DEF AggregateAt
    <3>3. QED
      BY <3>1, <3>2 DEF NodeAgrees
  <2>6. CASE op \notin DOMAIN Arity
    <3>1. Agrees(v[k], t[k], op \in HardOps)
      <4> HIDE DEF op
      <4>1. QED
        BY <1>1, <2>3, <2>4, <2>6, OperationAgrees
    <3>2. op \in HardOps => DependsOnValue(e)
      BY <1>0 DEF DependsOnValue, HardOps
    <3>3. ~AggregateAt(e, k)
      BY <2>6 DEF AggregateAt
    <3>4. QED
      BY <3>1, <3>2, <3>3 DEF Agrees, NodeAgrees
  <2>7. QED
    BY <2>5, <2>6
<1>7. QED
  BY <1>5, <1>6

LEMMA NodesAgree ==
  ASSUME NEW e, IsExpression(e), NEW row, NEW types, Conforms(e, row, types)
  PROVE  \A k \in 1..Len(e) : NodeAgrees(e, NodeValues(e, row), NodeTypes(e, types), k)
<1> DEFINE v == NodeValues(e, row)
           t == NodeTypes(e, types)
           S == {k \in 1..Len(e) : ~NodeAgrees(e, v, t, k)}
<1>0. Len(e) \in Nat /\ DOMAIN e = 1..Len(e)
  BY DEF IsExpression
<1>1. \A k \in 1..Len(e) : /\ v[k] = NodeValue(e[k], OperandsOf(v, e[k]), row)
                           /\ t[k] = NodeType(e[k], OperandsOf(t, e[k]), types)
  BY <1>0, ExpressionIsOrdered, ValuesUnfold, TypesUnfold
<1> HIDE DEF v, t
<1> SUFFICES ASSUME S # {} PROVE FALSE
  BY DEF v, t
<1>2. S \in SUBSET Nat
  BY <1>0
<1>3. PICK k \in S : \A i \in S : k <= i
  BY <1>2, SmallestNumber
<1>4. k \in 1..Len(e) /\ ~NodeAgrees(e, v, t, k)
  BY <1>3
<1>5. \A i \in 1..(k - 1) : NodeAgrees(e, v, t, i)
  BY <1>0, <1>3
<1> HIDE DEF S
<1>6. CASE e[k].op = "lit"
  <2>1. v[k] = e[k].val /\ t[k] = e[k].val.t
    BY <1>1, <1>4, <1>6 DEF NodeValue, NodeType
  <2>2. e[k].val.t \in {"int", "float", "dec", "string", "bool"}
    BY <1>0, <1>4, <1>6, OperatorSets DEF IsExpression
  <2>3. ~AggregateAt(e, k)
    BY <1>6 DEF AggregateAt, Arity
  <2>4. QED
    BY <1>4, <2>1, <2>2, <2>3 DEF NodeAgrees, Tags, FieldTypes
<1>7. CASE e[k].op = "field"
  <2>1. e[k].name \in FieldsOf(e)
    BY <1>0, <1>4, <1>7 DEF FieldsOf
  <2>2. v[k] = row[e[k].name] /\ t[k] = types[e[k].name]
    BY <1>1, <1>4, <1>7, <2>1 DEF NodeValue, NodeType, Conforms
  <2>3. ~AggregateAt(e, k)
    BY <1>7 DEF AggregateAt, Arity
  <2>4. QED
    BY <1>4, <2>1, <2>2, <2>3 DEF NodeAgrees, Tags, Conforms
<1>8. CASE e[k].op \notin {"lit", "field"}
  BY <1>1, <1>4, <1>5, <1>8, InnerNodeAgrees
<1>9. QED
  BY <1>6, <1>7, <1>8

\* If the operands of the root have not failed then no other node has.
LEMMA NoneFailed ==
  ASSUME NEW e, IsExpression(e), NEW row,
         \A j \in DOMAIN Root(e).args : ~Failed(NodeValues(e, row)[Root(e).args[j]])
  PROVE  \A k \in 1..(Len(e) - 1) : ~Failed(NodeValues(e, row)[k])
<1> DEFINE v == NodeValues(e, row)
           S == {k \in 1..(Len(e) - 1) : Failed(v[k])}
<1>0. Len(e) \in Nat /\ Len(e) - 1 \in Nat /\ DOMAIN e = 1..Len(e)
  BY DEF IsExpression
<1>1. \A k \in 1..Len(e) : v[k] = NodeValue(e[k], OperandsOf(v, e[k]), row)
  BY <1>0, ExpressionIsOrdered, ValuesUnfold
<1> HIDE DEF v
<1> SUFFICES ASSUME S # {} PROVE FALSE
  BY DEF v
<1>2. PICK k \in S : \A i \in S : i <= k
  <2>1. S \in SUBSET (1..(Len(e) - 1))
    OBVIOUS
  <2> HIDE DEF S
  <2>2. QED
    BY <1>0, <2>1, LargestNumber
<1>3. k \in 1..(Len(e) - 1) /\ Failed(v[k])
  BY <1>2
<1>4. PICK m \in 1..Len(e) : \E j \in DOMAIN e[m].args : e[m].args[j] = k
  BY <1>0, <1>3 DEF IsExpression
<1>5. PICK j \in DOMAIN e[m].args : e[m].args[j] = k
  BY <1>4
<1>6. m # Len(e)
  BY <1>3, <1>5 DEF Root, v
<1>7. e[m].op \notin {"lit", "field"}
  <2>1. \A i \in 1..0 : FALSE
    OBVIOUS
  <2>2. e[m].op \in {"lit", "field"} => DOMAIN e[m].args = 1..0
    BY <1>0, <1>4, OperatorSets DEF IsExpression
  <2>3. QED
    BY <1>5, <2>1, <2>2
<1>8. PICK n \in Nat : DOMAIN e[m].args = 1..n /\ \A i \in 1..n : e[m].args[i] \in 1..(m - 1)
  BY <1>4, <1>7, InnerNode
<1>9. /\ DOMAIN OperandsOf(v, e[m]) = 1..n
      /\ OperandsOf(v, e[m])[j] = v[k]
  <2>1. DOMAIN OperandsOf(v, e[m]) = 1..n
    BY <1>8, OperandsLength
  <2>2. \A i \in 1..n : OperandsOf(v, e[m])[i] = v[e[m].args[i]]
    BY <1>8, OperandsLength
  <2>3. QED
    BY <1>5, <1>8, <2>1, <2>2
<1>10. SomeFailed(OperandsOf(v, e[m]))
  BY <1>3, <1>5, <1>8, <1>9 DEF SomeFailed
<1>11. Failed(v[m])
  <2>1. v[m] = FirstFailed(OperandsOf(v, e[m]))
    BY <1>1, <1>4, <1>7, <1>10 DEF NodeValue
  <2>2. QED
    BY <1>9, <1>10, <2>1, FirstOfFailed
<1>12. m \in S /\ k < m
  <2>1. m \in 1..(Len(e) - 1)
    <3>1. \A a \in Nat : \A b \in 1..a : b # a => b \in 1..(a - 1)
      OBVIOUS
    <3>2. Len(e) \in Nat
      BY <1>0 DEF IsExpression
    <3>3. QED
      BY <1>4, <1>6, <3>1, <3>2, Zenon
  <2>2. k \in 1..(m - 1)
    BY <1>5, <1>8
  <2>3. QED
    BY <1>11, <2>1, <2>2
<1>13. QED
  BY <1>2, <1>12

\* If the root has a type then all nodes have, and no field is unknown.
LEMMA AllTyped ==
  ASSUME NEW e, IsExpression(e), NEW types, StaticType(e, types) # "none"
  PROVE  \A k \in 1..Len(e) : NodeTypes(e, types)[k] # "none"
<1> DEFINE t == NodeTypes(e, types)
           S == {k \in 1..Len(e) : t[k] = "none"}
<1>0. Len(e) \in Nat /\ DOMAIN e = 1..Len(e)
  BY DEF IsExpression
<1>1. \A k \in 1..Len(e) : t[k] = NodeType(e[k], OperandsOf(t, e[k]), types)
  BY <1>0, ExpressionIsOrdered, TypesUnfold
<1>2. t[Len(e)] # "none"
  BY DEF StaticType
<1> HIDE DEF t
<1> SUFFICES ASSUME S # {} PROVE FALSE
  BY DEF t
<1>3. PICK k \in S : \A i \in S : i <= k
  <2>1. S \in SUBSET (1..Len(e))
    OBVIOUS
  <2> HIDE DEF S
  <2>2. QED
    BY <1>0, <2>1, LargestNumber
<1>4. k \in 1..(Len(e) - 1) /\ t[k] = "none"
  BY <1>0, <1>2, <1>3
<1>5. PICK m \in 1..Len(e) : \E j \in DOMAIN e[m].args : e[m].args[j] = k
  BY <1>0, <1>4 DEF IsExpression
<1>6. PICK j \in DOMAIN e[m].args : e[m].args[j] = k
  BY <1>5
<1>7. e[m].op \notin {"lit", "field"}
  <2>1. \A i \in 1..0 : FALSE
    OBVIOUS
  <2>2. e[m].op \in {"lit", "field"} => DOMAIN e[m].args = 1..0
    BY <1>0, <1>5, OperatorSets DEF IsExpression
  <2>3. QED
    BY <1>6, <2>1, <2>2
<1>8. PICK n \in Nat : DOMAIN e[m].args = 1..n /\ \A i \in 1..n : e[m].args[i] \in 1..(m - 1)
  BY <1>5, <1>7, InnerNode
<1>9. /\ DOMAIN OperandsOf(t, e[m]) = 1..n
      /\ OperandsOf(t, e[m])[j] = "none"
  BY <1>4, <1>6, <1>8, OperandsLength
<1>10. t[m] = "none"
  BY <1>1, <1>5, <1>6, <1>7, <1>8, <1>9 DEF NodeType
<1>11. m \in S /\ k < m
  <2>1. k \in 1..(m - 1)
    BY <1>6, <1>8
  <2>2. QED
    BY <1>5, <1>10, <2>1
<1>12. QED
  BY <1>3, <1>11

LEMMA FieldsKnown ==
  ASSUME NEW e, IsExpression(e), NEW types, StaticType(e, types) # "none"
  PROVE  FieldsOf(e) \subseteq DOMAIN types
<1> SUFFICES ASSUME NEW k \in DOMAIN e, e[k].op = "field" PROVE e[k].name \in DOMAIN types
  BY DEF FieldsOf
<1>0. Len(e) \in Nat /\ DOMAIN e = 1..Len(e)
  BY DEF IsExpression
<1>1. NodeTypes(e, types)[k] # "none"
  BY <1>0, AllTyped
<1>2. NodeTypes(e, types)[k] = NodeType(e[k], OperandsOf(NodeTypes(e, types), e[k]), types)
  BY ExpressionIsOrdered, TypesUnfold
<1>3. QED
  BY <1>1, <1>2 DEF NodeType

-------------------------------------------------------------------------------
\* The aggregate functions, each in a context of its own.

AggregateTypes == {"int", "float", "dec", "string"}

\* The context of an aggregate fn whose results have the type.
Prepared(c, fn, type) ==
  /\ {"call", "value", "type"} \subseteq DOMAIN c
  /\ c.call \in {NoCall, "root"}
  /\ Base[fn] \in {"sum", "avg", "min", "max"} => c.type \in {"unknown", type}

LEMMA FreshIsPrepared ==
  ASSUME NEW fn \in DOMAIN Arity, NEW sep, NEW type
  PROVE  Prepared(NewAggEvalCtx(fn, sep), fn, type)
<1>1. Base[fn] \in {"sum", "avg", "min", "max"} => Base[fn] # "string_agg"
  OBVIOUS
<1>2. QED
  BY <1>1 DEF Prepared, NewAggEvalCtx

\* The bases of the aggregate functions, and how many arguments they take.
LEMMA AggregateSets ==
  \A fn \in DOMAIN Arity :
    /\ Base[fn] \in {"string_agg", "sum", "count", "avg", "min", "max"}
    /\ Arity[fn] \in Nat
    /\ Base[fn] # "count" => Arity[fn] >= 1
    /\ fn \in IfFuncs => Arity[fn] >= 1
BY DEF Arity, Base, IfFuncs

LEMMA RecordedTypes ==
  ASSUME NEW type \in Tags
  PROVE  /\ Recorded(type) = "string" <=> type = "string"
         /\ Recorded(type) = "bool" <=> type = "bool"
         /\ Recorded(type) \in NumTypes <=> type \in Numbers
         /\ type \in Numbers => Recorded(type) \in NumTypes
         /\ Recorded(type) \in NumTypes \cup {"string"} <=> type \in Numbers \cup {"string"}
BY DEF Recorded, Tags, FieldTypes, Numbers, NumTypes

\* What an aggregate that has got its arguments goes on with.
GoesOn(r, fn, type) ==
  /\ r.result.t = type /\ type \in AggregateTypes
  /\ Prepared(r.ctx, fn, type) /\ r.ctx.value = r.result
Refused(r) == r.result = TypeError

LEMMA AggregateStep ==
  ASSUME NEW fn \in DOMAIN Arity, NEW type, NEW c, Prepared(c, fn, type), NEW d, NEW val,
         DOMAIN d = DOMAIN c, d.call = "root", d.type \in {c.type, type},
         val.t = type, type \in AggregateTypes
  PROVE  GoesOn(Success(d, val), fn, type)
<1> DEFINE x == [d EXCEPT !.value = val]
<1>1. /\ DOMAIN x = DOMAIN c /\ x.call = "root" /\ x.value = val
      /\ x.type \in {c.type, type}
  BY DEF Prepared
<1>2. Success(d, val).ctx = x /\ Success(d, val).result = val
  BY DEF Success
<1> HIDE DEF x
<1>3. QED
  BY <1>1, <1>2 DEF Prepared, GoesOn

LEMMA AggregateFails == \A c : Refused(Failure(c))
BY DEF Refused, Failure, TypeError

LEMMA NumberAggregates ==
  ASSUME NEW fn \in DOMAIN Arity, NEW type, NEW c, Prepared(c, fn, type), NEW d,
         DOMAIN d = DOMAIN c, d.call = "root", d.type = c.type,
         Base[fn] \in {"sum", "avg"}, NEW a, NEW apply
  PROVE  LET r == IF Base[fn] = "sum" THEN SumAgg(d, a, apply) ELSE Avg(d, a, apply)
         IN /\ a.t \notin NumTypes => Refused(r)
            /\ a.t \in NumTypes /\ a.t = type => GoesOn(r, fn, type)
<1> DEFINE s == d.sum[a.t] + (IF apply THEN a.v ELSE 0)
           w == IF a.t = "int" THEN Wrap(s) ELSE s
           sums == [d EXCEPT !.type = a.t, !.sum[a.t] = w]
           b == d.avg + (IF apply THEN a.v ELSE 0)
           n == d.avgCount + (IF apply THEN 1 ELSE 0)
           avgs == [d EXCEPT !.type = a.t, !.avg = b, !.avgCount = n]
<1>1. /\ SumAgg(d, a, apply) = IF a.t \notin NumTypes \/ ~Typed(d, a.t) THEN Failure(d)
                               ELSE Success(sums, Value(a.t, w))
      /\ Avg(d, a, apply) = IF a.t \notin NumTypes \/ ~Typed(d, a.t) THEN Failure(d)
                            ELSE Success(avgs, Value(a.t, Average(a.t, b, n)))
  BY DEF SumAgg, Avg
<1>2. /\ DOMAIN sums = DOMAIN c /\ DOMAIN avgs = DOMAIN c
      /\ sums.call = "root" /\ avgs.call = "root"
      /\ sums.type = a.t /\ avgs.type = a.t
  BY DEF Prepared
<1> HIDE DEF s, w, sums, b, n, avgs
<1>3. a.t = type => Typed(d, a.t)
  BY DEF Typed, Prepared
<1>4. a.t \in NumTypes => a.t \in AggregateTypes
  BY DEF NumTypes, AggregateTypes
<1>5. CASE a.t \notin NumTypes
  BY <1>1, <1>5, AggregateFails
<1>6. CASE a.t \in NumTypes /\ a.t = type
  <2>1. GoesOn(Success(sums, Value(a.t, w)), fn, type)
    BY <1>2, <1>4, <1>6, AggregateStep, ValueParts
  <2>2. GoesOn(Success(avgs, Value(a.t, Average(a.t, b, n))), fn, type)
    BY <1>2, <1>4, <1>6, AggregateStep, ValueParts
  <2>3. QED
    BY <1>1, <1>3, <1>6, <2>1, <2>2
<1>7. QED
  BY <1>5, <1>6

LEMMA ExtremeAggregates ==
  ASSUME NEW fn \in DOMAIN Arity, NEW type, NEW c, Prepared(c, fn, type), NEW d,
         DOMAIN d = DOMAIN c, d.call = "root", d.type = c.type,
         Base[fn] \in {"min", "max"}, NEW a, NEW apply
  PROVE  LET r == IF Base[fn] = "min" THEN Min(d, a, apply) ELSE Max(d, a, apply)
         IN /\ a.t \notin NumTypes \cup {"string"} => Refused(r)
            /\ a.t \in NumTypes \cup {"string"} /\ a.t = type => GoesOn(r, fn, type)
<1> DEFINE u == IF apply /\ Better(a.t, a.v, d.min[a.t], TRUE) THEN a.v ELSE d.min[a.t]
           v == IF apply /\ Better(a.t, a.v, d.max[a.t], FALSE) THEN a.v ELSE d.max[a.t]
           mins == [d EXCEPT !.type = a.t, !.min[a.t] = u]
           maxs == [d EXCEPT !.type = a.t, !.max[a.t] = v]
<1>1. /\ Min(d, a, apply) = IF a.t \notin NumTypes \cup {"string"} \/ ~Typed(d, a.t)
                            THEN Failure(d) ELSE Success(mins, Value(a.t, u))
      /\ Max(d, a, apply) = IF a.t \notin NumTypes \cup {"string"} \/ ~Typed(d, a.t)
                            THEN Failure(d) ELSE Success(maxs, Value(a.t, v))
  BY DEF Min, Max
<1>2. /\ DOMAIN mins = DOMAIN c /\ DOMAIN maxs = DOMAIN c
      /\ mins.call = "root" /\ maxs.call = "root"
      /\ mins.type = a.t /\ maxs.type = a.t
  BY DEF Prepared
<1> HIDE DEF u, v, mins, maxs
<1>3. a.t = type => Typed(d, a.t)
  BY DEF Typed, Prepared
<1>4. a.t \in NumTypes \cup {"string"} => a.t \in AggregateTypes
  BY DEF NumTypes, AggregateTypes
<1>5. CASE a.t \notin NumTypes \cup {"string"}
  BY <1>1, <1>5, AggregateFails
<1>6. CASE a.t \in NumTypes \cup {"string"} /\ a.t = type
  <2>1. GoesOn(Success(mins, Value(a.t, u)), fn, type)
    BY <1>2, <1>4, <1>6, AggregateStep, ValueParts
  <2>2. GoesOn(Success(maxs, Value(a.t, v)), fn, type)
    BY <1>2, <1>4, <1>6, AggregateStep, ValueParts
  <2>3. QED
    BY <1>1, <1>3, <1>6, <2>1, <2>2
<1>7. QED
  BY <1>5, <1>6

LEMMA StringAggregates ==
  ASSUME NEW fn \in DOMAIN Arity, NEW c, Prepared(c, fn, "string"), NEW d,
         DOMAIN d = DOMAIN c, d.call = "root", d.type = c.type, NEW a, NEW apply
  PROVE  /\ a.t # "string" => Refused(StringAgg(d, a, apply))
         /\ a.t = "string" => GoesOn(StringAgg(d, a, apply), fn, "string")
<1> DEFINE s == IF apply THEN (IF d.str = <<>> THEN a.v ELSE d.str \o d.sep \o a.v) ELSE d.str
           x == [d EXCEPT !.str = s]
<1>1. StringAgg(d, a, apply) = IF a.t # "string" THEN Failure(d)
                               ELSE Success(x, Value("string", s))
  BY DEF StringAgg
<1>2. DOMAIN x = DOMAIN c /\ x.call = "root" /\ x.type = c.type
  BY DEF Prepared
<1> HIDE DEF s, x
<1>3. GoesOn(Success(x, Value("string", s)), fn, "string")
  BY <1>2, AggregateStep, ValueParts DEF AggregateTypes
<1>4. QED
  BY <1>1, <1>3, AggregateFails

LEMMA CountAggregates ==
  ASSUME NEW fn \in DOMAIN Arity, NEW c, Prepared(c, fn, "int"), NEW d,
         DOMAIN d = DOMAIN c, d.call = "root", d.type = c.type, NEW apply
  PROVE  GoesOn(Count(d, apply), fn, "int")
<1> DEFINE n == d.count + (IF apply THEN 1 ELSE 0)
           x == [d EXCEPT !.count = n]
<1>1. Count(d, apply) = Success(x, Value("int", n))
  BY DEF Count
<1>2. DOMAIN x = DOMAIN c /\ x.call = "root" /\ x.type = c.type
  BY DEF Prepared
<1> HIDE DEF n, x
<1>3. GoesOn(Success(x, Value("int", n)), fn, "int")
  BY <1>2, AggregateStep, ValueParts DEF AggregateTypes
<1>4. QED
  BY <1>1, <1>3

\* Arguments that have, as they are recorded, the types found for them.
Arguments(vals, t, n) ==
  /\ n \in Nat
  /\ DOMAIN vals = 1..n /\ Len(vals) = n /\ Len(t) = n
  /\ \A j \in 1..n : vals[j].t = Recorded(t[j]) /\ t[j] \in Tags

LEMMA AggregateAgrees ==
  ASSUME NEW fn \in DOMAIN Arity, NEW n, NEW vals, NEW t, Arguments(vals, t, n),
         NEW c, Prepared(c, fn, AggregateType(fn, t))
  PROVE  IF AggregateType(fn, t) = "none" THEN Refused(EvalAgg(c, "root", fn, vals))
         ELSE GoesOn(EvalAgg(c, "root", fn, vals), fn, AggregateType(fn, t))
<1> DEFINE type == AggregateType(fn, t)
           r == EvalAgg(c, "root", fn, vals)
           base == Base[fn]
           apply == Applied(fn, vals)
           d == [c EXCEPT !.call = "root", !.fn = base]
           fits == n = Arity[fn] /\ (fn \in IfFuncs => t[n] = "bool")
<1>0. /\ base \in {"string_agg", "sum", "count", "avg", "min", "max"}
      /\ base # "count" /\ fits => 1 \in 1..n
      /\ fn \in IfFuncs /\ n = Arity[fn] => n \in 1..n
  BY AggregateSets DEF Arguments
<1>1. Len(vals) = n /\ Len(t) = n
  BY DEF Arguments
<1>2. CheckAgg(c, "root", fn, vals) <=> fits
  <2>1. c.call \in {NoCall, "root"}
    BY DEF Prepared
  <2>2. ASSUME fn \in IfFuncs, n = Arity[fn] PROVE vals[n].t = "bool" <=> t[n] = "bool"
    BY <1>0, <2>2, RecordedTypes DEF Arguments
  <2>3. QED
    BY <1>1, <2>1, <2>2 DEF CheckAgg
<1>3. /\ DOMAIN d = DOMAIN c /\ d.call = "root" /\ d.type = c.type
  BY DEF Prepared
<1>4. r = IF ~CheckAgg(c, "root", fn, vals) THEN Failure(c)
          ELSE CASE base = "string_agg" -> StringAgg(d, vals[1], apply)
                 [] base = "sum"        -> SumAgg(d, vals[1], apply)
                 [] base = "avg"        -> Avg(d, vals[1], apply)
                 [] base = "count"      -> Count(d, apply)
                 [] base = "min"        -> Min(d, vals[1], apply)
                 [] base = "max"        -> Max(d, vals[1], apply)
  BY DEF EvalAgg
<1>5. type = IF ~fits THEN "none"
             ELSE CASE base = "count" -> "int"
                    [] base = "string_agg" -> IF t[1] = "string" THEN "string" ELSE "none"
                    [] base \in {"sum", "avg"} -> IF t[1] \in Numbers THEN Recorded(t[1]) ELSE "none"
                    [] base \in {"min", "max"} ->
                         IF t[1] \in Numbers \cup {"string"} THEN Recorded(t[1]) ELSE "none"
  BY <1>0, <1>1 DEF AggregateType
<1>6. base # "count" /\ fits => t[1] \in Tags /\ vals[1].t = Recorded(t[1])
  BY <1>0 DEF Arguments
<1>7. Prepared(c, fn, type)
  OBVIOUS
<1>8. "none" \notin AggregateTypes
  BY DEF AggregateTypes
<1> HIDE DEF fits, d, apply, r, type
<1>9. CASE ~fits
  <2>1. type = "none" /\ r = Failure(c)
    BY <1>2, <1>4, <1>5, <1>9
  <2>2. QED
    BY <2>1, AggregateFails DEF r, type
<1>10. CASE fits /\ base = "count"
  <2>1. type = "int" /\ r = Count(d, apply)
    BY <1>2, <1>4, <1>5, <1>10
  <2>2. GoesOn(r, fn, "int")
    BY <1>3, <1>7, <2>1, CountAggregates
  <2>3. QED
    BY <2>1, <2>2 DEF r, type
<1>11. CASE fits /\ base = "string_agg"
  <2>1. type = (IF t[1] = "string" THEN "string" ELSE "none") /\ r = StringAgg(d, vals[1], apply)
    BY <1>2, <1>4, <1>5, <1>11
  <2>2. vals[1].t = "string" <=> t[1] = "string"
    BY <1>6, <1>11, RecordedTypes
  <2>3. Prepared(c, fn, "string")
    BY <1>7, <1>11 DEF Prepared
  <2>4. IF type = "none" THEN Refused(r) ELSE GoesOn(r, fn, type)
    BY <1>3, <2>1, <2>2, <2>3, StringAggregates
  <2>5. QED
    BY <2>4 DEF r, type
<1>12. CASE fits /\ base \in {"sum", "avg"}
  <2>1. /\ type = IF t[1] \in Numbers THEN Recorded(t[1]) ELSE "none"
        /\ r = IF base = "sum" THEN SumAgg(d, vals[1], apply) ELSE Avg(d, vals[1], apply)
    BY <1>2, <1>4, <1>5, <1>12
  <2>2. vals[1].t = Recorded(t[1]) /\ (vals[1].t \in NumTypes <=> t[1] \in Numbers)
    BY <1>6, <1>12, RecordedTypes
  <2>3. /\ vals[1].t \notin NumTypes => Refused(r)
        /\ vals[1].t \in NumTypes /\ vals[1].t = type => GoesOn(r, fn, type)
    BY <1>3, <1>7, <1>12, <2>1, NumberAggregates
  <2>4. Recorded(t[1]) \in NumTypes => Recorded(t[1]) # "none"
    BY DEF NumTypes
  <2>5. IF type = "none" THEN Refused(r) ELSE GoesOn(r, fn, type)
    BY <2>1, <2>2, <2>3, <2>4
  <2>6. QED
    BY <2>5 DEF r, type
<1>13. CASE fits /\ base \in {"min", "max"}
  <2>1. /\ type = IF t[1] \in Numbers \cup {"string"} THEN Recorded(t[1]) ELSE "none"
        /\ r = IF base = "min" THEN Min(d, vals[1], apply) ELSE Max(d, vals[1], apply)
    BY <1>2, <1>4, <1>5, <1>13
  <2>2. /\ vals[1].t = Recorded(t[1])
        /\ vals[1].t \in NumTypes \cup {"string"} <=> t[1] \in Numbers \cup {"string"}
    BY <1>6, <1>13, RecordedTypes
  <2>3. /\ vals[1].t \notin NumTypes \cup {"string"} => Refused(r)
        /\ vals[1].t \in NumTypes \cup {"string"} /\ vals[1].t = type => GoesOn(r, fn, type)
    BY <1>3, <1>7, <1>13, <2>1, ExtremeAggregates
  <2>4. Recorded(t[1]) \in NumTypes \cup {"string"} => Recorded(t[1]) # "none"
    BY DEF NumTypes
  <2>5. IF type = "none" THEN Refused(r) ELSE GoesOn(r, fn, type)
    BY <2>1, <2>2, <2>3, <2>4
  <2>6. QED
    BY <2>5 DEF r, type
<1>14. QED
  BY <1>0, <1>9, <1>10, <1>11, <1>12, <1>13

\* What an expression that fits its row comes to in a plain context.
LEMMA EvalAgrees ==
  ASSUME NEW e, IsExpression(e), NEW row, NEW types, Conforms(e, row, types)
  PROVE  \/ /\ Eval(e, row).t = StaticType(e, types) /\ StaticType(e, types) \in Tags
            /\ ~IsAggregate(e) /\ ~HasAggregate(e)
         \/ Eval(e, row) \in ValueErrors /\ DependsOnValue(e)
         \/ Eval(e, row) = TypeError /\ (StaticType(e, types) = "none" \/ HasAggregate(e))
<1> DEFINE v == NodeValues(e, row)
           t == NodeTypes(e, types)
           n == Len(e)
<1>0. n \in Nat \ {0} /\ n \in 1..n /\ DOMAIN e = 1..n
  BY DEF IsExpression
<1>1. \A k \in 1..n : NodeAgrees(e, v, t, k)
  BY NodesAgree
<1>2. Eval(e, row) = v[n] /\ StaticType(e, types) = t[n]
  BY DEF Eval, StaticType
<1>3. \A i \in 1..n : AggregateAt(e, i) => HasAggregate(e)
  BY <1>0 DEF AggregateAt, HasAggregate
<1>4. IsAggregate(e) <=> AggregateAt(e, n)
  BY DEF IsAggregate, Root, AggregateAt
<1>5. ASSUME v[n].t \in Tags PROVE ~HasAggregate(e)
  <2>1. \A j \in DOMAIN Root(e).args : ~Failed(v[Root(e).args[j]])
    <3>1. CASE e[n].op \in {"lit", "field"}
      <4>1. \A i \in 1..0 : FALSE
        OBVIOUS
      <4>2. DOMAIN e[n].args = 1..0
        BY <1>0, <3>1, OperatorSets DEF IsExpression
      <4>3. QED
        BY <4>1, <4>2 DEF Root
    <3>2. CASE e[n].op \notin {"lit", "field"}
      <4>1. v[n] = NodeValue(e[n], OperandsOf(v, e[n]), row)
        BY <1>0, ExpressionIsOrdered, ValuesUnfold
      <4>2. PICK m \in Nat : DOMAIN e[n].args = 1..m
        BY <1>0, <3>2, InnerNode
      <4>3. /\ DOMAIN OperandsOf(v, e[n]) = 1..m
            /\ \A j \in 1..m : OperandsOf(v, e[n])[j] = v[e[n].args[j]]
        BY <4>2, OperandsLength
      <4>4. ~SomeFailed(OperandsOf(v, e[n]))
        <5> SUFFICES ASSUME SomeFailed(OperandsOf(v, e[n])) PROVE FALSE
          OBVIOUS
        <5>1. v[n] = FirstFailed(OperandsOf(v, e[n]))
          BY <3>2, <4>1 DEF NodeValue
        <5>2. PICK k \in 1..m : FirstFailed(OperandsOf(v, e[n])) = OperandsOf(v, e[n])[k]
                               /\ Failed(OperandsOf(v, e[n])[k])
          BY <4>3, FirstOfFailed
        <5>3. QED
          BY <1>5, <5>1, <5>2, FailedNode
      <4>5. QED
        BY <4>2, <4>3, <4>4 DEF SomeFailed, Root
    <3>3. QED
      BY <3>1, <3>2
  <2>2. \A k \in 1..(n - 1) : ~Failed(v[k])
    BY <2>1, NoneFailed
  <2>3. \A k \in 1..n : ~Failed(v[k])
    <3>1. ~Failed(v[n])
      BY <1>5, FailedNode
    <3>2. \A a \in Nat : \A k \in 1..a : k = a \/ k \in 1..(a - 1)
      OBVIOUS
    <3>3. QED
      BY <1>0, <2>2, <3>1, <3>2
  <2>4. \A k \in 1..n : ~AggregateAt(e, k)
    BY <1>1, <2>3, FailedNode DEF NodeAgrees
  <2>5. QED
    BY <1>0, <2>4 DEF HasAggregate, AggregateAt
<1> HIDE DEF v, t
<1>6. NodeAgrees(e, v, t, n)
  BY <1>0, <1>1
<1>7. QED
  BY <1>2, <1>3, <1>4, <1>5, <1>6 DEF NodeAgrees

-------------------------------------------------------------------------------
\* The root of an expression, and its trial.

LEMMA StandardForm ==
  \A val : /\ Failed(Standard(val)) => Failed(val) /\ Standard(val) = val
           /\ Standard(val).t = Recorded(val.t)
BY ValueParts DEF Standard, Recorded, Failed

\* What an aggregate function at the root comes to in a context of its own.
LEMMA RootAgrees ==
  ASSUME NEW e, IsExpression(e), IsAggregate(e), NEW row, NEW types, Conforms(e, row, types),
         NEW c, Prepared(c, Root(e).op, StaticType(e, types))
  PROVE  \/ GoesOn(EvalRoot(c, e, row), Root(e).op, StaticType(e, types)) /\ ~HasNestedAggregate(e)
         \/ EvalRoot(c, e, row).result \in ValueErrors /\ DependsOnValue(e)
         \/ /\ EvalRoot(c, e, row).result = TypeError
            /\ StaticType(e, types) = "none" \/ HasNestedAggregate(e)
<1> DEFINE n == Len(e)
           v == NodeValues(e, row)
           t == NodeTypes(e, types)
           w == [k \in 1..n |-> Standard(v[k])]
           fn == e[n].op
           vals == OperandsOf(w, e[n])
           ts == OperandsOf(t, e[n])
           r == EvalRoot(c, e, row)
<1>0. /\ n \in Nat \ {0} /\ n \in 1..n /\ DOMAIN e = 1..n
      /\ Root(e) = e[n] /\ fn \in DOMAIN Arity
  BY DEF IsExpression, IsAggregate, Root
<1>1. fn \in FunctionNames /\ fn \notin {"lit", "field"}
  BY <1>0, OperatorSets DEF FunctionNames
<1>2. PICK m \in Nat : /\ DOMAIN e[n].args = 1..m
                       /\ \A j \in 1..m : e[n].args[j] \in 1..(n - 1)
  BY <1>0, <1>1, InnerNode
<1>3. \A k \in 1..n : NodeAgrees(e, v, t, k)
  BY NodesAgree
<1>4. \A i \in 1..(n - 1) : AggregateAt(e, i) => HasNestedAggregate(e)
  BY DEF AggregateAt, HasNestedAggregate
<1>5. \A i \in 1..(n - 1) : i \in 1..n /\ w[i] = Standard(v[i])
  <2>1. \A a \in Nat : \A i \in 1..(a - 1) : i \in 1..a
    OBVIOUS
  <2>2. QED
    BY <1>0, <2>1
<1>6. /\ DOMAIN vals = 1..m /\ Len(vals) = m /\ DOMAIN ts = 1..m /\ Len(ts) = m
      /\ \A j \in 1..m : vals[j] = w[e[n].args[j]] /\ ts[j] = t[e[n].args[j]]
  BY <1>2, OperandsLength
<1>7. vals = [j \in DOMAIN Root(e).args |-> Standard(NodeValues(e, row)[Root(e).args[j]])]
  <2>1. \A j \in 1..m : vals[j] = Standard(v[e[n].args[j]])
    BY <1>2, <1>5, <1>6
  <2>2. vals = [j \in 1..m |-> vals[j]]
    BY <1>2 DEF OperandsOf
  <2>3. QED
    BY <1>0, <1>2, <2>1, <2>2
<1>8. r = IF SomeFailed(vals) THEN [ctx |-> c, result |-> FirstFailed(vals)]
          ELSE EvalAgg(c, "root", fn, vals)
  BY <1>0, <1>7 DEF EvalRoot
<1>9. /\ StaticType(e, types) = t[n]
      /\ t[n] = IF \E j \in 1..m : ts[j] = "none" THEN "none" ELSE AggregateType(fn, ts)
  <2>1. StaticType(e, types) = t[n]
    BY DEF StaticType
  <2>2. t[n] = NodeType(e[n], ts, types)
    BY <1>0, ExpressionIsOrdered, TypesUnfold
  <2>3. NodeType(e[n], ts, types) = IF \E j \in 1..m : ts[j] = "none" THEN "none"
                                    ELSE FunctionType(fn, ts)
    BY <1>1, <1>6 DEF NodeType
  <2>4. FunctionType(fn, ts) = AggregateType(fn, ts)
    <3>1. fn \notin DOMAIN ConvertType /\ fn \notin DOMAIN IifType /\ fn # "len" /\ fn # "string"
      BY <1>0, FunctionSets
    <3>2. QED
      BY <1>0, <3>1 DEF FunctionType
  <2>5. QED
    BY <2>1, <2>2, <2>3, <2>4
<1>10. Prepared(c, fn, t[n])
  BY <1>0, <1>9
<1> HIDE DEF v, t, w, vals, ts, r
<1>11. CASE SomeFailed(vals)
  <2>1. PICK j \in 1..m : FirstFailed(vals) = vals[j] /\ Failed(vals[j])
    BY <1>6, <1>11, FirstOfFailed
  <2> DEFINE i == e[n].args[j]
  <2>2. i \in 1..(n - 1) /\ NodeAgrees(e, v, t, i) /\ ts[j] = t[i] /\ vals[j] = Standard(v[i])
    BY <1>2, <1>3, <1>5, <1>6
  <2>3. Failed(v[i]) /\ r.result = v[i]
    BY <1>8, <1>11, <2>1, <2>2, StandardForm
  <2> HIDE DEF i
  <2>4. CASE v[i] \in ValueErrors /\ DependsOnValue(e)
    BY <2>3, <2>4 DEF r
  <2>5. CASE v[i] = TypeError /\ t[i] = "none"
    BY <1>9, <2>2, <2>3, <2>5 DEF r
  <2>6. CASE v[i] = TypeError /\ \E k \in 1..i : AggregateAt(e, k)
    <3>1. \A a \in Nat : \A b \in 1..(a - 1) : \A k \in 1..b : k \in 1..(a - 1)
      OBVIOUS
    <3>2. HasNestedAggregate(e)
      BY <1>0, <1>4, <2>2, <2>6, <3>1
    <3>3. QED
      BY <2>3, <2>6, <3>2 DEF r
  <2>7. ~(v[i].t \in Tags)
    BY <2>3, FailedNode
  <2>8. QED
    BY <2>2, <2>4, <2>5, <2>6, <2>7 DEF NodeAgrees
<1>12. CASE ~SomeFailed(vals)
  <2>1. \A j \in 1..m : ~Failed(vals[j])
    BY <1>6, <1>12 DEF SomeFailed
  <2>2. \A j \in 1..m : /\ ~Failed(v[e[n].args[j]])
                        /\ vals[j] = Standard(v[e[n].args[j]]) /\ ts[j] = t[e[n].args[j]]
    <3>1. \A val : Failed(val) => Failed(Standard(val))
      BY StandardForm DEF Failed, Recorded
    <3>2. QED
      BY <1>2, <1>5, <1>6, <2>1, <3>1
  <2>3. \A j \in 1..m : v[e[n].args[j]].t = ts[j] /\ ts[j] \in Tags
    <3> SUFFICES ASSUME NEW j \in 1..m
                 PROVE  v[e[n].args[j]].t = ts[j] /\ ts[j] \in Tags
      OBVIOUS
    <3> DEFINE i == e[n].args[j]
    <3>1. NodeAgrees(e, v, t, i) /\ ~Failed(v[i]) /\ ts[j] = t[i]
      BY <1>2, <1>3, <1>5, <2>2
    <3> HIDE DEF i
    <3>2. v[i].t = t[i] /\ t[i] \in Tags
      BY <3>1, FailedNode DEF NodeAgrees
    <3>3. QED
      BY <3>1, <3>2 DEF i
  <2>4. Arguments(vals, ts, m)
    BY <1>6, <2>2, <2>3, StandardForm DEF Arguments
  <2>5. t[n] = AggregateType(fn, ts)
    BY <1>9, <2>3, FailedNode
  <2>6. r = EvalAgg(c, "root", fn, vals)
    BY <1>8, <1>12
  <2>7. IF t[n] = "none" THEN Refused(r) ELSE GoesOn(r, fn, t[n])
    BY <1>0, <1>10, <2>4, <2>5, <2>6, AggregateAgrees
  <2>8. ~HasNestedAggregate(e)
    <3>1. \A k \in 1..(n - 1) : ~Failed(v[k])
      <4>1. \A j \in DOMAIN Root(e).args : ~Failed(NodeValues(e, row)[Root(e).args[j]])
        BY <1>0, <1>2, <2>2 DEF v
      <4>2. QED
        BY <4>1, NoneFailed DEF v
    <3>2. \A k \in 1..(n - 1) : ~AggregateAt(e, k)
      BY <1>3, <1>5, <3>1, FailedNode DEF NodeAgrees
    <3>3. QED
      BY <3>2 DEF HasNestedAggregate, AggregateAt
  <2>9. QED
    BY <1>0, <1>9, <2>7, <2>8 DEF Refused, r
<1>13. QED
  BY <1>11, <1>12

LEMMA NestedOrRoot ==
  ASSUME NEW e, IsExpression(e)
  PROVE  HasAggregate(e) <=> IsAggregate(e) \/ HasNestedAggregate(e)
<1>1. Len(e) \in Nat \ {0} /\ DOMAIN e = 1..Len(e)
  BY DEF IsExpression
<1>2. \A a \in Nat \ {0} : /\ a \in 1..a
                           /\ \A k \in 1..a : k = a \/ k \in 1..(a - 1)
                           /\ \A k \in 1..(a - 1) : k \in 1..a
  OBVIOUS
<1>3. QED
  BY <1>1, <1>2 DEF HasAggregate, IsAggregate, HasNestedAggregate, Root

\* What the trial of an expression finds.
LEMMA TrialAgrees ==
  ASSUME NEW e, IsExpression(e), NEW row, NEW types, Conforms(e, row, types)
  PROVE  \/ /\ TrialValue(e, row).t = StaticType(e, types)
            /\ StaticType(e, types) \in Tags /\ ~HasNestedAggregate(e)
            /\ IsAggregate(e) => StaticType(e, types) \in AggregateTypes /\ HasSeparator(e)
         \/ TrialValue(e, row) \in ValueErrors /\ DependsOnValue(e)
         \/ /\ TrialValue(e, row) = TypeError
            /\ StaticType(e, types) = "none" \/ HasNestedAggregate(e) \/ ~HasSeparator(e)
<1>1. CASE IsAggregate(e) /\ HasSeparator(e)
  <2> DEFINE c == ContextOf(e)
             r == EvalRoot(c, e, row)
  <2>1. TrialValue(e, row) = r.result
    BY <1>1 DEF TrialValue
  <2>2. Prepared(c, Root(e).op, StaticType(e, types))
    BY <1>1, FreshIsPrepared DEF IsAggregate, ContextOf
  <2> HIDE DEF c
  <2>3. \/ GoesOn(r, Root(e).op, StaticType(e, types)) /\ ~HasNestedAggregate(e)
        \/ r.result \in ValueErrors /\ DependsOnValue(e)
        \/ /\ r.result = TypeError
           /\ StaticType(e, types) = "none" \/ HasNestedAggregate(e)
    BY <1>1, <2>2, RootAgrees
  <2> HIDE DEF r
  <2>4. AggregateTypes \subseteq Tags
    BY DEF AggregateTypes, Tags, FieldTypes
  <2>5. QED
    BY <1>1, <2>1, <2>3, <2>4 DEF GoesOn
<1>2. CASE ~IsAggregate(e)
  <2>1. TrialValue(e, row) = Eval(e, row)
    BY <1>2 DEF TrialValue
  <2>2. QED
    BY <1>2, <2>1, EvalAgrees, NestedOrRoot
<1>3. CASE IsAggregate(e) /\ ~HasSeparator(e)
  BY <1>3 DEF TrialValue
<1>4. QED
  BY <1>1, <1>2, <1>3

-------------------------------------------------------------------------------
\* The invariant of a writer, from the loader to its records.

\* Where w's expression has got its type, and the condition its own.
ExpFits ==
  /\ StaticType(def.exp, TypeOfField) = def.type
  /\ ~HasNestedAggregate(def.exp) /\ ~AggMisplaced
  /\ IsAggregate(def.exp) => HasSeparator(def.exp)
HavingFits ==
  StaticType(def.having, [w |-> def.type]) = "bool" /\ ~HasAggregate(def.having)

\* What a group has got so far: its context goes on.
GroupFits ==
  group # <<>> =>
    /\ def.kind = "grouped" /\ ctx.value.t = def.type
    /\ {"call", "value", "type"} \subseteq DOMAIN ctx
    /\ IsAggregate(def.exp) => Prepared(ctx, Root(def.exp).op, def.type)

\* A record has the types of its fields, and the key of its values.
RecordIsGood(r) ==
  /\ r.rec.w.t = def.type /\ r.rec.s.t = TypeOfField["s"]
  /\ r.key = BuildKey(r.rec, def.order)

IsList(s) == s \in Seq({s[k] : k \in DOMAIN s})
RecordsAreGood == /\ IsList(records)
                  /\ \A k \in DOMAIN records : RecordIsGood(records[k])

\* The fields are known once their usage has been checked, and the types once the trials
\* have been passed; then rows come, in groups or not, and records are written.
WriterInv ==
  /\ def \in Defs /\ stage \in {"usage", "field", "having", "rows", "rejected", "failed"}
  /\ stage \in {"field", "having", "rows", "failed"} =>
       FieldsOf(def.exp) \subseteq DOMAIN TypeOfField /\ FieldsOf(def.having) \subseteq {"w"}
  /\ stage \in {"having", "rows", "failed"} => ExpFits
  /\ stage \in {"rows", "failed"} => HavingFits
  /\ TrialsFindTypes /\ RowsFailOnValuesOnly
  /\ group \in Seq(Rows) /\ GroupFits
  /\ RecordsAreGood

LEMMA DefFits ==
  ASSUME NEW d \in Defs
  PROVE  /\ d.kind \in Kinds /\ d.type \in FieldTypes
         /\ IsExpression(d.exp) /\ IsExpression(d.having) /\ d.order \in Seq(Components)
BY WritersAssumption

LEMMA InitWriterInv == InitWriter => WriterInv
<1> SUFFICES ASSUME InitWriter PROVE WriterInv
  OBVIOUS
<1>1. def \in Defs /\ stage = "usage" /\ group = <<>> /\ records = <<>>
  BY DEF InitWriter
<1>2. TrialsFindTypes /\ RowsFailOnValuesOnly
  BY <1>1 DEF TrialsFindTypes, RowsFailOnValuesOnly
<1>3. group \in Seq(Rows) /\ GroupFits
  BY <1>1 DEF GroupFits
<1>4. RecordsAreGood
  BY <1>1 DEF RecordsAreGood, IsList
<1>5. QED
  BY <1>1, <1>2, <1>3, <1>4 DEF WriterInv

\* The samples have the types of the fields, and so has a row.
LEMMA SamplesFit ==
  ASSUME NEW type \in FieldTypes, NEW k
  PROVE  Sample(type, k).t = type
BY ValueParts DEF Sample, FieldTypes

LEMMA SampleConforms ==
  ASSUME NEW e, FieldsOf(e) \subseteq DOMAIN TypeOfField, NEW k
  PROVE  Conforms(e, [f \in DOMAIN TypeOfField |-> Sample(TypeOfField[f], k)], TypeOfField)
BY SamplesFit, WritersAssumption DEF Conforms

LEMMA RowConforms ==
  ASSUME NEW e, FieldsOf(e) \subseteq DOMAIN TypeOfField, NEW row \in Rows
  PROVE  Conforms(e, row, TypeOfField)
BY WritersAssumption DEF Conforms

LEMMA RecordConforms ==
  ASSUME NEW e, FieldsOf(e) \subseteq {"w"}, NEW type \in FieldTypes, NEW rec,
         "w" \in DOMAIN rec, rec.w.t = type
  PROVE  Conforms(e, rec, [w |-> type])
<1> DEFINE types == [w |-> type]
<1>1. DOMAIN types = {"w"} /\ types["w"] = type
  OBVIOUS
<1> HIDE DEF types
<1>2. Conforms(e, rec, types)
  BY <1>1 DEF Conforms
<1>3. QED
  BY <1>2 DEF types

\* No value or error of a trial has two types.
LEMMA TypesDiffer ==
  /\ \A type \in FieldTypes : type \in Tags /\ type # "none" /\ type # "error" /\ type # "nil"
  /\ "bool" \notin AggregateTypes /\ "bool" \in FieldTypes
BY DEF FieldTypes, Tags, AggregateTypes

\* Of the two outcomes a trial has.
LEMMA VerdictOf ==
  ASSUME NEW val, NEW type, NEW next
  PROVE  /\ Verdict(val, type, next) \in {stage, next, "rejected"}
         /\ Verdict(val, type, next) = stage \/ val.t = type \/ Verdict(val, type, next) = "rejected"
         /\ val.t = type /\ type \in FieldTypes => Verdict(val, type, next) = next
BY TypesDiffer, ErrorKinds DEF Verdict

LEMMA UsageKeepsWriterInv == ASSUME WriterInv, CheckUsage PROVE WriterInv'
<1>0. /\ stage = "usage"
      /\ stage' = IF FieldsOf(def.exp) \subseteq DOMAIN TypeOfField
                      /\ FieldsOf(def.having) \subseteq {"w"}
                  THEN "field" ELSE "rejected"
      /\ UNCHANGED <<def, trial, ctx, group, rowsLeft, records, failure>>
  BY DEF CheckUsage
<1>1. ASSUME stage' = "rejected" PROVE ~WellTyped
  <2>1. def.type # "none" /\ IsExpression(def.exp) /\ IsExpression(def.having)
    BY DefFits, TypesDiffer DEF WriterInv
  <2>2. CASE ~(FieldsOf(def.exp) \subseteq DOMAIN TypeOfField)
    BY <2>1, <2>2, FieldsKnown DEF WellTyped
  <2>3. CASE ~(FieldsOf(def.having) \subseteq {"w"})
    <3>1. DOMAIN [w |-> def.type] = {"w"} /\ "bool" # "none"
      OBVIOUS
    <3>2. StaticType(def.having, [w |-> def.type]) = "none"
      BY <2>1, <2>3, <3>1, FieldsKnown
    <3>3. QED
      BY <3>2 DEF WellTyped
  <2>4. QED
    BY <1>0, <1>1, <2>2, <2>3
<1>2. WellTyped' <=> WellTyped
  BY <1>0 DEF WellTyped
<1>3. TrialsFindTypes' /\ RowsFailOnValuesOnly'
  BY <1>0, <1>1, <1>2 DEF TrialsFindTypes, RowsFailOnValuesOnly
<1>4. GroupFits'
  BY <1>0 DEF WriterInv, GroupFits
<1>5. RecordsAreGood'
  BY <1>0 DEF WriterInv, RecordsAreGood, RecordIsGood, IsList
<1>6. QED
  BY <1>0, <1>3, <1>4, <1>5 DEF WriterInv

\* What every step keeps that leaves groups and records alone.
LEMMA QuietWriterStep ==
  ASSUME WriterInv, UNCHANGED <<def, ctx, group, records>>
  PROVE  /\ def' \in Defs /\ GroupFits' /\ group' \in Seq(Rows)
         /\ RecordsAreGood'
         /\ ExpFits' <=> ExpFits
         /\ HavingFits' <=> HavingFits
         /\ WellTyped' <=> WellTyped
         /\ AggMisplaced' <=> AggMisplaced
<1>1. GroupFits'
  BY DEF WriterInv, GroupFits
<1>2. RecordsAreGood'
  BY DEF WriterInv, RecordsAreGood, RecordIsGood, IsList
<1>3. /\ ExpFits' <=> ExpFits
      /\ HavingFits' <=> HavingFits
      /\ WellTyped' <=> WellTyped
      /\ AggMisplaced' <=> AggMisplaced
  BY DEF ExpFits, HavingFits, WellTyped, AggMisplaced
<1>4. QED
  BY <1>1, <1>2, <1>3 DEF WriterInv

LEMMA TestFieldKeepsWriterInv == ASSUME WriterInv, TestField PROVE WriterInv'
<1> DEFINE sample == [f \in DOMAIN TypeOfField |-> Sample(TypeOfField[f], trial)]
           val == TrialValue(def.exp, sample)
           goal == IF AggMisplaced THEN "rejected" ELSE "having"
<1>0. /\ stage = "field" /\ stage' = Verdict(val, def.type, goal)
      /\ UNCHANGED <<def, ctx, group, rowsLeft, records, failure>>
  BY DEF TestField
<1>1. def \in Defs /\ def.type \in FieldTypes /\ IsExpression(def.exp)
  BY DefFits DEF WriterInv
<1>2. FieldsOf(def.exp) \subseteq DOMAIN TypeOfField /\ FieldsOf(def.having) \subseteq {"w"}
  BY <1>0 DEF WriterInv
<1>3. \/ /\ val.t = StaticType(def.exp, TypeOfField)
         /\ ~HasNestedAggregate(def.exp) /\ (IsAggregate(def.exp) => HasSeparator(def.exp))
      \/ val \in ValueErrors /\ DependsOnValue(def.exp)
      \/ /\ val = TypeError
         /\ \/ StaticType(def.exp, TypeOfField) = "none" \/ HasNestedAggregate(def.exp)
            \/ ~HasSeparator(def.exp)
  BY <1>1, <1>2, SampleConforms, TrialAgrees
<1>4. /\ stage' \in {"field", "having", "rejected"}
      /\ stage' = "having" => val.t = def.type /\ ~AggMisplaced
      /\ stage' = "rejected" => val.t # def.type \/ AggMisplaced
  BY <1>0, <1>1, VerdictOf
<1> HIDE DEF sample, val, goal
<1>5. \A x \in ValueErrors \cup {TypeError} : x.t # def.type
  BY <1>1, ErrorKinds, TypesDiffer DEF ValueErrors
<1>6. ASSUME stage' = "having" PROVE ExpFits
  BY <1>3, <1>4, <1>5, <1>6 DEF ExpFits
<1>7. ASSUME stage' = "rejected", WellTyped
      PROVE  \/ AggMisplaced \/ HasNestedAggregate(def.exp) \/ DependsOnValue(def.exp)
             \/ ~HasSeparator(def.exp)
  BY <1>1, <1>3, <1>4, <1>7, TypesDiffer DEF WellTyped
<1>8. TrialsFindTypes' /\ RowsFailOnValuesOnly'
  BY <1>0, <1>4, <1>7, QuietWriterStep DEF TrialsFindTypes, RowsFailOnValuesOnly
<1>9. QED
  BY <1>0, <1>2, <1>4, <1>6, <1>8, QuietWriterStep DEF WriterInv

LEMMA PlainHasSeparator ==
  \A e : ~HasSeparator(e) => IsAggregate(e)
BY DEF HasSeparator, StringAggs, IsAggregate, Arity

LEMMA TestHavingKeepsWriterInv == ASSUME WriterInv, TestHaving PROVE WriterInv'
<1> DEFINE sample == [w |-> Sample(def.type, trial)]
           types == [w |-> def.type]
           val == TrialValue(def.having, sample)
<1>0. /\ stage = "having" /\ stage' = Verdict(val, "bool", "rows")
      /\ UNCHANGED <<def, ctx, group, rowsLeft, records, failure>>
  BY DEF TestHaving
<1>1. def \in Defs /\ def.type \in FieldTypes /\ IsExpression(def.having)
  BY DefFits DEF WriterInv
<1>2. /\ FieldsOf(def.exp) \subseteq DOMAIN TypeOfField /\ FieldsOf(def.having) \subseteq {"w"}
      /\ ExpFits
  BY <1>0 DEF WriterInv
<1>3. \/ /\ val.t = StaticType(def.having, types) /\ ~HasNestedAggregate(def.having)
         /\ IsAggregate(def.having) => StaticType(def.having, types) \in AggregateTypes
      \/ val \in ValueErrors /\ DependsOnValue(def.having)
      \/ /\ val = TypeError
         /\ \/ StaticType(def.having, types) = "none" \/ HasNestedAggregate(def.having)
            \/ IsAggregate(def.having)
  <2>1. "w" \in DOMAIN sample /\ sample.w.t = def.type
    BY <1>1, SamplesFit
  <2> HIDE DEF sample
  <2>2. Conforms(def.having, sample, types)
    BY <1>1, <1>2, <2>1, RecordConforms
  <2>3. QED
    BY <1>1, <2>2, TrialAgrees, PlainHasSeparator
<1>4. /\ stage' \in {"having", "rows", "rejected"}
      /\ stage' = "rows" => val.t = "bool"
      /\ stage' = "rejected" => val.t # "bool"
  BY <1>0, TypesDiffer, VerdictOf
<1>5. HasAggregate(def.having) <=> IsAggregate(def.having) \/ HasNestedAggregate(def.having)
  BY <1>1, NestedOrRoot
<1> HIDE DEF sample, types, val
<1>6. \A x \in ValueErrors \cup {TypeError} : x.t # "bool"
  BY ErrorKinds DEF ValueErrors
<1>7. ASSUME stage' = "rows" PROVE HavingFits
  BY <1>3, <1>4, <1>5, <1>6, <1>7, TypesDiffer DEF HavingFits, types
<1>8. ASSUME stage' = "rejected", WellTyped
      PROVE  HasAggregate(def.having) \/ DependsOnValue(def.having)
  <2>1. StaticType(def.having, types) = "bool"
    BY <1>8 DEF WellTyped, types
  <2>2. QED
    BY <1>3, <1>4, <1>5, <1>8, <2>1
<1>9. stage' = "rows" => WellTyped
  BY <1>2, <1>7 DEF ExpFits, HavingFits, WellTyped
<1>10. TrialsFindTypes' /\ RowsFailOnValuesOnly'
  BY <1>0, <1>4, <1>8, <1>9, QuietWriterStep DEF TrialsFindTypes, RowsFailOnValuesOnly
<1>11. QED
  BY <1>0, <1>2, <1>4, <1>7, <1>10, QuietWriterStep DEF WriterInv

\* What w may be made of: a value of its type, or what no loader can know.
Writable(val) ==
  \/ val.t = def.type
  \/ val \in ValueErrors
  \/ val = TypeError /\ def.kind = "file" /\ IsAggregate(def.exp)

LEMMA LongerList ==
  ASSUME NEW s, IsList(s), NEW r
  PROVE  /\ IsList(Append(s, r))
         /\ \A k \in DOMAIN Append(s, r) :
              Append(s, r)[k] = r \/ \E j \in DOMAIN s : Append(s, r)[k] = s[j]
<1> DEFINE S == {s[k] : k \in DOMAIN s}
           t == Append(s, r)
           n == Len(s)
           T == {t[k] : k \in DOMAIN t}
<1>1. s \in Seq(S) /\ n \in Nat /\ DOMAIN s = 1..n
  BY DEF IsList
<1>2. \A x \in S : \E k \in 1..n : x = s[k]
  BY <1>1
<1> HIDE DEF S, n
<1>3. /\ DOMAIN t = 1..(n + 1) /\ t[n + 1] = r
      /\ \A k \in 1..n : t[k] = s[k]
  BY <1>1 DEF n
<1>4. t \in Seq(S \cup {r})
  BY <1>1
<1>5. \A k \in 1..n : k \in 1..(n + 1)
  BY <1>1
<1>6. n + 1 \in 1..(n + 1) /\ \A k \in 1..(n + 1) : k = n + 1 \/ k \in 1..n
  BY <1>1
<1> HIDE DEF t
<1>7. S \cup {r} \subseteq T
  BY <1>2, <1>3, <1>5, <1>6
<1>8. t \in Seq(T)
  <2> HIDE DEF T
  <2>1. Seq(S \cup {r}) \subseteq Seq(T)
    BY <1>7
  <2>2. QED
    BY <1>4, <2>1
<1>9. IsList(t)
  BY <1>8 DEF IsList
<1>10. \A k \in DOMAIN t : t[k] = r \/ \E j \in DOMAIN s : t[k] = s[j]
  BY <1>1, <1>3, <1>6
<1>11. QED
  BY <1>9, <1>10 DEF t

LEMMA OneMoreRecord ==
  ASSUME RecordsAreGood, NEW r, RecordIsGood(r)
  PROVE  /\ IsList(Append(records, r))
         /\ \A k \in DOMAIN Append(records, r) : RecordIsGood(Append(records, r)[k])
<1> DEFINE rs == Append(records, r)
<1>1. IsList(records)
  BY DEF RecordsAreGood
<1>2. /\ IsList(rs)
      /\ \A k \in DOMAIN rs : rs[k] = r \/ \E j \in DOMAIN records : rs[k] = records[j]
  BY <1>1, LongerList
<1>3. \A j \in DOMAIN records : RecordIsGood(records[j])
  BY DEF RecordsAreGood
<1> HIDE DEF rs
<1>4. ASSUME NEW k \in DOMAIN rs PROVE RecordIsGood(rs[k])
  <2>1. CASE rs[k] = r
    BY <2>1
  <2>2. CASE \E j \in DOMAIN records : rs[k] = records[j]
    BY <1>3, <2>2
  <2>3. QED
    BY <1>2, <2>1, <2>2
<1>5. QED
  BY <1>2, <1>4 DEF rs

LEMMA WriteFits ==
  ASSUME WriterInv, stage = "rows", NEW row \in Rows, NEW val, Writable(val), Write(val, row),
         def' = def
  PROVE  stage' \in {"rows", "failed"} /\ RowsFailOnValuesOnly' /\ RecordsAreGood'
<1> DEFINE rec == [w |-> val, s |-> row["s"]]
           keep == Eval(def.having, rec)
           types == [w |-> def.type]
           new == [rec |-> rec, key |-> BuildKey(rec, def.order)]
<1>0. /\ def.type \in FieldTypes /\ IsExpression(def.having)
      /\ FieldsOf(def.having) \subseteq {"w"} /\ HavingFits
  BY DefFits DEF WriterInv
<1>1. rec.w = val /\ rec.s = row["s"] /\ "w" \in DOMAIN rec
  OBVIOUS
<1>2. new.rec = rec /\ new.key = BuildKey(rec, def.order)
  OBVIOUS
<1>3. \/ /\ val.t # def.type \/ keep.t # "bool"
         /\ stage' = "failed" /\ failure' = IF val.t # def.type THEN val ELSE keep
         /\ records' = records
      \/ /\ val.t = def.type /\ stage' = stage
         /\ records' \in {records, Append(records, new)}
  BY DEF Write
<1>4. row["s"].t = TypeOfField["s"]
  BY WritersAssumption
<1> HIDE DEF rec, new
<1>5. ASSUME val.t = def.type PROVE keep.t = "bool" \/ keep \in ValueErrors
  <2>1. Conforms(def.having, rec, types)
    BY <1>0, <1>1, <1>5, RecordConforms
  <2>2. StaticType(def.having, types) = "bool" /\ ~HasAggregate(def.having)
    BY <1>0 DEF HavingFits
  <2> HIDE DEF types
  <2>3. QED
    BY <1>0, <2>1, <2>2, EvalAgrees
<1>6. ASSUME val.t = def.type PROVE RecordIsGood(new)
  BY <1>1, <1>2, <1>4, <1>6 DEF RecordIsGood
<1> HIDE DEF keep
<1>7. stage' \in {"rows", "failed"}
  BY <1>3
<1>8. RowsFailOnValuesOnly'
  <2> SUFFICES ASSUME stage' = "failed"
               PROVE  failure' \in ValueErrors
                      \/ (failure' = TypeError /\ def.kind = "file" /\ IsAggregate(def.exp))
    BY DEF RowsFailOnValuesOnly, ValueErrors
  <2>1. failure' = IF val.t # def.type THEN val ELSE keep
    BY <1>3
  <2>2. val.t # def.type \/ keep.t # "bool"
    BY <1>3
  <2>3. QED
    BY <1>5, <2>1, <2>2 DEF Writable
<1>9. /\ IsList(records')
      /\ \A k \in DOMAIN records' : RecordIsGood(records'[k])
  <2>1. RecordsAreGood
    BY DEF WriterInv
  <2>2. CASE records' = records
    BY <2>1, <2>2 DEF RecordsAreGood
  <2>3. CASE val.t = def.type /\ records' = Append(records, new)
    BY <1>6, <2>1, <2>3, OneMoreRecord
  <2>4. QED
    BY <1>3, <2>2, <2>3
<1>10. RecordsAreGood'
  BY <1>9 DEF RecordsAreGood, RecordIsGood, IsList
<1>11. QED
  BY <1>7, <1>8, <1>10

\* What is known of a writer that has been accepted.
LEMMA Accepted ==
  ASSUME WriterInv, stage = "rows"
  PROVE  /\ def.type \in FieldTypes /\ IsExpression(def.exp) /\ def.kind \in Kinds
         /\ FieldsOf(def.exp) \subseteq DOMAIN TypeOfField
         /\ FieldsOf(def.having) \subseteq {"w"}
         /\ StaticType(def.exp, TypeOfField) = def.type
         /\ ~HasNestedAggregate(def.exp) /\ ~AggMisplaced
         /\ ExpFits /\ HavingFits /\ WellTyped
         /\ HasAggregate(def.exp) <=> IsAggregate(def.exp)
         /\ def.type \notin {"none", "error", "nil"}
<1>1. /\ def.type \in FieldTypes /\ IsExpression(def.exp) /\ def.kind \in Kinds
      /\ def.type \notin {"none", "error", "nil"}
  BY DefFits, TypesDiffer DEF WriterInv
<1>2. /\ FieldsOf(def.exp) \subseteq DOMAIN TypeOfField /\ FieldsOf(def.having) \subseteq {"w"}
      /\ ExpFits /\ HavingFits
  BY DEF WriterInv
<1>3. HasAggregate(def.exp) <=> IsAggregate(def.exp)
  BY <1>1, <1>2, NestedOrRoot DEF ExpFits
<1>4. QED
  BY <1>1, <1>2, <1>3 DEF ExpFits, HavingFits, WellTyped

\* A row's value of w in a plain context.
LEMMA PlainValue ==
  ASSUME WriterInv, stage = "rows", NEW row \in Rows
  PROVE  IF IsAggregate(def.exp)
         THEN Eval(def.exp, row) \in ValueErrors \cup {TypeError}
         ELSE Eval(def.exp, row).t = def.type \/ Eval(def.exp, row) \in ValueErrors
<1>1. Conforms(def.exp, row, TypeOfField)
  BY Accepted, RowConforms
<1>2. \/ Eval(def.exp, row).t = def.type /\ ~IsAggregate(def.exp)
      \/ Eval(def.exp, row) \in ValueErrors
      \/ Eval(def.exp, row) = TypeError /\ IsAggregate(def.exp)
  BY <1>1, Accepted, EvalAgrees
<1>3. QED
  BY <1>2

LEMMA WriteRecordKeepsWriterInv ==
  ASSUME WriterInv, NEW row \in Rows, WriteRecord(row) PROVE WriterInv'
<1> DEFINE val == Eval(def.exp, row)
<1>0. /\ stage = "rows" /\ def.kind # "grouped" /\ Write(val, row)
      /\ UNCHANGED <<def, trial, ctx, group>>
  BY DEF WriteRecord
<1>1. Writable(val)
  <2>1. IsAggregate(def.exp) => def.kind = "file"
    BY <1>0, Accepted DEF AggMisplaced, Kinds
  <2>2. QED
    BY <1>0, <2>1, PlainValue DEF Writable
<1> HIDE DEF val
<1>2. stage' \in {"rows", "failed"} /\ RowsFailOnValuesOnly' /\ RecordsAreGood'
  BY <1>0, <1>1, WriteFits
<1>3. /\ GroupFits' /\ ExpFits' /\ HavingFits' /\ WellTyped'
  <2>1. ExpFits /\ HavingFits /\ WellTyped /\ GroupFits
    BY <1>0, Accepted DEF WriterInv
  <2>2. QED
    BY <1>0, <2>1 DEF ExpFits, HavingFits, WellTyped, GroupFits, AggMisplaced
<1>4. TrialsFindTypes'
  BY <1>2, <1>3 DEF TrialsFindTypes
<1>5. /\ def' \in Defs /\ group' \in Seq(Rows)
      /\ FieldsOf(def'.exp) \subseteq DOMAIN TypeOfField /\ FieldsOf(def'.having) \subseteq {"w"}
  BY <1>0, Accepted DEF WriterInv
<1>6. QED
  BY <1>2, <1>3, <1>4, <1>5 DEF WriterInv

LEMMA WriteGroupKeepsWriterInv == ASSUME WriterInv, WriteGroup PROVE WriterInv'
<1> DEFINE val == GetSafeValue(ctx, Nil)
           row == Head(group)
<1>0. /\ stage = "rows" /\ group # <<>> /\ Write(val, row)
      /\ group' = <<>> /\ UNCHANGED <<def, trial>>
  BY DEF WriteGroup
<1>1. row \in Rows
  BY <1>0 DEF WriterInv
<1>2. Writable(val)
  <2>1. ctx.value.t = def.type
    BY <1>0 DEF WriterInv, GroupFits
  <2>2. val = ctx.value
    BY <1>0, <2>1, Accepted DEF GetSafeValue
  <2>3. QED
    BY <2>1, <2>2 DEF Writable
<1> HIDE DEF val, row
<1>3. stage' \in {"rows", "failed"} /\ RowsFailOnValuesOnly' /\ RecordsAreGood'
  BY <1>0, <1>1, <1>2, WriteFits
<1>4. ExpFits' /\ HavingFits' /\ WellTyped'
  <2>1. ExpFits /\ HavingFits /\ WellTyped
    BY <1>0, Accepted
  <2>2. QED
    BY <1>0, <2>1 DEF ExpFits, HavingFits, WellTyped, AggMisplaced
<1>5. TrialsFindTypes' /\ GroupFits'
  BY <1>0, <1>3, <1>4 DEF TrialsFindTypes, GroupFits
<1>6. /\ def' \in Defs /\ group' \in Seq(Rows)
      /\ FieldsOf(def'.exp) \subseteq DOMAIN TypeOfField /\ FieldsOf(def'.having) \subseteq {"w"}
  BY <1>0, Accepted DEF WriterInv
<1>7. QED
  BY <1>3, <1>4, <1>5, <1>6 DEF WriterInv

LEMMA GroupRowKeepsWriterInv ==
  ASSUME WriterInv, NEW row \in Rows, GroupRow(row) PROVE WriterInv'
<1> DEFINE fresh == IF IsAggregate(def.exp) THEN ContextOf(def.exp) ELSE NewAggEvalCtx("min", <<>>)
           c == IF group = <<>> THEN fresh ELSE ctx
           plain == Eval(def.exp, row)
           r == IF IsAggregate(def.exp)
                THEN IF HasSeparator(def.exp) THEN EvalRoot(c, def.exp, row)
                     ELSE [ctx |-> c, result |-> TypeError]
                ELSE [ctx |-> [c EXCEPT !.value = plain], result |-> plain]
<1>0. /\ stage = "rows" /\ def.kind = "grouped"
      /\ IF Failed(r.result)
         THEN stage' = "failed" /\ failure' = r.result /\ UNCHANGED <<ctx, group>>
         ELSE ctx' = r.ctx /\ group' = Append(group, row) /\ UNCHANGED <<stage, failure>>
      /\ UNCHANGED <<def, trial, rowsLeft, records>>
  BY DEF GroupRow
<1>1. group \in Seq(Rows) /\ GroupFits /\ RecordsAreGood
  BY DEF WriterInv
<1>2. {"call", "value", "type"} \subseteq DOMAIN c
  BY <1>1 DEF GroupFits, NewAggEvalCtx, ContextOf
<1>3. IsAggregate(def.exp) => Prepared(c, Root(def.exp).op, def.type)
  BY <1>1, FreshIsPrepared DEF GroupFits, IsAggregate, ContextOf
<1> HIDE DEF fresh, c
<1>4. \/ /\ r.result.t = def.type /\ r.ctx.value = r.result
         /\ {"call", "value", "type"} \subseteq DOMAIN r.ctx
         /\ IsAggregate(def.exp) => Prepared(r.ctx, Root(def.exp).op, def.type)
      \/ r.result \in ValueErrors
  <2>1. CASE IsAggregate(def.exp)
    <3>1. Conforms(def.exp, row, TypeOfField)
      BY <1>0, Accepted, RowConforms
    <3>2. r = EvalRoot(c, def.exp, row)
      BY <1>0, <2>1, Accepted DEF ExpFits
    <3> HIDE DEF r
    <3>3. GoesOn(r, Root(def.exp).op, def.type) \/ r.result \in ValueErrors
      BY <1>0, <1>3, <2>1, <3>1, <3>2, Accepted, RootAgrees
    <3>4. QED
      BY <3>3 DEF GoesOn, Prepared
  <2>2. CASE ~IsAggregate(def.exp)
    <3> DEFINE x == [c EXCEPT !.value = plain]
    <3>1. r.ctx = x /\ r.result = plain
      BY <2>2
    <3>2. plain.t = def.type \/ plain \in ValueErrors
      BY <1>0, <2>2, PlainValue
    <3> HIDE DEF r, plain
    <3>3. DOMAIN x = DOMAIN c /\ x.value = plain
      BY <1>2
    <3> HIDE DEF x
    <3>4. QED
      BY <1>2, <2>2, <3>1, <3>2, <3>3
  <2>3. QED
    BY <2>1, <2>2
<1> HIDE DEF r
<1>5. /\ Failed(r.result) => r.result \in ValueErrors
      /\ ~Failed(r.result) => r.result \notin ValueErrors
  BY <1>0, <1>4, Accepted, ErrorKinds DEF Failed, ValueErrors
<1>6. RecordsAreGood'
  BY <1>0, <1>1 DEF RecordsAreGood, RecordIsGood, IsList
<1>7. ExpFits' /\ HavingFits' /\ WellTyped'
  <2>1. ExpFits /\ HavingFits /\ WellTyped
    BY <1>0, Accepted
  <2>2. QED
    BY <1>0, <2>1 DEF ExpFits, HavingFits, WellTyped, AggMisplaced
<1>8. stage' \in {"rows", "failed"}
  BY <1>0
<1>9. GroupFits' /\ group' \in Seq(Rows)
  <2>1. CASE Failed(r.result)
    BY <1>0, <1>1, <2>1 DEF GroupFits
  <2>2. CASE ~Failed(r.result)
    <3>1. ctx' = r.ctx /\ group' = Append(group, row) /\ def' = def
      BY <1>0, <2>2
    <3>2. group' \in Seq(Rows)
      BY <1>1, <3>1
    <3>3. QED
      BY <1>0, <1>4, <1>5, <2>2, <3>1, <3>2 DEF GroupFits
  <2>3. QED
    BY <2>1, <2>2
<1>10. TrialsFindTypes' /\ RowsFailOnValuesOnly'
  BY <1>0, <1>5, <1>7, <1>8 DEF TrialsFindTypes, RowsFailOnValuesOnly, ValueErrors
<1>11. /\ def' \in Defs
       /\ FieldsOf(def'.exp) \subseteq DOMAIN TypeOfField /\ FieldsOf(def'.having) \subseteq {"w"}
  BY <1>0, Accepted DEF WriterInv
<1>12. QED
  BY <1>6, <1>7, <1>8, <1>9, <1>10, <1>11 DEF WriterInv

(* The types that the loader has found for a writer (evalExpressionWithFieldRefsAndCheckType, *)
(* field_ref.go) are those of every value that a row, a group or a record of it ever has,     *)
(* and the key of a record is that of its values (CalculateTableRecordFromSrcVars, BuildKey). *)
THEOREM WriterInvHolds == WriterSpec => []WriterInv
<1>1. ASSUME WriterInv, [NextWriter]_writerVars PROVE WriterInv'
  <2>1. CASE CheckUsage
    BY <1>1, <2>1, UsageKeepsWriterInv
  <2>2. CASE TestField
    BY <1>1, <2>2, TestFieldKeepsWriterInv
  <2>3. CASE TestHaving
    BY <1>1, <2>3, TestHavingKeepsWriterInv
  <2>4. ASSUME NEW row \in Rows, WriteRecord(row) PROVE WriterInv'
    BY <1>1, <2>4, WriteRecordKeepsWriterInv
  <2>5. ASSUME NEW row \in Rows, GroupRow(row) PROVE WriterInv'
    BY <1>1, <2>5, GroupRowKeepsWriterInv
  <2>6. CASE WriteGroup
    BY <1>1, <2>6, WriteGroupKeepsWriterInv
  <2>7. CASE UNCHANGED writerVars
    <3>1. UNCHANGED <<def, stage, ctx, group, records, failure>>
      BY <2>7 DEF writerVars
    <3>2. TrialsFindTypes' /\ RowsFailOnValuesOnly'
      BY <1>1, <3>1 DEF WriterInv, TrialsFindTypes, RowsFailOnValuesOnly, WellTyped, AggMisplaced
    <3>3. QED
      BY <1>1, <3>1, <3>2, QuietWriterStep DEF WriterInv
  <2>8. QED
    BY <1>1, <2>1, <2>2, <2>3, <2>4, <2>5, <2>6, <2>7 DEF NextWriter
<1>2. QED
  BY <1>1, InitWriterInv, PTL DEF WriterSpec

(* A writer that the loader accepts has the declared types, and one that it refuses has not,  *)
(* or aggregates where it must not, or joins texts with a separator that is not a literal     *)
(* (getAggStringSeparator), or can fail on values of the right type: trying an expression on  *)
(* samples (script_node_def.go) does what a type checker would, for expressions of every size *)
(* over every set of fields.                                                                  *)
THEOREM TrialsFindTypesHolds == WriterSpec => []TrialsFindTypes
<1>1. WriterInv => TrialsFindTypes
  BY DEF WriterInv
<1>2. QED
  BY <1>1, WriterInvHolds, PTL

(* An accepted writer fails on a row for a division by zero, a text that is not a number or   *)
(* an infinite float made a decimal (callDecimal2, which panics) only, and a file column that *)
(* aggregates because it gets no aggregate context (CalculateFileRecordFromSrcVars): no row   *)
(* has a value of an unexpected type.                                                         *)
THEOREM RowsFailOnValuesOnlyHolds == WriterSpec => []RowsFailOnValuesOnly
<1>1. WriterInv => RowsFailOnValuesOnly
  BY DEF WriterInv
<1>2. QED
  BY <1>1, WriterInvHolds, PTL

(* The keys of two records that a writer has written compare as the records do by the order   *)
(* of the writer (BuildKey, pkg/sc/key.go), as far as the formats have room for their values. *)
THEOREM KeysFollowOrderHolds == WriterSpec => []KeysFollowOrder
<1>1. ASSUME WriterInv PROVE KeysFollowOrder
  <2> SUFFICES ASSUME NEW i \in DOMAIN records, NEW j \in DOMAIN records,
                      RecordFits(records[i].rec, def.order),
                      RecordFits(records[j].rec, def.order)
               PROVE  LexLess(records[i].key, records[j].key)
                        <=> RecordBefore(records[i].rec, records[j].rec, def.order)
    BY DEF KeysFollowOrder
  <2> DEFINE p == records[i]
             q == records[j]
             comps == def.order
  <2>1. RecordIsGood(p) /\ RecordIsGood(q)
    BY <1>1 DEF WriterInv, RecordsAreGood
  <2>2. comps \in Seq(Components)
    BY <1>1, DefFits DEF WriterInv
  <2>3. \A k \in DOMAIN comps : comps[k].name \in {"w", "s"}
    <3>1. \A k \in DOMAIN comps : comps[k] \in Components
      BY <2>2
    <3>2. QED
      BY <3>1 DEF Components
  <2>4. \A name \in {"w", "s"} : p.rec[name].t = q.rec[name].t
    BY <2>1 DEF RecordIsGood
  <2>5. \A k \in DOMAIN comps : /\ ValueFits(p.rec[comps[k].name], comps[k])
                                /\ ValueFits(q.rec[comps[k].name], comps[k])
    BY DEF RecordFits
  <2> HIDE DEF p, q, comps
  <2>6. \A k \in DOMAIN comps : ComparableIn(p.rec, q.rec, comps[k])
    BY <2>3, <2>4, <2>5 DEF ComparableIn, Comparable
  <2>7. LexLess(BuildKey(p.rec, comps), BuildKey(q.rec, comps))
          <=> RecordBefore(p.rec, q.rec, comps)
    BY <2>2, <2>6, KeysCompareAsRecords
  <2>8. QED
    BY <2>1, <2>7 DEF RecordIsGood, p, q, comps
<1>2. QED
  BY <1>1, WriterInvHolds, PTL
===============================================================================
