------------------------------ MODULE LookupJoin -------------------------------
(***************************************************************************)
(* One batch of a table_lookup_table node, runCreateTableRelForBatch of    *)
(* pkg/proc/proc_table_creator_lookup.go.  Pages of left rows come in one  *)
(* by one.  The lookup keys of a page go through a channel to key workers; *)
(* a key worker reads the rowids of its key from the lookup index, page by *)
(* page, and hands them through a channel of its own to rowid workers,     *)
(* which read the right row, filter it and join it with the left rows of   *)
(* the key.  Rows of grouped lookups, and left rows without a match, are   *)
(* written when the workers are done with the page (the epilogue).         *)
(*                                                                         *)
(* The two channels have no buffer: a hand-over is one step of both sides. *)
(* Retries of a select that end in success are left out: they change       *)
(* nothing.  A row is added to the bag `out`; what the inserter does with  *)
(* it then is the matter of TableBatch.                                    *)
(***************************************************************************)
EXTENDS Aggregates, FiniteSets, Bags

CONSTANTS
  LeftPages,      \* sequence of sets: the left rows (numbers) of each page
  KeyOf,          \* KeyOf[l]: lookup key of the left row l
  RowidsOf,       \* RowidsOf[k]: sequence of the rowids that the index has for key k
  Data,           \* rowids that are in the lookup table; others are orphans of the index
  Passing,        \* those of them that the lookup filter lets pass
  NoHaving,       \* left rows whose records the having condition of the creator refuses
  PageSize,       \* IdxReadBatchSize
  KeyWorkers,     \* set of key workers
  RowidWorkers,   \* set of rowid workers of one key worker
  Fields,         \* fields of the target table, if the lookup is grouped
  FnOf,           \* FnOf[f]: aggregate function of field f, or "plain"
  ArgsOf,         \* ArgsOf[f][r]: arguments of the function, for right row r
  DefaultOf,      \* DefaultOf[f]: default value of the field
  Sep,            \* separator of string_agg, a sequence of characters
  Modes,          \* subset of [group : BOOLEAN, join : {"inner", "left"}]
  None,           \* no right row
  FaultKinds,     \* subset of {"left", "index", "row", "eval", "epilogue"}
  MaxFaults       \* bound: number of faults in a behaviour

Left == UNION {LeftPages[i] : i \in 1..Len(LeftPages)}
Keys == {KeyOf[l] : l \in Left}
Rowids == UNION {{RowidsOf[k][i] : i \in 1..Len(RowidsOf[k])} : k \in Keys}

\* LookupKeyWorkers is at least one (env_config.go).
ASSUME LookupAssumption ==
  /\ PageSize \in Nat \ {0}
  /\ Passing \subseteq Data /\ None \notin Data
  /\ Left \subseteq Nat /\ Len(LeftPages) \in Nat
  /\ \A i, j \in 1..Len(LeftPages) : i # j => LeftPages[i] \cap LeftPages[j] = {}
  /\ \A k \in Keys : /\ Len(RowidsOf[k]) \in Nat
                     /\ \A i, j \in 1..Len(RowidsOf[k]) : RowidsOf[k][i] = RowidsOf[k][j] => i = j
  /\ KeyWorkers # {}
  /\ Modes \subseteq [group : BOOLEAN, join : {"inner", "left"}]

\* The arguments of an aggregate: as many as it has, the condition last, the first of one
\* type in all rows, as it is an expression over typed columns that the loader has tried.
ArgumentsFit(f, fn, type) ==
  \A r \in Data :
    /\ Len(ArgsOf[f][r]) = Arity[fn]
    /\ fn \in IfFuncs => /\ ArgsOf[f][r][Arity[fn]].t = "bool"
                         /\ ArgsOf[f][r][Arity[fn]].v \in BOOLEAN
    /\ Base[fn] # "count" => /\ ArgsOf[f][r][1].t = type
                             /\ ArgsOf[f][r][1].v \in IF type = "string" THEN Seq(Int) ELSE Int
LimitsKnown(type) ==
  /\ type \in DOMAIN Top \cap DOMAIN Bottom
  /\ type # "string" => Top[type] \in Int /\ Bottom[type] \in Int
ArgumentTypes(fn) ==
  CASE Base[fn] \in {"min", "max"} -> NumTypes \cup {"string"}
    [] Base[fn] \in {"sum", "avg"} -> NumTypes
    [] OTHER                      -> {"string"}

ASSUME FieldsAssumption ==
  \A f \in Fields :
    FnOf[f] # "plain" =>
      /\ FnOf[f] \in DOMAIN Base
      /\ \E type \in ArgumentTypes(FnOf[f]) :
           /\ ArgumentsFit(f, FnOf[f], type)
           /\ Base[FnOf[f]] \in {"min", "max"} => LimitsKnown(type)

VARIABLES
  mode,      \* IsGroup and LookupJoin of the node
  page,      \* number of left pages read
  phase,     \* what runCreateTableRelForBatch does
  keysCh,    \* keys that the feeder has yet to hand over
  kw,        \* kw[w]: key worker w
  rw,        \* rw[w][r]: rowid worker r of the key that w has
  selErr,    \* selErr[w]: firstSelectRightRowErr
  hErr,      \* firstHandleKeyErr
  found,     \* left rows of the page that have a right row (leftRowFoundRightLookup)
  eCtx,      \* eCtx[l][f]: evaluation context, grouped lookups only
  out,       \* bag of records handed to the inserter
  written,   \* rowsWritten of processLookupsForKeys
  total,     \* BatchStats.RowsWritten
  faults

workers == <<keysCh, kw, rw, selErr, hErr>>
results == <<found, eCtx, out, written, total>>
vars == <<mode, page, phase, workers, results, faults>>

IdleKw == [at |-> "idle", key |-> None, upto |-> 0, sent |-> 0, more |-> TRUE, err |-> FALSE]
IdleRw == [at |-> "wait", rowid |-> None, todo |-> {}, left |-> 0, tmp |-> 0]

LeftRows == LeftPages[page]
LeftOf(k) == {l \in LeftRows : KeyOf[l] = k}

Fault(kind) ==
  /\ kind \in FaultKinds
  /\ faults < MaxFaults
  /\ faults' = faults + 1

KwGoto(w, step) == kw' = [kw EXCEPT ![w].at = step]
RwGoto(w, r, step) == rw' = [rw EXCEPT ![w][r].at = step]

\* A record: the left row, the right row or None, and the values of grouped fields.
Record(l, r, fields) == [left |-> l, right |-> r, fields |-> fields]
Having(rec) == rec.left \notin NoHaving
Add(rec) == IF Having(rec) THEN out (+) SetToBag({rec}) ELSE out

\* setupEvalCtxForGroup: a context of its own for each left row and field.
NewCtx(f) == NewAggEvalCtx(IF FnOf[f] = "plain" THEN "count" ELSE FnOf[f], Sep)

-------------------------------------------------------------------------------
\* runCreateTableRelForBatch

\* The next page of left rows; behind the last one the batch is done.  The keys
\* to find are the keys of the page (buildKeysToFindInTheLookupIndex).
ReadPage ==
  /\ phase = "read"
  /\ IF page = Len(LeftPages)
     THEN phase' = "done" /\ UNCHANGED <<page, workers, found, eCtx, written>>
     ELSE /\ page' = page + 1
          /\ phase' = "lookup"
          /\ keysCh' = {KeyOf[l] : l \in LeftPages[page + 1]}
          /\ kw' = [w \in KeyWorkers |-> IdleKw]
          /\ rw' = [w \in KeyWorkers |-> [r \in RowidWorkers |-> IdleRw]]
          /\ selErr' = [w \in KeyWorkers |-> FALSE]
          /\ hErr' = FALSE
          /\ found' = {}
          /\ eCtx' = [l \in IF mode.group THEN LeftPages[page + 1] ELSE {} |->
                        [f \in Fields |-> NewCtx(f)]]
          /\ written' = 0
  /\ UNCHANGED <<mode, out, total, faults>>

ReadPageFails ==
  /\ phase = "read"
  /\ Fault("left")
  /\ phase' = "failed"
  /\ UNCHANGED <<mode, page, workers, results>>

\* Faulty variant: the error of the key workers is not looked at.
EndLookup_IgnoresError ==
  /\ phase = "lookup"
  /\ \A w \in KeyWorkers : kw[w].at = "stopped"
  /\ phase' = "epilogue"
  /\ total' = total + written
  /\ UNCHANGED <<mode, page, workers, found, eCtx, out, written, faults>>

\* processLookupsForKeys returns when all key workers have: the error fails the batch.
EndLookup ==
  /\ phase = "lookup"
  /\ \A w \in KeyWorkers : kw[w].at = "stopped"
  /\ IF hErr THEN phase' = "failed" /\ UNCHANGED total
     ELSE phase' = "epilogue" /\ total' = total + written
  /\ UNCHANGED <<mode, page, workers, found, eCtx, out, written, faults>>

\* produceGroupedTableRecord: what the contexts have collected, or defaults for
\* aggregates (and left values for the rest, which stay "plain") without right rows.
GroupedRecord(l) ==
  Record(l, None, [f \in Fields |->
    IF FnOf[f] = "plain" THEN Value("plain", l)
    ELSE IF l \in found THEN GetSafeValue(eCtx[l][f], DefaultOf[f])
    ELSE DefaultOf[f]])

\* Faulty variant: an inner join writes left rows without right rows.
EpilogueRows_IgnoresJoin == IF mode.group THEN LeftRows ELSE LeftRows \ found

\* The left rows that are still to be written when the workers are done.
EpilogueRows ==
  CASE mode.group /\ mode.join = "left"   -> LeftRows
    [] mode.group /\ mode.join = "inner"  -> LeftRows \cap found
    [] ~mode.group /\ mode.join = "left"  -> LeftRows \ found
    [] ~mode.group /\ mode.join = "inner" -> {}
EpilogueRecord(l) == IF mode.group THEN GroupedRecord(l) ELSE Record(l, None, <<>>)
Written(rows) == {rec \in {EpilogueRecord(l) : l \in rows} : Having(rec)}

Epilogue ==
  /\ phase = "epilogue"
  /\ out' = out (+) SetToBag(Written(EpilogueRows))
  /\ total' = total + Cardinality(Written(EpilogueRows))
  /\ phase' = "read"
  /\ UNCHANGED <<mode, page, workers, found, eCtx, written, faults>>

\* A record of the epilogue cannot be calculated: those before it are written.
EpilogueFails ==
  /\ phase = "epilogue"
  /\ Fault("epilogue")
  /\ \E n \in EpilogueRows :
       LET rows == {l \in EpilogueRows : l < n}
       IN /\ out' = out (+) SetToBag(Written(rows))
          /\ total' = total + Cardinality(Written(rows))
  /\ phase' = "failed"
  /\ UNCHANGED <<mode, page, workers, found, eCtx, written>>

-------------------------------------------------------------------------------
\* Key workers: processKey and the loop around it.

\* A key comes through keysCh; the key gets rowid workers of its own.
TakeKey(w) ==
  /\ phase = "lookup"
  /\ kw[w].at = "idle"
  /\ \E k \in keysCh :
       /\ keysCh' = keysCh \ {k}
       /\ kw' = [kw EXCEPT ![w] = [IdleKw EXCEPT !.at = "select", !.key = k]]
  /\ rw' = [rw EXCEPT ![w] = [r \in RowidWorkers |-> IdleRw]]
  /\ selErr' = [selErr EXCEPT ![w] = FALSE]
  /\ UNCHANGED <<mode, page, phase, hErr, results, faults>>

\* keysCh is closed.
NoMoreKeys(w) ==
  /\ phase = "lookup"
  /\ kw[w].at = "idle"
  /\ keysCh = {}
  /\ KwGoto(w, "stopped")
  /\ UNCHANGED <<mode, page, phase, keysCh, rw, selErr, hErr, results, faults>>

\* Faulty variant: a page that is not full is taken for the last one.
MoreOf_FullPagesOnly(n, rest, isMore) == n = PageSize

\* Faulty variant: reading goes on whatever the page state.
MoreOf_Always(n, rest, isMore) == TRUE

\* The page state after a page of n of the remaining rowids: surely not empty if rows
\* are left, and nobody knows after the last row.
MoreOf(n, rest, isMore) == n < rest \/ (n > 0 /\ isMore)

\* selectRowidsFromIdxTablePagedByKey: a page, of any size with Amazon Keyspaces.
SelectIndex(w) ==
  /\ kw[w].at = "select"
  /\ LET rest == Len(RowidsOf[kw[w].key]) - kw[w].upto
     IN \E n \in 0..PageSize, isMore \in BOOLEAN :
          /\ n <= rest
          /\ rest > 0 => n > 0
          /\ kw' = [kw EXCEPT ![w].at = "feed", ![w].upto = @ + n,
                              ![w].more = MoreOf(n, rest, isMore)]
  /\ UNCHANGED <<mode, page, phase, keysCh, rw, selErr, hErr, results, faults>>

SelectIndexFails(w) ==
  /\ kw[w].at = "select"
  /\ Fault("index")
  /\ kw' = [kw EXCEPT ![w].at = "close", ![w].err = TRUE]
  /\ UNCHANGED <<mode, page, phase, keysCh, rw, selErr, hErr, results>>

\* rowidCh <- rowid: waits until rowid worker r receives.
Feed(w, r) ==
  /\ kw[w].at = "feed"
  /\ kw[w].sent < kw[w].upto
  /\ rw[w][r].at = "wait"
  /\ kw' = [kw EXCEPT ![w].sent = @ + 1]
  /\ rw' = [rw EXCEPT ![w][r].at = "got", ![w][r].rowid = RowidsOf[kw[w].key][kw[w].sent + 1]]
  /\ UNCHANGED <<mode, page, phase, keysCh, selErr, hErr, results, faults>>

PageFed(w) ==
  /\ kw[w].at = "feed"
  /\ kw[w].sent = kw[w].upto
  /\ KwGoto(w, IF kw[w].more THEN "select" ELSE "close")
  /\ UNCHANGED <<mode, page, phase, keysCh, rw, selErr, hErr, results, faults>>

\* Faulty variant: an error of a rowid worker is forgotten at the end of the key.
KeyFailed_IndexOnly(w) == kw[w].err

KeyFailed(w) == kw[w].err \/ selErr[w]

\* rowidCh is closed and all rowid workers are gone: the next key, or the error.
EndKey(w) ==
  /\ kw[w].at = "close"
  /\ \A r \in RowidWorkers : rw[w][r].at = "exit"
  /\ KwGoto(w, IF KeyFailed(w) THEN "stopped" ELSE "idle")
  /\ hErr' = (hErr \/ KeyFailed(w))
  /\ UNCHANGED <<mode, page, phase, keysCh, rw, selErr, results, faults>>

-------------------------------------------------------------------------------
\* Rowid workers.

\* After an error each worker drops the rowid it has received and goes; otherwise
\* selectDataRowByRowid finds the row, or none.
SelectRow(w, r) ==
  /\ rw[w][r].at = "got"
  /\ RwGoto(w, r, IF selErr[w] THEN "exit" ELSE IF rw[w][r].rowid \in Data THEN "lock" ELSE "wait")
  /\ UNCHANGED <<mode, page, phase, keysCh, kw, selErr, hErr, results, faults>>

SelectRowFails(w, r) ==
  /\ rw[w][r].at = "got"
  /\ ~selErr[w]
  /\ Fault("row")
  /\ selErr' = [selErr EXCEPT ![w] = TRUE]
  /\ RwGoto(w, r, "wait")
  /\ UNCHANGED <<mode, page, phase, keysCh, kw, hErr, results>>

\* processRightDataRowMux of the key is held.
Locked(w) == \E r \in RowidWorkers : rw[w][r].at \in {"eval", "row", "count"}

\* The lock, then the filter (checkLookupFilter).
Filter(w, r) ==
  /\ rw[w][r].at = "lock"
  /\ ~Locked(w)
  /\ rw' = [rw EXCEPT ![w][r].at = IF rw[w][r].rowid \notin Passing THEN "wait"
                                   ELSE IF mode.group THEN "eval" ELSE "row",
                      ![w][r].todo = LeftOf(kw[w].key)]
  /\ UNCHANGED <<mode, page, phase, keysCh, kw, selErr, hErr, results, faults>>

\* evalRowGroupedFields of one left row: each field's context sees the right row.
Evaluated(l, rowid) ==
  [f \in Fields |->
     IF FnOf[f] = "plain" THEN eCtx[l][f]
     ELSE EvalAgg(eCtx[l][f], f, FnOf[f], ArgsOf[f][rowid]).ctx]

\* Grouped: all left rows of the key, under the lock.
EvalGrouped(w, r) ==
  /\ rw[w][r].at = "eval"
  /\ found' = found \cup LeftOf(kw[w].key)
  /\ eCtx' = [l \in DOMAIN eCtx |->
                IF l \in LeftOf(kw[w].key) THEN Evaluated(l, rw[w][r].rowid) ELSE eCtx[l]]
  /\ RwGoto(w, r, "wait")
  /\ UNCHANGED <<mode, page, phase, keysCh, kw, selErr, hErr, out, written, total, faults>>

\* Not grouped: one left row after the other.  The record is added, then counted.
JoinRow(w, r) ==
  /\ rw[w][r].at = "row"
  /\ IF rw[w][r].todo = {}
     THEN RwGoto(w, r, "wait") /\ UNCHANGED <<found, out>>
     ELSE LET l == CHOOSE x \in rw[w][r].todo : \A y \in rw[w][r].todo : x <= y
              rec == Record(l, rw[w][r].rowid, <<>>)
          IN /\ found' = found \cup {l}
             /\ out' = Add(rec)
             /\ rw' = [rw EXCEPT ![w][r].at = "count", ![w][r].left = IF Having(rec) THEN 1 ELSE 0,
                                 ![w][r].tmp = written, ![w][r].todo = @ \ {l}]
  /\ UNCHANGED <<mode, page, phase, keysCh, kw, selErr, hErr, eCtx, written, total, faults>>

\* rowsWritten += n: the value read in the step before, whatever others did since.
CountRow(w, r) ==
  /\ rw[w][r].at = "count"
  /\ written' = rw[w][r].tmp + rw[w][r].left
  /\ RwGoto(w, r, "row")
  /\ UNCHANGED <<mode, page, phase, keysCh, kw, selErr, hErr, found, eCtx, out, total, faults>>

\* A filter, field or having expression, or an index key, cannot be evaluated.
JoinFails(w, r) ==
  /\ rw[w][r].at \in {"eval", "row"}
  /\ Fault("eval")
  /\ selErr' = [selErr EXCEPT ![w] = TRUE]
  /\ RwGoto(w, r, "wait")
  /\ UNCHANGED <<mode, page, phase, keysCh, kw, hErr, results>>

ChannelClosed(w, r) ==
  /\ kw[w].at = "close"
  /\ rw[w][r].at = "wait"
  /\ RwGoto(w, r, "exit")
  /\ UNCHANGED <<mode, page, phase, keysCh, kw, selErr, hErr, results, faults>>

-------------------------------------------------------------------------------
Init ==
  /\ mode \in Modes
  /\ page = 0
  /\ phase = "read"
  /\ keysCh = {}
  /\ kw = [w \in KeyWorkers |-> IdleKw]
  /\ rw = [w \in KeyWorkers |-> [r \in RowidWorkers |-> IdleRw]]
  /\ selErr = [w \in KeyWorkers |-> FALSE]
  /\ hErr = FALSE
  /\ found = {}
  /\ eCtx = <<>>
  /\ out = EmptyBag
  /\ written = 0
  /\ total = 0
  /\ faults = 0

Batch == ReadPage \/ ReadPageFails \/ EndLookup \/ Epilogue \/ EpilogueFails
KeyWorker(w) ==
  \/ TakeKey(w) \/ NoMoreKeys(w)
  \/ SelectIndex(w) \/ SelectIndexFails(w)
  \/ PageFed(w) \/ EndKey(w)
RowidWorker(w, r) ==
  \/ Feed(w, r) \/ ChannelClosed(w, r)
  \/ SelectRow(w, r) \/ SelectRowFails(w, r)
  \/ Filter(w, r) \/ EvalGrouped(w, r) \/ JoinRow(w, r) \/ CountRow(w, r) \/ JoinFails(w, r)

Ended == phase \in {"done", "failed"}

\* After an error every rowid worker of the key takes one rowid more and goes, but
\* rowids are left: rowidCh <- rowid is never received.
Stuck(w) ==
  /\ kw[w].at = "feed" /\ kw[w].sent < kw[w].upto
  /\ \A r \in RowidWorkers : rw[w][r].at = "exit"

\* Not a step of the program.  The batch has ended, or only stuck key workers are left.
Stopped ==
  /\ \/ Ended
     \/ phase = "lookup" /\ \A w \in KeyWorkers : kw[w].at = "stopped" \/ Stuck(w)
  /\ UNCHANGED vars

Next ==
  \/ Batch
  \/ \E w \in KeyWorkers : KeyWorker(w)
  \/ \E w \in KeyWorkers, r \in RowidWorkers : RowidWorker(w, r)
  \/ Stopped

Spec == Init /\ [][Next]_vars

\* Goroutines are scheduled, and selects are answered.
FairSpec ==
  /\ Spec
  /\ WF_vars(Batch)
  /\ \A w \in KeyWorkers : WF_vars(KeyWorker(w))
  /\ \A w \in KeyWorkers, r \in RowidWorkers : WF_vars(RowidWorker(w, r))

-------------------------------------------------------------------------------
TypeOK ==
  /\ mode \in [group : BOOLEAN, join : {"inner", "left"}]
  /\ page \in 0..Len(LeftPages)
  /\ phase \in {"read", "lookup", "epilogue", "done", "failed"}
  /\ keysCh \subseteq Keys
  /\ kw \in [KeyWorkers -> [at : {"idle", "select", "feed", "close", "stopped"},
                            key : Keys \cup {None}, upto : Nat, sent : Nat, more : BOOLEAN,
                            err : BOOLEAN]]
  /\ \A w \in KeyWorkers : kw[w].sent <= kw[w].upto
  /\ rw \in [KeyWorkers -> [RowidWorkers ->
               [at : {"wait", "got", "lock", "eval", "row", "count", "exit"},
                rowid : Rowids \cup {None}, todo : SUBSET Left, left : 0..1, tmp : Nat]]]
  /\ selErr \in [KeyWorkers -> BOOLEAN]
  /\ hErr \in BOOLEAN
  /\ found \subseteq Left
  /\ mode.group => DOMAIN eCtx \subseteq Left
  /\ IsABag(out)
  /\ written \in Nat /\ total \in Nat /\ faults \in 0..MaxFaults

\* Right rows that a left row is to be joined with.
Matches(l) == {r \in {RowidsOf[KeyOf[l]][i] : i \in 1..Len(RowidsOf[KeyOf[l]])} : r \in Passing}

\* The values of a grouped field that the right rows S allow.  A condition is the
\* last argument of an _if function.
Counted(f, S) ==
  IF FnOf[f] \in IfFuncs THEN {r \in S : ArgsOf[f][r][Arity[FnOf[f]]].v} ELSE S

Sums(S, val) ==
  LET s[T \in SUBSET S] ==
        IF T = {} THEN 0 ELSE LET x == CHOOSE x \in T : TRUE IN val[x] + s[T \ {x}]
  IN s[S]

\* The rows come in any order.  There is no separator while nothing has been written.
Orders(S) == {q \in [1..Cardinality(S) -> S] : \A i, j \in DOMAIN q : q[i] = q[j] => i = j}
Extended(text, string) == IF text = <<>> THEN string ELSE text \o Sep \o string
Concat(n, q, str) ==
  LET s[i \in 0..n] == IF i = 0 THEN <<>> ELSE Extended(s[i - 1], str[q[i]])
  IN s[n]

\* The extreme values, between the limits of the type.  An empty string stands for none: the
\* least of strings that came before it is forgotten.
Smallest(type, X) ==
  IF type # "string"
  THEN {x \in X \cup {Top[type]} : \A y \in X \cup {Top[type]} : x <= y}
  ELSE IF X = {} THEN {<<>>} ELSE IF <<>> \in X THEN X ELSE {x \in X : \A y \in X : ~LexLess(y, x)}
Greatest(type, X) ==
  IF type # "string"
  THEN {x \in X \cup {Bottom[type]} : \A y \in X \cup {Bottom[type]} : y <= x}
  ELSE IF X = {} THEN {<<>>} ELSE {x \in X : \A y \in X : ~LexLess(x, y)}

AllowedValues(f, S) ==
  LET T == Counted(f, S)
      val == [r \in T |-> ArgsOf[f][r][1].v]
      type == ArgsOf[f][CHOOSE r \in S : TRUE][1].t
      sum == Sums(T, val)
      Values == {val[r] : r \in T}
  IN CASE Base[FnOf[f]] = "count"      -> {Value("int", Cardinality(T))}
       [] Base[FnOf[f]] = "sum"        -> {Value(type, IF type = "int" THEN Wrap(sum) ELSE sum)}
       [] Base[FnOf[f]] = "avg"        -> {Value(type, Average(type, sum, Cardinality(T)))}
       [] Base[FnOf[f]] = "string_agg" ->
            {Value("string", Concat(Cardinality(T), q, val)) : q \in Orders(T)}
       [] Base[FnOf[f]] = "min"        -> {Value(type, x) : x \in Smallest(type, Values)}
       [] Base[FnOf[f]] = "max"        -> {Value(type, x) : x \in Greatest(type, Values)}

\* A grouped record of l is right.
GroupedRight(rec) ==
  \A f \in Fields :
     rec.fields[f] \in IF FnOf[f] = "plain" THEN {Value("plain", rec.left)}
                       ELSE IF Matches(rec.left) = {} THEN {DefaultOf[f]}
                       ELSE AllowedValues(f, Matches(rec.left))

\* SQL's join of the two tables, without having.
WithMatch == {l \in Left : Matches(l) # {}}
Pairs == {Record(l, r, <<>>) : l \in Left, r \in Rowids}
PlainJoin ==
  {p \in Pairs : p.right \in Matches(p.left)}
    \cup (IF mode.join = "left" THEN {Record(l, None, <<>>) : l \in Left \ WithMatch} ELSE {})

\* glossary.md on table_lookup_table: "finds matching rows in the lookup table,
\* performs join operations".  A batch that is done has written exactly the rows of the
\* join, each once, with the aggregates of all the matching rows, however the workers
\* shared keys, rowids and pages among them, whatever pages the index came in.
JoinIsExact ==
  phase = "done" =>
    /\ \A rec \in BagToSet(out) : Having(rec) /\ out[rec] = 1
    /\ ~mode.group => BagToSet(out) = {rec \in PlainJoin : Having(rec)}
    /\ mode.group =>
         /\ \A rec \in BagToSet(out) : GroupedRight(rec)
         /\ \A l \in Left :
              Cardinality({rec \in BagToSet(out) : rec.left = l})
                <= IF mode.join = "left" \/ Matches(l) # {} THEN 1 ELSE 0
         /\ \A l \in IF mode.join = "left" THEN Left ELSE WithMatch :
              l \in NoHaving \/ \E rec \in BagToSet(out) : rec.left = l

\* No failure of any worker is lost: a batch in which a select or an expression failed
\* does not end as done (firstSelectRightRowErr, firstHandleKeyErr).
ErrorNeverLost == faults > 0 => phase # "done"

\* The batch ends, or a key worker waits for ever for a rowid worker to receive
\* (rowidCh after firstSelectRightRowErr); nothing else can hold it up.
EndsOrStarves == <>(Ended \/ \E w \in KeyWorkers : Stuck(w))

\* The same as the code's comments have it: "all rowids of a single key" are
\* dispatched, and processLookupsForKeys "returns the number of non-grouped rows
\* written": the batch ends.
LookupEnds == <>Ended

\* "instr.add (and the rowsWritten counter) are serialized by inserterMu": the number of
\* rows written that the batch reports is the number of rows it has written.
RowsWrittenCounted == phase = "done" => total = BagCardinality(out)
===============================================================================
