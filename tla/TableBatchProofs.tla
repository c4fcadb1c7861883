---------------------------- MODULE TableBatchProofs ----------------------------
(***************************************************************************)
(* Theorems about one batch of a node that creates a table, for any rows,  *)
(* workers, page sizes, retries and faults.                                *)
(*                                                                         *)
(* QuietWhenReturned needs only who is at work in which phase (QInv).      *)
(* WrittenIsExact says of a batch that succeeds what its tables hold, and  *)
(* success is known only at the end.  So the invariant says in every       *)
(* state that either the batch will fail, because an error was heard of    *)
(* (Told), or all records that were sent are still accounted for: by their *)
(* number (Flow), by their rows (PageRight), and, unless a record has      *)
(* failed and its status is on its way (Hurt), by their place in the       *)
(* channel, with a worker or in the tables (DataRight).  The drainer ends  *)
(* with success only when it has as many statuses as records were sent;    *)
(* then nothing is on its way, and neither alternative to DataRight is     *)
(* left.                                                                   *)
(*                                                                         *)
(* Both say nothing of a batch with a page that wrapped.  PagesDoNotWrap   *)
(* says when there is none.                                                *)
(***************************************************************************)
EXTENDS TableBatch, FiniteSetTheorems, TLAPS

WorkerAts == {"idle", "data", "idx", "good", "bad", "exit"}
Phases == {"open", "read", "flush", "rows", "count", "wait", "close", "closing", "done", "failed"}
Rowids == Nat \X Nat
RowWorkers == [at : WorkerAts, record : Nat, rowid : Rowids \cup {None}, tries : Nat, attempt : Nat]

Items == {None, ok, error}
SignalStates == [cancel : Items, done : Items, complete : Items]
DrainerStates == [at : {"on", "off"}, sending : BOOLEAN, err : BOOLEAN]

IsCustom == source.reader \in Custom

\* Workers with a record.
Busy == {w \in Workers : worker[w].at \in {"data", "idx", "good", "bad"}}

-------------------------------------------------------------------------------
(* Types. *)

ProducerTypes ==
  /\ source \in Sources /\ unique \in BOOLEAN
  /\ phase \in Phases /\ result \in {ok, error}
  /\ cursor \in [token : Int, rows : SUBSET Nat]
  /\ source.reader = "csv" => cursor.token \in Nat
  /\ page \in Seq(Nat) /\ pos \in Nat /\ upto \in Nat /\ read \in Nat /\ added \in Nat
  /\ wrapped \in BOOLEAN
ChannelTypes ==
  /\ recordsIn \in Seq(Nat) /\ statuses \in Seq(BOOLEAN)
  /\ closed \in BOOLEAN /\ sent \in Nat
DrainerTypes ==
  /\ processed \in Nat
  /\ drainer \in DrainerStates /\ signals \in SignalStates
TableTypes ==
  /\ worker \in [Workers -> RowWorkers]
  /\ \A w \in Workers : worker[w].at \in {"data", "idx"} => worker[w].rowid \in Rowids
  /\ data \subseteq [rowid : Rowids, record : Nat] /\ IsFiniteSet(data)
  /\ faults \in Nat
TInv == ProducerTypes /\ ChannelTypes /\ DrainerTypes /\ TableTypes

-------------------------------------------------------------------------------
(* Who is at work when. *)

\* The producer has no drainer: it has not started one yet, or is between two flushes.
Resting == phase \in {"open", "flush"} \/ (IsCustom /\ phase = "read")

\* The drainer has gone when it has completed, and when the producer closes the inserter.
DrainerRests ==
  /\ Resting \/ phase \in {"close", "closing", "done", "failed"} =>
       drainer.at = "off" /\ signals.complete = None
  /\ signals.complete # None => drainer.at = "off"
  /\ Resting \/ signals.complete = ok => ~drainer.err
  /\ phase = "flush" => IsCustom

\* The workers live from createInserterAndStartWorkers to closeInserter, and leave no record in
\* the channel.
WorkersRest ==
  /\ closed => phase \in {"closing", "done", "failed"}
  /\ phase \in {"open", "done", "failed"} => \A w \in Workers : worker[w].at = "exit"
  /\ phase \notin {"open", "closing", "done", "failed"} => \A w \in Workers : worker[w].at # "exit"
  /\ phase \in {"open", "done", "failed"} => recordsIn = <<>>
  /\ phase = "closing" /\ (\E w \in Workers : worker[w].at = "exit") => recordsIn = <<>>
  /\ Workers = {} => recordsIn = <<>>

\* The producer stays within its flush, and the flush within its page.
RowsBound ==
  phase \in {"rows", "count"} =>
    /\ pos <= upto /\ upto <= Len(Batch)
    /\ phase = "count" => pos < upto

QInv == TInv /\ DrainerRests /\ WorkersRest /\ RowsBound

-------------------------------------------------------------------------------
(* Success is still possible. *)

\* Somebody knows of an error; or a page wrapped, of which nothing is claimed.
Told ==
  \/ wrapped \/ result = error \/ drainer.err
  \/ signals.cancel # None \/ signals.complete = error
\* A record has failed: its worker has yet to say so, or its status is in the channel.
Hurt ==
  \/ \E w \in Workers : worker[w].at = "bad"
  \/ \E k \in 1..Len(statuses) : ~statuses[k]

\* Records may be sent.
Sending == phase \in {"rows", "count"} \/ (~IsCustom /\ phase = "read")
\* The producer has heard from the drainer for the last time.
Ending == phase \in {"close", "closing", "done"}
\* What is known is said: an error reaches the producer, which reports success only if there was
\* none.
Heard ==
  /\ result = error => phase \in {"close", "closing", "failed"}
  /\ Sending \/ signals.cancel # None \/ signals.done # None => drainer.sending \/ drainer.err
  /\ Sending \/ signals.cancel # None => signals.done = None
  /\ Sending => signals.cancel = None
  /\ signals.complete = ok => ~drainer.sending
  /\ Resting \/ signals.complete = ok \/ (Ending /\ result = ok) =>
       signals.cancel = None /\ signals.done = None /\ ~drainer.err

\* Who has been told what, while there is no error.
Signalled ==
  /\ Sending => drainer.at = "on" /\ drainer.sending /\ signals.done = None
                /\ signals.complete = None
  /\ phase = "wait" =>
       \/ drainer.at = "on" /\ (drainer.sending <=> signals.done # None) /\ signals.complete = None
       \/ drainer.at = "off" /\ signals.complete = ok /\ signals.done = None
  /\ phase # "failed"

\* A record is sent before it is counted.
InCount == IF phase = "count" THEN 1 ELSE 0
\* The drainer has counted all records but those under way.
Counted ==
  /\ sent + InCount = processed + Len(statuses) + Cardinality(Busy) + Len(recordsIn)
  /\ added = sent
\* Nothing is under way.
AllBack == statuses = <<>> /\ Busy = {} /\ recordsIn = <<>>
BackWhenAsked ==
  Resting \/ Ending \/ signals.complete = ok => AllBack
Flow == Signalled /\ Counted /\ BackWhenAsked

-------------------------------------------------------------------------------
(* What was read. *)

\* Rows in the order of their tokens.
Sorted(t) == t \in Seq(Int) /\ \A i, j \in 1..Len(t) : i < j => t[i] <= t[j]
\* Row i lies behind cursor c.
ReadUpTo(t, c, i) == t[i] < c.token \/ i \in c.rows

\* The cursor stands at the last row read, and knows the rows that share its token.
CursorFits(t, c, first, last) ==
  /\ first <= c.token
  /\ c.rows \subseteq {i \in Inside(t, first, last) : t[i] = c.token}
  /\ c.rows = {} => c.token = first
  /\ \A i \in Inside(t, first, last), j \in c.rows : t[i] = c.token /\ i < j => i \in c.rows

Elements(s) == {s[k] : k \in 1..Len(s)}
PageSet == Elements(page)
\* The rows of the page are being worked on.
OnPage == phase \in {"flush", "rows", "count"} \/ (IsCustom /\ phase = "wait")
\* The reading has ended.
AllRead == Ending \/ (~IsCustom /\ phase = "wait")
ByTokens == source.reader \in {"table"} \cup Custom

\* The rows that were read, the page among them; those done with; those of the page already sent
\* or skipped; and the rows whose records were sent.
Gotten ==
  IF AllRead THEN Wanted
  ELSE IF ByTokens
  THEN {i \in Wanted : ReadUpTo(source.tokens, cursor, i)}
  ELSE IF source.reader = "csv" THEN {i \in Wanted : i <= cursor.token}
  ELSE {i \in Wanted : i <= read + (IF OnPage THEN 1 ELSE 0)}
Before == IF OnPage THEN Gotten \ PageSet ELSE Gotten
Taken == IF OnPage THEN {Batch[k] : k \in 1..pos + InCount} ELSE {}
ForTable(rows) == RecordsOf(rows) \cap Passing
SentRows == ForTable(Before) \cup (Taken \cap Passing)

Increasing(s) == \A k, l \in 1..Len(s) : k < l => s[k] < s[l]
\* The cursor, the page and RowsRead agree with the rows that were read.
PageRight ==
  /\ ByTokens /\ ~AllRead => CursorFits(source.tokens, cursor, FirstToken, LastToken)
  /\ read = Cardinality(Before)
  /\ OnPage =>
       /\ Increasing(page) /\ PageSet \subseteq Gotten
       /\ pos <= Len(Batch)
       /\ source.reader = "parquet" => page = <<read + 1>>
  /\ OnPage /\ ~IsCustom => upto = Len(page)
  /\ phase = "count" => Batch[pos + 1] \in Passing

-------------------------------------------------------------------------------
(* Where the records are. *)

\* Where record i is: in the channel, with a worker, or written.
InChannel == Elements(recordsIn)
Handled(i) == \E d \in Owned : d.record = i /\ [key |-> KeyOf[i], rowid |-> d.rowid] \in idx

\* Each record that was sent is in one of these places, and each place has it once; but there
\* may be strays of a record that does not compare equal.
ChannelPlaces ==
  /\ InChannel \subseteq SentRows
  /\ \A k, l \in 1..Len(recordsIn) : recordsIn[k] = recordsIn[l] => k = l
WorkerPlaces ==
  /\ \A w \in Busy : worker[w].record \in SentRows /\ worker[w].record \notin InChannel
  /\ \A v, w \in Busy : worker[v].record = worker[w].record => v = w
DataPlaces ==
  /\ \A d \in data : d.record \in SentRows /\ d.record \notin InChannel /\ d.rowid[1] = d.record
  /\ \A d, e \in Owned : d.record = e.record => d = e
StrayPlaces ==
  /\ \A id \in strays : \E d \in data : d.rowid = id
  /\ \A d \in data : d.rowid \in strays => d.record \notin Exact
IdxPlaces ==
  /\ \A e \in idx : \E d \in Owned : e = [key |-> KeyOf[d.record], rowid |-> d.rowid]
  /\ unique => \A d, e \in idx : d.key = e.key => d = e

\* A rowid that was drawn for the record; an earlier attempt may have left a row with it.
OwnRowid(w) ==
  /\ worker[w].rowid[1] = worker[w].record /\ worker[w].rowid \notin strays
  /\ \A d \in data : d.rowid = worker[w].rowid => worker[w].attempt > 0
  /\ \A d \in Owned : d.record = worker[w].record => d.rowid = worker[w].rowid
  /\ \A e \in idx : e.rowid # worker[w].rowid
  /\ worker[w].attempt > 0 => faults > 0
\* A rowid that the table has for another row.
Collided(w) ==
  /\ worker[w].rowid[1] # worker[w].record /\ \E d \in data : d.rowid = worker[w].rowid
  /\ worker[w].attempt = 0 /\ faults >= MaxFaults /\ MaxFaults > 0
  /\ \A d \in data : d.record # worker[w].record
\* What a worker has done for its record so far.
Writing(w) ==
  /\ worker[w].at = "data" => OwnRowid(w) \/ Collided(w)
  /\ worker[w].at = "idx" =>
       /\ \E d \in Owned : d.record = worker[w].record /\ d.rowid = worker[w].rowid
       /\ \A e \in idx : e.rowid = worker[w].rowid => worker[w].attempt > 0
  /\ worker[w].at = "good" => Handled(worker[w].record)
NothingLost ==
  \A i \in SentRows :
    \/ i \in InChannel
    \/ \E w \in Busy : worker[w].record = i
    \/ Handled(i)
SentIsCounted == sent + InCount = Cardinality(SentRows)

DataRight ==
  /\ ChannelPlaces /\ WorkerPlaces /\ DataPlaces /\ StrayPlaces /\ IdxPlaces
  /\ \A w \in Busy : Writing(w)
  /\ NothingLost /\ SentIsCounted

\* The invariant.
IInv == QInv /\ Heard /\ (Told \/ (Flow /\ PageRight /\ (Hurt \/ DataRight)))

-------------------------------------------------------------------------------
(* The order of the rows of a page. *)

Below(S, i) == {j \in S : j < i}

\* How many elements of a finite set of numbers lie below one of them.
LEMMA Ranks ==
  ASSUME NEW S, S \subseteq Int, IsFiniteSet(S)
  PROVE  /\ \A i \in S : Cardinality(Below(S, i)) \in 0..Cardinality(S) - 1
         /\ \A i, k \in S : i < k => Cardinality(Below(S, i)) < Cardinality(Below(S, k))
         /\ \A n \in 1..Cardinality(S) : \E i \in S : Cardinality(Below(S, i)) = n - 1
<1>1. Cardinality(S) \in Nat
  BY FS_CardinalityType
<1>2. ASSUME NEW i \in S
      PROVE  /\ IsFiniteSet(Below(S, i)) /\ Cardinality(Below(S, i)) \in Nat
             /\ Cardinality(Below(S, i)) <= Cardinality(S) - 1
  <2>1. IsFiniteSet(S \ {i}) /\ Cardinality(S \ {i}) = Cardinality(S) - 1
    BY FS_RemoveElement
  <2>2. Below(S, i) \in SUBSET (S \ {i})
    BY DEF Below
  <2>3. IsFiniteSet(Below(S, i)) /\ Cardinality(Below(S, i)) <= Cardinality(S \ {i})
    BY <2>1, <2>2, FS_Subset
  <2>4. Cardinality(Below(S, i)) \in Nat
    BY <2>3, FS_CardinalityType
  <2> QED
    BY <1>1, <2>1, <2>3, <2>4
<1>3. ASSUME NEW i \in S, NEW k \in S, i < k
      PROVE  Cardinality(Below(S, i)) < Cardinality(Below(S, k))
  <2>0. i \in Int /\ k \in Int /\ \A j \in S : j \in Int
    OBVIOUS
  <2>1. Below(S, i) \in SUBSET Below(S, k) /\ i \in Below(S, k) /\ i \notin Below(S, i)
    <3>1. ASSUME NEW j \in Below(S, i)
          PROVE  j \in Below(S, k)
      <4>1. j \in S /\ j < i
        BY DEF Below
      <4>2. j < k
        BY <1>3, <2>0, <4>1
      <4> QED
        BY <4>1, <4>2 DEF Below
    <3>2. i \in Below(S, k)
      BY <1>3 DEF Below
    <3>3. ~(i < i)
      BY <2>0
    <3> QED
      BY <3>1, <3>2, <3>3 DEF Below
  <2>2. /\ Cardinality(Below(S, i)) <= Cardinality(Below(S, k))
        /\ Cardinality(Below(S, k)) = Cardinality(Below(S, i)) => Below(S, k) = Below(S, i)
    BY <1>2, <2>1, FS_Subset
  <2> QED
    BY <1>2, <2>1, <2>2
<1> DEFINE f == [i \in S |-> Cardinality(Below(S, i))]
           T == 0..Cardinality(S) - 1
<1>4. \A i \in S : Cardinality(Below(S, i)) \in T
  BY <1>1, <1>2
<1>5. f \in Injection(S, T)
  <2>1. f \in [S -> T]
    BY <1>4
  <2>2. ASSUME NEW i \in S, NEW k \in S, f[i] = f[k]
        PROVE  i = k
    <3>1. ~(i < k) /\ ~(k < i)
      BY <1>2, <1>3, <2>2
    <3> QED
      BY <3>1
  <2> QED
    BY <2>1, <2>2 DEF Injection, IsInjective
<1>6. IsFiniteSet(T) /\ Cardinality(T) = Cardinality(S)
  <2>1. IsFiniteSet(T) /\ Cardinality(T) = IF 0 > Cardinality(S) - 1 THEN 0
                                           ELSE Cardinality(S) - 1 - 0 + 1
    BY <1>1, FS_Interval
  <2> QED
    BY <1>1, <2>1
<1>7. f \in Surjection(S, T)
  BY <1>5, <1>6, FS_Injection
<1>8. ASSUME NEW n \in 1..Cardinality(S)
      PROVE  \E i \in S : Cardinality(Below(S, i)) = n - 1
  <2>1. n - 1 \in T
    BY <1>1
  <2>2. PICK i \in S : f[i] = n - 1
    BY <1>7, <2>1 DEF Surjection
  <2> QED
    BY <2>2
<1> QED
  BY <1>3, <1>4, <1>8

\* The rows of a page come one after the other, each once, in the order of the table (the rowset
\* of selectBatchFromTableByToken).
LEMMA AscendingSpec ==
  ASSUME NEW S, S \subseteq Nat, IsFiniteSet(S)
  PROVE  /\ Ascending(S) \in Seq(S) /\ Len(Ascending(S)) = Cardinality(S)
         /\ Increasing(Ascending(S))
         /\ {Ascending(S)[k] : k \in 1..Len(Ascending(S))} = S
<1>1. Cardinality(S) \in Nat
  BY FS_CardinalityType
<1> DEFINE A == Ascending(S)
<1>2. A = [k \in 1..Cardinality(S) |-> CHOOSE i \in S : Cardinality(Below(S, i)) = k - 1]
  BY DEF Ascending, Below
<1>3. /\ \A i \in S : Cardinality(Below(S, i)) \in 0..Cardinality(S) - 1
      /\ \A i, k \in S : i < k => Cardinality(Below(S, i)) < Cardinality(Below(S, k))
      /\ \A n \in 1..Cardinality(S) : \E i \in S : Cardinality(Below(S, i)) = n - 1
  <2>1. S \subseteq Int
    OBVIOUS
  <2> QED
    BY <2>1, Ranks
<1>4. ASSUME NEW k \in 1..Cardinality(S)
      PROVE  A[k] \in S /\ Cardinality(Below(S, A[k])) = k - 1
  <2>1. \E i \in S : Cardinality(Below(S, i)) = k - 1
    BY <1>3
  <2>2. A[k] = CHOOSE i \in S : Cardinality(Below(S, i)) = k - 1
    BY <1>2
  <2> QED
    BY <2>1, <2>2
<1> HIDE DEF A
<1>5. A \in Seq(S) /\ Len(A) = Cardinality(S)
  <2>1. A \in [1..Cardinality(S) -> S]
    BY <1>2, <1>4
  <2> QED
    BY <1>1, <2>1
<1>6. Increasing(A)
  <2>1. ASSUME NEW k \in 1..Len(A), NEW l \in 1..Len(A), k < l
        PROVE  A[k] < A[l]
    <3>1. /\ A[k] \in S /\ Cardinality(Below(S, A[k])) = k - 1
          /\ A[l] \in S /\ Cardinality(Below(S, A[l])) = l - 1
      BY <1>4, <1>5
    <3>0. 1..Len(A) \subseteq Int /\ \A x \in S : x \in Int
      BY <1>1, <1>5
    <3>2. A[k] \in Int /\ A[l] \in Int /\ k \in Int /\ l \in Int
      BY <3>0, <3>1
    <3>3. k - 1 < l - 1 /\ ~(l - 1 < k - 1)
      BY <2>1, <3>2
    <3>4. A[k] # A[l]
      BY <3>1, <3>3
    <3>5. A[l] < A[k] => Cardinality(Below(S, A[l])) < Cardinality(Below(S, A[k]))
      BY <1>3, <3>1
    <3>6. ~(A[l] < A[k])
      BY <3>1, <3>3, <3>5
    <3> QED
      BY <3>2, <3>4, <3>6
  <2> QED
    BY <2>1 DEF Increasing
<1>7. ASSUME NEW i \in S
      PROVE  \E k \in 1..Len(A) : A[k] = i
  <2> DEFINE k == Cardinality(Below(S, i)) + 1
  <2>0. Cardinality(Below(S, i)) \in 0..Cardinality(S) - 1
    BY <1>3
  <2>1. k \in 1..Cardinality(S) /\ k - 1 = Cardinality(Below(S, i))
    BY <1>1, <2>0
  <2> HIDE DEF k
  <2>2. A[k] \in S /\ Cardinality(Below(S, A[k])) = Cardinality(Below(S, i))
    BY <1>4, <2>1
  <2>3. ~(A[k] < i) /\ ~(i < A[k])
    <3>1. Cardinality(Below(S, i)) \in Int
      BY <1>1, <2>0
    <3>2. ~(Cardinality(Below(S, A[k])) < Cardinality(Below(S, i)))
          /\ ~(Cardinality(Below(S, i)) < Cardinality(Below(S, A[k])))
      BY <2>2, <3>1
    <3> QED
      BY <1>3, <2>2, <3>2
  <2>4. A[k] = i
    <3>0. \A x \in S : x \in Int
      OBVIOUS
    <3>1. A[k] \in Int /\ i \in Int
      BY <2>2, <3>0
    <3> QED
      BY <2>3, <3>1
  <2> QED
    BY <1>5, <2>1, <2>4
<1>8. {A[k] : k \in 1..Len(A)} = S
  BY <1>4, <1>5, <1>7
<1> QED
  BY <1>5, <1>6, <1>8 DEF A

\* The largest element of a finite set of numbers.
LEMMA MaxSpec ==
  ASSUME NEW S, S \subseteq Int, S # {}, IsFiniteSet(S)
  PROVE  Max(S) \in S /\ \A i \in S : i <= Max(S)
<1>1. Cardinality(S) \in Nat /\ Cardinality(S) # 0
  BY FS_CardinalityType, FS_EmptySet
<1>2. Cardinality(S) \in 1..Cardinality(S)
  BY <1>1
<1>3. PICK m \in S : Cardinality(Below(S, m)) = Cardinality(S) - 1
  BY <1>2, Ranks
<1>4. ASSUME NEW i \in S
      PROVE  m >= i
  <2>1. m < i => Cardinality(Below(S, m)) < Cardinality(Below(S, i))
    BY Ranks
  <2>2. Cardinality(Below(S, i)) \in 0..Cardinality(S) - 1
    BY Ranks
  <2>3. ~(m < i)
    BY <1>1, <1>3, <2>1, <2>2
  <2>4. m \in Int /\ i \in Int
    OBVIOUS
  <2> QED
    BY <2>3, <2>4
<1>5. \E x \in S : \A y \in S : x >= y
  BY <1>4
<1>6. Max(S) \in S /\ \A y \in S : Max(S) >= y
  BY <1>5 DEF Max
<1>7. Max(S) \in Int /\ \A i \in S : i \in Int
  BY <1>6
<1> QED
  BY <1>6, <1>7

-------------------------------------------------------------------------------
(* Pages. *)

\* The rows that the WHERE clause of a page selects.
LEMMA InsideSpec ==
  ASSUME NEW t, Sorted(t), NEW a \in Int, NEW b \in Int
  PROVE  /\ \A i : i \in Inside(t, a, b) <=> i \in 1..Len(t) /\ a <= t[i] /\ t[i] <= b
         /\ Inside(t, a, b) \subseteq Nat /\ IsFiniteSet(Inside(t, a, b))
<1>1. Len(t) \in Nat /\ \A i \in 1..Len(t) : t[i] \in Int
  BY DEF Sorted
<1>2. \A i : i \in Inside(t, a, b) <=> i \in 1..Len(t) /\ a <= t[i] /\ t[i] <= b
  BY <1>1 DEF Inside
<1>3. IsFiniteSet(1..Len(t)) /\ Inside(t, a, b) \in SUBSET (1..Len(t))
  BY <1>1, <1>2, FS_Interval
<1>4. IsFiniteSet(Inside(t, a, b))
  BY <1>3, FS_Subset
<1>5. 1..Len(t) \subseteq Nat
  BY <1>1
<1> QED
  BY <1>2, <1>3, <1>4, <1>5

\* LIMIT lets the first of these rows through, and at least one if there is one.
LEMMA LimitedSpec ==
  ASSUME NEW t, Sorted(t), NEW n \in Nat \ {0}, NEW a \in Int, NEW b \in Int
  PROVE  /\ Limited(t, n, a, b) \subseteq Inside(t, a, b)
         /\ \A i \in Inside(t, a, b), j \in Limited(t, n, a, b) : i < j => i \in Limited(t, n, a, b)
         /\ Inside(t, a, b) # {} => Limited(t, n, a, b) # {}
<1> DEFINE F == Inside(t, a, b)
           S == Limited(t, n, a, b)
<1>1. F \subseteq Nat /\ IsFiniteSet(F) /\ F \subseteq Int
  <2>1. F \subseteq Nat /\ IsFiniteSet(F)
    BY InsideSpec
  <2> QED
    BY <2>1
<1>2. S = {i \in F : Cardinality(Below(F, i)) < n}
  BY DEF Limited, Below
<1> HIDE DEF F, S
<1>3. /\ \A i \in F : Cardinality(Below(F, i)) \in 0..Cardinality(F) - 1
      /\ \A i, k \in F : i < k => Cardinality(Below(F, i)) < Cardinality(Below(F, k))
      /\ \A k \in 1..Cardinality(F) : \E i \in F : Cardinality(Below(F, i)) = k - 1
  BY <1>1, Ranks
<1>4. Cardinality(F) \in Nat /\ (F # {} => Cardinality(F) # 0)
  BY <1>1, FS_CardinalityType, FS_EmptySet
<1>5. \A i \in F : Cardinality(Below(F, i)) \in Int
  BY <1>3, <1>4
<1>6. ASSUME NEW i \in F, NEW j \in S, i < j
      PROVE  i \in S
  <2>1. j \in F /\ Cardinality(Below(F, j)) < n
    BY <1>2
  <2>2. Cardinality(Below(F, i)) < Cardinality(Below(F, j))
    BY <1>3, <1>6, <2>1
  <2>3. Cardinality(Below(F, i)) < n
    BY <1>5, <2>1, <2>2
  <2> QED
    BY <1>2, <2>3
<1>7. ASSUME F # {}
      PROVE  S # {}
  <2>1. 1 \in 1..Cardinality(F)
    BY <1>4, <1>7
  <2>2. PICK i \in F : Cardinality(Below(F, i)) = 1 - 1
    BY <1>3, <2>1
  <2>3. Cardinality(Below(F, i)) < n
    BY <2>2
  <2> QED
    BY <1>2, <2>3
<1>8. S \subseteq F
  BY <1>2
<1> QED
  BY <1>6, <1>7, <1>8 DEF F, S

\* One page, unless it wraps: it has only rows not read before, none that is left over lies below
\* the next start, and the rows behind the next start are the rows read and the page; an empty
\* page comes when all were read (selectBatchFromTableByToken).
LEMMA PageStep ==
  ASSUME NEW t, Sorted(t), NEW n \in Nat \ {0}, NEW first \in Int, NEW last \in Int,
         NEW c \in [token : Int, rows : SUBSET Nat], CursorFits(t, c, first, last),
         ~Wraps(t, n, c, last)
  PROVE  LET P == PageRows(t, n, c, last)
             W == Inside(t, first, last)
             c2 == NextCursor(t, n, c, last)
         IN /\ P \subseteq W
            /\ c2 \in [token : Int, rows : SUBSET Nat]
            /\ \A i \in P : ~ReadUpTo(t, c, i)
            /\ P = {} => \A i \in W : ReadUpTo(t, c, i)
            /\ P # {} => /\ CursorFits(t, c2, first, last)
                         /\ \A i \in W : ReadUpTo(t, c2, i) <=> ReadUpTo(t, c, i) \/ i \in P
<1> DEFINE P == PageRows(t, n, c, last)
           W == Inside(t, first, last)
           F == Inside(t, c.token, last)
           S == Limited(t, n, c.token, last)
           m == Max(S)
           c2 == NextCursor(t, n, c, last)
<1>1. c.token \in Int /\ c.rows \subseteq Nat
  OBVIOUS
<1>2. /\ Len(t) \in Nat /\ \A i \in 1..Len(t) : i \in Int /\ t[i] \in Int
      /\ \A i, j \in 1..Len(t) : i < j => t[i] <= t[j]
  BY DEF Sorted
<1>3. /\ \A i : i \in W <=> i \in 1..Len(t) /\ first <= t[i] /\ t[i] <= last
      /\ \A i : i \in F <=> i \in 1..Len(t) /\ c.token <= t[i] /\ t[i] <= last
      /\ W \subseteq Nat /\ F \subseteq Nat /\ IsFiniteSet(F)
  BY <1>1, InsideSpec
<1>4. /\ S \subseteq F /\ \A i \in F, j \in S : i < j => i \in S
      /\ F # {} => S # {}
  BY <1>1, LimitedSpec
<1>5. \A i : i \in P <=> i \in S /\ ~(t[i] = c.token /\ i \in c.rows)
  BY DEF PageRows, Known
<1>6. /\ first <= c.token /\ \A i \in c.rows : i \in W /\ t[i] = c.token
      /\ c.rows = {} => c.token = first
      /\ \A i \in W, j \in c.rows : t[i] = c.token /\ i < j => i \in c.rows
  BY DEF CursorFits
<1>7. S # {} => m \in S /\ \A i \in S : i <= m
  <2>1. S \subseteq Int /\ IsFiniteSet(S)
    <3>1. S \in SUBSET F
      BY <1>4
    <3>2. IsFiniteSet(S)
      BY <1>3, <3>1, FS_Subset
    <3> QED
      BY <1>3, <1>4, <3>2
  <2> HIDE DEF S
  <2> QED
    BY <2>1, MaxSpec
<1>8. /\ P = {} => ~\E i \in 1..Len(t) : t[i] <= last /\ S # {} /\ i > m
      /\ P # {} => ~(t[Max(P)] = c.token /\ P # S)
  BY DEF Wraps
<1>9. /\ c2.token = (IF S = {} THEN 0 ELSE t[m]) /\ c2.rows = {i \in P : t[i] = c2.token}
      /\ c2 = [token |-> c2.token, rows |-> c2.rows]
  BY DEF NextCursor, Cursor
<1> HIDE DEF P, W, F, S, m, c2
<1>10. \A i \in F : i \in W
  <2> TAKE i \in F
  <2>1. i \in 1..Len(t) /\ c.token <= t[i] /\ t[i] <= last /\ t[i] \in Int
    BY <1>2, <1>3
  <2>2. first <= t[i]
    BY <1>1, <1>6, <2>1
  <2> QED
    BY <1>3, <2>1, <2>2
<1>11. P \subseteq S /\ P \subseteq W
  BY <1>4, <1>5, <1>10
<1>12. c2 \in [token : Int, rows : SUBSET Nat]
  <2>1. c2.token \in Int
    BY <1>2, <1>3, <1>4, <1>7, <1>9
  <2>2. c2.rows \subseteq Nat
    BY <1>3, <1>9, <1>11
  <2> QED
    BY <1>9, <2>1, <2>2
<1>13. ASSUME NEW i \in P
       PROVE  ~ReadUpTo(t, c, i)
  <2>1. i \in S /\ i \in F /\ ~(t[i] = c.token /\ i \in c.rows)
    BY <1>4, <1>5
  <2>2. i \notin c.rows
    BY <1>6, <2>1
  <2>3. t[i] \in Int /\ c.token <= t[i]
    BY <1>2, <1>3, <2>1
  <2>4. ~(t[i] < c.token)
    BY <1>1, <2>3
  <2> QED
    BY <2>2, <2>4 DEF ReadUpTo
<1>14. ASSUME P = {}, NEW i \in W
       PROVE  ReadUpTo(t, c, i)
  <2>1. i \in 1..Len(t) /\ t[i] \in Int /\ t[i] <= last /\ i \in Int
    BY <1>2, <1>3
  <2>2. CASE t[i] < c.token
    BY <2>2 DEF ReadUpTo
  <2>3. CASE ~(t[i] < c.token)
    <3>1. i \in F
      <4>1. c.token <= t[i]
        BY <1>1, <2>1, <2>3
      <4> QED
        BY <1>3, <2>1, <4>1
    <3>2. S # {} /\ m \in S /\ m \in Int
      BY <1>2, <1>3, <1>4, <1>7, <3>1
    <3>3. ~(i > m)
      BY <1>8, <1>14, <2>1, <3>2
    <3>4. i < m \/ i = m
      BY <2>1, <3>2, <3>3
    <3>5. i \in S
      BY <1>4, <3>1, <3>2, <3>4
    <3>6. i \in c.rows
      BY <1>5, <1>14, <3>5
    <3> QED
      BY <3>6 DEF ReadUpTo
  <2> QED
    BY <2>2, <2>3
<1>15. ASSUME P # {}
       PROVE  /\ CursorFits(t, c2, first, last)
              /\ \A i \in W : ReadUpTo(t, c2, i) <=> ReadUpTo(t, c, i) \/ i \in P
  <2>1. S # {} /\ m \in S /\ m \in F /\ m \in W /\ m \in 1..Len(t) /\ m \in Int /\ t[m] \in Int
    BY <1>2, <1>3, <1>4, <1>7, <1>10, <1>11, <1>15
  <2>2. \A i \in S : i \in F /\ i \in W /\ i \in 1..Len(t) /\ i \in Int /\ t[i] \in Int
    BY <1>2, <1>3, <1>4, <1>10
  <2>3. \A i \in S : c.token <= t[i] /\ t[i] <= t[m]
    <3> TAKE i \in S
    <3>1. i <= m /\ i \in 1..Len(t) /\ i \in Int /\ t[i] \in Int
      BY <1>7, <2>1, <2>2
    <3>2. i < m \/ i = m
      BY <2>1, <3>1
    <3>3. t[i] <= t[m]
      BY <1>2, <2>1, <3>1, <3>2
    <3> QED
      BY <1>3, <2>2, <3>3
  <2>4. m \in P
    <3> SUFFICES ASSUME m \notin P PROVE FALSE
      OBVIOUS
    <3>1. t[m] = c.token /\ m \in c.rows
      BY <1>5, <2>1
    <3>2. PICK i \in P : TRUE
      BY <1>15
    <3>3. i \in S /\ ~(t[i] = c.token /\ i \in c.rows)
      BY <1>5
    <3>4. t[i] = c.token
      BY <1>1, <2>2, <2>3, <3>1, <3>3
    <3>5. i # m /\ i <= m
      BY <1>7, <2>1, <3>1, <3>3
    <3>6. i < m
      BY <2>1, <2>2, <3>3, <3>5
    <3>7. i \in c.rows
      BY <1>6, <2>2, <3>1, <3>3, <3>4, <3>6
    <3> QED
      BY <3>3, <3>4, <3>7
  <2>5. Max(P) = m
    <3>1. P \subseteq Int /\ IsFiniteSet(P)
      <4>1. P \in SUBSET F
        BY <1>4, <1>11
      <4>2. IsFiniteSet(P)
        BY <1>3, <4>1, FS_Subset
      <4> QED
        BY <1>11, <2>2, <4>2
    <3>2. Max(P) \in P /\ \A i \in P : i <= Max(P)
      BY <1>15, <3>1, MaxSpec
    <3>3. Max(P) \in Int /\ m <= Max(P) /\ Max(P) <= m
      BY <1>7, <1>11, <2>1, <2>2, <2>4, <3>2
    <3> QED
      BY <2>1, <3>3
  <2>6. c2.token = t[m] /\ \A i : i \in c2.rows <=> i \in P /\ t[i] = t[m]
    BY <1>9, <2>1
  <2>7. c2.rows # {} /\ c2.rows \subseteq {i \in W : t[i] = c2.token}
    BY <1>11, <2>4, <2>6
  <2>8. first <= c2.token
    <3>1. first <= t[m]
      BY <1>3, <2>1
    <3> QED
      BY <2>6, <3>1
  <2>9. CASE t[m] = c.token
    <3>1. P = S
      BY <1>8, <1>15, <2>5, <2>9
    <3>2. \A i \in S : t[i] = c.token
      <4> TAKE i \in S
      <4>1. c.token <= t[i] /\ t[i] <= c.token /\ t[i] \in Int
        BY <2>2, <2>3, <2>9
      <4> QED
        BY <1>1, <4>1
    <3>3. \A i \in S : i \notin c.rows
      BY <1>5, <3>1, <3>2
    <3>4. c.rows = {}
      <4> SUFFICES ASSUME NEW j \in c.rows PROVE FALSE
        OBVIOUS
      <4>1. j \in W /\ t[j] = c.token /\ j \in 1..Len(t) /\ j \in Int
        BY <1>2, <1>3, <1>6
      <4>2. j \in F
        BY <1>3, <2>1, <2>9, <4>1
      <4>3. j < m \/ j = m \/ m < j
        BY <2>1, <4>1
      <4>4. j < m => j \in S
        BY <1>4, <2>1, <4>2
      <4>5. m < j => m \in c.rows
        BY <1>6, <2>1, <2>9
      <4> QED
        BY <2>1, <3>3, <4>3, <4>4, <4>5
    <3>5. c.token = first
      BY <1>6, <3>4
    <3>6. \A i : i \in c2.rows <=> i \in P
      BY <2>6, <2>9, <3>1, <3>2
    <3>7. \A i \in W : ReadUpTo(t, c2, i) <=> ReadUpTo(t, c, i) \/ i \in P
      BY <2>6, <2>9, <3>4, <3>6 DEF ReadUpTo
    <3>8. ASSUME NEW i \in W, NEW j \in c2.rows, t[i] = c2.token, i < j
          PROVE  i \in c2.rows
      <4>1. i \in F
        BY <1>3, <2>1, <2>6, <3>8
      <4>2. i \in S
        BY <1>4, <3>1, <3>6, <3>8, <4>1
      <4> QED
        BY <3>1, <3>6, <4>2
    <3> QED
      BY <2>7, <2>8, <3>7, <3>8 DEF CursorFits, W
  <2>10. CASE t[m] # c.token
    <3>1. c.token < t[m]
      BY <1>1, <2>1, <2>3, <2>10
    <3>2. ASSUME NEW i \in S, t[i] = t[m]
          PROVE  i \in P
      BY <1>5, <2>10, <3>2
    <3>3. ASSUME NEW i \in W, NEW j \in c2.rows, t[i] = c2.token, i < j
          PROVE  i \in c2.rows
      <4>1. i \in F
        BY <1>3, <2>1, <2>6, <3>3
      <4>2. j \in S
        BY <1>11, <2>6
      <4>3. i \in S
        BY <1>4, <3>3, <4>1, <4>2
      <4> QED
        BY <2>6, <3>2, <3>3, <4>3
    <3>4. ASSUME NEW i \in W, ReadUpTo(t, c2, i)
          PROVE  ReadUpTo(t, c, i) \/ i \in P
      <4>1. i \in 1..Len(t) /\ i \in Int /\ t[i] \in Int /\ t[i] <= last
        BY <1>2, <1>3
      <4>2. CASE i \in c2.rows
        BY <2>6, <4>2
      <4>3. CASE t[i] < t[m]
        <5>1. ~(m < i) /\ i # m
          <6>1. m < i => t[m] <= t[i]
            BY <1>2, <2>1, <4>1
          <6> QED
            BY <2>1, <4>1, <4>3, <6>1
        <5>2. i < m
          BY <2>1, <4>1, <5>1
        <5>3. CASE t[i] < c.token
          BY <5>3 DEF ReadUpTo
        <5>4. CASE ~(t[i] < c.token)
          <6>1. c.token <= t[i]
            BY <1>1, <4>1, <5>4
          <6>2. i \in F
            BY <1>3, <4>1, <6>1
          <6>3. i \in S
            BY <1>4, <2>1, <5>2, <6>2
          <6> QED
            BY <1>5, <6>3 DEF ReadUpTo
        <5> QED
          BY <5>3, <5>4
      <4> QED
        BY <2>6, <3>4, <4>2, <4>3 DEF ReadUpTo
    <3>5. ASSUME NEW i \in W, ReadUpTo(t, c, i)
          PROVE  ReadUpTo(t, c2, i)
      <4>1. t[i] \in Int
        BY <1>2, <1>3
      <4>2. t[i] < c.token \/ t[i] = c.token
        BY <1>6, <3>5 DEF ReadUpTo
      <4>3. t[i] < t[m]
        BY <1>1, <2>1, <3>1, <4>1, <4>2
      <4> QED
        BY <2>6, <4>3 DEF ReadUpTo
    <3>6. ASSUME NEW i \in P
          PROVE  ReadUpTo(t, c2, i)
      <4>1. i \in S /\ t[i] \in Int /\ t[i] <= t[m]
        BY <1>11, <2>2, <2>3
      <4>2. t[i] < t[m] \/ t[i] = t[m]
        BY <2>1, <4>1
      <4> QED
        BY <2>6, <4>2 DEF ReadUpTo
    <3> QED
      BY <2>7, <2>8, <3>3, <3>4, <3>5, <3>6 DEF CursorFits, W
  <2> QED
    BY <2>9, <2>10
<1> QED
  BY <1>11, <1>12, <1>13, <1>14, <1>15 DEF P, W, c2

-------------------------------------------------------------------------------
(* What the producer has of a page. *)

\* The elements of a sequence of rows.
LEMMA ElementsSpec ==
  ASSUME NEW s \in Seq(Nat)
  PROVE  /\ Elements(s) \subseteq Nat /\ IsFiniteSet(Elements(s))
         /\ Increasing(s) => Cardinality(Elements(s)) = Len(s)
<1>1. Len(s) \in Nat /\ \A k \in 1..Len(s) : s[k] \in Nat
  OBVIOUS
<1>2. Elements(s) \subseteq Nat
  BY <1>1 DEF Elements
<1>3. IsFiniteSet(1..Len(s)) /\ Cardinality(1..Len(s)) = Len(s)
  <2>1. /\ IsFiniteSet(1..Len(s))
        /\ Cardinality(1..Len(s)) = IF 1 > Len(s) THEN 0 ELSE Len(s) - 1 + 1
    BY <1>1, FS_Interval
  <2> QED
    BY <1>1, <2>1
<1> DEFINE f == [k \in 1..Len(s) |-> s[k]]
<1>4. f \in [1..Len(s) -> Elements(s)]
  BY DEF Elements
<1>5. \A e \in Elements(s) : \E k \in 1..Len(s) : f[k] = e
  BY DEF Elements
<1>6. f \in Surjection(1..Len(s), Elements(s))
  BY <1>4, <1>5 DEF Surjection
<1>7. IsFiniteSet(Elements(s))
  BY <1>3, <1>6, FS_Surjection
<1>8. ASSUME Increasing(s)
      PROVE  Cardinality(Elements(s)) = Len(s)
  <2>1. ASSUME NEW k \in 1..Len(s), NEW l \in 1..Len(s), f[k] = f[l]
        PROVE  k = l
    <3>1. k \in Int /\ l \in Int /\ s[k] \in Int /\ s[l] \in Int /\ s[k] = s[l]
      BY <1>1, <2>1
    <3>2. ~(k < l) /\ ~(l < k)
      <4>1. ~(s[k] < s[l]) /\ ~(s[l] < s[k])
        BY <3>1
      <4> QED
        BY <1>8, <4>1 DEF Increasing
    <3> QED
      BY <3>1, <3>2
  <2> HIDE DEF f
  <2>2. f \in Injection(1..Len(s), Elements(s))
    BY <1>4, <2>1 DEF Injection, IsInjective
  <2> QED
    BY <1>3, <1>6, <2>2, FS_Surjection
<1> QED
  BY <1>2, <1>7, <1>8

\* A sequence of members of a set is one of members of a larger set.
LEMMA SeqWiden ==
  ASSUME NEW S, NEW T, S \subseteq T, NEW s \in Seq(S)
  PROVE  s \in Seq(T)
<1>1. Len(s) \in Nat /\ s \in [1..Len(s) -> S]
  OBVIOUS
<1>2. s \in [1..Len(s) -> T]
  BY <1>1
<1> QED
  BY <1>1, <1>2

\* What tag_and_denormalize makes of finitely many rows is finitely many records.
LEMMA TagRecordsSpec ==
  ASSUME source.reader = "tag", NEW rows, IsFiniteSet(rows)
  PROVE  RecordsOf(rows) \subseteq Nat /\ IsFiniteSet(RecordsOf(rows))
<1> DEFINE I == rows \cap DOMAIN TagRecords
           T == {TagRecords[i] : i \in I}
<1>1. RecordsOf(rows) = UNION T
  BY DEF RecordsOf
<1>2. \A i \in I : TagRecords[i] \subseteq Nat /\ IsFiniteSet(TagRecords[i])
  BY TableAssumption
<1>3. IsFiniteSet(I)
  BY FS_Subset
<1>4. IsFiniteSet(T)
  <2> DEFINE f == [i \in I |-> TagRecords[i]]
  <2>1. f \in Surjection(I, T)
    BY DEF Surjection
  <2> QED
    BY <1>3, <2>1, FS_Surjection
<1>5. \A t \in T : IsFiniteSet(t) /\ t \subseteq Nat
  BY <1>2
<1> HIDE DEF T
<1> QED
  BY <1>1, <1>4, <1>5, FS_UNION

\* Different rows have different records.
LEMMA RecordsApart ==
  ASSUME NEW S, NEW T
  PROVE  /\ RecordsOf(S \cup T) = RecordsOf(S) \cup RecordsOf(T)
         /\ S \cap T = {} => RecordsOf(S) \cap RecordsOf(T) = {}
         /\ S \subseteq T => RecordsOf(S) \subseteq RecordsOf(T)
         /\ RecordsOf({}) = {}
BY TableAssumption DEF RecordsOf

\* The records that come out of the reader are those of the rows of the page, in the same order.
LEMMA BatchSpec ==
  ASSUME ProducerTypes
  PROVE  /\ Batch \in Seq(Nat)
         /\ Elements(Batch) = RecordsOf(Elements(page))
         /\ Increasing(page) => Increasing(Batch)
<1>1. page \in Seq(Nat)
  BY DEF ProducerTypes
<1>2. CASE source.reader # "tag"
  BY <1>1, <1>2 DEF Batch, RecordsOf
<1>3. CASE source.reader = "tag"
  <2> DEFINE S == RecordsOf(Elements(page))
  <2>1. S \subseteq Nat /\ IsFiniteSet(S)
    <3>1. IsFiniteSet(Elements(page))
      BY <1>1, ElementsSpec
    <3> QED
      BY <1>3, <3>1, TagRecordsSpec
  <2>2. Batch = Ascending(S)
    BY <1>3 DEF Batch, Elements
  <2> HIDE DEF S
  <2>3. /\ Ascending(S) \in Seq(S) /\ Increasing(Ascending(S))
        /\ Elements(Ascending(S)) = S
    BY <2>1, AscendingSpec DEF Elements
  <2>4. Ascending(S) \in Seq(Nat)
    BY <2>1, <2>3, SeqWiden
  <2> QED
    BY <1>3, <2>2, <2>3, <2>4 DEF S
<1> QED
  BY <1>2, <1>3

\* The rows of a table are in the order of their tokens.
LEMMA SourceSorted ==
  ASSUME ProducerTypes
  PROVE  Sorted(source.tokens) /\ source.tokens \in Seq(Int) /\ source.reader \in Readers
BY TableAssumption DEF ProducerTypes, Sorted

\* A page is a finite set of rows, and what is remembered of it a cursor.
LEMMA PageTyped ==
  ASSUME ProducerTypes, NEW P, P = PageRows(source.tokens, RowsetSize, cursor, LastToken),
         NEW c, c = NextCursor(source.tokens, RowsetSize, cursor, LastToken)
  PROVE  /\ P \subseteq Nat /\ IsFiniteSet(P)
         /\ Ascending(P) \in Seq(Nat) /\ Len(Ascending(P)) = Cardinality(P)
         /\ Increasing(Ascending(P)) /\ Elements(Ascending(P)) = P
         /\ c \in [token : Int, rows : SUBSET Nat]
<1> DEFINE t == source.tokens
           F == Inside(t, cursor.token, LastToken)
           S == Limited(t, RowsetSize, cursor.token, LastToken)
<1>1. Sorted(t) /\ cursor.token \in Int /\ LastToken \in Int /\ RowsetSize \in Nat \ {0}
  BY SourceSorted, TableAssumption DEF ProducerTypes
<1>2. F \subseteq Nat /\ IsFiniteSet(F) /\ F \subseteq 1..Len(t)
  BY <1>1, InsideSpec
<1>3. S \subseteq F
  BY <1>1, LimitedSpec
<1>4. P \subseteq S
  BY DEF PageRows
<1>5. c.token = (IF S = {} THEN 0 ELSE t[Max(S)]) /\ c.rows \subseteq P
      /\ c = [token |-> c.token, rows |-> c.rows]
  BY DEF NextCursor, Cursor
<1> HIDE DEF F, S
<1>6. IsFiniteSet(S) /\ S \subseteq Int /\ P \subseteq Nat /\ IsFiniteSet(P)
  <2>1. S \in SUBSET F /\ P \in SUBSET F
    BY <1>3, <1>4
  <2>2. IsFiniteSet(S) /\ IsFiniteSet(P)
    BY <1>2, <2>1, FS_Subset
  <2>3. P \subseteq Nat /\ S \subseteq Nat
    BY <1>2, <1>3, <1>4
  <2>4. S \subseteq Int
    BY <2>3
  <2> QED
    BY <2>2, <2>3, <2>4
<1>7. S # {} => Max(S) \in S
  BY <1>6, MaxSpec
<1>8. c.token \in Int
  <2>1. S # {} => Max(S) \in 1..Len(t)
    BY <1>2, <1>3, <1>7
  <2>2. \A i \in 1..Len(t) : t[i] \in Int
    BY <1>1 DEF Sorted
  <2> QED
    BY <1>5, <2>1, <2>2
<1>9. c \in [token : Int, rows : SUBSET Nat]
  BY <1>5, <1>6, <1>8
<1>10. /\ Ascending(P) \in Seq(P) /\ Len(Ascending(P)) = Cardinality(P)
       /\ Increasing(Ascending(P)) /\ Elements(Ascending(P)) = P
  BY <1>6, AscendingSpec DEF Elements
<1>11. Ascending(P) \in Seq(Nat)
  BY <1>6, <1>10, SeqWiden
<1> QED
  BY <1>6, <1>9, <1>10, <1>11

-------------------------------------------------------------------------------
(* Types. *)

\* The goroutine of startDrainer keeps its type.
LEMMA DrainerMoves ==
  /\ [at |-> "on", sending |-> TRUE, err |-> FALSE] \in DrainerStates
  /\ \A d \in DrainerStates :
       /\ [d EXCEPT !.sending = FALSE, !.err = TRUE] \in DrainerStates
       /\ [d EXCEPT !.sending = FALSE] \in DrainerStates
       /\ [d EXCEPT !.at = "off"] \in DrainerStates
       /\ \A s : [d EXCEPT !.err = @ \/ ~s] \in DrainerStates
BY Zenon DEF DrainerStates

\* So do the signal channels.
LEMMA SignalsTyped ==
  ASSUME NEW name \in {"cancel", "done", "complete"}, NEW item \in Items, Signal(name, item),
         signals \in SignalStates
  PROVE  signals' \in SignalStates
BY DEF Signal, SignalStates

\* The four ways to go on after reading (Got).
LEMMA GotCases ==
  ASSUME NEW rows, Got(rows)
  PROVE  /\ page' = rows /\ pos' = 0
         /\ \/ /\ rows = <<>> /\ source.reader \in Custom
               /\ phase' = "close" /\ UNCHANGED <<upto, signals>>
            \/ /\ rows = <<>> /\ source.reader \notin Custom
               /\ phase' = "wait" /\ Signal("done", ok) /\ UNCHANGED upto
            \/ /\ rows # <<>> /\ source.reader \in Custom
               /\ phase' = "flush" /\ UNCHANGED <<upto, signals>>
            \/ /\ rows # <<>> /\ source.reader \notin Custom
               /\ phase' = "rows" /\ upto' = Len(rows) /\ UNCHANGED signals
BY Zenon DEF Got

\* Type correctness: the steps of the producer.
LEMMA ProducerTyped ==
  ASSUME TInv, RowsBound, Producer
  PROVE  TInv'
<1>0. Batch \in Seq(Nat) /\ Len(Batch) \in Nat
  BY BatchSpec DEF TInv
<1>s. ok \in Items /\ error \in Items /\ None \in Items
  BY DEF Items
<1>1. ASSUME Open
      PROVE  TInv'
  <2>1. ProducerTypes'
    BY <1>0, <1>1 DEF Open, TInv, ProducerTypes, Phases
  <2>2. ChannelTypes'
    BY <1>0, <1>1 DEF Open, TInv, ChannelTypes, channels
  <2>3. DrainerTypes'
    BY <1>s, <1>1, DrainerMoves DEF Open, TInv, DrainerTypes, draining, StartDrainer
  <2>4. TableTypes'
    BY <1>1 DEF Open, TInv, TableTypes, tables, RowWorkers, IdleWorker, WorkerAts
  <2> QED
    BY <2>1, <2>2, <2>3, <2>4 DEF TInv
<1>2. ASSUME OpenFails
      PROVE  TInv'
  <2>1. ProducerTypes'
    BY <1>0, <1>2 DEF OpenFails, TInv, ProducerTypes, Phases
  <2>2. ChannelTypes'
    BY <1>0, <1>2 DEF OpenFails, TInv, ChannelTypes, channels
  <2>3. DrainerTypes'
    BY <1>s, <1>2 DEF OpenFails, TInv, DrainerTypes, draining
  <2>4. TableTypes'
    BY <1>2 DEF OpenFails, TInv, TableTypes, tables, Fault
  <2> QED
    BY <2>1, <2>2, <2>3, <2>4 DEF TInv
<1>3. ASSUME ReadFails
      PROVE  TInv'
  <2>1. ProducerTypes'
    BY <1>0, <1>3 DEF ReadFails, TInv, ProducerTypes, Phases, Cancel
  <2>2. ChannelTypes'
    BY <1>0, <1>3 DEF ReadFails, TInv, ChannelTypes, channels
  <2>3. DrainerTypes'
    BY <1>s, <1>3, SignalsTyped DEF ReadFails, TInv, DrainerTypes, draining, Cancel
  <2>4. TableTypes'
    BY <1>3 DEF ReadFails, TInv, TableTypes, tables, Fault
  <2> QED
    BY <2>1, <2>2, <2>3, <2>4 DEF TInv
<1>4. ASSUME Flush
      PROVE  TInv'
  <2>1. ProducerTypes'
    <3>1. page \in Seq(Nat) /\ Len(page) \in Nat /\ pos \in Nat /\ read \in Nat /\ upto \in Nat
      BY DEF TInv, ProducerTypes
    <3>2. upto' \in Nat /\ read' \in Nat /\ phase' \in Phases
      BY <1>0, <1>4, <3>1, TableAssumption DEF Flush, Phases
    <3> QED
      BY <1>4, <3>2 DEF Flush, TInv, ProducerTypes
  <2>2. ChannelTypes'
    BY <1>0, <1>4 DEF Flush, TInv, ChannelTypes, channels
  <2>3. DrainerTypes'
    BY <1>s, <1>4, DrainerMoves DEF Flush, TInv, DrainerTypes, draining, StartDrainer
  <2>4. TableTypes'
    BY <1>4 DEF Flush, TInv, TableTypes, tables
  <2> QED
    BY <2>1, <2>2, <2>3, <2>4 DEF TInv
<1>5. ASSUME SkipRow
      PROVE  TInv'
  <2>1. ProducerTypes'
    BY <1>0, <1>5 DEF SkipRow, TInv, ProducerTypes, Phases
  <2>2. ChannelTypes'
    BY <1>0, <1>5 DEF SkipRow, TInv, ChannelTypes, channels
  <2>3. DrainerTypes'
    BY <1>s, <1>5 DEF SkipRow, TInv, DrainerTypes, draining
  <2>4. TableTypes'
    BY <1>5 DEF SkipRow, TInv, TableTypes, tables
  <2> QED
    BY <2>1, <2>2, <2>3, <2>4 DEF TInv
<1>6. ASSUME EvalFails
      PROVE  TInv'
  <2>1. ProducerTypes'
    BY <1>0, <1>6 DEF EvalFails, TInv, ProducerTypes, Phases, Cancel
  <2>2. ChannelTypes'
    BY <1>0, <1>6 DEF EvalFails, TInv, ChannelTypes, channels
  <2>3. DrainerTypes'
    BY <1>s, <1>6, SignalsTyped DEF EvalFails, TInv, DrainerTypes, draining, Cancel
  <2>4. TableTypes'
    BY <1>6 DEF EvalFails, TInv, TableTypes, tables, Fault
  <2> QED
    BY <2>1, <2>2, <2>3, <2>4 DEF TInv
<1>7. ASSUME AddRecord
      PROVE  TInv'
  <2>1. ProducerTypes'
    BY <1>0, <1>7 DEF AddRecord, TInv, ProducerTypes, Phases
  <2>2. ChannelTypes'
    BY <1>0, <1>7 DEF AddRecord, TInv, ChannelTypes, channels, RowsBound, ProducerTypes
  <2>3. DrainerTypes'
    BY <1>s, <1>7 DEF AddRecord, TInv, DrainerTypes, draining
  <2>4. TableTypes'
    BY <1>7 DEF AddRecord, TInv, TableTypes, tables
  <2> QED
    BY <2>1, <2>2, <2>3, <2>4 DEF TInv
<1>8. ASSUME CountRecord
      PROVE  TInv'
  <2>1. ProducerTypes'
    BY <1>0, <1>8 DEF CountRecord, TInv, ProducerTypes, Phases
  <2>2. ChannelTypes'
    BY <1>0, <1>8 DEF CountRecord, TInv, ChannelTypes, channels
  <2>3. DrainerTypes'
    BY <1>s, <1>8 DEF CountRecord, TInv, DrainerTypes, draining
  <2>4. TableTypes'
    BY <1>8 DEF CountRecord, TInv, TableTypes, tables
  <2> QED
    BY <2>1, <2>2, <2>3, <2>4 DEF TInv
<1>9. ASSUME EndRows
      PROVE  TInv'
  <2>1. ProducerTypes'
    BY <1>0, <1>9 DEF EndRows, TInv, ProducerTypes, Phases
  <2>2. ChannelTypes'
    BY <1>0, <1>9 DEF EndRows, TInv, ChannelTypes, channels
  <2>3. DrainerTypes'
    BY <1>s, <1>9, SignalsTyped DEF EndRows, TInv, DrainerTypes, draining
  <2>4. TableTypes'
    BY <1>9 DEF EndRows, TInv, TableTypes, tables
  <2> QED
    BY <2>1, <2>2, <2>3, <2>4 DEF TInv
<1>10. ASSUME Wait
      PROVE  TInv'
  <2>1. ProducerTypes'
    BY <1>0, <1>10 DEF Wait, TInv, ProducerTypes, Phases, DrainerTypes, SignalStates, Items
  <2>2. ChannelTypes'
    BY <1>0, <1>10 DEF Wait, TInv, ChannelTypes, channels
  <2>3. DrainerTypes'
    BY <1>s, <1>10, SignalsTyped DEF Wait, TInv, DrainerTypes, draining
  <2>4. TableTypes'
    BY <1>10 DEF Wait, TInv, TableTypes, tables
  <2> QED
    BY <2>1, <2>2, <2>3, <2>4 DEF TInv
<1>11. ASSUME Close
      PROVE  TInv'
  <2>1. ProducerTypes'
    BY <1>0, <1>11 DEF Close, TInv, ProducerTypes, Phases
  <2>2. ChannelTypes'
    BY <1>0, <1>11 DEF Close, TInv, ChannelTypes, channels
  <2>3. DrainerTypes'
    BY <1>s, <1>11 DEF Close, TInv, DrainerTypes, draining
  <2>4. TableTypes'
    BY <1>11 DEF Close, TInv, TableTypes, tables
  <2> QED
    BY <2>1, <2>2, <2>3, <2>4 DEF TInv
<1>12. ASSUME Return
      PROVE  TInv'
  <2>1. ProducerTypes'
    BY <1>0, <1>12 DEF Return, TInv, ProducerTypes, Phases
  <2>2. ChannelTypes'
    BY <1>0, <1>12 DEF Return, TInv, ChannelTypes, channels
  <2>3. DrainerTypes'
    BY <1>s, <1>12 DEF Return, TInv, DrainerTypes, draining
  <2>4. TableTypes'
    BY <1>12 DEF Return, TInv, TableTypes, tables
  <2> QED
    BY <2>1, <2>2, <2>3, <2>4 DEF TInv
<1>20. ASSUME NEW rows \in Seq(Nat), Got(rows)
       PROVE  /\ page' \in Seq(Nat) /\ pos' \in Nat /\ upto' \in Nat /\ phase' \in Phases
              /\ signals' \in SignalStates
  <2>1. signals \in SignalStates /\ upto \in Nat
    BY DEF TInv, DrainerTypes, ProducerTypes
  <2>2. Signal("done", ok) => signals' \in SignalStates
    BY <1>s, <2>1, SignalsTyped
  <2>3. Len(rows) \in Nat
    OBVIOUS
  <2> QED
    BY <1>20, <2>1, <2>2, <2>3, GotCases DEF Phases
<1> DEFINE P == PageRows(source.tokens, RowsetSize, cursor, LastToken)
           c == NextCursor(source.tokens, RowsetSize, cursor, LastToken)
<1>21. Ascending(P) \in Seq(Nat) /\ c \in [token : Int, rows : SUBSET Nat]
  BY PageTyped DEF TInv
<1> HIDE DEF P, c
<1>22. ASSUME ReadPage
       PROVE  TInv'
  <2>1. ProducerTypes'
    BY <1>20, <1>22, <1>21 DEF ReadPage, Reading, UnchangedByReading, TInv, ProducerTypes, Phases,
         Custom, P, c
  <2>2. ChannelTypes' /\ TableTypes'
    BY <1>22 DEF ReadPage, UnchangedByReading, TInv, ChannelTypes, channels, TableTypes, tables
  <2>3. DrainerTypes'
    BY <1>20, <1>22, <1>21 DEF ReadPage, Reading, UnchangedByReading, TInv, DrainerTypes,
         ProducerTypes, draining, Custom, P, c
  <2> QED
    BY <2>1, <2>2, <2>3 DEF TInv
<1>23. ASSUME ReadCsvLine
       PROVE  TInv'
  <2> DEFINE rows == IF cursor.token < Len(source.tokens) THEN <<cursor.token + 1>> ELSE <<>>
  <2>1. rows \in Seq(Nat)
    BY <1>23 DEF ReadCsvLine, Reading, TInv, ProducerTypes
  <2>2. \/ Got(rows)
        \/ UNCHANGED <<page, pos, upto, phase, signals>>
    BY <1>23 DEF ReadCsvLine
  <2> HIDE DEF rows
  <2>3. /\ page' \in Seq(Nat) /\ pos' \in Nat /\ upto' \in Nat /\ phase' \in Phases
        /\ signals' \in SignalStates
    BY <1>20, <2>1, <2>2 DEF TInv, ProducerTypes, DrainerTypes
  <2>4. /\ cursor' \in [token : Int, rows : SUBSET Nat]
        /\ source.reader = "csv" => cursor'.token \in Nat
    BY <1>23 DEF ReadCsvLine, Reading, TInv, ProducerTypes
  <2>5. ProducerTypes'
    BY <1>23, <2>3, <2>4 DEF ReadCsvLine, UnchangedByReading, TInv, ProducerTypes
  <2>6. ChannelTypes' /\ TableTypes'
    BY <1>23 DEF ReadCsvLine, UnchangedByReading, TInv, ChannelTypes, channels, TableTypes, tables
  <2>7. DrainerTypes'
    BY <1>23, <2>3 DEF ReadCsvLine, UnchangedByReading, TInv, DrainerTypes, draining
  <2> QED
    BY <2>5, <2>6, <2>7 DEF TInv
<1>24. ASSUME ReadParquetRow
       PROVE  TInv'
  <2> DEFINE rows == IF read < Len(source.tokens) THEN <<read + 1>> ELSE <<>>
  <2>1. rows \in Seq(Nat)
    BY DEF TInv, ProducerTypes
  <2>2. Got(rows)
    BY <1>24 DEF ReadParquetRow
  <2> HIDE DEF rows
  <2>3. /\ page' \in Seq(Nat) /\ pos' \in Nat /\ upto' \in Nat /\ phase' \in Phases
        /\ signals' \in SignalStates
    BY <1>20, <2>1, <2>2
  <2>5. ProducerTypes'
    BY <1>24, <2>3 DEF ReadParquetRow, UnchangedByReading, TInv, ProducerTypes
  <2>6. ChannelTypes' /\ TableTypes'
    BY <1>24 DEF ReadParquetRow, UnchangedByReading, TInv, ChannelTypes, channels, TableTypes,
         tables
  <2>7. DrainerTypes'
    BY <1>24, <2>3 DEF ReadParquetRow, UnchangedByReading, TInv, DrainerTypes, draining
  <2> QED
    BY <2>5, <2>6, <2>7 DEF TInv
<1> QED
  BY <1>1, <1>2, <1>3, <1>4, <1>5, <1>6, <1>7, <1>8, <1>9, <1>10, <1>11, <1>12, <1>22, <1>23,
     <1>24 DEF Producer

\* Type correctness: the steps of the drainer.
LEMMA DrainerTyped ==
  ASSUME TInv, Drainer
  PROVE  TInv'
<1>s. ok \in Items /\ error \in Items /\ None \in Items
  BY DEF Items
<1>1. ASSUME DrainStatus
      PROVE  TInv'
  <2>1. ProducerTypes' /\ TableTypes'
    BY <1>1 DEF DrainStatus, TInv, ProducerTypes, Phases, producer, TableTypes, tables
  <2>2. ChannelTypes'
    BY <1>1 DEF DrainStatus, TInv, ChannelTypes, channels
  <2>3. drainer' \in DrainerStates
    <3>1. drainer \in DrainerStates /\ drainer' = Harvested(Head(statuses))
      BY <1>1 DEF DrainStatus, TInv, DrainerTypes
    <3> QED
      BY <3>1, DrainerMoves, Zenon DEF Harvested
  <2>4. DrainerTypes'
    BY <1>1, <2>3 DEF DrainStatus, TInv, DrainerTypes
  <2> QED
    BY <2>1, <2>2, <2>4 DEF TInv
<1>2. ASSUME DrainSignal
      PROVE  TInv'
  <2>1. ProducerTypes' /\ TableTypes'
    BY <1>2 DEF DrainSignal, TInv, ProducerTypes, Phases, producer, TableTypes, tables
  <2>2. ChannelTypes'
    BY <1>2 DEF DrainSignal, TInv, ChannelTypes, channels
  <2>3. DrainerTypes'
    BY <1>s, <1>2, DrainerMoves, SignalsTyped DEF DrainSignal, TInv, DrainerTypes, draining
  <2> QED
    BY <2>1, <2>2, <2>3 DEF TInv
<1>3. ASSUME DrainTimeout
      PROVE  TInv'
  <2>1. ProducerTypes' /\ TableTypes'
    BY <1>3 DEF DrainTimeout, TInv, ProducerTypes, Phases, producer, TableTypes, tables, Fault
  <2>2. ChannelTypes'
    BY <1>3 DEF DrainTimeout, TInv, ChannelTypes, channels
  <2>3. DrainerTypes'
    BY <1>s, <1>3, DrainerMoves, SignalsTyped DEF DrainTimeout, TInv, DrainerTypes, draining
  <2> QED
    BY <2>1, <2>2, <2>3 DEF TInv
<1>4. ASSUME DrainComplete
      PROVE  TInv'
  <2>1. ProducerTypes' /\ TableTypes'
    BY <1>4 DEF DrainComplete, TInv, ProducerTypes, Phases, producer, TableTypes, tables
  <2>2. ChannelTypes'
    BY <1>4 DEF DrainComplete, TInv, ChannelTypes, channels
  <2>3. DrainerTypes'
    BY <1>s, <1>4, DrainerMoves, SignalsTyped DEF DrainComplete, TInv, DrainerTypes, draining
  <2> QED
    BY <2>1, <2>2, <2>3 DEF TInv
<1> QED
  BY <1>1, <1>2, <1>3, <1>4 DEF Drainer

\* What a record is taken with: a rowid that no row and no worker has, or that of a row.
LEMMA DrawGives ==
  ASSUME TInv, NEW w, NEW i, NEW tries, Draw(w, i, tries)
  PROVE  \E id : /\ Begin(w, i, id, tries)
                 /\ \/ /\ \E n \in Nat : id = <<i, n>>
                       /\ Unused(id) /\ UNCHANGED faults
                    \/ /\ \E d \in data : id = d.rowid
                       /\ faults = 0 /\ MaxFaults > 0 /\ faults' = MaxFaults
<1>1. Cardinality(data) + Capacity \in Nat
  <2>1. IsFiniteSet(data) /\ IsFiniteSet(Workers)
    BY TableAssumption DEF TInv, TableTypes
  <2> QED
    BY <2>1, FS_CardinalityType DEF Capacity
<1>2. \A n \in 0..Cardinality(data) + Capacity : n \in Nat
  BY <1>1
<1> QED
  BY <1>2 DEF Draw

\* Type correctness: a data row more, or not.
LEMMA DataTyped ==
  ASSUME data \subseteq [rowid : Rowids, record : Nat], IsFiniteSet(data),
         NEW r \in [rowid : Rowids, record : Nat], data' = data \/ data' = data \cup {r}
  PROVE  data' \subseteq [rowid : Rowids, record : Nat] /\ IsFiniteSet(data')
<1>1. IsFiniteSet(data \cup {r})
  BY FS_AddElement
<1> QED
  BY <1>1

\* Type correctness: one insert worker is changed.
LEMMA WorkersTyped ==
  ASSUME worker \in [Workers -> RowWorkers], NEW w \in Workers, NEW r \in RowWorkers,
         \A v \in Workers : worker[v].at \in {"data", "idx"} => worker[v].rowid \in Rowids,
         r.at \in {"data", "idx"} => r.rowid \in Rowids,
         worker' = [worker EXCEPT ![w] = r]
  PROVE  /\ worker' \in [Workers -> RowWorkers]
         /\ \A v \in Workers : worker'[v].at \in {"data", "idx"} => worker'[v].rowid \in Rowids
OBVIOUS

\* Type correctness: the steps of an insert worker.
LEMMA WorkerTyped ==
  ASSUME TInv, NEW w \in Workers, Worker(w)
  PROVE  TInv'
<1> DEFINE WT == /\ worker \in [Workers -> RowWorkers]
                 /\ \A v \in Workers :
                      worker[v].at \in {"data", "idx"} => worker[v].rowid \in Rowids
<1>0. /\ WT /\ data \subseteq [rowid : Rowids, record : Nat] /\ IsFiniteSet(data)
      /\ faults \in Nat
  BY DEF TInv, TableTypes
<1>1. ASSUME NEW i \in Nat, NEW k \in Nat, Draw(w, i, k)
      PROVE  WT' /\ faults' \in Nat
  <2>1. ASSUME NEW id \in Rowids, Begin(w, i, id, k)
        PROVE  WT'
    <3>1. [at |-> "data", record |-> i, rowid |-> id, tries |-> k, attempt |-> 0] \in RowWorkers
      BY DEF RowWorkers, WorkerAts
    <3> QED
      BY <1>0, <2>1, <3>1, WorkersTyped DEF Begin
  <2>2. \A n \in Nat : <<i, n>> \in Rowids
    BY DEF Rowids
  <2>3. \A d \in data : d.rowid \in Rowids
    BY <1>0
  <2> HIDE DEF WT
  <2>4. \E id \in Rowids : Begin(w, i, id, k)
    BY <1>1, <2>2, <2>3, DrawGives
  <2>5. faults' \in Nat
    BY <1>0, <1>1, DrawGives, TableAssumption
  <2> QED
    BY <2>1, <2>4, <2>5
<1>2. ASSUME NEW step \in WorkerAts, Goto(w, step),
             step \in {"data", "idx"} => worker[w].rowid \in Rowids
      PROVE  WT'
  <2> DEFINE r == [worker[w] EXCEPT !.at = step, !.attempt = 0]
  <2>1. r \in RowWorkers /\ r.at = step /\ r.rowid = worker[w].rowid
    BY <1>0 DEF RowWorkers
  <2>2. worker' = [worker EXCEPT ![w] = r]
    BY <1>0, <1>2 DEF Goto, RowWorkers
  <2> HIDE DEF r
  <2> QED
    BY <1>0, <1>2, <2>1, <2>2, WorkersTyped
<1>3. ASSUME Repeat(w), worker[w].at \in {"data", "idx"}
      PROVE  WT'
  <2>1. CASE worker' = [worker EXCEPT ![w].attempt = @ + 1]
    <3> DEFINE r == [worker[w] EXCEPT !.attempt = @ + 1]
    <3>1. r \in RowWorkers /\ r.at = worker[w].at /\ r.rowid = worker[w].rowid
      BY <1>0 DEF RowWorkers
    <3>2. worker' = [worker EXCEPT ![w] = r]
      BY <1>0, <2>1
    <3> HIDE DEF r
    <3> QED
      BY <1>0, <3>1, <3>2, WorkersTyped
  <2>2. CASE Goto(w, "bad")
    <3>1. "bad" \in WorkerAts /\ ~("bad" \in {"data", "idx"})
      BY DEF WorkerAts
    <3> QED
      BY <1>2, <2>2, <3>1
  <2> QED
    BY <1>3, <2>1, <2>2 DEF Repeat
<1> HIDE DEF WT
<1>4. ASSUME TakeRecord(w)
      PROVE  WT' /\ faults' \in Nat /\ UNCHANGED data /\ ChannelTypes'
  <2>1. Head(recordsIn) \in Nat /\ Tail(recordsIn) \in Seq(Nat)
    BY <1>4 DEF TInv, ChannelTypes, TakeRecord
  <2>2. WT' /\ faults' \in Nat
    BY <1>1, <1>4, <2>1 DEF TakeRecord
  <2> QED
    BY <1>4, <2>1, <2>2 DEF TakeRecord, tables, TInv, ChannelTypes, Working
<1>5. ASSUME Exit(w)
      PROVE  WT' /\ faults' \in Nat /\ UNCHANGED data /\ ChannelTypes'
  BY <1>0, <1>2, <1>5 DEF Exit, WorkerAts, tables, TInv, ChannelTypes, Working
<1>6. ASSUME InsertData(w)
      PROVE  /\ WT' /\ faults' \in Nat
             /\ data' \subseteq [rowid : Rowids, record : Nat] /\ IsFiniteSet(data')
  <2>1. "idx" \in WorkerAts /\ "bad" \in WorkerAts /\ worker[w].rowid \in Rowids
        /\ worker[w].record \in Nat /\ worker[w].tries + 1 \in Nat
    BY <1>0, <1>6 DEF InsertData, WorkerAts, RowWorkers, WT
  <2>2. Goto(w, "idx") \/ Goto(w, "bad") => WT'
    BY <1>2, <2>1
  <2>3. Redraw(w) => WT' /\ faults' \in Nat
    BY <1>0, <1>1, <2>1, <2>2 DEF Redraw
  <2>4. [rowid |-> worker[w].rowid, record |-> worker[w].record] \in [rowid : Rowids, record : Nat]
    BY <2>1
  <2>5. \/ /\ data' = data \cup {[rowid |-> worker[w].rowid, record |-> worker[w].record]}
           /\ Goto(w, "idx") /\ UNCHANGED faults
        \/ UNCHANGED data /\ (Redraw(w) \/ (Goto(w, "idx") /\ UNCHANGED faults))
    BY <1>6 DEF InsertData
  <2>6. data' \subseteq [rowid : Rowids, record : Nat] /\ IsFiniteSet(data')
    BY <1>0, <2>4, <2>5, DataTyped
  <2> QED
    BY <1>0, <2>2, <2>3, <2>5, <2>6
<1>7. ASSUME InsertDataFails(w)
      PROVE  /\ WT' /\ faults' \in Nat
             /\ data' \subseteq [rowid : Rowids, record : Nat] /\ IsFiniteSet(data')
  <2>1. worker[w].rowid \in Rowids /\ worker[w].record \in Nat
    BY <1>0, <1>7 DEF InsertDataFails, RowWorkers, WT
  <2>2. [rowid |-> worker[w].rowid, record |-> worker[w].record] \in [rowid : Rowids, record : Nat]
    BY <2>1
  <2>3. \/ UNCHANGED data
        \/ data' = data \cup {[rowid |-> worker[w].rowid, record |-> worker[w].record]}
    BY <1>7 DEF InsertDataFails
  <2>4. data' \subseteq [rowid : Rowids, record : Nat] /\ IsFiniteSet(data')
    BY <1>0, <2>2, <2>3, DataTyped
  <2> QED
    BY <1>0, <1>3, <1>7, <2>4 DEF InsertDataFails, Fault
<1>8. ASSUME InsertIdx(w)
      PROVE  WT' /\ faults' \in Nat /\ UNCHANGED data
  BY <1>0, <1>2, <1>8 DEF InsertIdx, WorkerAts
<1>9. ASSUME InsertIdxFails(w)
      PROVE  WT' /\ faults' \in Nat /\ UNCHANGED data
  BY <1>0, <1>3, <1>9 DEF InsertIdxFails, Fault
<1>10. ASSUME Report(w)
       PROVE  WT' /\ faults' \in Nat /\ UNCHANGED data /\ ChannelTypes'
  <2>1. IdleWorker \in RowWorkers /\ ~(IdleWorker.at \in {"data", "idx"})
    BY DEF IdleWorker, RowWorkers, WorkerAts
  <2>2. WT'
    BY <1>0, <1>10, <2>1, WorkersTyped DEF Report, WT
  <2>3. Append(statuses, worker[w].at = "good") \in Seq(BOOLEAN)
    <3>1. (worker[w].at = "good") \in BOOLEAN
      OBVIOUS
    <3> QED
      BY <3>1 DEF TInv, ChannelTypes
  <2> QED
    BY <1>0, <1>10, <2>2, <2>3 DEF Report, tables, TInv, ChannelTypes, Working
<1>11. /\ WT' /\ faults' \in Nat
       /\ data' \subseteq [rowid : Rowids, record : Nat] /\ IsFiniteSet(data')
  BY <1>0, <1>4, <1>5, <1>6, <1>7, <1>8, <1>9, <1>10 DEF Worker
<1>12. TableTypes'
  BY <1>11 DEF TableTypes, WT
<1>13. ChannelTypes'
  BY <1>4, <1>5, <1>10 DEF Worker, InsertData, InsertDataFails, InsertIdx, InsertIdxFails, Working,
     TInv, ChannelTypes
<1>14. UNCHANGED Working
  BY DEF Worker, TakeRecord, Exit, InsertData, InsertDataFails, InsertIdx, InsertIdxFails, Report
<1>15. ProducerTypes' /\ DrainerTypes'
  BY <1>14 DEF Working, producer, draining, TInv, ProducerTypes, DrainerTypes
<1> QED
  BY <1>12, <1>13, <1>15 DEF TInv

-------------------------------------------------------------------------------
(* Nobody works for a batch that has returned. *)

\* The producer waits for the drainer before it closes the inserter (waitForDrainer).
LEMMA DrainerRestsProducer ==
  ASSUME TInv, DrainerRests, Producer
  PROVE  DrainerRests'
<1>0. /\ signals \in SignalStates /\ None \notin {ok, error} /\ ok # error
      /\ signals.complete \in Items
  BY TableAssumption DEF TInv, DrainerTypes, SignalStates, ok, error
<1>1. ASSUME Open PROVE DrainerRests'
  BY <1>0, <1>1 DEF Open, StartDrainer, DrainerRests, Resting, IsCustom, SignalStates, Custom,
       draining, Items
<1>2. ASSUME OpenFails PROVE DrainerRests'
  BY <1>0, <1>2 DEF OpenFails, DrainerRests, Resting, IsCustom, SignalStates, Custom, draining,
       Items
<1>g. ASSUME NEW rows, Got(rows), phase = "read", UNCHANGED <<source, drainer>>
      PROVE  DrainerRests'
  <2>1. phase' \in {"close", "flush"} => IsCustom /\ UNCHANGED signals
    BY <1>g, GotCases DEF IsCustom
  <2>2. /\ phase' \in {"close", "wait", "flush", "rows"}
        /\ signals'.complete = signals.complete
    BY <1>0, <1>g, GotCases DEF Signal, SignalStates
  <2> QED
    BY <1>0, <1>g, <2>1, <2>2 DEF DrainerRests, Resting, IsCustom
<1>3. ASSUME ReadPage PROVE DrainerRests'
  <2>1. UNCHANGED <<source, drainer>> /\ phase = "read"
    BY <1>3 DEF ReadPage, Reading, UnchangedByReading, draining
  <2>2. phase' = "wrapped" /\ UNCHANGED signals => DrainerRests'
    BY <2>1 DEF DrainerRests, Resting, IsCustom
  <2> QED
    BY <1>3, <1>g, <2>1, <2>2 DEF ReadPage
<1>4. ASSUME ReadCsvLine PROVE DrainerRests'
  <2>1. UNCHANGED <<source, drainer>> /\ phase = "read"
    BY <1>4 DEF ReadCsvLine, Reading, UnchangedByReading, draining
  <2>2. UNCHANGED <<phase, signals>> => DrainerRests'
    BY <2>1 DEF DrainerRests, Resting, IsCustom
  <2> QED
    BY <1>4, <1>g, <2>1, <2>2 DEF ReadCsvLine
<1>5. ASSUME ReadParquetRow PROVE DrainerRests'
  <2>1. UNCHANGED <<source, drainer>> /\ phase = "read"
    BY <1>5 DEF ReadParquetRow, Reading, UnchangedByReading, draining
  <2> QED
    BY <1>5, <1>g, <2>1 DEF ReadParquetRow
<1>6. ASSUME ReadFails PROVE DrainerRests'
  BY <1>0, <1>6 DEF ReadFails, Cancel, Signal, DrainerRests, Resting, IsCustom, SignalStates,
       Custom, draining, Items
<1>7. ASSUME Flush PROVE DrainerRests'
  BY <1>0, <1>7 DEF Flush, StartDrainer, DrainerRests, Resting, IsCustom, SignalStates, Custom,
       draining, Items
<1>8. ASSUME SkipRow PROVE DrainerRests'
  BY <1>0, <1>8 DEF SkipRow, DrainerRests, Resting, IsCustom, SignalStates, Custom, draining, Items
<1>9. ASSUME EvalFails PROVE DrainerRests'
  BY <1>0, <1>9 DEF EvalFails, Cancel, Signal, DrainerRests, Resting, IsCustom, SignalStates,
       Custom, draining, Items
<1>10. ASSUME AddRecord PROVE DrainerRests'
  BY <1>0, <1>10 DEF AddRecord, DrainerRests, Resting, IsCustom, SignalStates, Custom, draining,
       Items
<1>11. ASSUME CountRecord PROVE DrainerRests'
  BY <1>0, <1>11 DEF CountRecord, DrainerRests, Resting, IsCustom, SignalStates, Custom, draining,
       Items
<1>12. ASSUME EndRows PROVE DrainerRests'
  BY <1>0, <1>12 DEF EndRows, Signal, DrainerRests, Resting, IsCustom, SignalStates, Custom,
       draining, Items
<1>13. ASSUME Wait PROVE DrainerRests'
  BY <1>0, <1>13 DEF Wait, Signal, DrainerRests, Resting, IsCustom, SignalStates, Custom,
       draining, Items
<1>14. ASSUME Close PROVE DrainerRests'
  BY <1>0, <1>14 DEF Close, DrainerRests, Resting, IsCustom, SignalStates, Custom, draining, Items
<1>15. ASSUME Return PROVE DrainerRests'
  BY <1>0, <1>15 DEF Return, DrainerRests, Resting, IsCustom, SignalStates, Custom, draining, Items
<1> QED
  BY <1>1, <1>2, <1>3, <1>4, <1>5, <1>6, <1>7, <1>8, <1>9,
     <1>10, <1>11, <1>12, <1>13, <1>14, <1>15 DEF Producer

\* The drainer leaves when it says that it has completed.
LEMMA DrainerRestsDrainer ==
  ASSUME TInv, DrainerRests, Drainer
  PROVE  DrainerRests'
<1>0. /\ signals \in SignalStates /\ None \notin {ok, error} /\ ok # error
      /\ drainer \in DrainerStates
  BY TableAssumption DEF TInv, DrainerTypes, ok, error
<1>1. drainer.at = "on" /\ UNCHANGED <<source, phase>> /\ drainer'.at \in {"on", "off"}
  BY <1>0 DEF Drainer, DrainStatus, DrainSignal, DrainTimeout, DrainComplete, Draining, producer,
     Harvested, DrainerStates
<1>2. /\ ~Resting /\ phase \notin {"close", "closing", "done", "failed"}
      /\ signals.complete = None /\ (phase = "flush" => IsCustom)
  BY <1>1 DEF DrainerRests
<1>3. ~Resting' /\ phase' \notin {"close", "closing", "done", "failed"}
      /\ (phase' = "flush" => IsCustom')
  BY <1>1, <1>2 DEF Resting, IsCustom
<1>4. CASE DrainComplete
  <2>1. drainer'.at = "off" /\ drainer'.err = drainer.err
        /\ signals'.complete = IF drainer.err THEN error ELSE ok
    BY <1>0, <1>4 DEF DrainComplete, Signal, DrainerStates, SignalStates
  <2>2. drainer.err => signals'.complete # ok
    BY <1>0, <2>1
  <2>3. signals'.complete = ok => ~drainer'.err
    BY <2>1, <2>2, Zenon
  <2> QED
    BY <1>3, <2>1, <2>3 DEF DrainerRests
<1>5. CASE DrainStatus \/ DrainSignal \/ DrainTimeout
  <2>1. signals'.complete = None
    BY <1>0, <1>2, <1>5 DEF DrainStatus, DrainSignal, DrainTimeout, Signal, SignalStates
  <2> QED
    BY <1>0, <1>3, <2>1 DEF DrainerRests
<1> QED
  BY <1>4, <1>5 DEF Drainer

\* The producer waits for the workers before it returns (closeInserter).
LEMMA WorkersRestProducer ==
  ASSUME TInv, WorkersRest, DrainerRests, Producer
  PROVE  WorkersRest'
<1>0. /\ recordsIn \in Seq(Nat) /\ phase \in Phases /\ closed \in BOOLEAN
      /\ Workers = {} => ~(Len(recordsIn) < Capacity)
  <2>1. recordsIn \in Seq(Nat) /\ phase \in Phases /\ closed \in BOOLEAN /\ Len(recordsIn) \in Nat
    BY DEF TInv, ChannelTypes, ProducerTypes
  <2>2. Workers = {} => Capacity = 0
    BY FS_EmptySet DEF Capacity
  <2> QED
    BY <2>1, <2>2
<1>1. ASSUME Open PROVE WorkersRest'
  BY <1>0, <1>1 DEF Open, StartDrainer, IdleWorker, WorkersRest, Phases, channels, tables
<1>2. ASSUME OpenFails PROVE WorkersRest'
  BY <1>0, <1>2 DEF OpenFails, WorkersRest, Phases, channels, tables
<1>3. ASSUME ReadPage PROVE WorkersRest'
  BY <1>0, <1>3, GotCases DEF ReadPage, Reading, UnchangedByReading, WorkersRest, Phases,
       channels, tables
<1>4. ASSUME ReadCsvLine PROVE WorkersRest'
  BY <1>0, <1>4, GotCases DEF ReadCsvLine, Reading, UnchangedByReading, WorkersRest, Phases,
       channels, tables
<1>5. ASSUME ReadParquetRow PROVE WorkersRest'
  BY <1>0, <1>5, GotCases DEF ReadParquetRow, Reading, UnchangedByReading, WorkersRest, Phases,
       channels, tables
<1>6. ASSUME ReadFails PROVE WorkersRest'
  BY <1>0, <1>6 DEF ReadFails, Cancel, Signal, WorkersRest, Phases, channels, tables
<1>7. ASSUME Flush PROVE WorkersRest'
  BY <1>0, <1>7 DEF Flush, StartDrainer, WorkersRest, Phases, channels, tables
<1>8. ASSUME SkipRow PROVE WorkersRest'
  BY <1>0, <1>8 DEF SkipRow, WorkersRest, Phases, channels, tables
<1>9. ASSUME EvalFails PROVE WorkersRest'
  BY <1>0, <1>9 DEF EvalFails, Cancel, Signal, WorkersRest, Phases, channels, tables
<1>10. ASSUME AddRecord PROVE WorkersRest'
  BY <1>0, <1>10 DEF AddRecord, WorkersRest, Phases, channels, tables
<1>11. ASSUME CountRecord PROVE WorkersRest'
  BY <1>0, <1>11 DEF CountRecord, WorkersRest, Phases, channels, tables
<1>12. ASSUME EndRows PROVE WorkersRest'
  BY <1>0, <1>12 DEF EndRows, Signal, WorkersRest, Phases, channels, tables
<1>13. ASSUME Wait PROVE WorkersRest'
  BY <1>0, <1>13 DEF Wait, Signal, WorkersRest, Phases, channels, tables
<1>14. ASSUME Close PROVE WorkersRest'
  BY <1>0, <1>14 DEF Close, WorkersRest, Phases, channels, tables
<1>15. ASSUME Return PROVE WorkersRest'
  BY <1>0, <1>15 DEF Return, WorkersRest, Phases, channels, tables
<1> QED
  BY <1>1, <1>2, <1>3, <1>4, <1>5, <1>6, <1>7, <1>8, <1>9,
     <1>10, <1>11, <1>12, <1>13, <1>14, <1>15 DEF Producer

\* A worker ends when the channel is closed and empty.
LEMMA WorkersRestWorker ==
  ASSUME TInv, WorkersRest, NEW w \in Workers, Worker(w)
  PROVE  WorkersRest'
<1>0. /\ worker \in [Workers -> RowWorkers] /\ recordsIn \in Seq(Nat)
      /\ UNCHANGED <<closed, phase>> /\ phase \in Phases
  BY DEF TInv, TableTypes, ChannelTypes, ProducerTypes, Worker, TakeRecord, Exit, InsertData,
     InsertDataFails, InsertIdx, InsertIdxFails, Report, Working, producer
<1>1. worker[w].at # "exit" /\ phase \notin {"open", "done", "failed"}
  BY DEF WorkersRest, Worker, TakeRecord, Exit, InsertData, InsertDataFails, InsertIdx,
     InsertIdxFails, Report
<1>2. CASE Exit(w)
  <2>1. /\ phase = "closing" /\ recordsIn' = <<>>
        /\ worker' \in [Workers -> [at : WorkerAts, record : Nat, rowid : Rowids \cup {None},
                                    tries : Nat, attempt : Nat]]
    BY <1>0, <1>1, <1>2 DEF Exit, WorkersRest, Goto, RowWorkers, WorkerAts
  <2> QED
    BY <1>0, <2>1 DEF WorkersRest
<1>3. CASE ~Exit(w)
  <2>1. \A v \in Workers : worker'[v].at = "exit" => worker[v].at = "exit"
    <3> DEFINE Stays == \A v \in Workers : worker'[v].at = "exit" => worker[v].at = "exit"
    <3>1. \A i, k : Draw(w, i, k) => Stays
      <4>1. \A i, k, id : Begin(w, i, id, k) => Stays
        BY <1>0 DEF Begin
      <4> QED
        BY <1>0, <4>1, DrawGives
    <3>2. \A step \in WorkerAts \ {"exit"} : Goto(w, step) => Stays
      BY <1>0 DEF Goto, RowWorkers
    <3>3. Repeat(w) => Stays
      <4>1. worker' = [worker EXCEPT ![w].attempt = @ + 1] => Stays
        BY <1>0 DEF RowWorkers
      <4> QED
        BY <3>2, <4>1 DEF Repeat, WorkerAts
    <3>4. Report(w) => Stays
      BY <1>0 DEF Report, IdleWorker
    <3> HIDE DEF Stays
    <3>5. Stays
      BY <1>3, <3>1, <3>2, <3>3, <3>4 DEF Worker, TakeRecord, InsertData, Redraw, InsertDataFails,
         InsertIdx, InsertIdxFails, WorkerAts
    <3> QED
      BY <3>5 DEF Stays
  <2>2. recordsIn = <<>> => recordsIn' = <<>>
    BY <1>3 DEF Worker, TakeRecord, InsertData, InsertDataFails, InsertIdx, InsertIdxFails, Report
  <2> QED
    BY <1>0, <1>1, <2>1, <2>2 DEF WorkersRest
<1> QED
  BY <1>2, <1>3

\* The producer stays within its page, and within its flush.
LEMMA RowsBoundProducer ==
  ASSUME TInv, DrainerRests, RowsBound, Producer
  PROVE  RowsBound'
<1>0. /\ page \in Seq(Nat) /\ Batch \in Seq(Nat) /\ Len(Batch) \in Nat /\ pos \in Nat
        /\ upto \in Nat
      /\ UNCHANGED source
  BY BatchSpec DEF TInv, ProducerTypes, Producer, Open, OpenFails, ReadPage, ReadCsvLine,
     ReadParquetRow, ReadFails, Flush, SkipRow, EvalFails, AddRecord, CountRecord, EndRows, Wait,
     Close, Return, UnchangedByReading
<1>1. ASSUME NEW rows, rows \in Seq(Nat), Got(rows)
      PROVE  RowsBound'
  <2>1. CASE phase' = "rows"
    <3>1. pos' = 0 /\ page' = rows /\ upto' = Len(rows) /\ source.reader \notin Custom
          /\ Len(rows) \in Nat
      BY <1>1, <2>1, GotCases
    <3>2. Batch' = rows
      BY <1>0, <3>1 DEF Batch, Custom
    <3> QED
      BY <2>1, <3>1, <3>2 DEF RowsBound
  <2> QED
    BY <1>1, <2>1, GotCases DEF RowsBound
<1>2. CASE ReadPage
  <2>1. Ascending(PageRows(source.tokens, RowsetSize, cursor, LastToken)) \in Seq(Nat)
    BY PageTyped DEF TInv
  <2> QED
    BY <1>1, <1>2, <2>1 DEF ReadPage, RowsBound
<1>3. CASE ReadCsvLine
  <2> DEFINE rows == IF cursor.token < Len(source.tokens) THEN <<cursor.token + 1>> ELSE <<>>
  <2>1. rows \in Seq(Nat) /\ phase = "read"
    BY <1>3 DEF ReadCsvLine, Reading, TInv, ProducerTypes
  <2> QED
    BY <1>1, <1>3, <2>1 DEF ReadCsvLine, RowsBound
<1>4. CASE ReadParquetRow
  <2>1. (IF read < Len(source.tokens) THEN <<read + 1>> ELSE <<>>) \in Seq(Nat)
    BY DEF TInv, ProducerTypes
  <2> QED
    BY <1>1, <1>4, <2>1 DEF ReadParquetRow
<1>5. CASE Flush
  <2>1. phase' = "rows" => /\ pos' = pos /\ upto' \in Nat /\ pos <= upto' /\ upto' <= Len(Batch)
    BY <1>0, <1>5, TableAssumption DEF Flush
  <2>0. UNCHANGED page /\ phase' # "count"
    BY <1>5 DEF Flush
  <2>2. Batch' = Batch /\ phase' # "count"
    BY <1>0, <2>0 DEF Batch, RecordsOf
  <2> QED
    BY <2>1, <2>2 DEF RowsBound
<1>6. CASE SkipRow \/ AddRecord \/ CountRecord
  <2>1. /\ Batch' = Batch /\ upto' = upto /\ pos <= upto /\ upto <= Len(Batch)
        /\ phase' = "count" => phase = "rows" /\ pos < upto /\ pos' = pos
        /\ pos' = pos \/ (pos' = pos + 1 /\ pos < upto)
    BY <1>0, <1>6 DEF SkipRow, AddRecord, CountRecord, RowsBound, Batch, RecordsOf
  <2> QED
    BY <1>0, <2>1 DEF RowsBound
<1>7. CASE Open \/ OpenFails \/ ReadFails \/ EvalFails \/ EndRows \/ Wait \/ Close \/ Return
  BY <1>7 DEF Open, OpenFails, ReadFails, EvalFails, EndRows, Wait, Close, Return, Cancel, RowsBound
<1> QED
  BY <1>2, <1>3, <1>4, <1>5, <1>6, <1>7 DEF Producer

\* Types, and who is at work in which phase of the batch, are right in every reachable state.
THEOREM QuietInvariant == Spec => []QInv
<1>1. Init => QInv
  <2> SUFFICES ASSUME Init PROVE QInv
    OBVIOUS
  <2>1. ProducerTypes
    <3>1. /\ cursor \in [token : Int, rows : SUBSET Nat]
          /\ source.reader = "csv" => cursor.token \in Nat
      BY TableAssumption DEF Init, Cursor
    <3>2. page \in Seq(Nat) /\ unique \in BOOLEAN /\ phase \in Phases /\ result \in {ok, error}
      BY TableAssumption DEF Init, Phases
    <3> QED
      BY <3>1, <3>2 DEF Init, ProducerTypes
  <2>2. ChannelTypes
    <3>1. <<>> \in Seq(Nat) /\ <<>> \in Seq(BOOLEAN)
      OBVIOUS
    <3> QED
      BY <3>1 DEF Init, ChannelTypes
  <2>3. DrainerTypes
    <3>1. drainer \in DrainerStates
      BY Zenon DEF Init, DrainerStates
    <3>2. signals \in SignalStates
      BY DEF Init, SignalStates, Items
    <3> QED
      BY <3>1, <3>2 DEF Init, DrainerTypes
  <2>4. TableTypes
    BY FS_EmptySet DEF Init, TableTypes, RowWorkers, IdleWorker, WorkerAts
  <2>5. DrainerRests /\ WorkersRest /\ RowsBound
    BY TableAssumption DEF Init, DrainerRests, WorkersRest, RowsBound, Resting, IsCustom,
         IdleWorker, ok, error
  <2> QED
    BY <2>1, <2>2, <2>3, <2>4, <2>5 DEF QInv, TInv
<1>2. QInv /\ [Next]_vars => QInv'
  <2> SUFFICES ASSUME QInv, [Next]_vars PROVE QInv'
    OBVIOUS
  <2>0. TInv /\ DrainerRests /\ WorkersRest /\ RowsBound
    BY DEF QInv
  <2>1. CASE Producer
    BY <2>0, <2>1, ProducerTyped, DrainerRestsProducer, WorkersRestProducer, RowsBoundProducer
       DEF QInv
  <2>2. CASE Drainer
    <3>1. UNCHANGED <<phase, closed, worker, recordsIn, source, page, pos, upto>>
      BY <2>2 DEF Drainer, DrainStatus, DrainSignal, DrainTimeout, DrainComplete, producer, channels
    <3>2. WorkersRest' /\ RowsBound'
      BY <2>0, <3>1 DEF WorkersRest, RowsBound, Batch, RecordsOf
    <3> QED
      BY <2>0, <2>2, <3>2, DrainerTyped, DrainerRestsDrainer DEF QInv
  <2>3. ASSUME NEW w \in Workers, Worker(w)
        PROVE  QInv'
    <3>1. UNCHANGED <<phase, source, page, pos, upto, drainer, signals>>
      BY <2>3 DEF Worker, TakeRecord, Exit, InsertData, InsertDataFails, InsertIdx, InsertIdxFails,
         Report, Working, producer, draining
    <3>2. DrainerRests' /\ RowsBound'
      BY <2>0, <3>1 DEF DrainerRests, RowsBound, Batch, RecordsOf, Resting, IsCustom
    <3> QED
      BY <2>0, <2>3, <3>2, WorkerTyped, WorkersRestWorker DEF QInv
  <2>4. CASE UNCHANGED vars
    BY <2>0, <2>4 DEF vars, producer, channels, draining, tables, QInv, TInv, ProducerTypes,
       ChannelTypes, DrainerTypes, TableTypes, DrainerRests, WorkersRest, RowsBound, Batch,
       RecordsOf, Resting, IsCustom
  <2> QED
    BY <2>1, <2>2, <2>3, <2>4 DEF Next, Stopped
<1> QED
  BY <1>1, <1>2, PTL DEF Spec

\* When the batch has returned, with an error or without, none of its workers is left, no record
\* is left in the channel and its drainer has gone (closeInserter, waitForDrainer).
THEOREM QuietWhenReturnedHolds == Spec => []QuietWhenReturned
<1>1. QInv => QuietWhenReturned
  BY DEF QInv, DrainerRests, WorkersRest, QuietWhenReturned, Ended
<1> QED
  BY <1>1, QuietInvariant, PTL

-------------------------------------------------------------------------------
(* Errors are heard of. *)

\* An item in one of the signal channels leaves the others alone.
LEMMA SignalEffect ==
  ASSUME signals \in SignalStates, NEW item
  PROVE  /\ Signal("done", item) => /\ signals'.done = item /\ signals'.cancel = signals.cancel
                                    /\ signals'.complete = signals.complete
         /\ Signal("cancel", item) => /\ signals'.cancel = item /\ signals'.done = signals.done
                                      /\ signals'.complete = signals.complete
         /\ Signal("complete", item) => /\ signals'.complete = item /\ signals'.done = signals.done
                                        /\ signals'.cancel = signals.cancel
BY DEF SignalStates, Signal

\* Errors reach the producer: the steps of the producer.
LEMMA HeardProducer ==
  ASSUME TInv, DrainerRests, Heard, Producer
  PROVE  Heard'
<1>0. /\ signals \in SignalStates /\ None \notin {ok, error} /\ ok # error
      /\ signals.complete \in Items /\ result \in {ok, error} /\ drainer \in DrainerStates
      /\ phase \in Phases
  BY TableAssumption DEF TInv, DrainerTypes, SignalStates, ProducerTypes, ok, error
<1> USE DEF Heard, Resting, IsCustom, Sending, Ending
<1>g. ASSUME NEW rows, Got(rows), phase = "read", UNCHANGED <<source, drainer, result>>
      PROVE  Heard'
  <2>1. phase' \in {"close", "flush"} => IsCustom /\ UNCHANGED signals
    BY <1>g, GotCases
  <2>2. phase' = "rows" => ~IsCustom /\ UNCHANGED signals
    BY <1>g, GotCases
  <2>3. phase' = "wait" => ~IsCustom /\ signals'.done = ok /\ signals'.cancel = signals.cancel
                           /\ signals'.complete = signals.complete
    BY <1>0, <1>g, GotCases, SignalEffect
  <2>4. phase' \in {"close", "wait", "flush", "rows"}
    BY <1>g, GotCases
  <2> QED
    BY <1>0, <1>g, <2>1, <2>2, <2>3, <2>4 DEF DrainerRests
<1>c. ASSUME Cancel, Sending, UNCHANGED <<source, drainer, wrapped>>
      PROVE  Heard'
  <2>1. /\ phase' = "wait" /\ signals'.cancel = error /\ signals'.done = None
        /\ signals'.complete = signals.complete /\ result' = result
        /\ drainer.sending \/ drainer.err
    BY <1>0, <1>c, SignalEffect DEF Cancel
  <2>2. signals.complete # ok
    BY <1>c
  <2>3. result # error
    BY <1>c
  <2> QED
    BY <1>0, <1>c, <2>1, <2>2, <2>3
<1>1. ASSUME Open PROVE Heard'
  BY <1>0, <1>1 DEF Open, StartDrainer, SignalStates, DrainerRests, Phases, draining
<1>2. ASSUME OpenFails PROVE Heard'
  BY <1>0, <1>2 DEF OpenFails, SignalStates, DrainerRests, Phases, draining
<1>3. ASSUME ReadPage PROVE Heard'
  <2>1. UNCHANGED <<source, drainer, result>> /\ phase = "read"
    BY <1>3 DEF ReadPage, Reading, UnchangedByReading, draining
  <2> QED
    BY <1>3, <1>g, <2>1 DEF ReadPage
<1>4. ASSUME ReadCsvLine PROVE Heard'
  <2>1. UNCHANGED <<source, drainer, result>> /\ phase = "read"
    BY <1>4 DEF ReadCsvLine, Reading, UnchangedByReading, draining
  <2> QED
    BY <1>0, <1>4, <1>g, <2>1 DEF ReadCsvLine
<1>5. ASSUME ReadParquetRow PROVE Heard'
  <2>1. UNCHANGED <<source, drainer, result>> /\ phase = "read"
    BY <1>5 DEF ReadParquetRow, Reading, UnchangedByReading, draining
  <2> QED
    BY <1>0, <1>5, <1>g, <2>1 DEF ReadParquetRow
<1>6. ASSUME ReadFails PROVE Heard'
  <2>1. CASE IsCustom
    <3>1. phase' = "close" /\ result' = error /\ UNCHANGED <<source, signals, drainer, wrapped>>
          /\ Resting
      BY <1>6, <2>1 DEF ReadFails, draining
    <3> QED
      BY <1>0, <2>1, <3>1
  <2>2. CASE ~IsCustom
    <3>1. Cancel /\ Sending /\ UNCHANGED <<source, drainer, wrapped>>
      BY <1>6, <2>2 DEF ReadFails, draining, DrainerRests
    <3> QED
      BY <1>c, <3>1
  <2> QED
    BY <2>1, <2>2
<1>7. ASSUME Flush PROVE Heard'
  BY <1>0, <1>7 DEF Flush, StartDrainer, SignalStates, DrainerRests, Phases, draining
<1>8. ASSUME SkipRow PROVE Heard'
  BY <1>0, <1>8 DEF SkipRow, SignalStates, DrainerRests, Phases, draining
<1>9. ASSUME EvalFails PROVE Heard'
  BY <1>9, <1>c DEF EvalFails, draining
<1>10. ASSUME AddRecord PROVE Heard'
  BY <1>0, <1>10 DEF AddRecord, SignalStates, DrainerRests, Phases, draining
<1>11. ASSUME CountRecord PROVE Heard'
  BY <1>0, <1>11 DEF CountRecord, SignalStates, DrainerRests, Phases, draining
<1>12. ASSUME EndRows PROVE Heard'
  <2>1. Sending /\ UNCHANGED <<source, drainer, result, wrapped>> /\ phase = "rows"
    BY <1>12 DEF EndRows, draining
  <2>4. signals.complete # ok /\ result # error
    BY <2>1
  <2>2. CASE IsCustom
    <3>1. /\ phase' = "wait" /\ signals'.done = ok /\ signals'.cancel = signals.cancel
          /\ signals'.complete = signals.complete /\ (drainer.sending \/ drainer.err)
          /\ signals.done = None
      BY <1>0, <1>12, <2>1, <2>2, SignalEffect DEF EndRows
    <3>2. signals.cancel = None
      BY <2>1
    <3> QED
      BY <1>0, <2>1, <2>2, <2>4, <3>1, <3>2
  <2>3. CASE ~IsCustom
    <3>1. phase' = "read" /\ UNCHANGED signals
      BY <1>12, <2>3 DEF EndRows
    <3> QED
      BY <1>0, <2>1, <2>3, <2>4, <3>1
  <2> QED
    BY <2>2, <2>3
<1>13. ASSUME Wait PROVE Heard'
  BY <1>0, <1>13 DEF Wait, Signal, SignalStates, DrainerRests, Phases, draining
<1>14. ASSUME Close PROVE Heard'
  BY <1>0, <1>14 DEF Close, SignalStates, DrainerRests, Phases, draining
<1>15. ASSUME Return PROVE Heard'
  BY <1>0, <1>15 DEF Return, SignalStates, DrainerRests, Phases, draining
<1> QED
  BY <1>1, <1>2, <1>3, <1>4, <1>5, <1>6, <1>7, <1>8, <1>9,
     <1>10, <1>11, <1>12, <1>13, <1>14, <1>15 DEF Producer

\* Errors reach the producer: the steps of the drainer.
LEMMA HeardDrainer ==
  ASSUME TInv, DrainerRests, Heard, Drainer
  PROVE  Heard'
<1>0. /\ signals \in SignalStates /\ None \notin {ok, error} /\ ok # error
      /\ result \in {ok, error} /\ drainer \in DrainerStates
      /\ drainer.at = "on" /\ UNCHANGED producer /\ UNCHANGED source
  BY TableAssumption DEF TInv, DrainerTypes, ProducerTypes, ok, error, Drainer, DrainStatus,
     DrainSignal, DrainTimeout, DrainComplete, Draining
<1>1. ~Resting /\ ~Ending /\ signals.complete = None /\ (Resting <=> Resting') /\ (Ending <=>
        Ending')
      /\ (Sending <=> Sending') /\ UNCHANGED <<result, phase, wrapped>>
  BY <1>0 DEF DrainerRests, Ending, Resting, Sending, IsCustom, producer
<1>2. CASE DrainStatus
  <2>1. drainer'.sending = drainer.sending /\ (drainer.err => drainer'.err) /\ UNCHANGED signals
    <3>1. drainer' = Harvested(Head(statuses)) /\ UNCHANGED signals
      BY <1>2 DEF DrainStatus
    <3> QED
      BY <1>0, <3>1, Zenon DEF Harvested, DrainerStates
  <2> QED
    BY <1>0, <1>1, <2>1 DEF Heard
<1>3. CASE DrainSignal
  <2>1. CASE /\ signals.cancel # None /\ Signal("cancel", None)
             /\ drainer' = [drainer EXCEPT !.sending = FALSE, !.err = TRUE]
    <3>1. drainer'.err /\ signals'.cancel = None /\ signals'.done = signals.done
          /\ signals'.complete = signals.complete
      BY <1>0, <2>1 DEF Signal, DrainerStates, SignalStates
    <3> QED
      BY <1>0, <1>1, <2>1, <3>1 DEF Heard
  <2>2. CASE /\ signals.done # None /\ Signal("done", None)
             /\ drainer' = [drainer EXCEPT !.sending = FALSE]
    <3>1. drainer'.err = drainer.err /\ signals'.cancel = signals.cancel /\ signals'.done = None
          /\ signals'.complete = signals.complete
      BY <1>0, <2>2 DEF Signal, DrainerStates, SignalStates
    <3> QED
      BY <1>0, <1>1, <2>2, <3>1 DEF Heard
  <2> QED
    BY <1>3, <2>1, <2>2 DEF DrainSignal
<1>4. CASE DrainTimeout
  <2>1. drainer'.err /\ UNCHANGED signals
    BY <1>0, <1>4 DEF DrainTimeout, DrainerStates
  <2> QED
    BY <1>0, <1>1, <2>1 DEF Heard
<1>5. CASE DrainComplete
  <2>1. /\ drainer'.sending = drainer.sending /\ drainer'.err = drainer.err /\ ~drainer.sending
        /\ signals' = [signals EXCEPT !.complete = IF drainer.err THEN error ELSE ok]
    BY <1>0, <1>5 DEF DrainComplete, DrainerStates, Draining, Signal
  <2>2. /\ signals'.cancel = signals.cancel /\ signals'.done = signals.done
        /\ signals'.complete = ok => ~drainer.err
    BY <1>0, <2>1 DEF SignalStates
  <2>3. ~drainer.err => signals.cancel = None /\ signals.done = None
    BY <2>1 DEF Heard
  <2> QED
    BY <1>0, <1>1, <2>1, <2>2, <2>3 DEF Heard
<1> QED
  BY <1>2, <1>3, <1>4, <1>5 DEF Drainer

\* An error that the drainer or the producer knows of is not forgotten.
LEMMA ToldStays ==
  ASSUME TInv, DrainerRests, Heard, Told, [Next]_vars
  PROVE  Told'
<1>0. /\ signals \in SignalStates /\ None \notin {ok, error} /\ ok # error
      /\ result \in {ok, error} /\ drainer \in DrainerStates
  BY TableAssumption DEF TInv, DrainerTypes, ProducerTypes, ok, error
<1>1. ASSUME wrapped PROVE Told'
  BY <1>1 DEF Next, Producer, Drainer, Worker, Stopped, vars, producer, Working, Told, Heard, Open,
     OpenFails, ReadPage, ReadCsvLine, ReadParquetRow, ReadFails, Flush, SkipRow, EvalFails,
     AddRecord, CountRecord, EndRows, Wait, Close, Return, DrainStatus, DrainSignal, DrainTimeout,
     DrainComplete, TakeRecord, Exit, InsertData, InsertDataFails, InsertIdx, InsertIdxFails, Report
<1>2. ASSUME result = error PROVE Told'
  <2>1. phase \in {"close", "closing", "failed"}
    BY <1>2 DEF Heard
  <2>2. result' = error
    BY <1>2, <2>1 DEF Next, Producer, Drainer, Worker, Stopped, vars, producer, Working, Open,
     OpenFails, ReadPage, ReadCsvLine, ReadParquetRow, ReadFails, Flush, SkipRow, EvalFails,
     AddRecord, CountRecord, EndRows, Wait, Close, Return, DrainStatus, DrainSignal, DrainTimeout,
     DrainComplete, TakeRecord, Exit, InsertData, InsertDataFails, InsertIdx, InsertIdxFails,
       Report,
     Reading
  <2> QED
    BY <2>2 DEF Told
<1>3. ASSUME drainer.err \/ signals.cancel # None \/ signals.complete = error PROVE Told'
  <2>1. CASE Producer
    <3>1. ~Resting
      <4>1. drainer.err \/ signals.cancel # None => ~Resting
        BY DEF Heard
      <4>2. signals.complete = error => ~Resting
        BY <1>0 DEF DrainerRests
      <4> QED
        BY <1>3, <4>1, <4>2
    <3>2. CASE Wait
      <4>1. result' = signals.complete /\ signals.complete # ok => Told'
        BY <1>0, <3>2 DEF Told, TInv, DrainerTypes, SignalStates, Items, Wait
      <4> QED
        BY <1>0, <1>3, <3>2 DEF Wait, Signal, Told, SignalStates, draining, Items
    <3>3. CASE ~Wait
      <4>1. UNCHANGED drainer
        BY <2>1, <3>1, <3>3 DEF Producer, Open, OpenFails, ReadPage, ReadCsvLine, ReadParquetRow,
           ReadFails, Flush, SkipRow, EvalFails, AddRecord, CountRecord, EndRows, Close, Return,
           UnchangedByReading, draining, Resting
      <4>2. ASSUME NEW rows, Got(rows)
            PROVE  signals'.cancel = signals.cancel /\ signals'.complete = signals.complete
        BY <1>0, <4>2, GotCases DEF Signal, SignalStates
      <4>3. /\ signals'.cancel = signals.cancel \/ signals'.cancel = error
            /\ signals'.complete = signals.complete
        BY <1>0, <2>1, <3>3, <4>2 DEF Producer, Open, OpenFails, ReadPage, ReadCsvLine,
             ReadParquetRow,
           ReadFails, Flush, SkipRow, EvalFails, AddRecord, CountRecord, EndRows, Close, Return,
           Cancel, Signal, SignalStates
      <4> QED
        BY <1>0, <1>3, <4>1, <4>3 DEF Told
    <3> QED
      BY <3>2, <3>3
  <2>2. CASE Drainer
    <3>1. drainer.at = "on" /\ signals.complete = None
      BY <2>2 DEF Drainer, DrainStatus, DrainSignal, DrainTimeout, DrainComplete, Draining,
           DrainerRests
    <3>2. CASE DrainStatus
      <4>1. drainer' = Harvested(Head(statuses)) /\ UNCHANGED signals
        BY <3>2 DEF DrainStatus
      <4>2. drainer.err => drainer'.err
        BY <1>0, <4>1, Zenon DEF Harvested, DrainerStates
      <4> QED
        BY <1>0, <1>3, <3>1, <4>1, <4>2 DEF Told
    <3>3. CASE DrainSignal
      BY <1>0, <1>3, <3>1, <3>3 DEF DrainSignal, Signal, SignalStates, DrainerStates, Told
    <3>4. CASE DrainTimeout
      BY <1>0, <3>4 DEF DrainTimeout, DrainerStates, Told
    <3>5. CASE DrainComplete
      BY <1>0, <1>3, <3>1, <3>5 DEF DrainComplete, Signal, SignalStates, DrainerStates, Told
    <3> QED
      BY <2>2, <3>2, <3>3, <3>4, <3>5 DEF Drainer
  <2>3. ASSUME UNCHANGED <<drainer, signals>> PROVE Told'
    BY <1>3, <2>3 DEF Told
  <2>4. CASE \E w \in Workers : Worker(w)
    BY <2>3, <2>4 DEF Worker, TakeRecord, Exit, InsertData, InsertDataFails, InsertIdx,
       InsertIdxFails, Report, Working, draining
  <2> QED
    BY <2>1, <2>2, <2>3, <2>4 DEF Next, Stopped, vars, draining
<1> QED
  BY <1>1, <1>2, <1>3 DEF Told

-------------------------------------------------------------------------------
(* Reading. *)

\* The rows the batch is there for, for each kind of reader.
LEMMA WantedSpec ==
  ASSUME ProducerTypes
  PROVE  /\ Wanted \subseteq 1..Len(source.tokens) /\ Wanted \subseteq Nat /\ IsFiniteSet(Wanted)
         /\ ByTokens => Wanted = Inside(source.tokens, FirstToken, LastToken)
         /\ source.reader = "csv" => Wanted = {i \in 1..Len(source.tokens) : i > HeaderLines}
         /\ source.reader = "parquet" => Wanted = 1..Len(source.tokens)
         /\ ByTokens \/ source.reader = "csv" \/ source.reader = "parquet"
<1>1. /\ ByTokens => Wanted = {i \in 1..Len(source.tokens) :
                                source.tokens[i] \in FirstToken..LastToken}
      /\ source.reader = "csv" => Wanted = {i \in 1..Len(source.tokens) : i > HeaderLines}
      /\ source.reader = "parquet" => Wanted = 1..Len(source.tokens)
  BY DEF Wanted, ByTokens, Custom
<1>2. ByTokens \/ source.reader = "csv" \/ source.reader = "parquet"
  BY SourceSorted DEF ByTokens, Readers
<1>3. Len(source.tokens) \in Nat
  BY SourceSorted
<1>4. Wanted \subseteq 1..Len(source.tokens)
  BY <1>1, <1>2
<1>5. 1..Len(source.tokens) \subseteq Nat /\ IsFiniteSet(1..Len(source.tokens))
  BY <1>3, FS_Interval
<1>6. IsFiniteSet(Wanted)
  BY <1>4, <1>5, FS_Subset
<1> QED
  BY <1>1, <1>2, <1>4, <1>5, <1>6 DEF Inside

\* The batch reads and sends no other rows.
LEMMA RowsWanted ==
  ASSUME ProducerTypes, RowsBound, PageRight
  PROVE  /\ Gotten \subseteq Wanted /\ Before \subseteq Wanted
         /\ SentRows \subseteq RecordsOf(Wanted)
         /\ IsFiniteSet(Gotten) /\ IsFiniteSet(SentRows)
<1>1. Gotten \subseteq Wanted /\ Before \subseteq Wanted
  BY DEF Gotten, Before
<1>2. Elements(Batch) = RecordsOf(Elements(page)) /\ Len(Batch) \in Nat /\ pos \in Nat
  BY BatchSpec DEF ProducerTypes
<1>3. Taken \subseteq RecordsOf(Wanted)
  <2>1. CASE OnPage
    <3>1. pos + InCount <= Len(Batch) /\ Elements(page) \subseteq Gotten
      BY <1>2, <2>1 DEF PageRight, PageSet, InCount, RowsBound, ProducerTypes
    <3>2. Taken \subseteq Elements(Batch)
      BY <1>2, <2>1, <3>1 DEF Taken, Elements, InCount
    <3>3. RecordsOf(Elements(page)) \subseteq RecordsOf(Wanted)
      BY <1>1, <3>1, RecordsApart
    <3> QED
      BY <1>2, <3>2, <3>3
  <2> QED
    BY <2>1 DEF Taken
<1>4. SentRows \subseteq RecordsOf(Wanted)
  <2>1. RecordsOf(Before) \subseteq RecordsOf(Wanted)
    BY <1>1, RecordsApart
  <2> QED
    BY <1>3, <2>1 DEF SentRows, ForTable
<1>5. /\ IsFiniteSet(Wanted) /\ IsFiniteSet(RecordsOf(Wanted))
      /\ Gotten \in SUBSET Wanted /\ SentRows \in SUBSET RecordsOf(Wanted)
  <2>1. IsFiniteSet(Wanted)
    BY WantedSpec
  <2>2. CASE source.reader = "tag"
    BY <1>1, <1>4, <2>1, <2>2, TagRecordsSpec
  <2>3. CASE source.reader # "tag"
    BY <1>1, <1>4, <2>1, <2>3 DEF RecordsOf
  <2> QED
    BY <2>2, <2>3
<1>6. IsFiniteSet(Gotten) /\ IsFiniteSet(SentRows)
  BY <1>5, FS_Subset
<1> QED
  BY <1>1, <1>4, <1>6

SameRead ==
  /\ UNCHANGED <<source, cursor, page, pos, read>>
  /\ OnPage' <=> OnPage
  /\ AllRead' <=> AllRead
  /\ InCount' = InCount

\* A step that leaves the reading alone leaves alone what was read and sent.
LEMMA SameReadRight ==
  ASSUME PageRight, SameRead, OnPage /\ ~IsCustom => upto' = upto,
         phase' = "count" => phase = "count"
  PROVE  PageRight' /\ SentRows' = SentRows /\ Gotten' = Gotten
<1>1. /\ Batch' = Batch /\ (IsCustom' <=> IsCustom) /\ (ByTokens' <=> ByTokens) /\ Wanted' = Wanted
      /\ UNCHANGED <<source, cursor, page, pos, read>>
  BY DEF SameRead, Batch, RecordsOf, IsCustom, ByTokens, Wanted
<1>2. Gotten' = Gotten
  BY <1>1 DEF SameRead, Gotten
<1>3. Before' = Before /\ Taken' = Taken
  BY <1>1, <1>2 DEF SameRead, Before, Taken, PageSet
<1>4. SentRows' = SentRows
  BY <1>1, <1>3 DEF SentRows, ForTable, RecordsOf
<1>5. PageRight'
  BY <1>1, <1>2, <1>3 DEF SameRead, PageRight, PageSet
<1> QED
  BY <1>2, <1>4, <1>5

\* A page is begun.
LEMMA PageBegun ==
  ASSUME ProducerTypes, ~OnPage, OnPage', PageRight, InCount' = 0, pos' = 0, UNCHANGED <<source,
    read>>,
         NEW P, Gotten' = Gotten \cup P, P \cap Gotten = {}, Elements(page') = P
  PROVE  SentRows' = SentRows /\ read' = Cardinality(Before') /\ P \subseteq Gotten'
<1>1. Before' = Gotten /\ Before = Gotten
  BY DEF Before, PageSet
<1>2. Taken = {} /\ Taken' = {}
  <2>1. 1..0 = {}
    OBVIOUS
  <2> QED
    BY <2>1 DEF Taken
<1> QED
  BY <1>1, <1>2 DEF SentRows, ForTable, RecordsOf, PageRight

\* A page is done with.
LEMMA PageDone ==
  ASSUME ProducerTypes, RowsBound, OnPage, ~OnPage', PageRight, InCount = 0, pos = Len(Batch),
         UNCHANGED source, read' = read + Len(page), Gotten' = Gotten
  PROVE  SentRows' = SentRows /\ read' = Cardinality(Before')
<1>1. Elements(page) \subseteq Gotten /\ Increasing(page) /\ page \in Seq(Nat)
      /\ Before = Gotten \ Elements(page) /\ Before' = Gotten /\ Taken' = {}
      /\ read = Cardinality(Before)
  BY DEF PageRight, PageSet, Before, Taken, ProducerTypes
<1>2. Taken = Elements(Batch)
  <2>1. Len(Batch) \in Nat
    BY BatchSpec
  <2>2. pos + InCount = Len(Batch)
    BY <2>1
  <2> QED
    BY <2>2 DEF Taken, Elements
<1>3. Elements(Batch) = RecordsOf(Elements(page))
  BY BatchSpec
<1>4. SentRows = ForTable(Gotten)
  <2>1. Gotten = Before \cup Elements(page)
    BY <1>1
  <2>2. RecordsOf(Gotten) = RecordsOf(Before) \cup Taken
    BY <1>2, <1>3, <2>1, RecordsApart
  <2> QED
    BY <2>2 DEF SentRows, ForTable
<1>5. SentRows' = ForTable(Gotten)
  BY <1>1 DEF SentRows, ForTable, RecordsOf
<1>6. Cardinality(Gotten) = Cardinality(Before) + Len(page)
  <2>1. IsFiniteSet(Gotten) /\ IsFiniteSet(Elements(page))
          /\ Cardinality(Elements(page)) = Len(page)
    BY <1>1, RowsWanted, ElementsSpec
  <2>2. /\ Cardinality(Before) = Cardinality(Gotten) - Cardinality(Gotten \cap Elements(page))
        /\ Gotten \cap Elements(page) = Elements(page)
    BY <1>1, <2>1, FS_Difference, Zenon
  <2>4. Cardinality(Before) = Cardinality(Gotten) - Len(page)
    BY <2>1, <2>2, Zenon
  <2>3. Cardinality(Gotten) \in Nat /\ Len(page) \in Nat
    BY <1>1, <2>1, FS_CardinalityType
  <2> QED
    BY <2>3, <2>4
<1> QED
  BY <1>1, <1>4, <1>5, <1>6

\* A page by tokens takes the reading further (ReadPage).
LEMMA PageReadRight ==
  ASSUME TInv, RowsBound, PageRight, ReadPage, ~wrapped'
  PROVE  PageRight' /\ SentRows' = SentRows
<1> DEFINE t == source.tokens
           P == PageRows(t, RowsetSize, cursor, LastToken)
           c == NextCursor(t, RowsetSize, cursor, LastToken)
           W == Inside(t, FirstToken, LastToken)
<1>1. /\ ProducerTypes /\ phase = "read" /\ ByTokens /\ ~Wraps(t, RowsetSize, cursor, LastToken)
      /\ Got(Ascending(P)) /\ cursor' = c /\ UNCHANGED <<source, read>>
  BY DEF TInv, ReadPage, Reading, ByTokens, UnchangedByReading
<1>2. ~OnPage /\ ~AllRead /\ CursorFits(t, cursor, FirstToken, LastToken)
  BY <1>1 DEF OnPage, AllRead, Ending, PageRight
<1>3. Wanted = W /\ Wanted' = W /\ ByTokens' /\ (IsCustom' <=> IsCustom)
  <2>1. Wanted = W
    BY <1>1, WantedSpec
  <2>2. Wanted' = Wanted
    BY <1>1 DEF Wanted
  <2> QED
    BY <1>1, <2>1, <2>2 DEF ByTokens, IsCustom
<1>4. /\ P \subseteq W
      /\ \A i \in P : ~ReadUpTo(t, cursor, i)
      /\ P = {} => \A i \in W : ReadUpTo(t, cursor, i)
      /\ P # {} => /\ CursorFits(t, c, FirstToken, LastToken)
                   /\ \A i \in W : ReadUpTo(t, c, i) <=> ReadUpTo(t, cursor, i) \/ i \in P
  <2>1. Sorted(t) /\ RowsetSize \in Nat \ {0} /\ FirstToken \in Int /\ LastToken \in Int
        /\ cursor \in [token : Int, rows : SUBSET Nat]
    BY <1>1, SourceSorted, TableAssumption DEF ProducerTypes
  <2> HIDE DEF t
  <2> QED
    BY <1>1, <1>2, <2>1, PageStep
<1>5. /\ P \subseteq Nat /\ IsFiniteSet(P)
      /\ Ascending(P) \in Seq(Nat) /\ Len(Ascending(P)) = Cardinality(P)
      /\ Increasing(Ascending(P)) /\ Elements(Ascending(P)) = P
  BY <1>1, PageTyped
<1> DEFINE A == Ascending(P)
<1> HIDE DEF A, P, c, W
<1>6. Gotten = {i \in W : ReadUpTo(t, cursor, i)}
  BY <1>1, <1>2, <1>3 DEF Gotten
<1>7. CASE A = <<>>
  <2>1. P = {}
    <3>1. Elements(A) = {}
      BY <1>7 DEF Elements
    <3> QED
      BY <1>5, <3>1 DEF A
  <2>2. Gotten = W
    BY <1>4, <1>6, <2>1
  <2>3. \/ phase' = "close"
        \/ phase' = "wait" /\ ~IsCustom
    BY <1>1, <1>7, GotCases DEF A, IsCustom
  <2>4. AllRead' /\ ~OnPage' /\ Gotten' = W /\ phase' # "count"
    BY <1>3, <2>3 DEF AllRead, OnPage, Ending, Gotten
  <2>5. Before' = Gotten /\ Before = Gotten /\ Taken = {} /\ Taken' = {}
    BY <1>2, <2>2, <2>4 DEF Before, Taken
  <2>6. SentRows' = SentRows
    BY <1>1, <2>5 DEF SentRows, ForTable, RecordsOf
  <2> QED
    BY <1>1, <2>4, <2>5, <2>6 DEF PageRight
<1>8. CASE A # <<>>
  <2>1. P # {}
    <3>1. Len(A) \in Nat /\ Len(A) # 0
      BY <1>5, <1>8 DEF A
    <3> QED
      BY <1>5, <3>1, FS_EmptySet DEF A
  <2>2. /\ page' = A /\ pos' = 0
        /\ \/ phase' = "flush" /\ IsCustom
           \/ phase' = "rows" /\ ~IsCustom /\ upto' = Len(A)
    BY <1>1, <1>8, GotCases DEF A, IsCustom
  <2>3. OnPage' /\ ~AllRead' /\ InCount' = 0 /\ phase' # "count"
    BY <1>3, <2>2 DEF OnPage, AllRead, Ending, InCount
  <2>4. Gotten' = {i \in W : ReadUpTo(t, c, i)}
    BY <1>1, <1>3, <2>3 DEF Gotten
  <2>5. Gotten' = Gotten \cup P /\ P \cap Gotten = {}
    BY <1>4, <1>6, <2>1, <2>4
  <2>6. SentRows' = SentRows /\ read' = Cardinality(Before') /\ P \subseteq Gotten'
    BY <1>1, <1>2, <1>5, <2>2, <2>3, <2>5, PageBegun DEF A
  <2>7. CursorFits(source'.tokens, cursor', FirstToken, LastToken)
    BY <1>1, <1>4, <2>1
  <2>8. Increasing(page') /\ PageSet' \subseteq Gotten' /\ pos' <= Len(Batch')
    <3>1. ProducerTypes'
      BY ProducerTyped DEF TInv, Producer
    <3>2. Len(Batch') \in Nat
      <4>1. ProducerTypes => Len(Batch) \in Nat
        BY BatchSpec
      <4> QED
        BY <3>1
    <3>3. Increasing(page') /\ Elements(page') = P
      BY <1>5, <2>2 DEF A
    <3>4. PageSet' = P
      BY <3>3 DEF PageSet
    <3> QED
      BY <2>2, <2>6, <3>2, <3>3, <3>4
  <2>9. source'.reader # "parquet"
    BY <1>1 DEF ByTokens, Custom
  <2>10. OnPage' /\ ~IsCustom' => upto' = Len(page')
    BY <1>3, <2>2
  <2> QED
    BY <2>3, <2>6, <2>7, <2>8, <2>9, <2>10 DEF PageRight
<1> QED
  BY <1>7, <1>8

\* So does a line of a CSV file (ReadCsvLine).
LEMMA CsvReadRight ==
  ASSUME TInv, RowsBound, PageRight, ReadCsvLine
  PROVE  PageRight' /\ SentRows' = SentRows
<1> DEFINE n == cursor.token
           rows == IF n < Len(source.tokens) THEN <<n + 1>> ELSE <<>>
<1>1. /\ ProducerTypes /\ phase = "read" /\ source.reader = "csv" /\ UNCHANGED <<source, read>>
      /\ n \in Nat /\ cursor'.token = n + 1 /\ ~ByTokens /\ ~ByTokens' /\ ~IsCustom /\ ~IsCustom'
      /\ Len(source.tokens) \in Nat /\ HeaderLines \in Nat
  <2>1. ProducerTypes /\ phase = "read" /\ source.reader = "csv" /\ UNCHANGED <<source, read>>
        /\ cursor' = [cursor EXCEPT !.token = @ + 1]
    BY DEF TInv, ReadCsvLine, Reading, UnchangedByReading
  <2>2. n \in Nat /\ cursor'.token = n + 1
    BY <2>1 DEF ProducerTypes
  <2> QED
    BY <2>1, <2>2, SourceSorted, TableAssumption DEF ByTokens, IsCustom, Custom
<1>2. ~OnPage /\ ~AllRead
  BY <1>1 DEF OnPage, AllRead, Ending
<1>3. Wanted = {i \in 1..Len(source.tokens) : i > HeaderLines} /\ Wanted' = Wanted
  BY <1>1, WantedSpec DEF Wanted
<1>4. Gotten = {i \in Wanted : i <= n} /\ Before = Gotten /\ Taken = {}
  BY <1>1, <1>2 DEF Gotten, Before, Taken
<1>5. ~AllRead' => Gotten' = {i \in Wanted : i <= n + 1}
  BY <1>1, <1>3 DEF Gotten
<1>6. \A i \in Wanted : i \in Nat /\ i > HeaderLines /\ i <= Len(source.tokens)
  BY <1>1, <1>3
<1>7. CASE n < HeaderLines
  <2>1. UNCHANGED <<page, pos, upto, phase, signals>>
    BY <1>1, <1>7 DEF ReadCsvLine
  <2>2. ~OnPage' /\ ~AllRead'
    BY <1>1, <2>1 DEF OnPage, AllRead, Ending
  <2>3. Gotten' = Gotten
    <3>1. \A i \in Wanted : ~(i <= n) /\ ~(i <= n + 1)
      BY <1>1, <1>6, <1>7
    <3> QED
      BY <1>4, <1>5, <2>2, <3>1
  <2>4. Before' = Before /\ Taken' = {}
    BY <1>4, <2>2, <2>3 DEF Before, Taken
  <2>5. SentRows' = SentRows
    BY <1>1, <1>4, <2>4 DEF SentRows, ForTable, RecordsOf
  <2> QED
    BY <1>1, <2>1, <2>2, <2>4, <2>5 DEF PageRight
<1>8. CASE ~(n < HeaderLines) /\ n < Len(source.tokens)
  <2>1. Got(<<n + 1>>)
    BY <1>1, <1>8 DEF ReadCsvLine
  <2>2. <<n + 1>> # <<>> /\ Len(<<n + 1>>) = 1
    OBVIOUS
  <2>3. phase' = "rows" /\ page' = <<n + 1>> /\ pos' = 0 /\ upto' = 1
    BY <1>1, <2>1, <2>2, GotCases DEF IsCustom
  <2>4. OnPage' /\ ~AllRead' /\ InCount' = 0
    BY <2>3 DEF OnPage, AllRead, Ending, InCount
  <2>5. Elements(page') = {n + 1} /\ Increasing(page')
    <3>1. Elements(<<n + 1>>) = {n + 1} /\ Increasing(<<n + 1>>)
      BY DEF Elements, Increasing
    <3> QED
      BY <2>3, <3>1
  <2>6. Gotten' = Gotten \cup {n + 1} /\ {n + 1} \cap Gotten = {}
    <3>1. n + 1 \in Wanted
      BY <1>1, <1>3, <1>8
    <3>2. \A i \in Wanted : i <= n + 1 <=> i <= n \/ i = n + 1
      BY <1>1, <1>6
    <3>3. ~(n + 1 <= n)
      BY <1>1
    <3> QED
      BY <1>4, <1>5, <2>4, <3>1, <3>2, <3>3
  <2>7. SentRows' = SentRows /\ read' = Cardinality(Before') /\ {n + 1} \subseteq Gotten'
    BY <1>1, <1>2, <2>3, <2>4, <2>5, <2>6, PageBegun
  <2>8. Batch' = page'
    BY <1>1 DEF Batch
  <2>9. PageSet' = {n + 1}
    BY <2>5 DEF PageSet
  <2> QED
    BY <1>1, <2>2, <2>3, <2>4, <2>5, <2>7, <2>8, <2>9 DEF PageRight
<1>9. CASE ~(n < HeaderLines) /\ ~(n < Len(source.tokens))
  <2>1. Got(<<>>)
    BY <1>1, <1>9 DEF ReadCsvLine
  <2>2. phase' = "wait"
    BY <1>1, <2>1, GotCases DEF IsCustom
  <2>3. ~OnPage' /\ AllRead'
    BY <1>1, <2>2 DEF OnPage, AllRead
  <2>4. Gotten' = Gotten
    <3>1. \A i \in Wanted : i <= n
      BY <1>1, <1>6, <1>9
    <3> QED
      BY <1>3, <1>4, <2>3, <3>1 DEF Gotten
  <2>5. Before' = Before /\ Taken' = {}
    BY <1>4, <2>3, <2>4 DEF Before, Taken
  <2>6. SentRows' = SentRows
    BY <1>1, <1>4, <2>5 DEF SentRows, ForTable, RecordsOf
  <2> QED
    BY <1>1, <2>2, <2>3, <2>5, <2>6 DEF PageRight
<1> QED
  BY <1>7, <1>8, <1>9

\* And a row of a Parquet file (ReadParquetRow).
LEMMA ParquetReadRight ==
  ASSUME TInv, RowsBound, PageRight, ReadParquetRow
  PROVE  PageRight' /\ SentRows' = SentRows
<1> DEFINE n == read
<1>1. /\ ProducerTypes /\ phase = "read" /\ source.reader = "parquet" /\ UNCHANGED <<source, read>>
      /\ n \in Nat /\ ~ByTokens /\ ~ByTokens' /\ ~IsCustom /\ ~IsCustom'
      /\ Len(source.tokens) \in Nat
  <2>1. ProducerTypes /\ phase = "read" /\ source.reader = "parquet" /\ UNCHANGED <<source, read>>
    BY DEF TInv, ReadParquetRow, Reading, UnchangedByReading
  <2>2. n \in Nat
    BY <2>1 DEF ProducerTypes
  <2> QED
    BY <2>1, <2>2, SourceSorted DEF ByTokens, IsCustom, Custom
<1>2. ~OnPage /\ ~AllRead
  BY <1>1 DEF OnPage, AllRead, Ending
<1>3. Wanted = 1..Len(source.tokens) /\ Wanted' = Wanted
  BY <1>1, WantedSpec DEF Wanted
<1>4. Gotten = {i \in Wanted : i <= n} /\ Before = Gotten /\ Taken = {}
  <2>1. Gotten = {i \in Wanted : i <= n + 0}
    BY <1>1, <1>2 DEF Gotten
  <2> QED
    BY <1>1, <1>2, <2>1 DEF Before, Taken
<1>5. ~AllRead' /\ OnPage' => Gotten' = {i \in Wanted : i <= n + 1}
  BY <1>1, <1>3 DEF Gotten
<1>6. \A i \in Wanted : i \in Nat /\ i <= Len(source.tokens)
  BY <1>1, <1>3
<1>8. CASE n < Len(source.tokens)
  <2>1. Got(<<n + 1>>)
    BY <1>1, <1>8 DEF ReadParquetRow
  <2>2. <<n + 1>> # <<>> /\ Len(<<n + 1>>) = 1
    OBVIOUS
  <2>3. phase' = "rows" /\ page' = <<n + 1>> /\ pos' = 0 /\ upto' = 1
    BY <1>1, <2>1, <2>2, GotCases DEF IsCustom
  <2>4. OnPage' /\ ~AllRead' /\ InCount' = 0
    BY <2>3 DEF OnPage, AllRead, Ending, InCount
  <2>5. Elements(page') = {n + 1} /\ Increasing(page')
    <3>1. Elements(<<n + 1>>) = {n + 1} /\ Increasing(<<n + 1>>)
      BY DEF Elements, Increasing
    <3> QED
      BY <2>3, <3>1
  <2>6. Gotten' = Gotten \cup {n + 1} /\ {n + 1} \cap Gotten = {}
    <3>1. n + 1 \in Wanted
      BY <1>1, <1>3, <1>8
    <3>2. \A i \in Wanted : i <= n + 1 <=> i <= n \/ i = n + 1
      BY <1>1, <1>6
    <3>3. ~(n + 1 <= n)
      BY <1>1
    <3> QED
      BY <1>4, <1>5, <2>4, <3>1, <3>2, <3>3
  <2>7. SentRows' = SentRows /\ read' = Cardinality(Before') /\ {n + 1} \subseteq Gotten'
    BY <1>1, <1>2, <2>3, <2>4, <2>5, <2>6, PageBegun
  <2>8. Batch' = page'
    BY <1>1 DEF Batch
  <2>9. PageSet' = {n + 1}
    BY <2>5 DEF PageSet
  <2>10. page' = <<read' + 1>> /\ upto' = Len(page') /\ pos' <= Len(Batch')
    BY <1>1, <2>2, <2>3, <2>8
  <2>11. phase' # "count" /\ Increasing(page') /\ PageSet' \subseteq Gotten'
    BY <2>3, <2>5, <2>7, <2>9
  <2> QED
    BY <1>1, <2>7, <2>10, <2>11 DEF PageRight
<1>9. CASE ~(n < Len(source.tokens))
  <2>1. Got(<<>>)
    BY <1>1, <1>9 DEF ReadParquetRow
  <2>2. phase' = "wait"
    BY <1>1, <2>1, GotCases DEF IsCustom
  <2>3. ~OnPage' /\ AllRead'
    BY <1>1, <2>2 DEF OnPage, AllRead
  <2>4. Gotten' = Gotten
    <3>1. \A i \in Wanted : i <= n
      BY <1>1, <1>6, <1>9
    <3> QED
      BY <1>3, <1>4, <2>3, <3>1 DEF Gotten
  <2>5. Before' = Before /\ Taken' = {}
    BY <1>4, <2>3, <2>4 DEF Before, Taken
  <2>6. SentRows' = SentRows
    BY <1>1, <1>4, <2>5 DEF SentRows, ForTable, RecordsOf
  <2> QED
    BY <1>1, <2>2, <2>3, <2>5, <2>6 DEF PageRight
<1> QED
  BY <1>8, <1>9

\* The next row of the page is done with: sent, or refused by the having condition.
LEMMA RowTaken ==
  ASSUME ProducerTypes, RowsBound, PageRight, phase = "rows", pos < upto,
         UNCHANGED <<source, cursor, page, upto, read>>,
         \/ phase' = "rows" /\ pos' = pos + 1
         \/ phase' = "count" /\ pos' = pos /\ Batch[pos + 1] \in Passing
  PROVE  /\ PageRight'
         /\ SentRows' = SentRows \cup ({Batch[pos + 1]} \cap Passing)
         /\ Batch[pos + 1] \notin SentRows
<1> DEFINE b == Batch[pos + 1]
<1>1. /\ Batch \in Seq(Nat) /\ Len(Batch) \in Nat /\ pos \in Nat /\ upto \in Nat
        /\ upto <= Len(Batch)
      /\ OnPage /\ OnPage' /\ ~AllRead /\ ~AllRead' /\ InCount = 0 /\ pos + 1 \in 1..Len(Batch)
      /\ Batch' = Batch /\ (IsCustom' <=> IsCustom) /\ (ByTokens' <=> ByTokens) /\ Wanted' = Wanted
  <2>1. Batch \in Seq(Nat) /\ Len(Batch) \in Nat /\ pos \in Nat /\ upto \in Nat
          /\ upto <= Len(Batch)
    BY BatchSpec DEF ProducerTypes, RowsBound
  <2>2. pos + 1 \in 1..Len(Batch)
    BY <2>1
  <2> QED
    BY <2>1, <2>2 DEF OnPage, AllRead, Ending, InCount, Batch, RecordsOf, IsCustom, ByTokens, Wanted
<1>2. Gotten' = Gotten
  BY <1>1 DEF Gotten
<1>3. Before' = Before
  BY <1>1, <1>2 DEF Before, PageSet
<1>4. Taken = {Batch[k] : k \in 1..pos} /\ Taken' = Taken \cup {b}
  <2>1. Taken = {Batch[k] : k \in 1..pos}
    <3>1. pos + InCount = pos
      BY <1>1
    <3> QED
      BY <1>1, <3>1 DEF Taken
  <2>2. Taken' = {Batch[k] : k \in 1..pos + 1}
    <3>1. pos' + InCount' = pos + 1
      BY <1>1 DEF InCount
    <3> QED
      BY <1>1, <3>1 DEF Taken
  <2>3. \A k : k \in 1..pos + 1 <=> k \in 1..pos \/ k = pos + 1
    BY <1>1
  <2> QED
    BY <2>1, <2>2, <2>3
<1>5. SentRows' = SentRows \cup ({b} \cap Passing)
  BY <1>1, <1>3, <1>4 DEF SentRows, ForTable, RecordsOf
<1>6. b \notin SentRows
  <2>1. b \notin RecordsOf(Before)
    <3>1. b \in RecordsOf(PageSet)
      BY <1>1, BatchSpec DEF Elements, PageSet
    <3>2. Before \cap PageSet = {}
      BY <1>1 DEF Before
    <3>3. RecordsOf(Before) \cap RecordsOf(PageSet) = {}
      BY <3>2, RecordsApart
    <3> QED
      BY <3>1, <3>3
  <2>2. b \notin Taken
    <3> SUFFICES ASSUME NEW k \in 1..pos, Batch[k] = b PROVE FALSE
      BY <1>4
    <3>1. Increasing(Batch)
      BY <1>1, BatchSpec DEF PageRight
    <3>2. k \in 1..Len(Batch) /\ k < pos + 1
      BY <1>1
    <3>3. Batch[k] < b /\ b \in Nat
      BY <1>1, <3>1, <3>2 DEF Increasing
    <3> QED
      BY <3>3
  <2> QED
    BY <2>1, <2>2 DEF SentRows, ForTable
<1>7. pos' <= Len(Batch') /\ (phase' = "count" => Batch'[pos' + 1] \in Passing)
  <2>1. CASE phase' = "count"
    <3> QED
      BY <1>1, <2>1
  <2>2. CASE phase' # "count"
    <3>1. pos' = pos + 1
      BY <2>2
    <3> QED
      BY <1>1, <2>2, <3>1
  <2> QED
    BY <2>1, <2>2
<1>8. PageRight'
  BY <1>1, <1>2, <1>3, <1>7 DEF PageRight, PageSet
<1> QED
  BY <1>5, <1>6, <1>8

\* What it means that no error is known.
LEMMA NotTold ==
  ASSUME TInv, ~Told
  PROVE  /\ ~wrapped /\ result = ok /\ ~drainer.err /\ signals.cancel = None
         /\ signals.complete \in {None, ok}
BY DEF Told, TInv, ProducerTypes, DrainerTypes, SignalStates, Items

\* What the producer can do when no error is known afterwards.
LEMMA Undisturbed ==
  ASSUME TInv, Heard, DrainerRests, RowsBound, Producer, ~Told'
  PROVE  /\ ~OpenFails /\ ~ReadFails /\ ~EvalFails
         /\ Wait => result' = ok /\ signals.complete = ok
         /\ Return => phase' = "done"
         /\ ~wrapped /\ ~wrapped' /\ result = ok /\ result' = ok
<1>1. TInv' /\ signals \in SignalStates /\ ok # error /\ None # error /\ None # ok
  BY ProducerTyped, TableAssumption DEF TInv, DrainerTypes, ok, error
<1>2. ~wrapped' /\ result' = ok /\ signals'.cancel = None /\ signals'.complete \in {None, ok}
  BY <1>1 DEF Told, TInv, ProducerTypes, DrainerTypes, SignalStates, Items
<1>3. ~Told
  BY ToldStays DEF Next
<1>4. ~Cancel
  BY <1>1, <1>2, SignalEffect DEF Cancel
<1>5. ~OpenFails /\ ~ReadFails /\ ~EvalFails
  BY <1>1, <1>2, <1>4 DEF OpenFails, ReadFails, EvalFails
<1>6. ~wrapped /\ result = ok
  BY <1>3, NotTold
<1> QED
  BY <1>1, <1>2, <1>5, <1>6 DEF Wait, Return

\* The steps of the producer, if no error is known afterwards: the rows read are counted, and the
\* only step that sends a record sends one not sent before.
LEMMA ReadSide ==
  ASSUME TInv, Heard, DrainerRests, RowsBound, PageRight, Producer, ~Told'
  PROVE  /\ PageRight'
         /\ AddRecord => /\ SentRows' = SentRows \cup {Batch[pos + 1]}
                         /\ Batch[pos + 1] \notin SentRows
         /\ ~AddRecord => SentRows' = SentRows
<1>1. /\ ~OpenFails /\ ~ReadFails /\ ~EvalFails /\ ~wrapped'
      /\ Wait => result' = ok /\ signals.complete = ok
      /\ Return => phase' = "done"
  BY Undisturbed
<1>2. ProducerTypes /\ Batch \in Seq(Nat) /\ Len(Batch) \in Nat /\ pos \in Nat
  BY BatchSpec DEF TInv, ProducerTypes
<1>3. ASSUME Open PROVE PageRight' /\ SentRows' = SentRows
  <2>1. SameRead /\ phase' # "count" /\ ~OnPage
    BY <1>3 DEF Open, SameRead, OnPage, AllRead, Ending, InCount, IsCustom
  <2> QED
    BY <2>1, SameReadRight
<1>4. ASSUME Flush PROVE PageRight' /\ SentRows' = SentRows
  <2>1. OnPage /\ IsCustom /\ InCount = 0 /\ phase = "flush" /\ UNCHANGED <<source, cursor, page,
          pos>>
        /\ ByTokens /\ ~AllRead
    BY <1>4 DEF Flush, OnPage, DrainerRests, InCount, IsCustom, ByTokens, AllRead, Ending
  <2>2. CASE pos < Len(Batch)
    <3>1. SameRead /\ phase' = "rows"
      BY <1>4, <2>1, <2>2 DEF Flush, SameRead, OnPage, AllRead, Ending, InCount, IsCustom
    <3> QED
      BY <2>1, <3>1, SameReadRight
  <2>3. CASE ~(pos < Len(Batch))
    <3>1. phase' = "read" /\ read' = read + Len(page)
      BY <1>4, <2>3 DEF Flush
    <3>2. pos = Len(Batch)
      <4>1. pos <= Len(Batch)
        BY <2>1 DEF PageRight
      <4> QED
        BY <1>2, <2>3, <4>1
    <3>3. ~OnPage' /\ ~AllRead' /\ ByTokens' /\ Wanted' = Wanted
      BY <2>1, <3>1 DEF OnPage, AllRead, Ending, ByTokens, Wanted
    <3>4. Gotten' = Gotten
      BY <2>1, <3>3 DEF Gotten
    <3>5. SentRows' = SentRows /\ read' = Cardinality(Before')
      BY <1>2, <2>1, <3>1, <3>2, <3>3, <3>4, PageDone
    <3> QED
      BY <2>1, <3>1, <3>3, <3>5 DEF PageRight
  <2> QED
    BY <2>2, <2>3
<1>5. ASSUME SkipRow PROVE PageRight' /\ SentRows' = SentRows
  <2>1. {Batch[pos + 1]} \cap Passing = {}
    BY <1>5 DEF SkipRow
  <2>2. PageRight' /\ SentRows' = SentRows \cup ({Batch[pos + 1]} \cap Passing)
    BY <1>2, <1>5, RowTaken DEF SkipRow
  <2> QED
    BY <2>1, <2>2
<1>6. ASSUME AddRecord
      PROVE  PageRight' /\ SentRows' = SentRows \cup {Batch[pos + 1]}
        /\ Batch[pos + 1] \notin SentRows
  <2>1. {Batch[pos + 1]} \cap Passing = {Batch[pos + 1]}
    BY <1>6 DEF AddRecord
  <2>2. PageRight' /\ SentRows' = SentRows \cup ({Batch[pos + 1]} \cap Passing)
        /\ Batch[pos + 1] \notin SentRows
    BY <1>2, <1>6, RowTaken DEF AddRecord
  <2> QED
    BY <2>1, <2>2
<1>7. ASSUME CountRecord PROVE PageRight' /\ SentRows' = SentRows
  <2>1. /\ phase = "count" /\ phase' = "rows" /\ pos' = pos + 1 /\ OnPage /\ OnPage'
        /\ UNCHANGED <<source, cursor, page, upto, read>> /\ ~AllRead /\ ~AllRead'
        /\ InCount = 1 /\ InCount' = 0
    BY <1>7 DEF CountRecord, OnPage, AllRead, Ending, InCount
  <2>2. /\ Batch' = Batch /\ (IsCustom' <=> IsCustom) /\ (ByTokens' <=> ByTokens)
          /\ Wanted' = Wanted
        /\ PageSet' = PageSet
    BY <2>1 DEF Batch, RecordsOf, IsCustom, ByTokens, Wanted, PageSet
  <2>3. Gotten' = Gotten
    BY <2>1, <2>2 DEF Gotten
  <2>4. Before' = Before
    BY <2>1, <2>2, <2>3 DEF Before
  <2>5. Taken' = Taken
    <3>1. pos' + InCount' = pos + InCount
      BY <1>2, <2>1
    <3> QED
      BY <2>1, <2>2, <3>1 DEF Taken
  <2>6. SentRows' = SentRows
    BY <2>1, <2>4, <2>5 DEF SentRows, ForTable, RecordsOf
  <2>7. pos' <= Len(Batch')
    <3>1. pos < upto /\ upto <= Len(Batch) /\ upto \in Nat
      BY <2>1 DEF RowsBound, TInv, ProducerTypes
    <3> QED
      BY <1>2, <2>1, <2>2, <3>1
  <2> QED
    BY <2>1, <2>2, <2>3, <2>4, <2>6, <2>7 DEF PageRight
<1>8. ASSUME EndRows PROVE PageRight' /\ SentRows' = SentRows
  <2>1. /\ phase = "rows" /\ pos = upto /\ OnPage /\ InCount = 0 /\ ~AllRead
        /\ UNCHANGED <<source, cursor, page, pos, upto>>
    BY <1>8 DEF EndRows, OnPage, InCount, AllRead, Ending
  <2>2. CASE IsCustom
    <3>1. SameRead /\ phase' = "wait"
      BY <1>8, <2>1, <2>2 DEF EndRows, SameRead, OnPage, AllRead, Ending, InCount, IsCustom
    <3> QED
      BY <2>1, <3>1, SameReadRight
  <2>3. CASE ~IsCustom
    <3>1. phase' = "read" /\ read' = read + Len(page)
      BY <1>8, <2>3 DEF EndRows, IsCustom
    <3>2. Batch = page /\ pos = Len(Batch) /\ page \in Seq(Nat)
      BY <2>1, <2>3 DEF Batch, IsCustom, Custom, PageRight, TInv, ProducerTypes
    <3>3. ~OnPage' /\ ~AllRead' /\ (ByTokens' <=> ByTokens) /\ Wanted' = Wanted /\ ~IsCustom'
      BY <2>1, <2>3, <3>1 DEF OnPage, AllRead, Ending, ByTokens, Wanted, IsCustom
    <3>4. Gotten' = Gotten
      <4>1. CASE ByTokens \/ source.reader = "csv"
        BY <2>1, <3>3, <4>1 DEF Gotten
      <4>2. CASE ~(ByTokens \/ source.reader = "csv")
        <5>1. source.reader = "parquet"
          BY <1>2, <4>2, WantedSpec
        <5>2. page = <<read + 1>> /\ read \in Nat
          BY <2>1, <5>1 DEF PageRight, TInv, ProducerTypes
        <5>3. Len(<<read + 1>>) = 1
          OBVIOUS
        <5>4. read' = read + 1 /\ read' + 0 = read + 1
          BY <3>1, <5>2, <5>3
        <5>5. Gotten = {i \in Wanted : i <= read + 1}
          BY <2>1, <4>2, <5>1 DEF Gotten
        <5>6. Gotten' = {i \in Wanted : i <= read' + 0}
          BY <2>1, <3>3, <4>2, <5>1 DEF Gotten
        <5> QED
          BY <5>4, <5>5, <5>6
      <4> QED
        BY <4>1, <4>2
    <3>5. SentRows' = SentRows /\ read' = Cardinality(Before')
      BY <1>2, <2>1, <3>1, <3>2, <3>3, <3>4, PageDone
    <3> QED
      BY <2>1, <3>1, <3>3, <3>5 DEF PageRight
  <2> QED
    BY <2>2, <2>3
<1>9. ASSUME Wait PROVE PageRight' /\ SentRows' = SentRows
  <2>1. SameRead /\ phase' # "count" /\ UNCHANGED upto
    BY <1>1, <1>9 DEF Wait, SameRead, OnPage, AllRead, Ending, InCount, IsCustom
  <2> QED
    BY <2>1, SameReadRight
<1>10. ASSUME Close \/ Return PROVE PageRight' /\ SentRows' = SentRows
  <2>1. SameRead /\ phase' # "count" /\ UNCHANGED upto
    BY <1>1, <1>10 DEF Close, Return, SameRead, OnPage, AllRead, Ending, InCount, IsCustom
  <2> QED
    BY <2>1, SameReadRight
<1>11. ASSUME ReadPage \/ ReadCsvLine \/ ReadParquetRow PROVE PageRight' /\ SentRows' = SentRows
  BY <1>1, <1>11, PageReadRight, CsvReadRight, ParquetReadRight
<1> QED
  BY <1>1, <1>3, <1>4, <1>5, <1>6, <1>7, <1>8, <1>9, <1>10, <1>11 DEF Producer

-------------------------------------------------------------------------------
(* Counting. *)

Asked == Resting \/ Ending \/ signals.complete = ok

\* A step that moves no record keeps the count of the records under way.
LEMMA FlowCarries ==
  ASSUME Flow, UNCHANGED <<sent, processed, statuses, recordsIn, added>>, Busy' = Busy,
         InCount' = InCount, Asked' => Asked, Signalled'
  PROVE  Flow'
BY DEF Flow, Counted, BackWhenAsked, AllBack, Asked

\* The count of the records under way: the steps of the producer.
LEMMA FlowProducer ==
  ASSUME TInv, Heard, DrainerRests, RowsBound, Flow, Producer, ~Told'
  PROVE  Flow'
<1>1. /\ ~OpenFails /\ ~ReadFails /\ ~EvalFails /\ ~wrapped'
      /\ Wait => result' = ok /\ signals.complete = ok
      /\ Return => phase' = "done"
  BY Undisturbed
<1>2. /\ signals \in SignalStates /\ ok # None /\ error # None /\ ok # error /\ phase \in Phases
      /\ drainer \in DrainerStates /\ signals.complete \in Items
  BY TableAssumption DEF TInv, DrainerTypes, ProducerTypes, ok, error, SignalStates
<1>3. /\ Signalled /\ Counted /\ BackWhenAsked
  BY DEF Flow
<1> DEFINE Same == UNCHANGED <<source, drainer, sent, processed, statuses, recordsIn, added,
      worker>>
<1>4. ASSUME NEW rows, Got(rows), phase = "read", Same PROVE Flow'
  <2>1. \/ phase' = "close" /\ IsCustom /\ UNCHANGED signals
        \/ phase' = "wait" /\ ~IsCustom /\ signals'.done = ok
             /\ signals'.complete = signals.complete
        \/ phase' = "flush" /\ IsCustom /\ UNCHANGED signals
        \/ phase' = "rows" /\ ~IsCustom /\ UNCHANGED signals
    BY <1>2, <1>4, GotCases, SignalEffect DEF IsCustom
  <2>2. IsCustom => Resting /\ signals.done = None
    BY <1>4 DEF Resting, Heard
  <2>3. ~IsCustom => Sending
    BY <1>4 DEF Sending
  <2>4. Signalled'
    BY <1>2, <1>3, <1>4, <2>1, <2>2, <2>3 DEF Signalled, Sending, IsCustom
  <2>5. Asked' => Asked
    BY <1>2, <1>4, <2>1, <2>2 DEF Asked, Resting, Ending, IsCustom
  <2>6. Busy' = Busy /\ InCount' = InCount
    BY <1>4, <2>1 DEF Busy, InCount
  <2> QED
    BY <1>4, <2>4, <2>5, <2>6, FlowCarries
<1>5. ASSUME Open PROVE Flow'
  <2>1. Resting /\ AllBack /\ phase = "open" /\ drainer.at = "off" /\ signals.complete = None
        /\ signals.done = None
    BY <1>3, <1>5 DEF Open, Resting, BackWhenAsked, DrainerRests, Heard
  <2>2. Busy' = {} /\ Busy = {} /\ InCount' = InCount
    BY <1>5, <2>1 DEF Open, Busy, IdleWorker, AllBack, InCount
  <2>3. Signalled'
    BY <1>2, <1>3, <1>5, <2>1 DEF Open, StartDrainer, Signalled, Sending, IsCustom
  <2>4. Asked
    BY <2>1 DEF Asked
  <2> QED
    BY <1>5, <2>2, <2>3, <2>4, FlowCarries DEF Open, channels
<1>6. ASSUME Flush PROVE Flow'
  <2>1. Resting /\ IsCustom /\ phase = "flush" /\ drainer.at = "off" /\ signals.complete = None
        /\ signals.done = None
    BY <1>6 DEF Flush, Resting, DrainerRests, Heard
  <2>2. Busy' = Busy /\ InCount' = InCount
    BY <1>6, <2>1 DEF Flush, Busy, InCount
  <2>3. Signalled'
    BY <1>2, <1>3, <1>6, <2>1 DEF Flush, StartDrainer, Signalled, Sending, IsCustom
  <2>4. Asked
    BY <2>1 DEF Asked
  <2> QED
    BY <1>6, <2>2, <2>3, <2>4, FlowCarries DEF Flush, channels
<1>7. ASSUME SkipRow PROVE Flow'
  <2>1. phase = "rows" /\ phase' = "rows" /\ UNCHANGED <<source, drainer, signals>>
    BY <1>7 DEF SkipRow, draining
  <2>2. Busy' = Busy /\ InCount' = InCount /\ Signalled' /\ (Asked' => Asked)
    BY <1>3, <1>7, <2>1 DEF SkipRow, Busy, InCount, Signalled, Sending, Asked, Resting, Ending,
         IsCustom
  <2> QED
    BY <1>7, <2>2, FlowCarries DEF SkipRow, channels, draining
<1>8. ASSUME AddRecord \/ CountRecord PROVE Flow'
  <2>1. phase \in {"rows", "count"} /\ phase' \in {"rows", "count"} /\ UNCHANGED <<source,
          drainer, signals>>
    BY <1>8 DEF AddRecord, CountRecord, draining
  <2>2. ~Asked' /\ Signalled'
    BY <1>2, <1>3, <2>1 DEF Signalled, Sending, Asked, Resting, Ending, IsCustom
  <2>3. /\ Busy' = Busy /\ sent \in Nat /\ added \in Nat /\ processed \in Nat
          /\ Len(statuses) \in Nat
        /\ Len(recordsIn) \in Nat /\ UNCHANGED <<processed, statuses>>
    BY <1>8 DEF AddRecord, CountRecord, Busy, TInv, ChannelTypes, DrainerTypes, ProducerTypes,
         draining
  <2>4. Counted'
    <3>1. CASE AddRecord
      <4>1. Len(recordsIn') = Len(recordsIn) + 1
        BY <3>1 DEF AddRecord, TInv, ChannelTypes
      <4>2. InCount = 0 /\ InCount' = 1 /\ sent' = sent /\ added' = added
        BY <3>1 DEF AddRecord, InCount
      <4>3. Cardinality(Busy) \in Nat
        <5>1. IsFiniteSet(Workers) /\ Busy \in SUBSET Workers
          BY TableAssumption DEF Busy
        <5> QED
          BY <5>1, FS_Subset, FS_CardinalityType
      <4>4. sent + InCount' = processed + Len(statuses) + Cardinality(Busy) + Len(recordsIn')
        <5>1. sent + 0 = processed + Len(statuses) + Cardinality(Busy) + Len(recordsIn)
          BY <1>3, <4>2 DEF Counted
        <5> QED
          BY <2>3, <4>1, <4>2, <4>3, <5>1
      <4> QED
        BY <1>3, <2>3, <4>2, <4>4 DEF Counted
    <3>2. CASE CountRecord
      <4>1. /\ InCount = 1 /\ InCount' = 0 /\ sent' = sent + 1 /\ added' = added + 1
            /\ UNCHANGED recordsIn
        BY <3>2 DEF CountRecord, InCount
      <4>2. sent' + InCount' = sent + InCount
        BY <2>3, <4>1
      <4> QED
        BY <1>3, <2>3, <4>1, <4>2 DEF Counted
    <3> QED
      BY <1>8, <3>1, <3>2
  <2> QED
    BY <2>2, <2>4 DEF Flow, BackWhenAsked, Asked
<1>9. ASSUME EndRows PROVE Flow'
  <2>1. phase = "rows" /\ Sending /\ signals.complete = None /\ drainer.at = "on" /\ drainer.sending
        /\ signals.done = None
    BY <1>3, <1>9 DEF EndRows, Sending, Signalled
  <2>2. \/ phase' = "wait" /\ IsCustom /\ signals'.done = ok /\ signals'.complete = None
        \/ phase' = "read" /\ ~IsCustom /\ UNCHANGED signals
    BY <1>2, <1>9, <2>1, SignalEffect DEF EndRows, IsCustom
  <2>3. UNCHANGED <<source, drainer>> /\ Busy' = Busy /\ InCount' = InCount
    BY <1>9, <2>1, <2>2 DEF EndRows, draining, Busy, InCount
  <2>4. Signalled'
    BY <1>2, <2>1, <2>2, <2>3 DEF Signalled, Sending, IsCustom
  <2>5. ~Asked'
    BY <1>2, <2>1, <2>2, <2>3 DEF Asked, Resting, Ending, IsCustom
  <2> QED
    BY <1>9, <2>3, <2>4, <2>5, FlowCarries DEF EndRows, channels, draining
<1>10. ASSUME Wait PROVE Flow'
  <2>1. /\ phase = "wait" /\ signals.complete = ok /\ signals.done = None /\ Asked
        /\ phase' \in {"flush", "close"} /\ signals'.complete = None /\ signals'.done = signals.done
    BY <1>1, <1>2, <1>10, SignalEffect DEF Wait, Heard, Asked
  <2>2. Busy' = Busy /\ InCount' = InCount /\ Signalled'
    BY <1>10, <2>1 DEF Wait, Busy, InCount, Signalled, Sending, IsCustom
  <2> QED
    BY <1>10, <2>1, <2>2, FlowCarries DEF Wait, channels, draining
<1>11. ASSUME Close \/ Return PROVE Flow'
  <2>1. Asked /\ phase' \in {"closing", "done"} /\ phase # "count"
    BY <1>1, <1>11 DEF Close, Return, Asked, Ending
  <2>2. Busy' = Busy /\ InCount' = InCount /\ Signalled'
    BY <1>11, <2>1 DEF Close, Return, Busy, InCount, Signalled, Sending, IsCustom
  <2> QED
    BY <1>11, <2>1, <2>2, FlowCarries DEF Close, Return, channels, draining
<1>12. ASSUME ReadPage PROVE Flow'
  <2>1. Same /\ phase = "read"
    BY <1>12 DEF ReadPage, Reading, UnchangedByReading, channels, draining
  <2> HIDE DEF Same
  <2> QED
    BY <1>1, <1>4, <1>12, <2>1 DEF ReadPage
<1>13. ASSUME ReadCsvLine PROVE Flow'
  <2>1. Same /\ phase = "read"
    BY <1>13 DEF ReadCsvLine, Reading, UnchangedByReading, channels, draining
  <2>2. ASSUME UNCHANGED <<phase, signals>> PROVE Flow'
    <3>1. Busy' = Busy /\ InCount' = InCount /\ Signalled' /\ (Asked' <=> Asked)
      BY <1>3, <2>1, <2>2 DEF Busy, InCount, Signalled, Asked, Sending, Resting, Ending, IsCustom
    <3> QED
      BY <2>1, <3>1, FlowCarries
  <2> HIDE DEF Same
  <2> QED
    BY <1>4, <1>13, <2>1, <2>2 DEF ReadCsvLine
<1>14. ASSUME ReadParquetRow PROVE Flow'
  <2>1. Same /\ phase = "read"
    BY <1>14 DEF ReadParquetRow, Reading, UnchangedByReading, channels, draining
  <2> HIDE DEF Same
  <2> QED
    BY <1>4, <1>14, <2>1 DEF ReadParquetRow
<1> QED
  BY <1>1, <1>5, <1>6, <1>7, <1>8, <1>9, <1>10, <1>11, <1>12, <1>13, <1>14 DEF Producer

\* The count of the records under way: the steps of the drainer.  When it completes without an
\* error, as many statuses have come as records were sent, so nothing is under way.
LEMMA FlowDrainer ==
  ASSUME TInv, Heard, DrainerRests, Flow, Drainer, ~Told'
  PROVE  Flow'
<1>1. /\ signals \in SignalStates /\ ok # None /\ error # None /\ ok # error
      /\ drainer \in DrainerStates /\ TInv' /\ None \notin {ok, error}
  BY DrainerTyped, TableAssumption DEF TInv, DrainerTypes, ok, error
<1>2. Signalled /\ Counted /\ BackWhenAsked
  BY DEF Flow
<1>3. drainer.at = "on" /\ signals.complete = None /\ ~Resting /\ ~Ending
  BY DEF Drainer, DrainStatus, DrainSignal, DrainTimeout, DrainComplete, Draining, DrainerRests,
       Ending
<1>4. /\ UNCHANGED <<source, phase, worker, sent, recordsIn, added>> /\ Busy' = Busy
        /\ InCount' = InCount
      /\ ~Resting' /\ ~Ending' /\ (Sending' <=> Sending) /\ phase # "failed"
  BY <1>2, <1>3 DEF Drainer, DrainStatus, DrainSignal, DrainTimeout, DrainComplete, producer,
       channels,
     Busy, InCount, Resting, Ending, Sending, IsCustom, Signalled
<1>5. /\ sent \in Nat /\ processed \in Nat /\ Len(statuses) \in Nat /\ Len(recordsIn) \in Nat
      /\ Cardinality(Busy) \in Nat /\ IsFiniteSet(Busy)
  <2>1. IsFiniteSet(Workers) /\ Busy \in SUBSET Workers
    BY TableAssumption DEF Busy
  <2>2. IsFiniteSet(Busy) /\ Cardinality(Busy) \in Nat
    BY <2>1, FS_Subset, FS_CardinalityType
  <2> QED
    BY <2>2 DEF TInv, ChannelTypes, DrainerTypes
<1>6. CASE DrainStatus
  <2>1. drainer'.at = drainer.at /\ (drainer'.sending <=> drainer.sending)
    <3>1. drainer' = Harvested(Head(statuses))
      BY <1>6 DEF DrainStatus
    <3> QED
      BY <1>1, <3>1, Zenon DEF Harvested, DrainerStates
  <2>2. UNCHANGED signals
    BY <1>6 DEF DrainStatus
  <2>3. Signalled'
    BY <1>2, <1>4, <2>1, <2>2 DEF Signalled
  <2>4. processed' = processed + 1 /\ Len(statuses') = Len(statuses) - 1
    BY <1>6 DEF DrainStatus, TInv, ChannelTypes
  <2>5. Counted'
    <3>1. processed' + Len(statuses') = processed + Len(statuses)
      BY <1>5, <2>4
    <3> QED
      BY <1>2, <1>4, <3>1 DEF Counted
  <2> QED
    BY <1>1, <1>3, <1>4, <2>2, <2>3, <2>5 DEF Flow, BackWhenAsked
<1>7. CASE DrainSignal
  <2>1. signals.done # None /\ Signal("done", None) /\ drainer' = [drainer EXCEPT !.sending = FALSE]
    <3>1. drainer' = [drainer EXCEPT !.sending = FALSE, !.err = TRUE] => drainer'.err
      BY <1>1 DEF DrainerStates
    <3> QED
      BY <1>7, <3>1 DEF DrainSignal, Told
  <2>2. drainer'.at = "on" /\ ~drainer'.sending /\ signals'.done = None /\ signals'.complete = None
    BY <1>1, <1>3, <2>1, SignalEffect DEF DrainerStates
  <2>3. ~Sending
    BY <1>2, <2>1 DEF Signalled
  <2>4. Signalled'
    BY <1>3, <1>4, <2>2, <2>3 DEF Signalled
  <2>5. Counted'
    BY <1>2, <1>4, <1>7 DEF Counted, DrainSignal, channels
  <2> QED
    BY <1>1, <1>4, <2>2, <2>4, <2>5 DEF Flow, BackWhenAsked
<1>8. CASE DrainTimeout
  <2>1. drainer'.err
    BY <1>1, <1>8 DEF DrainTimeout, DrainerStates
  <2> QED
    BY <2>1 DEF Told
<1>9. CASE DrainComplete
  <2>1. /\ ~drainer.sending /\ ~(sent > processed) /\ drainer'.at = "off" /\ signals'.complete = ok
        /\ signals'.done = signals.done
    <3>1. /\ ~drainer.sending /\ ~(sent > processed) /\ drainer'.at = "off"
          /\ Signal("complete", IF drainer.err THEN error ELSE ok)
      BY <1>1, <1>3, <1>9 DEF DrainComplete, Draining, DrainerStates
    <3>2. signals'.complete # error
      BY DEF Told
    <3> QED
      BY <1>1, <3>1, <3>2, SignalEffect
  <2>2. ~Sending /\ signals.done = None
    <3>1. ~Sending
      BY <1>2, <2>1 DEF Signalled
    <3>2. phase = "wait"
      BY <1>3, <1>4, <3>1 DEF Sending, Resting, Ending, TInv, ProducerTypes, Phases
    <3> QED
      BY <1>2, <1>3, <2>1, <3>1, <3>2 DEF Signalled
  <2>3. InCount = 0 /\ UNCHANGED <<processed, statuses>>
    BY <1>9, <2>2 DEF Sending, InCount, DrainComplete, channels
  <2>4. Len(statuses) = 0 /\ Len(recordsIn) = 0 /\ Cardinality(Busy) = 0
    BY <1>2, <1>5, <2>1, <2>3 DEF Counted
  <2>5. AllBack
    BY <1>5, <2>4, FS_EmptySet DEF AllBack, TInv, ChannelTypes
  <2>6. Signalled'
    BY <1>1, <1>4, <2>1, <2>2 DEF Signalled
  <2>7. AllBack' /\ Counted'
    BY <1>2, <1>4, <2>3, <2>5 DEF AllBack, Counted
  <2> QED
    BY <2>6, <2>7 DEF Flow, BackWhenAsked
<1> QED
  BY <1>6, <1>7, <1>8, <1>9 DEF Drainer

\* What a step of one worker does to the workers.
LEMMA WorkerMoves ==
  ASSUME TInv, NEW w \in Workers, Worker(w)
  PROVE  /\ \A v \in Workers \ {w} : worker'[v] = worker[v]
         /\ TakeRecord(w) => worker[w].at = "idle" /\ worker'[w].at = "data"
         /\ Exit(w) => worker[w].at = "idle" /\ worker'[w].at = "exit"
         /\ Report(w) => worker[w].at \in {"good", "bad"} /\ worker'[w].at = "idle"
         /\ ~TakeRecord(w) /\ ~Exit(w) /\ ~Report(w) =>
              worker[w].at \in {"data", "idx"} /\ worker'[w].at \in {"data", "idx", "good", "bad"}
         /\ UNCHANGED <<source, unique, producer, closed, sent, draining, signals>>
<1>1. worker \in [Workers -> RowWorkers]
  BY DEF TInv, TableTypes
<1>2. UNCHANGED <<source, unique, producer, closed, sent, draining, signals>>
  BY DEF Worker, TakeRecord, Exit, InsertData, InsertDataFails, InsertIdx, InsertIdxFails, Report,
     Working
<1> DEFINE Others == \A v \in Workers \ {w} : worker'[v] = worker[v]
<1>3. ASSUME NEW i, NEW k, Draw(w, i, k) PROVE Others /\ worker'[w].at = "data"
  <2>1. \A id : Begin(w, i, id, k) => Others /\ worker'[w].at = "data"
    BY <1>1 DEF Begin
  <2> QED
    BY <1>3, <2>1, DrawGives
<1>4. ASSUME NEW step, Goto(w, step) PROVE Others /\ worker'[w].at = step
  BY <1>1, <1>4 DEF Goto, RowWorkers
<1>5. ASSUME Repeat(w) PROVE Others /\ worker'[w].at \in {worker[w].at, "bad"}
  <2>1. CASE worker' = [worker EXCEPT ![w].attempt = @ + 1]
    BY <1>1, <2>1 DEF RowWorkers
  <2>2. CASE Goto(w, "bad")
    BY <1>4, <2>2
  <2> QED
    BY <1>5, <2>1, <2>2 DEF Repeat
<1> HIDE DEF Others
<1>6. ASSUME TakeRecord(w) PROVE Others /\ worker[w].at = "idle" /\ worker'[w].at = "data"
  BY <1>3, <1>6 DEF TakeRecord
<1>7. ASSUME Exit(w) PROVE Others /\ worker[w].at = "idle" /\ worker'[w].at = "exit"
  BY <1>4, <1>7 DEF Exit
<1>8. ASSUME Report(w) PROVE Others /\ worker[w].at \in {"good", "bad"} /\ worker'[w].at = "idle"
  BY <1>1, <1>8 DEF Report, IdleWorker, Others
<1>9. ASSUME ~TakeRecord(w), ~Exit(w), ~Report(w)
      PROVE  Others /\ worker[w].at \in {"data", "idx"}
             /\ worker'[w].at \in {"data", "idx", "good", "bad"}
  <2>1. ASSUME InsertData(w)
        PROVE  Others /\ worker[w].at = "data" /\ worker'[w].at \in {"data", "idx", "bad"}
    BY <1>3, <1>4, <2>1 DEF InsertData, Redraw
  <2>2. ASSUME InsertDataFails(w)
        PROVE  Others /\ worker[w].at = "data" /\ worker'[w].at \in {"data", "bad"}
    BY <1>5, <2>2 DEF InsertDataFails
  <2>3. ASSUME InsertIdx(w)
        PROVE  Others /\ worker[w].at = "idx" /\ worker'[w].at \in {"good", "bad"}
    BY <1>4, <2>3 DEF InsertIdx
  <2>4. ASSUME InsertIdxFails(w)
        PROVE  Others /\ worker[w].at = "idx" /\ worker'[w].at \in {"idx", "bad"}
    BY <1>5, <2>4 DEF InsertIdxFails
  <2> QED
    BY <1>9, <2>1, <2>2, <2>3, <2>4 DEF Worker
<1>10. Others
  BY <1>6, <1>7, <1>8, <1>9
<1> QED
  BY <1>2, <1>6, <1>7, <1>8, <1>9, <1>10 DEF Others

\* Which workers have a record before and after a step of one of them.
LEMMA BusyMoves ==
  ASSUME TInv, NEW w \in Workers, Worker(w)
  PROVE  /\ TakeRecord(w) => Busy' = Busy \cup {w} /\ w \notin Busy
         /\ Exit(w) => Busy' = Busy /\ w \notin Busy
         /\ Report(w) => Busy' = Busy \ {w} /\ w \in Busy
         /\ ~TakeRecord(w) /\ ~Exit(w) /\ ~Report(w) => Busy' = Busy /\ w \in Busy
BY WorkerMoves DEF Busy

\* The count of the records under way: the steps of a worker, which keeps a record until it has
\* put its status into the channel.
LEMMA FlowWorker ==
  ASSUME TInv, Flow, NEW w \in Workers, Worker(w)
  PROVE  Flow'
<1>1. /\ UNCHANGED <<source, unique, producer, closed, sent, draining, signals>>
  BY WorkerMoves
<1>2. /\ Signalled' /\ (Asked' <=> Asked) /\ InCount' = InCount /\ UNCHANGED <<sent, added,
        processed>>
  BY <1>1 DEF Flow, Signalled, Asked, Sending, Resting, Ending, IsCustom, producer, draining,
       InCount
<1>3. Signalled /\ Counted /\ BackWhenAsked
  BY DEF Flow
<1>4. /\ sent \in Nat /\ processed \in Nat /\ Len(statuses) \in Nat /\ Len(recordsIn) \in Nat
      /\ Cardinality(Busy) \in Nat /\ IsFiniteSet(Busy) /\ recordsIn \in Seq(Nat)
      /\ statuses \in Seq(BOOLEAN)
  <2>1. IsFiniteSet(Workers) /\ Busy \in SUBSET Workers
    BY TableAssumption DEF Busy
  <2>2. IsFiniteSet(Busy) /\ Cardinality(Busy) \in Nat
    BY <2>1, FS_Subset, FS_CardinalityType
  <2> QED
    BY <2>2 DEF TInv, ChannelTypes, DrainerTypes
<1>5. CASE TakeRecord(w)
  <2>1. /\ recordsIn # <<>> /\ recordsIn' = Tail(recordsIn) /\ UNCHANGED statuses
        /\ Busy' = Busy \cup {w} /\ w \notin Busy
    BY <1>5, BusyMoves DEF TakeRecord
  <2>2. Len(recordsIn') = Len(recordsIn) - 1
    BY <1>4, <2>1
  <2>3. Cardinality(Busy') = Cardinality(Busy) + 1
    BY <1>4, <2>1, FS_AddElement
  <2>4. Cardinality(Busy') + Len(recordsIn') = Cardinality(Busy) + Len(recordsIn)
    BY <1>4, <2>2, <2>3
  <2>5. Counted'
    <3>1. /\ Cardinality(Busy') \in Nat /\ Len(recordsIn') \in Nat
      BY <1>4, <2>1, <2>2, <2>3
    <3>2. sent + InCount = (processed + Len(statuses)) + (Cardinality(Busy) + Len(recordsIn))
      BY <1>3, <1>4 DEF Counted
    <3>3. sent + InCount = (processed + Len(statuses)) + (Cardinality(Busy') + Len(recordsIn'))
      BY <2>4, <3>2
    <3>4. sent + InCount = processed + Len(statuses) + Cardinality(Busy') + Len(recordsIn')
      BY <1>4, <3>1, <3>3
    <3> QED
      BY <1>2, <1>3, <2>1, <3>4 DEF Counted
  <2>6. ~AllBack
    BY <2>1 DEF AllBack
  <2> QED
    BY <1>2, <1>3, <2>5, <2>6 DEF Flow, BackWhenAsked, Asked
<1>6. CASE Report(w)
  <2>1. /\ statuses' = Append(statuses, worker[w].at = "good") /\ UNCHANGED recordsIn
        /\ Busy' = Busy \ {w} /\ w \in Busy
    BY <1>6, BusyMoves DEF Report
  <2>2. Len(statuses') = Len(statuses) + 1
    <3>1. (worker[w].at = "good") \in BOOLEAN
      OBVIOUS
    <3> QED
      BY <1>4, <2>1, <3>1
  <2>3. Cardinality(Busy') = Cardinality(Busy) - 1
    BY <1>4, <2>1, FS_RemoveElement
  <2>4. Counted'
    <3>1. processed + Len(statuses') + Cardinality(Busy') =
            processed + Len(statuses) + Cardinality(Busy)
      BY <1>4, <2>2, <2>3
    <3> QED
      BY <1>2, <1>3, <2>1, <3>1 DEF Counted
  <2>5. ~AllBack
    BY <2>1 DEF AllBack
  <2> QED
    BY <1>2, <1>3, <2>4, <2>5 DEF Flow, BackWhenAsked, Asked
<1>7. CASE ~TakeRecord(w) /\ ~Report(w)
  <2>1. UNCHANGED <<recordsIn, statuses>> /\ Busy' = Busy
    BY <1>7, BusyMoves DEF Worker, Exit, InsertData, InsertDataFails, InsertIdx, InsertIdxFails
  <2> QED
    BY <1>2, <2>1, FlowCarries
<1> QED
  BY <1>5, <1>6, <1>7

\* A record that failed is reported to the drainer.
LEMMA HurtStays ==
  ASSUME TInv, WorkersRest, Hurt, [Next]_vars
  PROVE  Hurt' \/ Told'
<1>1. /\ statuses \in Seq(BOOLEAN) /\ Len(statuses) \in Nat
      /\ \A k \in 1..Len(statuses) : statuses[k] \in BOOLEAN
  BY DEF TInv, ChannelTypes
<1>2. ASSUME UNCHANGED <<worker, statuses>> PROVE Hurt'
  BY <1>2 DEF Hurt
<1>3. CASE Producer
  <2>1. CASE ~Open
    BY <1>2, <1>3, <2>1 DEF Producer, OpenFails, ReadPage, ReadCsvLine, ReadParquetRow, ReadFails,
       Flush, SkipRow, EvalFails, AddRecord, CountRecord, EndRows, Wait, Close, Return,
       UnchangedByReading, channels
  <2>2. CASE Open
    <3>1. UNCHANGED statuses /\ \A v \in Workers : worker[v].at = "exit"
      BY <2>2 DEF Open, channels, WorkersRest
    <3> QED
      BY <3>1 DEF Hurt
  <2> QED
    BY <2>1, <2>2
<1>4. CASE Drainer
  <2>1. CASE DrainStatus
    <3>1. /\ statuses # <<>> /\ statuses' = Tail(statuses) /\ drainer' = Harvested(Head(statuses))
          /\ UNCHANGED worker
      BY <2>1 DEF DrainStatus
    <3>2. CASE \E v \in Workers : worker[v].at = "bad"
      BY <3>1, <3>2 DEF Hurt
    <3>3. ASSUME NEW k \in 1..Len(statuses), ~statuses[k] PROVE Hurt' \/ Told'
      <4>1. CASE k = 1
        <5>0. Head(statuses) = statuses[1]
          BY <1>1, <3>1
        <5>1. ~Head(statuses)
          BY <3>3, <4>1, <5>0, Zenon
        <5>2. drainer \in DrainerStates
          BY DEF TInv, DrainerTypes
        <5>3. drainer'.err
          BY <3>1, <5>1, <5>2, Zenon DEF Harvested, DrainerStates
        <5> QED
          BY <5>3 DEF Told
      <4>2. CASE k # 1
        <5>1. k - 1 \in 1..Len(Tail(statuses)) /\ Tail(statuses)[k - 1] = statuses[k]
          BY <1>1, <3>1, <4>2
        <5> QED
          BY <3>1, <3>3, <5>1 DEF Hurt
      <4> QED
        BY <4>1, <4>2
    <3> QED
      BY <3>2, <3>3 DEF Hurt
  <2> QED
    BY <1>2, <1>4, <2>1 DEF Drainer, DrainSignal, DrainTimeout, DrainComplete, channels
<1>5. ASSUME NEW w \in Workers, Worker(w) PROVE Hurt'
  <2>1. /\ \A v \in Workers \ {w} : worker'[v] = worker[v]
        /\ worker[w].at = "bad" => Report(w)
    BY <1>5, WorkerMoves
  <2>2. CASE Report(w)
    <3> DEFINE good == worker[w].at = "good"
    <3>1. statuses' = Append(statuses, good) /\ good \in BOOLEAN
      BY <2>2 DEF Report
    <3>2. (worker[w].at = "bad") => ~good
      OBVIOUS
    <3> HIDE DEF good
    <3>3. /\ Len(statuses') = Len(statuses) + 1 /\ statuses'[Len(statuses) + 1] = good
          /\ \A k \in 1..Len(statuses) : statuses'[k] = statuses[k]
      BY <1>1, <3>1
    <3>4. CASE \E k \in 1..Len(statuses) : ~statuses[k]
      <4>1. PICK k \in 1..Len(statuses) : ~statuses[k]
        BY <3>4
      <4>2. k \in 1..Len(statuses') /\ ~statuses'[k]
        BY <1>1, <3>3, <4>1
      <4> QED
        BY <4>2 DEF Hurt
    <3>5. CASE \E v \in Workers : worker[v].at = "bad"
      <4>1. CASE worker[w].at = "bad"
        <5>1. Len(statuses) + 1 \in 1..Len(statuses') /\ ~statuses'[Len(statuses) + 1]
          BY <1>1, <3>2, <3>3, <4>1
        <5> QED
          BY <5>1 DEF Hurt
      <4>2. CASE worker[w].at # "bad"
        BY <2>1, <3>5, <4>2 DEF Hurt
      <4> QED
        BY <4>1, <4>2
    <3> QED
      BY <3>4, <3>5 DEF Hurt
  <2>3. CASE ~Report(w)
    <3>1. UNCHANGED statuses
      BY <1>5, <2>3 DEF Worker, TakeRecord, Exit, InsertData, InsertDataFails, InsertIdx,
           InsertIdxFails
    <3> QED
      BY <2>1, <2>3, <3>1 DEF Hurt
  <2> QED
    BY <2>2, <2>3
<1>6. CASE UNCHANGED vars
  BY <1>2, <1>6 DEF vars, channels
<1> QED
  BY <1>3, <1>4, <1>5, <1>6 DEF Next, Stopped

-------------------------------------------------------------------------------
(* The records and where they are. *)

SentStays == SentRows' = SentRows /\ sent' + InCount' = sent + InCount

\* Nothing moves but what DataRight does not look at.
LEMMA DataCarries ==
  ASSUME TInv, DataRight, UNCHANGED <<recordsIn, data, strays, idx, unique>>, Busy' = Busy,
         \A w \in Busy : worker'[w] = worker[w], faults' \in Nat, faults' >= faults, SentStays
  PROVE  DataRight'
<1>0. Owned' = Owned
  BY DEF Owned
<1>1. ChannelPlaces' /\ WorkerPlaces' /\ DataPlaces' /\ StrayPlaces' /\ IdxPlaces'
  BY <1>0 DEF DataRight, ChannelPlaces, WorkerPlaces, DataPlaces, StrayPlaces, IdxPlaces, InChannel,
     SentStays
<1>2. \A i : Handled(i) <=> Handled(i)'
  BY <1>0 DEF Handled
<1>3. NothingLost' /\ SentIsCounted'
  BY <1>2 DEF DataRight, NothingLost, InChannel, SentIsCounted, SentStays
<1>4. ASSUME NEW w \in Busy PROVE Writing(w)'
  <2>1. Writing(w) /\ worker'[w] = worker[w]
    BY <1>4 DEF DataRight
  <2>2. Collided(w) => Collided(w)'
    <3>1. faults \in Nat /\ MaxFaults \in Nat
      BY TableAssumption DEF TInv, TableTypes
    <3>2. faults >= MaxFaults => faults' >= MaxFaults
      BY <3>1
    <3> QED
      BY <2>1, <3>2 DEF Collided
  <2>3. OwnRowid(w) => OwnRowid(w)'
    <3>1. faults \in Nat
      BY DEF TInv, TableTypes
    <3>2. faults > 0 => faults' > 0
      BY <3>1
    <3> QED
      BY <1>0, <2>1, <3>2 DEF OwnRowid
  <2> QED
    BY <1>0, <1>2, <2>1, <2>2, <2>3 DEF Writing
<1> QED
  BY <1>1, <1>3, <1>4 DEF DataRight

\* The records are where they were after a step of the drainer.
LEMMA DataDrainer ==
  ASSUME TInv, PageRight, DataRight, Drainer
  PROVE  DataRight'
<1>1. UNCHANGED <<source, unique, producer, recordsIn, sent, worker, data, strays, idx>>
  BY DEF Drainer, DrainStatus, DrainSignal, DrainTimeout, DrainComplete, producer, channels, tables
<1>2. faults \in Nat /\ faults' \in Nat /\ faults' >= faults
  BY DEF Drainer, DrainStatus, DrainSignal, DrainTimeout, DrainComplete, Fault, TInv, TableTypes
<1>3. SentStays /\ Busy' = Busy
  <2>1. SameRead /\ UNCHANGED <<upto, phase>>
    BY <1>1 DEF SameRead, producer, OnPage, AllRead, Ending, InCount, IsCustom
  <2>2. SentRows' = SentRows
    BY <2>1, SameReadRight
  <2> QED
    BY <1>1, <2>1, <2>2 DEF SentStays, SameRead, Busy
<1> QED
  BY <1>1, <1>2, <1>3, DataCarries

\* The steps of the producer: add puts a record into the channel that was nowhere.
LEMMA DataProducer ==
  ASSUME TInv, DrainerRests, RowsBound, Heard, Flow, PageRight, DataRight, Producer, ~Told'
  PROVE  DataRight'
<1>1. ~OpenFails /\ ~ReadFails /\ ~EvalFails
  BY Undisturbed
<1>2. /\ UNCHANGED <<data, strays, idx, unique, faults>> /\ faults \in Nat
      /\ ~Open => UNCHANGED worker
  BY <1>1 DEF Producer, Open, ReadPage, ReadCsvLine, ReadParquetRow, Flush, SkipRow, AddRecord,
     CountRecord, EndRows, Wait, Close, Return, UnchangedByReading, tables, TInv, TableTypes
<1>3. /\ sent \in Nat /\ pos \in Nat /\ recordsIn \in Seq(Nat) /\ Len(recordsIn) \in Nat
  BY DEF TInv, ChannelTypes, ProducerTypes
<1>4. /\ AddRecord => /\ SentRows' = SentRows \cup {Batch[pos + 1]}
                      /\ Batch[pos + 1] \notin SentRows
      /\ ~AddRecord => SentRows' = SentRows
  BY ReadSide
<1>5. CASE AddRecord
  <2> DEFINE i == Batch[pos + 1]
  <2>1. /\ recordsIn' = Append(recordsIn, i) /\ UNCHANGED sent /\ InCount = 0 /\ InCount' = 1
        /\ UNCHANGED <<worker, data, strays, idx, unique, faults>> /\ Busy' = Busy
        /\ Owned' = Owned
    BY <1>2, <1>5 DEF AddRecord, InCount, Busy, Open, Owned
  <2>2. SentRows' = SentRows \cup {i} /\ i \notin SentRows
    BY <1>4, <1>5
  <2>3. i \in Nat
    <3>1. Batch \in Seq(Nat) /\ pos < upto /\ upto <= Len(Batch) /\ upto \in Nat
      BY <1>5, BatchSpec DEF TInv, ProducerTypes, RowsBound, AddRecord
    <3> QED
      BY <1>3, <3>1
  <2> HIDE DEF i
  <2>4. /\ Len(recordsIn') = Len(recordsIn) + 1 /\ recordsIn'[Len(recordsIn) + 1] = i
        /\ \A k \in 1..Len(recordsIn) : recordsIn'[k] = recordsIn[k]
    BY <1>3, <2>1, <2>3
  <2>5. InChannel' = InChannel \cup {i} /\ i \notin InChannel
    <3>1. \A k : k \in 1..Len(recordsIn') <=> k \in 1..Len(recordsIn) \/ k = Len(recordsIn) + 1
      BY <1>3, <2>4
    <3>2. InChannel' = InChannel \cup {i}
      BY <2>4, <3>1 DEF InChannel, Elements
    <3> QED
      BY <2>2, <3>2 DEF DataRight, ChannelPlaces
  <2>6. ChannelPlaces'
    <3>1. ASSUME NEW k \in 1..Len(recordsIn'), NEW l \in 1..Len(recordsIn'),
                 recordsIn'[k] = recordsIn'[l], k # l
          PROVE  FALSE
      <4>1. \A m \in 1..Len(recordsIn) : recordsIn[m] # i
        BY <2>5 DEF InChannel, Elements
      <4>2. \A m \in 1..Len(recordsIn') : m \in 1..Len(recordsIn) \/ m = Len(recordsIn) + 1
        BY <1>3, <2>4
      <4> QED
        BY <2>4, <3>1, <4>1, <4>2 DEF DataRight, ChannelPlaces
    <3> QED
      BY <2>2, <2>5, <3>1 DEF DataRight, ChannelPlaces
  <2>7. WorkerPlaces' /\ DataPlaces' /\ StrayPlaces' /\ IdxPlaces'
    BY <2>1, <2>2, <2>5 DEF DataRight, WorkerPlaces, DataPlaces, StrayPlaces, IdxPlaces
  <2>8. \A w \in Busy' : Writing(w)'
    BY <2>1 DEF DataRight, Writing, OwnRowid, Collided, Handled
  <2>9. NothingLost'
    BY <2>1, <2>2, <2>5 DEF DataRight, NothingLost, Handled
  <2>10. SentIsCounted'
    <3>1. IsFiniteSet(SentRows)
      BY RowsWanted DEF TInv
    <3>2. Cardinality(SentRows') = Cardinality(SentRows) + 1
      BY <2>2, <3>1, FS_AddElement
    <3> QED
      BY <1>3, <2>1, <3>2 DEF DataRight, SentIsCounted
  <2> QED
    BY <2>6, <2>7, <2>8, <2>9, <2>10 DEF DataRight
<1>6. CASE ~AddRecord
  <2>1. UNCHANGED recordsIn
    BY <1>1, <1>6 DEF Producer, Open, ReadPage, ReadCsvLine, ReadParquetRow, Flush, SkipRow,
       CountRecord, EndRows, Wait, Close, Return, UnchangedByReading, channels
  <2>2. sent' + InCount' = sent + InCount
    <3>1. CASE CountRecord
      <4>1. sent' = sent + 1 /\ InCount = 1 /\ InCount' = 0
        BY <3>1 DEF CountRecord, InCount
      <4> QED
        BY <1>3, <4>1
    <3>2. CASE ~CountRecord
      <4>1. ASSUME NEW rows, Got(rows) PROVE phase' # "count"
        BY <4>1, GotCases
      <4>2. UNCHANGED sent /\ phase # "count" /\ phase' # "count"
        <5>1. CASE ReadPage \/ ReadCsvLine \/ ReadParquetRow
          BY <4>1, <5>1 DEF ReadPage, ReadCsvLine, ReadParquetRow, UnchangedByReading, channels,
               Reading
        <5>2. CASE Open \/ Flush \/ SkipRow \/ EndRows \/ Wait \/ Close \/ Return
          BY <5>2 DEF Open, Flush, SkipRow, EndRows, Wait, Close, Return, channels
        <5> QED
          BY <1>1, <1>6, <3>2, <5>1, <5>2 DEF Producer
      <4> QED
        BY <4>2 DEF InCount
    <3> QED
      BY <3>1, <3>2
  <2>3. Busy' = Busy /\ \A w \in Busy : worker'[w] = worker[w]
    <3>1. CASE Open
      <4>1. Busy = {}
        BY <3>1 DEF Open, Flow, BackWhenAsked, Resting, AllBack
      <4> QED
        BY <3>1, <4>1 DEF Open, Busy, IdleWorker
    <3>2. CASE ~Open
      BY <1>2, <3>2 DEF Busy
    <3> QED
      BY <3>1, <3>2
  <2> QED
    BY <1>2, <1>4, <1>6, <2>1, <2>2, <2>3, DataCarries DEF SentStays
<1> QED
  BY <1>5, <1>6

DataRow(w) == [rowid |-> worker[w].rowid, record |-> worker[w].record]

\* A worker at its record, with at most one row and one index record more.
LEMMA RecordStep ==
  ASSUME TInv, DataRight, NEW w \in Busy, Busy' = Busy,
         \A v \in Workers \ {w} : worker'[v] = worker[v],
         worker'[w].record = worker[w].record,
         UNCHANGED <<unique, recordsIn, strays>>, SentStays, faults' \in Nat, faults' >= faults,
         NEW D \in {{}, {DataRow(w)}}, data' = data \cup D,
         NEW I \in {{}, {IdxRecord(w)}}, idx' = idx \cup I,
         D # {} => OwnRowid(w) /\ \A d \in data : d.rowid # worker[w].rowid,
         I # {} => /\ worker[w].at = "idx"
                   /\ unique => \A e \in idx : e.key = IdxRecord(w).key => e = IdxRecord(w),
         Writing(w)'
  PROVE  DataRight'
<1> DEFINE i == worker[w].record
<1>1. i \in SentRows /\ i \notin InChannel /\ w \in Workers
      /\ \A v \in Busy : worker[v].record = i => v = w
  BY DEF DataRight, WorkerPlaces, Busy
<1>2. InChannel' = InChannel /\ SentRows' = SentRows
  BY DEF InChannel, SentStays
<1>3. \A d \in D : d = DataRow(w) /\ d.record = i /\ d.rowid = worker[w].rowid /\ d.rowid[1] = i
                   /\ d.rowid \notin strays /\ \A x \in Owned : x.record # i
  <2> SUFFICES ASSUME NEW d \in D PROVE d = DataRow(w) /\ d.record = i /\ d.rowid = worker[w].rowid
                   /\ d.rowid[1] = i /\ d.rowid \notin strays /\ \A x \in Owned : x.record # i
    OBVIOUS
  <2>1. d = DataRow(w) /\ OwnRowid(w) /\ \A x \in data : x.rowid # worker[w].rowid
    OBVIOUS
  <2> QED
    BY <2>1 DEF OwnRowid, DataRow, Owned
<1>o. Owned' = Owned \cup D
  BY <1>3 DEF Owned
<1>4. DataPlaces' /\ StrayPlaces'
  <2>1. \A d \in data' : /\ d.record \in SentRows' /\ d.record \notin InChannel'
                        /\ d.rowid[1] = d.record
    BY <1>1, <1>2, <1>3 DEF DataRight, DataPlaces
  <2>2. \A d, e \in Owned' : d.record = e.record => d = e
    BY <1>3, <1>o DEF DataRight, DataPlaces
  <2>3. StrayPlaces'
    BY <1>3 DEF DataRight, StrayPlaces
  <2> QED
    BY <2>1, <2>2, <2>3 DEF DataPlaces
<1>5. I # {} => \E d \in Owned : d.record = i /\ d.rowid = worker[w].rowid
  BY DEF DataRight, Writing
<1>6. IdxPlaces'
  <2>1. \A e \in idx' : \E d \in Owned' : e = [key |-> KeyOf[d.record], rowid |-> d.rowid]
    BY <1>5, <1>o DEF DataRight, IdxPlaces, IdxRecord
  <2>2. ASSUME unique', NEW d \in idx', NEW e \in idx', d.key = e.key PROVE d = e
    BY <2>2 DEF DataRight, IdxPlaces
  <2> QED
    BY <2>1, <2>2 DEF IdxPlaces
<1>7. ChannelPlaces' /\ SentIsCounted'
  BY <1>2 DEF DataRight, ChannelPlaces, SentIsCounted, SentStays
<1>8. WorkerPlaces'
  <2>1. \A v \in Busy : worker'[v].record = worker[v].record
    BY DEF Busy
  <2> QED
    BY <1>2, <2>1 DEF DataRight, WorkerPlaces
<1>9. \A j : Handled(j) => Handled(j)'
  BY <1>o DEF Handled
<1>10. NothingLost'
  <2>1. \A v \in Busy : worker'[v].record = worker[v].record
    BY DEF Busy
  <2> QED
    BY <1>2, <1>9, <2>1 DEF DataRight, NothingLost
<1>11. ASSUME NEW v \in Busy, v # w PROVE Writing(v)'
  <2>1. Writing(v) /\ worker'[v] = worker[v] /\ worker[v].record # i
    BY <1>1, <1>11 DEF DataRight, Busy
  <2>2. \A e \in I : e.rowid[1] = i
    BY <1>5 DEF IdxRecord, DataRight, DataPlaces, Owned
  <2>3. OwnRowid(v) => OwnRowid(v)'
    <3> SUFFICES ASSUME OwnRowid(v) PROVE OwnRowid(v)'
      OBVIOUS
    <3>1. worker[v].rowid[1] = worker[v].record
      BY DEF OwnRowid
    <3>2. \A e \in idx' : e.rowid # worker[v].rowid
      BY <2>1, <2>2, <3>1 DEF OwnRowid
    <3>3. faults \in Nat
      BY DEF TInv, TableTypes
    <3>4. faults > 0 => faults' > 0
      BY <3>3
    <3>5. \A d \in D : d.rowid # worker[v].rowid /\ d.record # worker[v].record
      BY <1>3, <2>1, <3>1
    <3> QED
      BY <1>o, <2>1, <3>1, <3>2, <3>4, <3>5 DEF OwnRowid
  <2>4. Collided(v) => Collided(v)'
    <3>1. faults \in Nat /\ MaxFaults \in Nat
      BY TableAssumption DEF TInv, TableTypes
    <3>2. faults >= MaxFaults => faults' >= MaxFaults
      BY <3>1
    <3> QED
      BY <1>3, <2>1, <3>2 DEF Collided
  <2>5. worker[v].at = "idx" =>
          /\ \E d \in Owned' : d.record = worker[v].record /\ d.rowid = worker[v].rowid
          /\ \A e \in idx' : e.rowid = worker[v].rowid => worker[v].attempt > 0
    <3> SUFFICES ASSUME worker[v].at = "idx"
                 PROVE  /\ \E d \in Owned' :
                             d.record = worker[v].record /\ d.rowid = worker[v].rowid
                        /\ \A e \in idx' : e.rowid = worker[v].rowid => worker[v].attempt > 0
      OBVIOUS
    <3>1. PICK d \in Owned : d.record = worker[v].record /\ d.rowid = worker[v].rowid
      BY <2>1 DEF Writing
    <3>2. worker[v].rowid[1] = worker[v].record
      BY <3>1 DEF DataRight, DataPlaces, Owned
    <3> QED
      BY <1>o, <2>1, <2>2, <3>1, <3>2 DEF Writing
  <2> QED
    BY <1>9, <2>1, <2>3, <2>4, <2>5 DEF Writing
<1> QED
  BY <1>4, <1>6, <1>7, <1>8, <1>10, <1>11 DEF DataRight

\* Another attempt, or the end of them.
LEMMA RepeatSpec ==
  ASSUME TInv, NEW w \in Workers, Repeat(w)
  PROVE  /\ \A v \in Workers \ {w} : worker'[v] = worker[v]
         /\ worker'[w].record = worker[w].record
         /\ \/ worker'[w].at = "bad"
            \/ /\ worker'[w].at = worker[w].at /\ worker'[w].rowid = worker[w].rowid
               /\ worker'[w].tries = worker[w].tries
               /\ worker'[w].attempt = worker[w].attempt + 1 /\ worker'[w].attempt > 0
<1>1. worker \in [Workers -> RowWorkers] /\ worker[w].attempt \in Nat
  BY DEF TInv, TableTypes, RowWorkers
<1>2. CASE worker' = [worker EXCEPT ![w].attempt = @ + 1]
  BY <1>1, <1>2 DEF RowWorkers
<1>3. CASE Goto(w, "bad")
  BY <1>1, <1>3 DEF Goto, RowWorkers
<1> QED
  BY <1>2, <1>3 DEF Repeat

\* The next statement of a worker.
LEMMA GotoSpec ==
  ASSUME TInv, NEW w \in Workers, NEW step, Goto(w, step)
  PROVE  /\ \A v \in Workers \ {w} : worker'[v] = worker[v]
         /\ worker'[w].record = worker[w].record /\ worker'[w].rowid = worker[w].rowid
         /\ worker'[w].at = step
BY DEF TInv, TableTypes, RowWorkers, Goto

\* What a record is taken with.
LEMMA DrawSpec ==
  ASSUME TInv, NEW w \in Workers, NEW i, NEW tries, Draw(w, i, tries)
  PROVE  /\ \A v \in Workers \ {w} : worker'[v] = worker[v]
         /\ worker'[w].record = i /\ worker'[w].at = "data" /\ worker'[w].attempt = 0
         /\ \/ /\ worker'[w].rowid[1] = i /\ \A d \in data : d.rowid # worker'[w].rowid
               /\ UNCHANGED faults
            \/ /\ \E d \in data : worker'[w].rowid = d.rowid
               /\ faults = 0 /\ MaxFaults > 0 /\ faults' = MaxFaults
<1>1. worker \in [Workers -> RowWorkers]
  BY DEF TInv, TableTypes
<1>2. PICK id :
        /\ Begin(w, i, id, tries)
        /\ \/ (\E n \in Nat : id = <<i, n>>) /\ Unused(id) /\ UNCHANGED faults
           \/ /\ \E d \in data : id = d.rowid
              /\ faults = 0 /\ MaxFaults > 0 /\ faults' = MaxFaults
  BY DrawGives
<1>3. /\ \A v \in Workers \ {w} : worker'[v] = worker[v]
      /\ worker'[w].record = i /\ worker'[w].at = "data" /\ worker'[w].attempt = 0
      /\ worker'[w].rowid = id
  BY <1>1, <1>2 DEF Begin
<1>4. CASE (\E n \in Nat : id = <<i, n>>) /\ Unused(id) /\ UNCHANGED faults
  BY <1>3, <1>4 DEF Unused
<1>5. CASE /\ \E d \in data : id = d.rowid
           /\ faults = 0 /\ MaxFaults > 0 /\ faults' = MaxFaults
  BY <1>3, <1>5
<1> QED
  BY <1>2, <1>4, <1>5

\* A rowid that no row has is a good one.
LEMMA FreshRowid ==
  ASSUME DataRight, NEW id, \A d \in data : d.rowid # id
  PROVE  id \notin strays /\ \A e \in idx : e.rowid # id
<1>1. \A e \in idx : \E d \in data : e.rowid = d.rowid
  BY DEF DataRight, IdxPlaces, Owned
<1> QED
  BY <1>1 DEF DataRight, StrayPlaces

\* A worker takes a record from the channel, with a rowid of its own or one that the table has.
LEMMA TakeKeepsData ==
  ASSUME TInv, DataRight, NEW w \in Workers, TakeRecord(w), SentStays, Busy' = Busy \cup {w},
         w \notin Busy
  PROVE  DataRight'
<1> DEFINE i == Head(recordsIn)
<1>1. /\ recordsIn # <<>> /\ recordsIn \in Seq(Nat) /\ recordsIn' = Tail(recordsIn)
      /\ UNCHANGED <<data, strays, idx, unique>> /\ Draw(w, i, 0)
      /\ Len(recordsIn) \in Nat /\ Len(recordsIn) > 0 /\ i = recordsIn[1] /\ i \in Nat
  BY DEF TakeRecord, Working, tables, TInv, ChannelTypes
<1>2. /\ \A v \in Workers \ {w} : worker'[v] = worker[v]
      /\ worker'[w].record = i /\ worker'[w].at = "data" /\ worker'[w].attempt = 0
      /\ \/ /\ worker'[w].rowid[1] = i /\ \A d \in data : d.rowid # worker'[w].rowid
            /\ UNCHANGED faults
         \/ /\ \E d \in data : worker'[w].rowid = d.rowid
            /\ faults = 0 /\ MaxFaults > 0 /\ faults' = MaxFaults
  BY <1>1, DrawSpec
<1> HIDE DEF i
<1>3. faults \in Nat /\ MaxFaults \in Nat /\ faults' \in Nat /\ faults' >= faults
  BY <1>2, TableAssumption DEF TInv, TableTypes
<1>4. InChannel' \cup {i} = InChannel /\ i \notin InChannel' /\ i \in SentRows
  <2>1. /\ Len(recordsIn') = Len(recordsIn) - 1
        /\ \A k \in 1..Len(recordsIn') : recordsIn'[k] = recordsIn[k + 1]
    BY <1>1
  <2>2. \A k \in 1..Len(recordsIn') : k + 1 \in 1..Len(recordsIn) /\ k + 1 # 1
    BY <1>1, <2>1
  <2>3. \A k \in 1..Len(recordsIn) : k = 1 \/ (k - 1 \in 1..Len(recordsIn') /\ (k - 1) + 1 = k)
    BY <1>1, <2>1
  <2>4. 1 \in 1..Len(recordsIn)
    BY <1>1
  <2>5. i \in InChannel
    BY <1>1, <2>4 DEF InChannel, Elements
  <2>6. \A x \in InChannel' : x \in InChannel /\ x # i
    <3> SUFFICES ASSUME NEW k \in 1..Len(recordsIn')
                 PROVE  recordsIn'[k] \in InChannel /\ recordsIn'[k] # i
      BY DEF InChannel, Elements
    <3> QED
      BY <1>1, <2>1, <2>2, <2>4 DEF InChannel, Elements, DataRight, ChannelPlaces
  <2>7. \A x \in InChannel : x = i \/ x \in InChannel'
    <3> SUFFICES ASSUME NEW k \in 1..Len(recordsIn)
                 PROVE  recordsIn[k] = i \/ recordsIn[k] \in InChannel'
      BY DEF InChannel, Elements
    <3>1. CASE k = 1
      BY <1>1, <3>1
    <3>2. CASE k # 1
      <4>1. k - 1 \in 1..Len(recordsIn') /\ recordsIn'[k - 1] = recordsIn[k]
        BY <2>1, <2>3, <3>2
      <4> QED
        BY <4>1 DEF InChannel, Elements
    <3> QED
      BY <3>1, <3>2
  <2> QED
    BY <2>5, <2>6, <2>7 DEF DataRight, ChannelPlaces
<1>5. ChannelPlaces'
  <2>1. InChannel' \subseteq SentRows'
    BY <1>4 DEF SentStays, DataRight, ChannelPlaces
  <2>2. ASSUME NEW k \in 1..Len(recordsIn'), NEW l \in 1..Len(recordsIn'),
               recordsIn'[k] = recordsIn'[l]
        PROVE  k = l
    <3>1. /\ k \in Nat /\ l \in Nat /\ k + 1 \in 1..Len(recordsIn) /\ l + 1 \in 1..Len(recordsIn)
          /\ recordsIn'[k] = recordsIn[k + 1] /\ recordsIn'[l] = recordsIn[l + 1]
      BY <1>1
    <3>2. k + 1 = l + 1
      BY <2>2, <3>1 DEF DataRight, ChannelPlaces
    <3> QED
      BY <3>1, <3>2
  <2> QED
    BY <2>1, <2>2 DEF ChannelPlaces
<1>6. SentRows' = SentRows /\ InChannel' \subseteq InChannel /\ i \in InChannel
  BY <1>4 DEF SentStays
<1>7. \A v \in Busy : v # w /\ worker'[v] = worker[v] /\ worker[v].record # i
  BY <1>2, <1>6 DEF DataRight, WorkerPlaces, Busy
<1>8. WorkerPlaces'
  BY <1>2, <1>4, <1>6, <1>7 DEF DataRight, WorkerPlaces
<1>o. Owned' = Owned
  BY <1>1 DEF Owned
<1>9. DataPlaces' /\ StrayPlaces' /\ IdxPlaces'
  BY <1>1, <1>6, <1>o DEF DataRight, DataPlaces, StrayPlaces, IdxPlaces
<1>10. \A d \in data : d.record # i
  BY <1>6 DEF DataRight, DataPlaces
<1>11. OwnRowid(w)' \/ Collided(w)'
  <2>1. CASE worker'[w].rowid[1] = i /\ \A d \in data : d.rowid # worker'[w].rowid
    <3>1. worker'[w].rowid \notin strays /\ \A e \in idx : e.rowid # worker'[w].rowid
      BY <2>1, FreshRowid
    <3>2. \A d \in Owned : d.record # i
      BY <1>10 DEF Owned
    <3> QED
      BY <1>1, <1>2, <1>o, <2>1, <3>1, <3>2 DEF OwnRowid
  <2>2. CASE (\E d \in data : worker'[w].rowid = d.rowid) /\ MaxFaults > 0 /\ faults' = MaxFaults
    <3>1. worker'[w].rowid[1] # i
      BY <1>10, <2>2 DEF DataRight, DataPlaces
    <3>2. faults' >= MaxFaults
      BY <1>3, <2>2
    <3> QED
      BY <1>1, <1>2, <1>10, <2>2, <3>1, <3>2 DEF Collided
  <2> QED
    BY <1>2, <2>1, <2>2
<1>12. Writing(w)'
  BY <1>2, <1>11 DEF Writing
<1>13. ASSUME NEW v \in Busy PROVE Writing(v)'
  <2>1. Writing(v) /\ worker'[v] = worker[v]
    BY <1>7 DEF DataRight
  <2>2. faults >= MaxFaults => faults' >= MaxFaults
    BY <1>3
  <2>3. faults > 0 => faults' > 0
    BY <1>3
  <2>4. OwnRowid(v) => OwnRowid(v)'
    BY <1>1, <1>o, <2>1, <2>3 DEF OwnRowid
  <2>5. Collided(v) => Collided(v)'
    BY <1>1, <2>1, <2>2 DEF Collided
  <2> QED
    BY <1>1, <1>o, <2>1, <2>4, <2>5 DEF Writing, Handled
<1>14. NothingLost'
  BY <1>1, <1>2, <1>4, <1>6, <1>7, <1>o DEF DataRight, NothingLost, Handled
<1>15. SentIsCounted'
  BY <1>6 DEF DataRight, SentIsCounted, SentStays
<1> QED
  BY <1>5, <1>8, <1>9, <1>12, <1>13, <1>14, <1>15 DEF DataRight

\* A worker is done with its record, which has its data row and its index record.
LEMMA ReportKeepsData ==
  ASSUME TInv, DataRight, NEW w \in Workers, Report(w), SentStays, Busy' = Busy \ {w}, w \in Busy,
         worker[w].at # "bad"
  PROVE  DataRight'
<1>1. /\ UNCHANGED <<data, strays, idx, unique, recordsIn, faults>>
      /\ \A v \in Workers \ {w} : worker'[v] = worker[v]
      /\ worker[w].at = "good"
  <2>1. Worker(w)
    BY DEF Worker
  <2>2. /\ worker[w].at \in {"good", "bad"}
        /\ UNCHANGED <<unique, recordsIn, data, strays, idx, faults>>
    BY DEF Report, Working, tables
  <2> QED
    BY <2>1, <2>2, WorkerMoves
<1>2. \A v \in Busy' : v \in Busy /\ worker'[v] = worker[v]
  BY <1>1 DEF Busy
<1>3. InChannel' = InChannel /\ SentRows' = SentRows /\ Owned' = Owned
  BY <1>1 DEF InChannel, SentStays, Owned
<1>4. /\ ChannelPlaces' /\ WorkerPlaces' /\ DataPlaces' /\ StrayPlaces' /\ IdxPlaces'
      /\ SentIsCounted'
  BY <1>1, <1>2, <1>3 DEF DataRight, ChannelPlaces, WorkerPlaces, DataPlaces, StrayPlaces,
     IdxPlaces, SentIsCounted, SentStays
<1>5. \A v \in Busy' : Writing(v)'
  BY <1>1, <1>2, <1>3 DEF DataRight, Writing, OwnRowid, Collided, Handled
<1>6. NothingLost'
  <2>1. Handled(worker[w].record)
    BY <1>1 DEF DataRight, Writing
  <2>2. \A j : Handled(j) => Handled(j)'
    BY <1>1, <1>3 DEF Handled
  <2>3. \A v \in Busy : v = w \/ (v \in Busy' /\ worker'[v] = worker[v])
    BY <1>2
  <2> QED
    BY <1>3, <2>1, <2>2, <2>3 DEF DataRight, NothingLost
<1> QED
  BY <1>4, <1>5, <1>6 DEF DataRight

\* The row that a worker left behind is taken for somebody else's: the worker writes its record
\* again, under another rowid.
LEMMA StrayKeepsData ==
  ASSUME TInv, DataRight, NEW w \in Busy, OwnRowid(w), worker[w].record \notin Exact, Busy' = Busy,
         \A v \in Workers \ {w} : worker'[v] = worker[v],
         worker'[w].record = worker[w].record, worker'[w].at = "data", worker'[w].attempt = 0,
         worker'[w].rowid[1] = worker[w].record, \A d \in data : d.rowid # worker'[w].rowid,
         NEW d \in data, d.rowid = worker[w].rowid, strays' = strays \cup {d.rowid},
         UNCHANGED <<unique, recordsIn, data, idx, faults>>, SentStays
  PROVE  DataRight'
<1> DEFINE i == worker[w].record
           id == worker[w].rowid
<1>1. i \in SentRows /\ i \notin InChannel /\ w \in Workers
      /\ \A v \in Busy : worker[v].record = i => v = w
  BY DEF DataRight, WorkerPlaces, Busy
<1>2. InChannel' = InChannel /\ SentRows' = SentRows
  BY DEF InChannel, SentStays
<1>3. /\ Owned' = {x \in Owned : x.rowid # id}
      /\ \A x \in data : x.rowid = id => x.record = i
      /\ \A x \in Owned' : x.record # i
  BY DEF Owned, OwnRowid, DataRight, DataPlaces
<1>4. DataPlaces' /\ StrayPlaces'
  <2>1. DataPlaces'
    BY <1>2, <1>3 DEF DataRight, DataPlaces
  <2>2. StrayPlaces'
    BY <1>3 DEF DataRight, StrayPlaces
  <2> QED
    BY <2>1, <2>2
<1>5. IdxPlaces'
  BY <1>3 DEF DataRight, IdxPlaces, OwnRowid
<1>6. ChannelPlaces' /\ SentIsCounted'
  BY <1>2 DEF DataRight, ChannelPlaces, SentIsCounted, SentStays
<1>7. \A v \in Busy : worker'[v].record = worker[v].record
  BY DEF Busy
<1>8. WorkerPlaces'
  BY <1>2, <1>7 DEF DataRight, WorkerPlaces
<1>9. \A j : Handled(j) => Handled(j)'
  <2> SUFFICES ASSUME NEW j, NEW x \in Owned, x.record = j,
                      [key |-> KeyOf[j], rowid |-> x.rowid] \in idx
               PROVE  x \in Owned'
    BY DEF Handled
  <2> QED
    BY <1>3 DEF OwnRowid
<1>10. NothingLost'
  BY <1>2, <1>7, <1>9 DEF DataRight, NothingLost
<1>11. ASSUME NEW v \in Busy, v # w PROVE Writing(v)'
  <2>1. Writing(v) /\ worker'[v] = worker[v] /\ worker[v].record # i
    BY <1>1, <1>11 DEF DataRight, Busy
  <2>2. OwnRowid(v) => OwnRowid(v)'
    <3>1. OwnRowid(v) => worker[v].rowid # id
      BY <2>1 DEF OwnRowid
    <3> QED
      BY <1>3, <2>1, <3>1 DEF OwnRowid
  <2>3. Collided(v) => Collided(v)'
    BY <2>1 DEF Collided
  <2>4. ASSUME worker[v].at = "idx"
        PROVE  \E x \in Owned' : x.record = worker[v].record /\ x.rowid = worker[v].rowid
    <3>1. PICK x \in Owned : x.record = worker[v].record /\ x.rowid = worker[v].rowid
      BY <2>1, <2>4 DEF Writing
    <3>2. x \in Owned'
      BY <1>3, <2>1, <3>1 DEF Owned
    <3> QED
      BY <3>1, <3>2
  <2> QED
    BY <1>9, <2>1, <2>2, <2>3, <2>4 DEF Writing
<1>12. Writing(w)'
  <2>1. worker'[w].rowid \notin strays /\ \A e \in idx : e.rowid # worker'[w].rowid
    BY FreshRowid
  <2>2. OwnRowid(w)'
    BY <1>3, <2>1 DEF OwnRowid
  <2> QED
    BY <2>2 DEF Writing
<1> QED
  BY <1>4, <1>5, <1>6, <1>8, <1>10, <1>11, <1>12 DEF DataRight

\* A data row is inserted, or found to be one's own; or the rowid is taken, by another row or by
\* one that was left behind, and there is another rowid.
LEMMA InsertDataKeepsData ==
  ASSUME TInv, DataRight, NEW w \in Busy, InsertData(w), SentStays, Busy' = Busy,
         worker'[w].at # "bad"
  PROVE  DataRight'
<1> DEFINE i == worker[w].record
           id == worker[w].rowid
<1>1. /\ w \in Workers /\ worker[w].at = "data" /\ UNCHANGED <<unique, recordsIn, idx>>
      /\ OwnRowid(w) \/ Collided(w)
  BY DEF Busy, InsertData, Working, DataRight, Writing
<1>2. faults \in Nat /\ MaxFaults \in Nat /\ worker[w].attempt \in Nat
  BY <1>1, TableAssumption DEF TInv, TableTypes, RowWorkers
<1>3. CASE /\ \A d \in data : d.rowid # id
           /\ data' = data \cup {DataRow(w)} /\ Goto(w, "idx") /\ UNCHANGED <<strays, faults>>
  <2>1. OwnRowid(w)
    BY <1>1, <1>3 DEF Collided
  <2>2. /\ \A v \in Workers \ {w} : worker'[v] = worker[v]
        /\ worker'[w].record = i /\ worker'[w].rowid = id /\ worker'[w].at = "idx"
    BY <1>1, <1>3, GotoSpec
  <2>3. Writing(w)'
    <3>1. \E d \in Owned' : d.record = i /\ d.rowid = id
      <4>1. DataRow(w).record = i /\ DataRow(w).rowid = id
        BY DEF DataRow
      <4>2. DataRow(w) \in Owned'
        BY <1>3, <2>1, <4>1 DEF Owned, OwnRowid
      <4> QED
        BY <4>1, <4>2
    <3>2. \A e \in idx' : e.rowid # id
      BY <1>1, <2>1 DEF OwnRowid
    <3> QED
      BY <2>2, <3>1, <3>2 DEF Writing
  <2>4. idx' = idx \cup {} /\ faults' >= faults /\ faults' \in Nat
    BY <1>1, <1>2, <1>3
  <2> QED
    BY <1>1, <1>3, <2>1, <2>2, <2>3, <2>4, RecordStep
<1>4. ASSUME NEW d \in data, d.rowid = id, Leftover(w, d), Goto(w, "idx"),
             UNCHANGED <<strays, faults, data>>
      PROVE  DataRight'
  <2>1. OwnRowid(w) /\ d \in Owned /\ d.record = i
    <3>1. OwnRowid(w)
      <4>1. worker[w].attempt # 0
        BY <1>2, <1>4 DEF Leftover
      <4> QED
        BY <1>1, <4>1 DEF Collided
    <3>2. id[1] = i /\ d.rowid[1] = d.record /\ id \notin strays
      BY <3>1 DEF OwnRowid, DataRight, DataPlaces
    <3> QED
      BY <1>4, <3>1, <3>2 DEF Owned
  <2>2. /\ \A v \in Workers \ {w} : worker'[v] = worker[v]
        /\ worker'[w].record = i /\ worker'[w].rowid = id /\ worker'[w].at = "idx"
    BY <1>1, <1>4, GotoSpec
  <2>3. Writing(w)'
    <3>1. \E x \in Owned' : x.record = i /\ x.rowid = id
      BY <1>4, <2>1 DEF Owned
    <3>2. \A e \in idx' : e.rowid # id
      BY <1>1, <2>1 DEF OwnRowid
    <3> QED
      BY <2>2, <3>1, <3>2 DEF Writing
  <2>4. idx' = idx \cup {} /\ data' = data \cup {} /\ faults' >= faults /\ faults' \in Nat
    BY <1>1, <1>2, <1>4
  <2> QED
    BY <1>1, <1>4, <2>2, <2>3, <2>4, RecordStep
<1>5. ASSUME NEW d \in data, d.rowid = id, ~Leftover(w, d), Redraw(w), UNCHANGED data,
             strays' = strays \cup (IF LeftBehind(w, d) THEN {d.rowid} ELSE {})
      PROVE  DataRight'
  <2>1. faults # 0
    BY <1>1, <1>2, <1>5 DEF Collided, OwnRowid
  <2>2. Draw(w, i, worker[w].tries + 1)
    <3>1. Goto(w, "bad") => worker'[w].at = "bad"
      BY <1>1, GotoSpec
    <3> QED
      BY <1>5, <3>1 DEF Redraw
  <2>3. /\ \A v \in Workers \ {w} : worker'[v] = worker[v]
        /\ worker'[w].record = i /\ worker'[w].at = "data" /\ worker'[w].attempt = 0
        /\ worker'[w].rowid[1] = i /\ \A x \in data : x.rowid # worker'[w].rowid
        /\ UNCHANGED faults
    BY <1>1, <2>1, <2>2, DrawSpec
  <2>4. CASE OwnRowid(w)
    <3>1. d.record = i /\ worker[w].attempt > 0
      BY <1>5, <2>4 DEF OwnRowid, DataRight, DataPlaces
    <3>2. LeftBehind(w, d) /\ i \notin Exact
      BY <1>5, <3>1 DEF LeftBehind, Leftover
    <3> QED
      BY <1>1, <1>5, <2>3, <2>4, <3>2, StrayKeepsData
  <2>5. CASE Collided(w)
    <3>1. strays' = strays
      BY <1>5, <2>5 DEF LeftBehind, Collided
    <3>2. \A x \in Owned : x.record # i
      BY <2>5 DEF Collided, Owned
    <3>3. worker'[w].rowid \notin strays /\ \A e \in idx : e.rowid # worker'[w].rowid
      BY <2>3, FreshRowid
    <3>4. OwnRowid(w)'
      <4>1. Owned' = Owned
        BY <1>5, <3>1 DEF Owned
      <4> QED
        BY <1>1, <1>5, <2>3, <3>1, <3>2, <3>3, <4>1 DEF OwnRowid
    <3>5. Writing(w)'
      BY <2>3, <3>4 DEF Writing
    <3>6. idx' = idx \cup {} /\ data' = data \cup {} /\ faults' >= faults /\ faults' \in Nat
      BY <1>1, <1>2, <1>5, <2>3
    <3> QED
      BY <1>1, <2>3, <3>1, <3>5, <3>6, RecordStep
  <2> QED
    BY <1>1, <2>4, <2>5
<1> QED
  BY <1>3, <1>4, <1>5 DEF InsertData, DataRow

\* The insertion of a data row ends in an error, applied or not.
LEMMA DataFailsKeepsData ==
  ASSUME TInv, DataRight, NEW w \in Busy, InsertDataFails(w), SentStays, Busy' = Busy,
         worker'[w].at # "bad"
  PROVE  DataRight'
<1> DEFINE i == worker[w].record
           id == worker[w].rowid
<1>1. /\ w \in Workers /\ worker[w].at = "data" /\ UNCHANGED <<unique, recordsIn, idx, strays>>
      /\ OwnRowid(w) \/ Collided(w)
  BY DEF Busy, InsertDataFails, Working, DataRight, Writing
<1>2. /\ faults \in Nat /\ MaxFaults \in Nat /\ faults < MaxFaults /\ faults' >= faults
      /\ faults' \in Nat /\ faults' > 0
  BY TableAssumption DEF TInv, TableTypes, InsertDataFails, Fault
<1>3. OwnRowid(w)
  BY <1>1, <1>2 DEF Collided
<1>4. /\ \A v \in Workers \ {w} : worker'[v] = worker[v]
      /\ worker'[w].record = i /\ worker'[w].at = "data" /\ worker'[w].rowid = id
      /\ worker'[w].attempt > 0
  BY <1>1, RepeatSpec DEF InsertDataFails
<1>5. ASSUME NEW D \in {{}, {DataRow(w)}}, data' = data \cup D PROVE Writing(w)'
  <2>1. \A d \in Owned' : d.record = i => d.rowid = id
    BY <1>1, <1>3, <1>5 DEF DataRow, OwnRowid, Owned
  <2>2. OwnRowid(w)'
    BY <1>1, <1>2, <1>3, <1>4, <2>1 DEF OwnRowid
  <2> QED
    BY <1>4, <2>2 DEF Writing
<1>6. PICK D \in {{}, {DataRow(w)}} :
        data' = data \cup D /\ (D # {} => \A d \in data : d.rowid # id)
  <2>1. CASE UNCHANGED data
    BY <2>1
  <2>2. CASE (\A d \in data : d.rowid # id) /\ data' = data \cup {DataRow(w)}
    BY <2>2
  <2> QED
    BY <2>1, <2>2 DEF InsertDataFails, DataRow
<1>7. idx' = idx \cup {}
  BY <1>1
<1> QED
  BY <1>1, <1>2, <1>3, <1>4, <1>5, <1>6, <1>7, RecordStep

\* An index record is inserted.
LEMMA InsertIdxKeepsData ==
  ASSUME TInv, DataRight, NEW w \in Busy, InsertIdx(w), SentStays, Busy' = Busy,
         worker'[w].at # "bad"
  PROVE  DataRight'
<1> DEFINE i == worker[w].record
           id == worker[w].rowid
<1>1. /\ w \in Workers /\ worker[w].at = "idx"
      /\ UNCHANGED <<unique, recordsIn, data, strays, faults>>
      /\ \E d \in Owned : d.record = i /\ d.rowid = id
  BY DEF Busy, InsertIdx, Working, DataRight, Writing
<1>2. /\ ~\E e \in idx : Duplicate(w, e)
      /\ Goto(w, "good") /\ idx' = idx \cup {IdxRecord(w)}
  <2>1. Goto(w, "bad") => worker'[w].at = "bad"
    BY <1>1, GotoSpec
  <2> QED
    BY <2>1 DEF InsertIdx
<1>3. /\ \A v \in Workers \ {w} : worker'[v] = worker[v]
      /\ worker'[w].record = i /\ worker'[w].rowid = id /\ worker'[w].at = "good"
  BY <1>1, <1>2, GotoSpec
<1>4. Writing(w)'
  <2>1. \E d \in Owned' : d.record = i /\ [key |-> KeyOf[i], rowid |-> d.rowid] \in idx'
    BY <1>1, <1>2 DEF IdxRecord, Owned
  <2> QED
    BY <1>3, <2>1 DEF Writing, Handled
<1>5. unique => \A e \in idx : e.key = IdxRecord(w).key => e = IdxRecord(w)
  <2> SUFFICES ASSUME unique, NEW e \in idx, e.key = KeyOf[i] PROVE e = IdxRecord(w)
    BY DEF IdxRecord
  <2>1. e.rowid = id
    BY <1>2 DEF Duplicate
  <2>2. PICK d \in Owned : e = [key |-> KeyOf[d.record], rowid |-> d.rowid]
    BY DEF DataRight, IdxPlaces
  <2>3. d.record = i
    BY <1>1, <2>1, <2>2 DEF DataRight, DataPlaces, Owned
  <2> QED
    BY <2>1, <2>2, <2>3 DEF IdxRecord
<1>6. data' = data \cup {} /\ faults' \in Nat /\ faults' >= faults
  BY <1>1 DEF TInv, TableTypes
<1> QED
  BY <1>1, <1>2, <1>3, <1>4, <1>5, <1>6, RecordStep

\* The insertion of an index record ends in an error, applied or not.
LEMMA IdxFailsKeepsData ==
  ASSUME TInv, DataRight, NEW w \in Busy, InsertIdxFails(w), SentStays, Busy' = Busy,
         worker'[w].at # "bad"
  PROVE  DataRight'
<1> DEFINE i == worker[w].record
           id == worker[w].rowid
<1>1. /\ w \in Workers /\ worker[w].at = "idx" /\ UNCHANGED <<unique, recordsIn, data, strays>>
      /\ \E d \in Owned : d.record = i /\ d.rowid = id
  BY DEF Busy, InsertIdxFails, Working, DataRight, Writing
<1>2. faults \in Nat /\ faults' >= faults /\ faults' \in Nat
  BY DEF TInv, TableTypes, InsertIdxFails, Fault
<1>3. /\ \A v \in Workers \ {w} : worker'[v] = worker[v]
      /\ worker'[w].record = i /\ worker'[w].at = "idx" /\ worker'[w].rowid = id
      /\ worker'[w].attempt > 0
  BY <1>1, RepeatSpec DEF InsertIdxFails
<1>4. Writing(w)'
  BY <1>1, <1>3 DEF Writing, Owned
<1>5. PICK I \in {{}, {IdxRecord(w)}} :
        idx' = idx \cup I /\ (I # {} => ~unique \/ \A e \in idx : e.key # KeyOf[i])
  <2>1. CASE UNCHANGED idx
    BY <2>1
  <2>2. CASE (~unique \/ \A e \in idx : e.key # KeyOf[i]) /\ idx' = idx \cup {IdxRecord(w)}
    BY <2>2
  <2> QED
    BY <2>1, <2>2 DEF InsertIdxFails
<1>6. I # {} => (unique => \A e \in idx : e.key = IdxRecord(w).key => e = IdxRecord(w))
  BY <1>5 DEF IdxRecord
<1>7. data' = data \cup {}
  BY <1>1
<1> QED
  BY <1>1, <1>2, <1>3, <1>4, <1>5, <1>6, <1>7, RecordStep

\* The records are where they should be after every step of a worker that does not fail.
LEMMA DataWorker ==
  ASSUME TInv, PageRight, DataRight, NEW w \in Workers, Worker(w), ~Hurt, ~Hurt'
  PROVE  DataRight'
<1>1. UNCHANGED <<source, unique, producer, closed, sent, draining, signals>>
  BY WorkerMoves
<1>2. SentStays
  <2>1. SameRead /\ UNCHANGED <<upto, phase>>
    BY <1>1 DEF SameRead, producer, OnPage, AllRead, Ending, InCount, IsCustom
  <2>2. SentRows' = SentRows
    BY <2>1, SameReadRight
  <2> QED
    BY <1>1, <2>1, <2>2 DEF SentStays, SameRead
<1>3. worker[w].at # "bad" /\ worker'[w].at # "bad"
  BY DEF Hurt
<1>4. CASE TakeRecord(w)
  BY <1>2, <1>4, BusyMoves, TakeKeepsData
<1>5. CASE Report(w)
  BY <1>2, <1>3, <1>5, BusyMoves, ReportKeepsData
<1>6. CASE Exit(w)
  <2>1. UNCHANGED <<recordsIn, data, strays, idx, faults>> /\ faults \in Nat
    BY <1>6 DEF Exit, tables, TInv, TableTypes
  <2>2. Busy' = Busy /\ w \notin Busy
    BY <1>6, BusyMoves
  <2>3. \A v \in Busy : worker'[v] = worker[v]
    BY <2>2, WorkerMoves DEF Busy
  <2> QED
    BY <1>1, <1>2, <2>1, <2>2, <2>3, DataCarries
<1>7. CASE ~TakeRecord(w) /\ ~Report(w) /\ ~Exit(w)
  <2>1. Busy' = Busy /\ w \in Busy
    BY <1>7, BusyMoves
  <2> QED
    BY <1>2, <1>3, <1>7, <2>1, InsertDataKeepsData, DataFailsKeepsData, InsertIdxKeepsData,
       IdxFailsKeepsData DEF Worker
<1> QED
  BY <1>4, <1>5, <1>6, <1>7

-------------------------------------------------------------------------------
(* The theorem. *)

\* The invariant holds when the batch begins.
LEMMA InitExact ==
  ASSUME Init, QInv
  PROVE  IInv
<1>1. /\ phase = "open" /\ result = ok /\ ok # error /\ None \notin {ok, error}
      /\ wrapped = FALSE /\ recordsIn = <<>> /\ statuses = <<>> /\ sent = 0 /\ processed = 0
      /\ added = 0 /\ read = 0 /\ data = {} /\ idx = {} /\ strays = {} /\ pos = 0
      /\ signals = [cancel |-> None, done |-> None, complete |-> None]
      /\ \A w \in Workers : worker[w].at = "exit"
  BY TableAssumption DEF Init, IdleWorker, ok, error
<1>2. ~drainer.err
  BY Zenon DEF Init
<1>3. /\ signals.cancel = None /\ signals.done = None /\ signals.complete = None
  BY <1>1
<1>4. Heard
  BY <1>1, <1>2, <1>3 DEF Heard, Sending, Resting, Ending
<1>5. ~OnPage /\ ~AllRead /\ InCount = 0 /\ Busy = {} /\ ~Sending
  BY <1>1 DEF OnPage, AllRead, Ending, InCount, Busy, Sending
<1>6. Flow
  <2>1. Signalled
    BY <1>1, <1>5 DEF Signalled
  <2>2. Counted
    <3>1. Cardinality(Busy) = 0 /\ Len(recordsIn) = 0 /\ Len(statuses) = 0
      BY <1>1, <1>5, FS_EmptySet
    <3> QED
      BY <1>1, <1>5, <3>1 DEF Counted
  <2>3. AllBack
    BY <1>1, <1>5 DEF AllBack
  <2> QED
    BY <2>1, <2>2, <2>3 DEF Flow, BackWhenAsked
<1>7. ProducerTypes
  BY DEF QInv, TInv
<1>8. cursor = Cursor(IF source.reader = "csv" THEN 0 ELSE FirstToken, {})
  BY DEF Init
<1>9. Gotten = {}
  <2>1. CASE ByTokens
    <3>1. source.reader # "csv"
      BY <2>1 DEF ByTokens, Custom
    <3>2. cursor.token = FirstToken /\ cursor.rows = {}
      BY <1>8, <3>1 DEF Cursor
    <3>3. Gotten = {i \in Wanted : ReadUpTo(source.tokens, cursor, i)}
      BY <1>5, <2>1 DEF Gotten
    <3>4. \A i \in Wanted : ~ReadUpTo(source.tokens, cursor, i)
      <4> SUFFICES ASSUME NEW i \in Wanted PROVE ~(source.tokens[i] < FirstToken)
        BY <3>2 DEF ReadUpTo
      <4>1. Wanted = Inside(source.tokens, FirstToken, LastToken)
        BY <1>7, <2>1, WantedSpec
      <4>2. Sorted(source.tokens)
        BY <1>7, SourceSorted
      <4>3. FirstToken <= source.tokens[i] /\ i \in 1..Len(source.tokens)
        BY <4>1, <4>2, InsideSpec, TableAssumption
      <4>4. source.tokens[i] \in Int /\ FirstToken \in Int
        BY <4>2, <4>3, TableAssumption DEF Sorted
      <4> QED
        BY <4>3, <4>4
    <3> QED
      BY <3>3, <3>4
  <2>2. CASE ~ByTokens /\ source.reader = "csv"
    <3>1. cursor.token = 0
      BY <1>8, <2>2 DEF Cursor
    <3>2. Gotten = {i \in Wanted : i <= 0}
      BY <1>5, <2>2, <3>1 DEF Gotten
    <3>3. \A i \in Wanted : i \in Nat /\ i > HeaderLines /\ HeaderLines \in Nat
      BY <1>7, <2>2, WantedSpec, TableAssumption
    <3>4. \A i \in Wanted : ~(i <= 0)
      BY <3>3
    <3> QED
      BY <3>2, <3>4
  <2>3. CASE ~ByTokens /\ source.reader # "csv"
    <3>1. Gotten = {i \in Wanted : i <= 0 + 0}
      BY <1>1, <1>5, <2>3 DEF Gotten
    <3>2. \A i \in Wanted : i \in 1..Len(source.tokens)
      BY <1>7, WantedSpec
    <3>3. Len(source.tokens) \in Nat
      BY <1>7, SourceSorted
    <3>4. \A i \in Wanted : ~(i <= 0 + 0)
      BY <3>2, <3>3
    <3> QED
      BY <3>1, <3>4
  <2> QED
    BY <2>1, <2>2, <2>3
<1>10. Before = {} /\ SentRows = {}
  BY <1>5, <1>9, RecordsApart DEF Before, Taken, SentRows, ForTable
<1>11. PageRight
  <2>1. ByTokens => CursorFits(source.tokens, cursor, FirstToken, LastToken)
    <3> SUFFICES ASSUME ByTokens PROVE CursorFits(source.tokens, cursor, FirstToken, LastToken)
      OBVIOUS
    <3>1. source.reader # "csv"
      BY DEF ByTokens, Custom
    <3>2. cursor.token = FirstToken /\ cursor.rows = {}
      BY <1>8, <3>1 DEF Cursor
    <3> QED
      BY <3>2, TableAssumption DEF CursorFits
  <2>2. read = Cardinality(Before)
    BY <1>1, <1>10, FS_EmptySet
  <2> QED
    BY <1>1, <1>5, <2>1, <2>2 DEF PageRight
<1>12. DataRight
  <2>1. ChannelPlaces /\ WorkerPlaces /\ DataPlaces /\ StrayPlaces /\ IdxPlaces
    BY <1>1, <1>5 DEF ChannelPlaces, WorkerPlaces, DataPlaces, StrayPlaces, IdxPlaces, InChannel,
       Elements, Owned
  <2>2. NothingLost
    BY <1>10 DEF NothingLost
  <2>3. SentIsCounted
    BY <1>1, <1>5, <1>10, FS_EmptySet DEF SentIsCounted
  <2> QED
    BY <1>5, <2>1, <2>2, <2>3 DEF DataRight
<1> QED
  BY <1>4, <1>6, <1>11, <1>12 DEF IInv

\* A batch that is over, or hangs, keeps the invariant.
LEMMA StutterExact ==
  ASSUME IInv, QInv', UNCHANGED vars
  PROVE  IInv'
<1>1. TInv /\ QInv' /\ Heard /\ UNCHANGED <<source, unique, producer, channels, draining, signals,
        worker, tables, faults>>
  BY DEF IInv, QInv, vars
<1>2. /\ SameRead /\ UNCHANGED <<upto, phase, result, wrapped, drainer, signals, statuses, sent,
                                 processed, recordsIn, added, data, strays, idx, unique, worker,
                                 faults>>
      /\ Busy' = Busy /\ InCount' = InCount /\ (IsCustom' <=> IsCustom)
  BY <1>1 DEF SameRead, producer, channels, draining, tables, OnPage, AllRead, Ending, InCount,
     IsCustom, Busy
<1>3. Heard' /\ (Told' <=> Told) /\ (Hurt' <=> Hurt)
  BY <1>1, <1>2 DEF Heard, Told, Hurt, Sending, Resting, Ending
<1>4. Flow => Flow'
  <2>1. Flow => Signalled'
    BY <1>2 DEF Flow, Signalled, Sending
  <2>2. Asked' => Asked
    BY <1>2 DEF Asked, Resting, Ending
  <2> QED
    BY <1>2, <2>1, <2>2, FlowCarries
<1>5. PageRight => PageRight' /\ SentRows' = SentRows
  BY <1>2, SameReadRight
<1>6. PageRight /\ DataRight => DataRight'
  <2>1. faults \in Nat /\ faults' >= faults /\ faults' \in Nat
    BY <1>1, <1>2 DEF TInv, TableTypes
  <2> QED
    BY <1>1, <1>2, <1>5, <2>1, DataCarries DEF SentStays
<1> QED
  BY <1>1, <1>3, <1>4, <1>5, <1>6 DEF IInv

\* Every step keeps the invariant.
LEMMA StepExact ==
  ASSUME IInv, QInv', [Next]_vars
  PROVE  IInv'
<1>1. TInv /\ DrainerRests /\ WorkersRest /\ RowsBound /\ Heard
  BY DEF IInv, QInv
<1>2. CASE UNCHANGED vars
  BY <1>2, StutterExact
<1>3. CASE ~UNCHANGED vars
  <2>1. Producer \/ Drainer \/ \E w \in Workers : Worker(w)
    BY <1>3 DEF Next, Stopped
  <2>2. Heard'
    <3>1. ASSUME NEW w \in Workers, Worker(w) PROVE Heard'
      <4>1. UNCHANGED <<source, phase, result, wrapped, drainer, signals>>
        BY <1>1, <3>1, WorkerMoves DEF producer, draining
      <4> QED
        BY <1>1, <4>1 DEF Heard, Sending, Resting, Ending, IsCustom
    <3> QED
      BY <1>1, <2>1, <3>1, HeardProducer, HeardDrainer
  <2>3. CASE Told'
    BY <2>2, <2>3 DEF IInv
  <2>4. CASE ~Told'
    <3>1. ~Told
      BY <1>1, <2>4, ToldStays
    <3>2. Flow /\ PageRight /\ (Hurt \/ DataRight)
      BY <3>1 DEF IInv
    <3>3. Flow'
      BY <1>1, <2>1, <2>4, <3>2, FlowProducer, FlowDrainer, FlowWorker
    <3>4. PageRight'
      <4>1. ASSUME UNCHANGED <<source, producer>> PROVE PageRight'
        <5>1. SameRead /\ UNCHANGED <<upto, phase>>
          BY <4>1 DEF SameRead, producer, OnPage, AllRead, Ending, InCount, IsCustom
        <5> QED
          BY <3>2, <5>1, SameReadRight
      <4>2. CASE Producer
        BY <1>1, <2>4, <3>2, <4>2, ReadSide
      <4>3. CASE Drainer
        BY <4>1, <4>3 DEF Drainer, DrainStatus, DrainSignal, DrainTimeout, DrainComplete
      <4>4. ASSUME NEW w \in Workers, Worker(w) PROVE PageRight'
        BY <1>1, <4>1, <4>4, WorkerMoves
      <4> QED
        BY <2>1, <4>2, <4>3, <4>4
    <3>5. ~Hurt' => DataRight'
      <4> SUFFICES ASSUME ~Hurt' PROVE DataRight'
        OBVIOUS
      <4>1. ~Hurt
        BY <1>1, <2>4, HurtStays
      <4>2. DataRight
        BY <3>2, <4>1
      <4> QED
        BY <1>1, <2>1, <2>4, <3>2, <4>1, <4>2, DataProducer, DataDrainer, DataWorker
    <3> QED
      BY <2>2, <3>3, <3>4, <3>5 DEF IInv
  <2> QED
    BY <2>3, <2>4
<1> QED
  BY <1>2, <1>3

\* The inductive invariant of a batch.
THEOREM BatchInvariant == Spec => []IInv
<1>1. Init /\ QInv => IInv
  BY InitExact
<1>2. IInv /\ QInv' /\ [Next]_vars => IInv'
  BY StepExact
<1> QED
  BY <1>1, <1>2, QuietInvariant, PTL DEF Spec

\* A batch that returns without an error has not been told of one, so it has all statuses back
\* and none of them was bad.
LEMMA DoneIsExact ==
  ASSUME IInv
  PROVE  WrittenIsExact
<1> SUFFICES ASSUME phase = "done", ~wrapped
             PROVE  /\ {d.record : d \in data} = ToWrite
                    /\ \A d, e \in Owned : d.record = e.record => d = e
                    /\ \A d \in data \ Owned : d.record \notin Exact
                    /\ idx = {[key |-> KeyOf[d.record], rowid |-> d.rowid] : d \in Owned}
                    /\ unique => \A d, e \in idx : d.key = e.key => d = e
                    /\ read = Cardinality(Wanted)
                    /\ added = Cardinality(Owned)
  BY DEF WrittenIsExact
<1>1. TInv /\ DrainerRests /\ WorkersRest /\ RowsBound /\ Heard /\ ProducerTypes
  BY DEF IInv, QInv, TInv
<1>2. ~Told
  <2>1. error # None
    BY TableAssumption
  <2> QED
    BY <1>1, <2>1 DEF Told, Heard, Ending, DrainerRests, ProducerTypes
<1>3. Flow /\ PageRight /\ (Hurt \/ DataRight)
  BY <1>2 DEF IInv
<1>4. AllBack /\ InCount = 0 /\ AllRead /\ ~OnPage
  BY <1>3 DEF Flow, BackWhenAsked, Ending, InCount, AllRead, OnPage
<1>5. DataRight
  <2>1. \A w \in Workers : worker[w].at # "bad"
    BY <1>4 DEF AllBack, Busy
  <2>2. ~\E k \in 1..Len(statuses) : ~statuses[k]
    BY <1>4 DEF AllBack
  <2> QED
    BY <1>3, <2>1, <2>2 DEF Hurt
<1>6. Before = Wanted /\ SentRows = ToWrite
  BY <1>4 DEF Gotten, Before, Taken, SentRows, ForTable, ToWrite
<1>7. \A i \in ToWrite : Handled(i)
  BY <1>4, <1>5, <1>6 DEF DataRight, NothingLost, AllBack, InChannel, Elements
<1>8. /\ {d.record : d \in data} = ToWrite /\ {d.record : d \in Owned} = ToWrite
      /\ \A d, e \in Owned : d.record = e.record => d = e
      /\ \A d \in data \ Owned : d.record \notin Exact
  <2>1. \A d \in data : d.record \in ToWrite
    BY <1>5, <1>6 DEF DataRight, DataPlaces
  <2>2. \A i \in ToWrite : \E d \in Owned : d.record = i
    BY <1>7 DEF Handled
  <2>3. Owned \subseteq data
    BY DEF Owned
  <2>4. \A d, e \in Owned : d.record = e.record => d = e
    BY <1>5 DEF DataRight, DataPlaces
  <2>5. \A d \in data \ Owned : d.record \notin Exact
    BY <1>5 DEF DataRight, StrayPlaces, Owned
  <2> QED
    BY <2>1, <2>2, <2>3, <2>4, <2>5
<1>9. idx = {[key |-> KeyOf[d.record], rowid |-> d.rowid] : d \in Owned}
  <2>1. \A d \in Owned : [key |-> KeyOf[d.record], rowid |-> d.rowid] \in idx
    <3> SUFFICES ASSUME NEW d \in Owned PROVE [key |-> KeyOf[d.record], rowid |-> d.rowid] \in idx
      OBVIOUS
    <3>1. Handled(d.record)
      BY <1>7, <1>8
    <3> QED
      BY <1>8, <3>1 DEF Handled
  <2> QED
    BY <1>5, <2>1 DEF DataRight, IdxPlaces
<1>10. read = Cardinality(Wanted)
  BY <1>3, <1>6 DEF PageRight
<1>11. added = Cardinality(Owned)
  <2> DEFINE f == [d \in Owned |-> d.record]
  <2>1. f \in Injection(Owned, SentRows) /\ f \in Surjection(Owned, SentRows)
    BY <1>6, <1>8 DEF Injection, Surjection, IsInjective
  <2>2. IsFiniteSet(SentRows)
    BY <1>1, <1>3, RowsWanted
  <2>3. Cardinality(Owned) = Cardinality(SentRows)
    BY <2>1, <2>2, FS_Injection
  <2>4. sent + 0 = Cardinality(SentRows) /\ added = sent /\ sent \in Nat
    BY <1>1, <1>3, <1>4, <1>5 DEF DataRight, SentIsCounted, Flow, Counted, TInv, ChannelTypes
  <2> QED
    BY <2>3, <2>4
<1> QED
  BY <1>5, <1>8, <1>9, <1>10, <1>11 DEF DataRight, IdxPlaces

\* "Script execution should survive temporary DB failures": a batch that reports success has read
\* each row of its token interval, or file, once, and written each record that passes once, with
\* its index record, whatever was repeated and whichever rowids collided, for any number of rows,
\* workers, faults and retries.  Two things are excepted: a batch one of whose pages wrapped, and
\* the rows left behind of records that do not compare equal (runCreateTableForBatch, readCsv,
\* readParquet, runCreateTableForCustomProcessorForBatch, insertDataRecordWithRowid,
\* insertIdxRecordWithRowid).
THEOREM WrittenIsExactHolds == Spec => []WrittenIsExact
<1>1. IInv => WrittenIsExact
  BY DoneIsExact
<1> QED
  BY <1>1, BatchInvariant, PTL

-------------------------------------------------------------------------------
(* When pages do not wrap. *)

\* Every row of a table has a token of its own.
SeparateTokens ==
  \A s \in Sources : s.reader \in {"table"} \cup Custom =>
    \A i, j \in 1..Len(s.tokens) : i # j => s.tokens[i] # s.tokens[j]

\* There may be another page.
MayRead == ByTokens /\ ~AllRead /\ phase # "failed"
SInv ==
  /\ ProducerTypes /\ ~wrapped
  /\ MayRead => CursorFits(source.tokens, cursor, FirstToken, LastToken)

\* A page of more than one row goes beyond the one row that has the token it starts with.
LEMMA PageGoesOn ==
  ASSUME NEW t, Sorted(t), NEW n \in Nat \ {0}, n > 1, NEW last \in Int,
         NEW c \in [token : Int, rows : SUBSET Nat],
         \A i, j \in 1..Len(t) : i # j => t[i] # t[j]
  PROVE  ~Wraps(t, n, c, last)
<1> DEFINE F == Inside(t, c.token, last)
           S == Limited(t, n, c.token, last)
           P == PageRows(t, n, c, last)
<1>1. /\ F \subseteq Nat /\ IsFiniteSet(F) /\ F \subseteq Int
      /\ \A i : i \in F <=> i \in 1..Len(t) /\ c.token <= t[i] /\ t[i] <= last
  BY InsideSpec
<1>2. S = {i \in F : Cardinality(Below(F, i)) < n}
  BY DEF Limited, Below
<1>3. P = {i \in S : ~(t[i] = c.token /\ i \in c.rows)}
  BY DEF PageRows, Known
<1>4. Wraps(t, n, c, last) <=>
        IF P = {} THEN \E i \in 1..Len(t) : t[i] <= last /\ S # {} /\ i > Max(S)
        ELSE t[Max(P)] = c.token /\ P # S
  BY DEF Wraps
<1> HIDE DEF F, S, P
<1>5. IsFiniteSet(S) /\ IsFiniteSet(P) /\ S \subseteq F /\ P \subseteq S
  BY <1>1, <1>2, <1>3, FS_Subset
<1>6. \A i, j \in S : t[i] = c.token /\ t[j] = c.token => i = j
  BY <1>1, <1>5
<1>7. CASE P = {}
  <2> SUFFICES ASSUME NEW i \in 1..Len(t), t[i] <= last, S # {}, i > Max(S) PROVE FALSE
    BY <1>4, <1>7
  <2>1. Max(S) \in S /\ \A k \in S : k <= Max(S)
    BY <1>1, <1>5, MaxSpec
  <2>m. PICK m \in S : i > m
    BY <2>1
  <2>2. t[m] = c.token /\ S = {m}
    BY <1>3, <1>6, <1>7
  <2>3. m \in 1..Len(t) /\ m \in Nat /\ i \in Nat /\ m < i
    <3>1. Len(t) \in Nat /\ m \in 1..Len(t)
      BY <1>1, <1>5 DEF Sorted
    <3> QED
      BY <2>m, <3>1
  <2>4. i \in F
    <3>1. t[m] <= t[i]
      BY <2>3 DEF Sorted
    <3> QED
      BY <1>1, <2>2, <3>1
  <2>5. \E k \in F : Cardinality(Below(F, k)) = 1 /\ k # m
    <3>1. F # {} /\ m \in F /\ m # i
      BY <1>5, <2>3, <2>4
    <3>2. {m, i} \in SUBSET F /\ Cardinality({m, i}) = 2
      <4>1. IsFiniteSet({m}) /\ Cardinality({m}) = 1
        BY FS_Singleton
      <4>2. i \notin {m}
        BY <3>1, Zenon
      <4>3. Cardinality({m} \cup {i}) = Cardinality({m}) + 1
        BY <4>1, <4>2, FS_AddElement
      <4>4. {m} \cup {i} = {m, i}
        OBVIOUS
      <4>5. Cardinality({m, i}) = 1 + 1
        BY <4>1, <4>3, <4>4, Zenon
      <4>6. 1 + 1 = 2
        OBVIOUS
      <4>7. {m, i} \in SUBSET F
        BY <2>4, <3>1
      <4> QED
        BY <4>5, <4>6, <4>7, Zenon
    <3>3. Cardinality(F) >= 2 /\ Cardinality(F) \in Nat
      BY <1>1, <3>2, FS_Subset, FS_CardinalityType
    <3>4. PICK k \in F : Cardinality(Below(F, k)) = 2 - 1
      BY <1>1, <3>3, Ranks
    <3>5. PICK l \in F : Cardinality(Below(F, l)) = 1 - 1
      BY <1>1, <3>3, Ranks
    <3>6. l \in S
      BY <1>2, <3>5
    <3> QED
      BY <2>2, <3>4, <3>5, <3>6
  <2> QED
    BY <1>2, <2>2, <2>5
<1>8. CASE P # {}
  <2> SUFFICES ASSUME t[Max(P)] = c.token, P # S PROVE FALSE
    BY <1>4, <1>8
  <2>1. Max(P) \in P
    BY <1>1, <1>5, <1>8, MaxSpec
  <2>2. PICK k \in S : t[k] = c.token /\ k \in c.rows
    BY <1>3
  <2>3. k = Max(P)
    BY <1>5, <1>6, <2>1, <2>2
  <2> QED
    BY <1>3, <2>1, <2>2, <2>3
<1> QED
  BY <1>7, <1>8

\* Where no two rows of a table share a token, and a page has more than one row, no page wraps:
\* the pages of a batch do not come round, and do not end before the rows do
\* (selectBatchFromTableByToken, script_node_def.go: rowset_size).
THEOREM PagesDoNotWrap ==
  ASSUME SeparateTokens, RowsetSize > 1
  PROVE  Spec => []~wrapped
<1>1. Init /\ QInv => SInv
  <2> SUFFICES ASSUME Init, QInv PROVE SInv
    OBVIOUS
  <2>1. ProducerTypes /\ wrapped = FALSE
    BY DEF QInv, TInv, Init
  <2>2. ByTokens => cursor.token = FirstToken /\ cursor.rows = {}
    BY DEF Init, Cursor, ByTokens, Custom
  <2>3. MayRead => CursorFits(source.tokens, cursor, FirstToken, LastToken)
    BY <2>2, TableAssumption DEF MayRead, CursorFits
  <2> QED
    BY <2>1, <2>3 DEF SInv
<1>2. SInv /\ QInv /\ QInv' /\ [Next]_vars => SInv'
  <2> SUFFICES ASSUME SInv, QInv, QInv', [Next]_vars PROVE SInv'
    OBVIOUS
  <2>0. /\ ProducerTypes /\ ProducerTypes' /\ TInv /\ ~wrapped /\ phase \in Phases
        /\ MayRead => CursorFits(source.tokens, cursor, FirstToken, LastToken)
    BY DEF SInv, QInv, TInv, ProducerTypes
  <2> DEFINE t == source.tokens
             c == NextCursor(t, RowsetSize, cursor, LastToken)
             P == PageRows(t, RowsetSize, cursor, LastToken)
  <2>1. CASE ReadPage
    <3>1. /\ phase = "read" /\ ByTokens /\ MayRead /\ UNCHANGED source
          /\ cursor' = c /\ Got(Ascending(P))
          /\ wrapped' = (wrapped \/ Wraps(t, RowsetSize, cursor, LastToken))
      BY <2>1 DEF ReadPage, Reading, ByTokens, MayRead, AllRead, Ending, UnchangedByReading
    <3>0. Sorted(t)
      BY <2>0, SourceSorted
    <3>2. /\ Sorted(t) /\ RowsetSize \in Nat \ {0} /\ FirstToken \in Int /\ LastToken \in Int
          /\ cursor \in [token : Int, rows : SUBSET Nat] /\ source \in Sources
      BY <2>0, <3>0, TableAssumption DEF ProducerTypes
    <3>3. \A i, j \in 1..Len(t) : i # j => t[i] # t[j]
      BY <3>1, <3>2 DEF SeparateTokens, ByTokens
    <3>4. ~Wraps(t, RowsetSize, cursor, LastToken)
      <4> HIDE DEF t
      <4> QED
        BY <3>2, <3>3, PageGoesOn
    <3>5. P # {} => CursorFits(t, c, FirstToken, LastToken)
      <4>1. CursorFits(t, cursor, FirstToken, LastToken)
        BY <2>0, <3>1
      <4> HIDE DEF t
      <4> QED
        BY <3>2, <3>4, <4>1, PageStep
    <3>6. P = {} => ~MayRead'
      <4> SUFFICES ASSUME P = {} PROVE ~MayRead'
        OBVIOUS
      <4>0. Len(Ascending(P)) = Cardinality(P) /\ Ascending(P) \in Seq(Nat)
        BY <2>0, PageTyped
      <4>1. Len(Ascending(P)) = 0 /\ Ascending(P) \in Seq(Nat)
        BY <4>0, FS_EmptySet
      <4>2. Ascending(P) = <<>>
        BY <4>1
      <4>3. phase' = "close" \/ (phase' = "wait" /\ ~IsCustom')
        BY <3>1, <4>2, GotCases DEF IsCustom
      <4> QED
        BY <4>3 DEF MayRead, AllRead, Ending
    <3>7. source'.tokens = t
      BY <3>1
    <3> HIDE DEF P, c, t
    <3> QED
      BY <2>0, <3>1, <3>4, <3>5, <3>6, <3>7 DEF SInv
  <2>2. CASE ~ReadPage
    <3>1. /\ UNCHANGED <<source, wrapped>> /\ (ByTokens => UNCHANGED cursor)
          /\ MayRead' => MayRead
      <4>1. CASE Producer
        <5>1. CASE ReadCsvLine \/ ReadParquetRow
          BY <5>1 DEF ReadCsvLine, ReadParquetRow, UnchangedByReading, Reading, ByTokens, MayRead,
             Custom
        <5>2. CASE ~(ReadCsvLine \/ ReadParquetRow)
          <6>1. UNCHANGED <<source, wrapped, cursor>>
            BY <2>2, <4>1, <5>2 DEF Producer, Open, OpenFails, ReadFails, Flush, SkipRow,
               EvalFails, AddRecord, CountRecord, EndRows, Wait, Close, Return
          <6>2. phase' # "failed" /\ ~Ending' /\ ~(~IsCustom /\ phase' = "wait") =>
                  phase # "failed" /\ ~Ending /\ ~(~IsCustom /\ phase = "wait")
            BY <2>2, <4>1, <5>2 DEF Producer, Open, OpenFails, ReadFails, Flush, SkipRow,
               EvalFails, AddRecord, CountRecord, EndRows, Wait, Close, Return, Cancel, Ending,
               IsCustom
          <6> QED
            BY <6>1, <6>2 DEF MayRead, AllRead, ByTokens, IsCustom
        <5> QED
          BY <5>1, <5>2
      <4>2. CASE UNCHANGED <<source, producer>>
        BY <4>2 DEF producer, MayRead, AllRead, Ending, ByTokens, IsCustom
      <4>3. Producer \/ UNCHANGED <<source, producer>>
        <5>1. \A w \in Workers : Worker(w) => UNCHANGED <<source, producer>>
          BY <2>0, WorkerMoves
        <5>2. Drainer => UNCHANGED <<source, producer>>
          BY DEF Drainer, DrainStatus, DrainSignal, DrainTimeout, DrainComplete
        <5>3. UNCHANGED vars => UNCHANGED <<source, producer>>
          BY DEF vars
        <5> QED
          BY <5>1, <5>2, <5>3 DEF Next, Stopped
      <4> QED
        BY <4>1, <4>2, <4>3
    <3>2. MayRead' => UNCHANGED <<source, cursor>> /\ MayRead
      BY <3>1 DEF MayRead
    <3>3. MayRead' => CursorFits(source'.tokens, cursor', FirstToken, LastToken)
      BY <2>0, <3>2
    <3> QED
      BY <2>0, <3>1, <3>3 DEF SInv
  <2> QED
    BY <2>1, <2>2
<1>3. SInv => ~wrapped
  BY DEF SInv
<1> QED
  BY <1>1, <1>2, <1>3, QuietInvariant, PTL DEF Spec

\* Then a batch that reports success has written every record it is there for, none dropped and
\* none left for another batch ("would silently drop all remaining source rows and still report
\* the batch as successful", runCreateTableForBatch).
THEOREM AllWrittenHolds ==
  ASSUME SeparateTokens, RowsetSize > 1
  PROVE  Spec => []AllWritten
<1>1. Spec => []~wrapped
  BY PagesDoNotWrap
<1>2. WrittenIsExact /\ ~wrapped => AllWritten
  BY DEF WrittenIsExact, AllWritten
<1> QED
  BY <1>1, <1>2, WrittenIsExactHolds, PTL
===============================================================================
