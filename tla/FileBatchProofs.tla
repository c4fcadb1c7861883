---------------------------- MODULE FileBatchProofs -----------------------------
(***************************************************************************)
(* Two proofs about the batch that writes a file.                          *)
(*                                                                         *)
(* That the channels of the file inserter are closed only when the worker  *)
(* is done with them.  The producer does not see the worker: it counts the *)
(* blocks it has sent and the statuses it has received, on the way and     *)
(* after an error.  The proof is that this counter is the number of blocks *)
(* and statuses under way.                                                 *)
(*                                                                         *)
(* That the file of a batch that reports success is exact.  The file, the  *)
(* block that the worker has in hand, the channel and the block that is    *)
(* being filled are one line, in which each record given to the inserter   *)
(* stands once and in its order, unless there was an error that the        *)
(* producer knows of or has yet to be told.  The front of the line is the  *)
(* file, or the row group of the Parquet writer until that is closed.      *)
(***************************************************************************)
EXTENDS FileBatch, TLAPS, FiniteSetTheorems

WorkerAts == {"start", "idle", "write", "good", "bad", "footer", "exit"}

Typed ==
  /\ block \in Seq(Passing) /\ blocksIn \in Seq(Seq(Passing)) /\ statuses \in Seq(BOOLEAN)
  /\ sent \in Nat /\ closed \in BOOLEAN
  /\ "at" \in DOMAIN worker /\ worker.at \in WorkerAts

\* Blocks that the worker has in hand.
InHand == IF worker.at \in {"write", "good", "bad"} THEN 1 ELSE 0

\* "The number of errors to receive eventually should match instr.BatchesSent".
Counted == sent = Len(blocksIn) + InHand + Len(statuses)

NotYetStarted == phase = "create" => worker.at = "exit"

ClosedAtTheEnd == closed => sent = 0 /\ phase \in {"stat", "upload", "done", "failed"}

IInv == Typed /\ Counted /\ NotYetStarted /\ ClosedAtTheEnd

-------------------------------------------------------------------------------
LEMMA InitIInv == Init => IInv
<1> SUFFICES ASSUME Init PROVE IInv
  OBVIOUS
<1>1. /\ block = <<>> /\ blocksIn = <<>> /\ statuses = <<>> /\ sent = 0 /\ closed = FALSE
      /\ "at" \in DOMAIN worker /\ worker.at = "exit"
  BY DEF Init
<1>2. block \in Seq(Passing) /\ blocksIn \in Seq(Seq(Passing)) /\ statuses \in Seq(BOOLEAN)
  <2>1. ASSUME NEW S PROVE <<>> \in Seq(S)
    OBVIOUS
  <2>2. QED
    BY <1>1, <2>1
<1>3. Len(blocksIn) = 0 /\ Len(statuses) = 0
  BY <1>1
<1>4. InHand = 0
  BY <1>1 DEF InHand
<1>5. Typed
  BY <1>1, <1>2 DEF Typed, WorkerAts
<1>6. Counted
  BY <1>1, <1>3, <1>4 DEF Counted
<1>7. QED
  BY <1>1, <1>5, <1>6 DEF IInv, NotYetStarted, ClosedAtTheEnd

\* The producer's steps that touch no channel.
LEMMA QuietProducerKeepsIInv ==
  ASSUME IInv,
         \/ Create \/ CreateFails \/ ReadPage \/ ReadFails \/ SkipRow \/ PushRow \/ EndRows
         \/ CheckDone \/ Stat \/ Upload
  PROVE  IInv'
<1>1. UNCHANGED <<block, blocksIn, sent, statuses, closed>>
  BY DEF Create, CreateFails, ReadPage, ReadFails, SkipRow, PushRow, EndRows, CheckDone, Stat,
         Upload, sending
<1>2. CASE Create
  <2>1. "at" \in DOMAIN worker' /\ worker'.at = "start" /\ phase' = "read"
    BY <1>2 DEF Create, IInv, Typed
  <2>2. worker.at = "exit" /\ phase = "create"
    BY <1>2 DEF Create, IInv, NotYetStarted
  <2>3. QED
    BY <1>1, <2>1, <2>2 DEF IInv, Typed, WorkerAts, Counted, InHand, NotYetStarted, ClosedAtTheEnd
<1>3. CASE ~Create
  <2>1. worker' = worker /\ phase' # "create"
    BY <1>3 DEF CreateFails, ReadPage, ReadFails, SkipRow, PushRow, EndRows, CheckDone, Stat,
                Upload, AtRow
  <2>2. phase \in {"stat", "upload", "done", "failed"} =>
          phase' \in {"stat", "upload", "done", "failed"}
    BY <1>3 DEF CreateFails, ReadPage, ReadFails, SkipRow, PushRow, EndRows, CheckDone, Stat,
                Upload, AtRow
  <2>3. QED
    BY <1>1, <2>1, <2>2 DEF IInv, Typed, Counted, InHand, NotYetStarted, ClosedAtTheEnd
<1>4. QED
  BY <1>2, <1>3

LEMMA AppendedTo ==
  ASSUME NEW S, NEW s \in Seq(S), NEW x \in S
  PROVE  Append(s, x) \in Seq(S) /\ Len(Append(s, x)) = Len(s) + 1
OBVIOUS

LEMMA TakenFrom ==
  ASSUME NEW S, NEW s \in Seq(S), s # <<>>
  PROVE  Tail(s) \in Seq(S) /\ Len(Tail(s)) = Len(s) - 1 /\ Len(s) \in Nat \ {0}
OBVIOUS

\* A block is sent, by add or by waitForWorker.
LEMMA SendingKeepsIInv ==
  ASSUME IInv, AddRow \/ SendLeftover
  PROVE  IInv'
<1>1. /\ phase \in {"rows", "top", "leftover"} /\ phase' \in {"rows", "top", "settle"}
      /\ UNCHANGED <<worker, statuses, closed>>
  BY DEF AddRow, SendLeftover, AtRow
<1>2. ~closed
  BY <1>1 DEF IInv, ClosedAtTheEnd
<1>3. \/ block' \in Seq(Passing) /\ UNCHANGED <<blocksIn, sent>>
      \/ \E b \in Seq(Passing) :
           blocksIn' = Append(blocksIn, b) /\ sent' = sent + 1 /\ block' = <<>>
  <2>1. CASE AddRow
    <3>1. PICK i \in Passing :
            IF Len(block) + 1 < BlockSize
            THEN block' = Append(block, i) /\ UNCHANGED <<blocksIn, sent>>
            ELSE /\ blocksIn' = Append(blocksIn, Append(block, i))
                 /\ sent' = sent + 1 /\ block' = <<>>
      BY <2>1 DEF AddRow
    <3>2. Append(block, i) \in Seq(Passing)
      BY AppendedTo DEF IInv, Typed
    <3>3. QED
      BY <3>1, <3>2
  <2>2. CASE SendLeftover
    BY <2>2 DEF SendLeftover, IInv, Typed
  <2>3. QED
    BY <2>1, <2>2
<1>4. CASE block' \in Seq(Passing) /\ UNCHANGED <<blocksIn, sent>>
  BY <1>1, <1>2, <1>4 DEF IInv, Typed, Counted, InHand, NotYetStarted, ClosedAtTheEnd
<1>5. ASSUME NEW b \in Seq(Passing),
             blocksIn' = Append(blocksIn, b) /\ sent' = sent + 1 /\ block' = <<>>
      PROVE  IInv'
  <2>1. blocksIn' \in Seq(Seq(Passing)) /\ Len(blocksIn') = Len(blocksIn) + 1
    BY <1>5, AppendedTo DEF IInv, Typed
  <2>2. Len(blocksIn) \in Nat /\ Len(statuses) \in Nat /\ sent \in Nat
    BY DEF IInv, Typed
  <2>3. Typed'
    <3>1. block' \in Seq(Passing)
      BY <1>5
    <3>2. sent' \in Nat
      BY <1>5, <2>2
    <3>3. statuses' \in Seq(BOOLEAN) /\ closed' \in BOOLEAN
      BY <1>1 DEF IInv, Typed
    <3>4. "at" \in DOMAIN worker' /\ worker'.at \in WorkerAts
      BY <1>1 DEF IInv, Typed
    <3>5. QED
      BY <2>1, <3>1, <3>2, <3>3, <3>4 DEF Typed
  <2>4. Counted'
    <3>1. InHand' = InHand /\ InHand \in Nat
      BY <1>1 DEF InHand
    <3>2. sent = Len(blocksIn) + InHand + Len(statuses)
      BY DEF IInv, Counted
    <3>3. sent' = sent + 1 /\ Len(statuses') = Len(statuses)
      BY <1>1, <1>5
    <3>4. sent' = Len(blocksIn') + InHand' + Len(statuses')
      BY <2>1, <2>2, <3>1, <3>2, <3>3
    <3>5. QED
      BY <3>4 DEF Counted
  <2>5. QED
    BY <1>1, <1>2, <2>3, <2>4 DEF IInv, NotYetStarted, ClosedAtTheEnd
<1>6. QED
  BY <1>3, <1>4, <1>5

\* A status is received, or the last one has been.
LEMMA SettlingKeepsIInv ==
  ASSUME IInv, CheckStatus \/ AwaitStatus \/ CloseChannels
  PROVE  IInv'
<1>0. Len(blocksIn) \in Nat /\ Len(statuses) \in Nat /\ sent \in Nat
  BY DEF IInv, Typed
<1>1. CASE CheckStatus \/ AwaitStatus
  <2>1. /\ statuses # <<>> /\ statuses' = Tail(statuses) /\ sent' = sent - 1
        /\ phase' = phase /\ phase \in {"check", "settle"}
        /\ UNCHANGED <<worker, block, blocksIn, closed>>
    BY <1>1 DEF CheckStatus, AwaitStatus, Settle
  <2>2. /\ statuses' \in Seq(BOOLEAN) /\ Len(statuses') = Len(statuses) - 1
        /\ Len(statuses) > 0
    BY <2>1, TakenFrom DEF IInv, Typed
  <2>3. sent' \in Nat /\ Counted'
    BY <1>0, <2>1, <2>2 DEF IInv, Counted, InHand
  <2>4. QED
    BY <2>1, <2>2, <2>3 DEF IInv, Typed, NotYetStarted, ClosedAtTheEnd
<1>2. CASE CloseChannels
  <2>1. /\ sent = 0 /\ closed' = TRUE /\ phase' \in {"stat", "done", "failed"}
        /\ UNCHANGED <<worker, block, blocksIn, sent, statuses>>
    BY <1>2 DEF CloseChannels, sending
  <2>2. QED
    BY <2>1 DEF IInv, Typed, Counted, InHand, NotYetStarted, ClosedAtTheEnd
<1>3. QED
  BY <1>1, <1>2

\* A block goes from the channel to the worker, and from the worker to the statuses.
LEMMA WorkerKeepsIInv ==
  ASSUME IInv, Worker
  PROVE  IInv'
<1>0. Len(blocksIn) \in Nat /\ Len(statuses) \in Nat /\ sent \in Nat
  BY DEF IInv, Typed
<1>1. UNCHANGED <<phase, block, sent, closed>> /\ worker.at # "exit"
  BY DEF Worker, Open, TakeBlock, WriteCsv, WriteParquet, Answer, Report, Finish, WriteFooter,
         Static
<1>2. phase # "create"
  BY <1>1 DEF IInv, NotYetStarted
<1>3. "at" \in DOMAIN worker' /\ worker'.at \in WorkerAts
  BY DEF Worker, Open, TakeBlock, WriteCsv, WriteParquet, Wrote, Grouped, Answer, Finish,
         WriteFooter, CloseFails, WorkerAts, IInv, Typed
<1>4. CASE TakeBlock
  <2>1. /\ worker.at = "idle" /\ worker'.at \in {"write", "bad"} /\ statuses' = statuses
        /\ blocksIn # <<>> /\ blocksIn' = Tail(blocksIn)
    BY <1>4 DEF TakeBlock, IInv, Typed
  <2>2. blocksIn' \in Seq(Seq(Passing)) /\ Len(blocksIn') = Len(blocksIn) - 1
    BY <2>1, TakenFrom DEF IInv, Typed
  <2>3. Counted'
    BY <1>0, <1>1, <2>1, <2>2 DEF IInv, Counted, InHand
  <2>4. QED
    BY <1>1, <1>2, <1>3, <2>1, <2>2, <2>3 DEF IInv, Typed, NotYetStarted, ClosedAtTheEnd
<1>5. CASE Answer
  <2>1. /\ worker.at \in {"good", "bad"} /\ worker'.at = "idle" /\ blocksIn' = blocksIn
        /\ \E good \in BOOLEAN : statuses' = Append(statuses, good)
    BY <1>5 DEF Answer, Report, IInv, Typed
  <2>2. statuses' \in Seq(BOOLEAN) /\ Len(statuses') = Len(statuses) + 1
    BY <2>1, AppendedTo DEF IInv, Typed
  <2>3. Counted'
    BY <1>0, <1>1, <2>1, <2>2 DEF IInv, Counted, InHand
  <2>4. QED
    BY <1>1, <1>2, <1>3, <2>1, <2>2, <2>3 DEF IInv, Typed, NotYetStarted, ClosedAtTheEnd
<1>6. CASE Open \/ WriteCsv \/ WriteParquet \/ Finish \/ WriteFooter
  <2>1. /\ UNCHANGED <<blocksIn, statuses>>
        /\ \/ worker.at = "write" /\ worker'.at \in {"good", "bad"}
           \/ /\ worker.at \in {"start", "idle", "footer"}
              /\ worker'.at \in {"idle", "footer", "exit"}
    BY <1>6 DEF Open, WriteCsv, WriteParquet, Wrote, Grouped, Finish, WriteFooter, CloseFails,
                IInv, Typed
  <2>2. Counted'
    BY <1>1, <2>1 DEF IInv, Counted, InHand
  <2>3. QED
    BY <1>1, <1>2, <1>3, <2>1, <2>2 DEF IInv, Typed, NotYetStarted, ClosedAtTheEnd
<1>7. QED
  BY <1>4, <1>5, <1>6 DEF Worker

LEMMA StepIInv == IInv /\ [Next]_vars => IInv'
<1> SUFFICES ASSUME IInv, [Next]_vars PROVE IInv'
  OBVIOUS
<1>1. CASE UNCHANGED vars
  BY <1>1 DEF vars, reading, sending, IInv, Typed, Counted, InHand, NotYetStarted, ClosedAtTheEnd
<1>2. CASE Stopped
  BY <1>2 DEF Stopped, vars, reading, sending, IInv, Typed, Counted, InHand, NotYetStarted,
              ClosedAtTheEnd
<1>3. CASE Producer
  BY <1>3, QuietProducerKeepsIInv, SendingKeepsIInv, SettlingKeepsIInv DEF Producer
<1>4. CASE Worker
  BY <1>4, WorkerKeepsIInv
<1> QED
  BY <1>1, <1>2, <1>3, <1>4 DEF Next

\* In every batch that writes a file the counter is right, also when the producer gives up in the
\* middle of a page.
THEOREM IInvHolds == Spec => []IInv
  BY InitIInv, StepIInv, PTL DEF Spec

\* The worker never sends a status to a closed channel, which would end the daemon, whatever fails
\* in the producer or in the worker and however long the worker takes (checkWorkerOutputForErrors,
\* waitForWorker).
THEOREM NoSendOnClosedHolds == Spec => []NoSendOnClosed
<1>1. IInv => NoSendOnClosed
  <2> SUFFICES ASSUME IInv, closed PROVE NoSendOnClosed
    BY DEF NoSendOnClosed
  <2>1. Len(blocksIn) \in Nat /\ Len(statuses) \in Nat
    BY DEF IInv, Typed
  <2>2. Len(blocksIn) = 0 /\ Len(statuses) = 0 /\ InHand = 0
    BY <2>1 DEF IInv, Counted, InHand, ClosedAtTheEnd
  <2>3. blocksIn = <<>> /\ statuses = <<>>
    BY <2>2 DEF IInv, Typed
  <2>4. QED
    BY <2>2, <2>3 DEF IInv, Typed, WorkerAts, InHand, NoSendOnClosed
<1>2. QED
  BY <1>1, IInvHolds, PTL

-------------------------------------------------------------------------------
(* Rows in order; TableBatchProofs has the same facts for tokens that rows share. *)

Elements(s) == {s[k] : k \in 1..Len(s)}
Increasing(s) == \A k, l \in 1..Len(s) : k < l => s[k] < s[l]
Below(S, i) == {j \in S : j < i}

\* How many elements of a finite set of numbers lie below one of them.
LEMMA Ranks ==
  ASSUME NEW S, S \subseteq Int, IsFiniteSet(S)
  PROVE  /\ \A i \in S : Cardinality(Below(S, i)) \in 0..Cardinality(S) - 1
         /\ \A i, k \in S : i < k => Cardinality(Below(S, i)) < Cardinality(Below(S, k))
         /\ \A n \in 1..Cardinality(S) : \E i \in S : Cardinality(Below(S, i)) = n - 1
<1>1. Cardinality(S) \in Nat
  BY FS_CardinalityType
<1>2. ASSUME NEW i \in S
      PROVE  /\ IsFiniteSet(Below(S, i)) /\ Cardinality(Below(S, i)) \in Nat
             /\ Cardinality(Below(S, i)) <= Cardinality(S) - 1
  <2>1. IsFiniteSet(S \ {i}) /\ Cardinality(S \ {i}) = Cardinality(S) - 1
    BY FS_RemoveElement
  <2>2. Below(S, i) \in SUBSET (S \ {i})
    BY DEF Below
  <2>3. IsFiniteSet(Below(S, i)) /\ Cardinality(Below(S, i)) <= Cardinality(S \ {i})
    BY <2>1, <2>2, FS_Subset
  <2>4. Cardinality(Below(S, i)) \in Nat
    BY <2>3, FS_CardinalityType
  <2> QED
    BY <1>1, <2>1, <2>3, <2>4
<1>3. ASSUME NEW i \in S, NEW k \in S, i < k
      PROVE  Cardinality(Below(S, i)) < Cardinality(Below(S, k))
  <2>0. i \in Int /\ k \in Int /\ \A j \in S : j \in Int
    OBVIOUS
  <2>1. Below(S, i) \in SUBSET Below(S, k) /\ i \in Below(S, k) /\ i \notin Below(S, i)
    <3>1. ASSUME NEW j \in Below(S, i)
          PROVE  j \in Below(S, k)
      <4>1. j \in S /\ j < i
        BY DEF Below
      <4>2. j < k
        BY <1>3, <2>0, <4>1
      <4> QED
        BY <4>1, <4>2 DEF Below
    <3>2. i \in Below(S, k)
      BY <1>3 DEF Below
    <3>3. ~(i < i)
      BY <2>0
    <3> QED
      BY <3>1, <3>2, <3>3 DEF Below
  <2>2. /\ Cardinality(Below(S, i)) <= Cardinality(Below(S, k))
        /\ Cardinality(Below(S, k)) = Cardinality(Below(S, i)) => Below(S, k) = Below(S, i)
    BY <1>2, <2>1, FS_Subset
  <2> QED
    BY <1>2, <2>1, <2>2
<1> DEFINE f == [i \in S |-> Cardinality(Below(S, i))]
           T == 0..Cardinality(S) - 1
<1>4. \A i \in S : Cardinality(Below(S, i)) \in T
  BY <1>1, <1>2
<1>5. f \in Injection(S, T)
  <2>1. f \in [S -> T]
    BY <1>4
  <2>2. ASSUME NEW i \in S, NEW k \in S, f[i] = f[k]
        PROVE  i = k
    <3>1. ~(i < k) /\ ~(k < i)
      BY <1>2, <1>3, <2>2
    <3> QED
      BY <3>1
  <2> QED
    BY <2>1, <2>2 DEF Injection, IsInjective
<1>6. IsFiniteSet(T) /\ Cardinality(T) = Cardinality(S)
  <2>1. IsFiniteSet(T) /\ Cardinality(T) = IF 0 > Cardinality(S) - 1 THEN 0
                                           ELSE Cardinality(S) - 1 - 0 + 1
    BY <1>1, FS_Interval
  <2> QED
    BY <1>1, <2>1
<1>7. f \in Surjection(S, T)
  BY <1>5, <1>6, FS_Injection
<1>8. ASSUME NEW n \in 1..Cardinality(S)
      PROVE  \E i \in S : Cardinality(Below(S, i)) = n - 1
  <2>1. n - 1 \in T
    BY <1>1
  <2>2. PICK i \in S : f[i] = n - 1
    BY <1>7, <2>1 DEF Surjection
  <2> QED
    BY <2>2
<1> QED
  BY <1>3, <1>4, <1>8

\* The rows of a page come one after the other, each once, in the order of the table (the rowset
\* of selectBatchFromTableByToken).
LEMMA AscendingSpec ==
  ASSUME NEW S, S \subseteq Nat, IsFiniteSet(S)
  PROVE  /\ Ascending(S) \in Seq(S) /\ Len(Ascending(S)) = Cardinality(S)
         /\ Increasing(Ascending(S))
         /\ {Ascending(S)[k] : k \in 1..Len(Ascending(S))} = S
<1>1. Cardinality(S) \in Nat
  BY FS_CardinalityType
<1> DEFINE A == Ascending(S)
<1>2. A = [k \in 1..Cardinality(S) |-> CHOOSE i \in S : Cardinality(Below(S, i)) = k - 1]
  BY DEF Ascending, Below
<1>3. /\ \A i \in S : Cardinality(Below(S, i)) \in 0..Cardinality(S) - 1
      /\ \A i, k \in S : i < k => Cardinality(Below(S, i)) < Cardinality(Below(S, k))
      /\ \A n \in 1..Cardinality(S) : \E i \in S : Cardinality(Below(S, i)) = n - 1
  <2>1. S \subseteq Int
    OBVIOUS
  <2> QED
    BY <2>1, Ranks
<1>4. ASSUME NEW k \in 1..Cardinality(S)
      PROVE  A[k] \in S /\ Cardinality(Below(S, A[k])) = k - 1
  <2>1. \E i \in S : Cardinality(Below(S, i)) = k - 1
    BY <1>3
  <2>2. A[k] = CHOOSE i \in S : Cardinality(Below(S, i)) = k - 1
    BY <1>2
  <2> QED
    BY <2>1, <2>2
<1> HIDE DEF A
<1>5. A \in Seq(S) /\ Len(A) = Cardinality(S)
  <2>1. A \in [1..Cardinality(S) -> S]
    BY <1>2, <1>4
  <2> QED
    BY <1>1, <2>1
<1>6. Increasing(A)
  <2>1. ASSUME NEW k \in 1..Len(A), NEW l \in 1..Len(A), k < l
        PROVE  A[k] < A[l]
    <3>1. /\ A[k] \in S /\ Cardinality(Below(S, A[k])) = k - 1
          /\ A[l] \in S /\ Cardinality(Below(S, A[l])) = l - 1
      BY <1>4, <1>5
    <3>0. 1..Len(A) \subseteq Int /\ \A x \in S : x \in Int
      BY <1>1, <1>5
    <3>2. A[k] \in Int /\ A[l] \in Int /\ k \in Int /\ l \in Int
      BY <3>0, <3>1
    <3>3. k - 1 < l - 1 /\ ~(l - 1 < k - 1)
      BY <2>1, <3>2
    <3>4. A[k] # A[l]
      BY <3>1, <3>3
    <3>5. A[l] < A[k] => Cardinality(Below(S, A[l])) < Cardinality(Below(S, A[k]))
      BY <1>3, <3>1
    <3>6. ~(A[l] < A[k])
      BY <3>1, <3>3, <3>5
    <3> QED
      BY <3>2, <3>4, <3>6
  <2> QED
    BY <2>1 DEF Increasing
<1>7. ASSUME NEW i \in S
      PROVE  \E k \in 1..Len(A) : A[k] = i
  <2> DEFINE k == Cardinality(Below(S, i)) + 1
  <2>0. Cardinality(Below(S, i)) \in 0..Cardinality(S) - 1
    BY <1>3
  <2>1. k \in 1..Cardinality(S) /\ k - 1 = Cardinality(Below(S, i))
    BY <1>1, <2>0
  <2> HIDE DEF k
  <2>2. A[k] \in S /\ Cardinality(Below(S, A[k])) = Cardinality(Below(S, i))
    BY <1>4, <2>1
  <2>3. ~(A[k] < i) /\ ~(i < A[k])
    <3>1. Cardinality(Below(S, i)) \in Int
      BY <1>1, <2>0
    <3>2. ~(Cardinality(Below(S, A[k])) < Cardinality(Below(S, i)))
          /\ ~(Cardinality(Below(S, i)) < Cardinality(Below(S, A[k])))
      BY <2>2, <3>1
    <3> QED
      BY <1>3, <2>2, <3>2
  <2>4. A[k] = i
    <3>0. \A x \in S : x \in Int
      OBVIOUS
    <3>1. A[k] \in Int /\ i \in Int
      BY <2>2, <3>0
    <3> QED
      BY <2>3, <3>1
  <2> QED
    BY <1>5, <2>1, <2>4
<1>8. {A[k] : k \in 1..Len(A)} = S
  BY <1>4, <1>5, <1>7
<1> QED
  BY <1>5, <1>6, <1>8 DEF A

\* The largest element of a finite set of numbers.
LEMMA MaxSpec ==
  ASSUME NEW S, S \subseteq Int, S # {}, IsFiniteSet(S)
  PROVE  Max(S) \in S /\ \A i \in S : i <= Max(S)
<1>1. Cardinality(S) \in Nat /\ Cardinality(S) # 0
  BY FS_CardinalityType, FS_EmptySet
<1>2. Cardinality(S) \in 1..Cardinality(S)
  BY <1>1
<1>3. PICK m \in S : Cardinality(Below(S, m)) = Cardinality(S) - 1
  BY <1>2, Ranks
<1>4. ASSUME NEW i \in S
      PROVE  m >= i
  <2>1. m < i => Cardinality(Below(S, m)) < Cardinality(Below(S, i))
    BY Ranks
  <2>2. Cardinality(Below(S, i)) \in 0..Cardinality(S) - 1
    BY Ranks
  <2>3. ~(m < i)
    BY <1>1, <1>3, <2>1, <2>2
  <2>4. m \in Int /\ i \in Int
    OBVIOUS
  <2> QED
    BY <2>3, <2>4
<1>5. \E x \in S : \A y \in S : x >= y
  BY <1>4
<1>6. Max(S) \in S /\ \A y \in S : Max(S) >= y
  BY <1>5 DEF Max
<1>7. Max(S) \in Int /\ \A i \in S : i \in Int
  BY <1>6
<1> QED
  BY <1>6, <1>7

-------------------------------------------------------------------------------
(* Pages. *)


\* The elements of a sequence of rows.
LEMMA ElementsSpec ==
  ASSUME NEW s \in Seq(Nat)
  PROVE  /\ Elements(s) \subseteq Nat /\ IsFiniteSet(Elements(s))
         /\ Increasing(s) => Cardinality(Elements(s)) = Len(s)
<1>1. Len(s) \in Nat /\ \A k \in 1..Len(s) : s[k] \in Nat
  OBVIOUS
<1>2. Elements(s) \subseteq Nat
  BY <1>1 DEF Elements
<1>3. IsFiniteSet(1..Len(s)) /\ Cardinality(1..Len(s)) = Len(s)
  <2>1. /\ IsFiniteSet(1..Len(s))
        /\ Cardinality(1..Len(s)) = IF 1 > Len(s) THEN 0 ELSE Len(s) - 1 + 1
    BY <1>1, FS_Interval
  <2> QED
    BY <1>1, <2>1
<1> DEFINE f == [k \in 1..Len(s) |-> s[k]]
<1>4. f \in [1..Len(s) -> Elements(s)]
  BY DEF Elements
<1>5. \A e \in Elements(s) : \E k \in 1..Len(s) : f[k] = e
  BY DEF Elements
<1>6. f \in Surjection(1..Len(s), Elements(s))
  BY <1>4, <1>5 DEF Surjection
<1>7. IsFiniteSet(Elements(s))
  BY <1>3, <1>6, FS_Surjection
<1>8. ASSUME Increasing(s)
      PROVE  Cardinality(Elements(s)) = Len(s)
  <2>1. ASSUME NEW k \in 1..Len(s), NEW l \in 1..Len(s), f[k] = f[l]
        PROVE  k = l
    <3>1. k \in Int /\ l \in Int /\ s[k] \in Int /\ s[l] \in Int /\ s[k] = s[l]
      BY <1>1, <2>1
    <3>2. ~(k < l) /\ ~(l < k)
      <4>1. ~(s[k] < s[l]) /\ ~(s[l] < s[k])
        BY <3>1
      <4> QED
        BY <1>8, <4>1 DEF Increasing
    <3> QED
      BY <3>1, <3>2
  <2> HIDE DEF f
  <2>2. f \in Injection(1..Len(s), Elements(s))
    BY <1>4, <2>1 DEF Injection, IsInjective
  <2> QED
    BY <1>3, <1>6, <2>2, FS_Surjection
<1> QED
  BY <1>2, <1>7, <1>8

\* There is only one way to put rows in order.
LEMMA OneOrder ==
  ASSUME NEW s \in Seq(Nat), Increasing(s)
  PROVE  s = Ascending(Elements(s))
<1> DEFINE S == Elements(s)
           a == Ascending(S)
<1>1. S \subseteq Nat /\ IsFiniteSet(S) /\ Cardinality(S) = Len(s) /\ S \subseteq Int
  BY ElementsSpec
<1>2. a \in Seq(S) /\ Len(a) = Len(s) /\ Increasing(a) /\ Elements(a) = S
  BY <1>1, AscendingSpec DEF Elements
<1> HIDE DEF a
<1>3. Len(s) \in Nat /\ \A k \in 1..Len(s) : s[k] \in S /\ a[k] \in S /\ k \in Int
  <2>1. Len(s) \in Nat /\ \A k \in 1..Len(s) : k \in Int
    OBVIOUS
  <2>2. \A k \in 1..Len(s) : s[k] \in S
    BY DEF Elements
  <2> HIDE DEF S
  <2>3. \A k \in 1..Len(s) : a[k] \in S
    BY <1>2
  <2> QED
    BY <2>1, <2>2, <2>3
<1>4. \A i \in S : i \in Int
  BY <1>1
<1>5. ASSUME NEW x, x \in {s, a}, NEW k \in 1..Len(s)
      PROVE  Cardinality(Below(S, x[k])) = k - 1
  <2> DEFINE f == [l \in 1..k-1 |-> x[l]]
             B == Below(S, x[k])
  <2>1. Elements(x) = S /\ Increasing(x) /\ Len(x) = Len(s) /\ \A l \in 1..Len(s) : x[l] \in S
    BY <1>2, <1>3, <1>5
  <2>2. \A l \in 1..k-1 : l \in 1..Len(s) /\ l < k
    BY <1>3
  <2>3. \A l \in 1..k-1 : x[l] \in B
    BY <2>1, <2>2, <1>3 DEF Increasing, Below
  <2>4. ASSUME NEW i \in B PROVE \E l \in 1..k-1 : x[l] = i
    <3>1. i \in S /\ i < x[k]
      BY DEF Below
    <3>2. PICK l \in 1..Len(s) : x[l] = i
      BY <2>1, <3>1 DEF Elements
    <3>3. l \in Int /\ k \in Int /\ x[k] \in Int /\ x[l] \in Int
      BY <1>3, <1>4, <2>1
    <3>4. ~(k < l)
      <4>1. k < l => x[k] < x[l]
        BY <2>1 DEF Increasing
      <4> QED
        BY <4>1, <3>1, <3>2, <3>3
    <3>5. l # k
      BY <3>1, <3>2, <3>3
    <3> QED
      BY <3>2, <3>3, <3>4, <3>5
  <2>5. ASSUME NEW l \in 1..k-1, NEW m \in 1..k-1, x[l] = x[m] PROVE l = m
    <3>1. l \in Int /\ m \in Int /\ x[l] \in Int /\ x[m] \in Int
      BY <1>3, <1>4, <2>1, <2>2
    <3>2. ~(x[l] < x[m]) /\ ~(x[m] < x[l])
      BY <2>5, <3>1
    <3>3. ~(l < m) /\ ~(m < l)
      BY <2>1, <2>2, <3>2 DEF Increasing
    <3> QED
      BY <3>1, <3>3
  <2> HIDE DEF B
  <2>6. f \in [1..k-1 -> B] /\ f \in Injection(1..k-1, B) /\ f \in Surjection(1..k-1, B)
    <3>1. f \in [1..k-1 -> B]
      BY <2>3
    <3>2. \A l, m \in 1..k-1 : f[l] = f[m] => l = m
      BY <2>5
    <3>3. \A i \in B : \E l \in 1..k-1 : f[l] = i
      BY <2>4
    <3> HIDE DEF f
    <3> QED
      BY <3>1, <3>2, <3>3 DEF Injection, Surjection, IsInjective
  <2>7. IsFiniteSet(1..k-1) /\ Cardinality(1..k-1) = k - 1
    <3>1. k \in 1..Len(s) /\ 1 \in Int /\ k - 1 \in Int
      BY <1>3
    <3>2. IsFiniteSet(1..k-1) /\ Cardinality(1..k-1) = IF 1 > k-1 THEN 0 ELSE k-1 - 1 + 1
      BY <3>1, FS_Interval
    <3> QED
      BY <3>1, <3>2
  <2>8. Cardinality(B) = Cardinality(1..k-1)
    BY <2>6, <2>7, FS_Surjection
  <2> QED
    BY <2>7, <2>8 DEF B
<1>6. ASSUME NEW k \in 1..Len(s) PROVE s[k] = a[k]
  <2>1. /\ Cardinality(Below(S, s[k])) = Cardinality(Below(S, a[k]))
        /\ Cardinality(Below(S, s[k])) \in Int
    BY <1>3, <1>5
  <2>2. s[k] \in S /\ a[k] \in S /\ s[k] \in Int /\ a[k] \in Int
    BY <1>3, <1>4
  <2>3. /\ s[k] < a[k] => Cardinality(Below(S, s[k])) < Cardinality(Below(S, a[k]))
        /\ a[k] < s[k] => Cardinality(Below(S, a[k])) < Cardinality(Below(S, s[k]))
    BY <1>1, <2>2, Ranks
  <2> HIDE DEF S
  <2>4. ~(s[k] < a[k]) /\ ~(a[k] < s[k])
    BY <2>1, <2>3
  <2> QED
    BY <2>2, <2>4
<1> QED
  <2>1. s \in [1..Len(s) -> Nat] /\ a \in [1..Len(s) -> S]
    BY <1>2
  <2>2. s = a
    BY <1>6, <2>1
  <2> QED
    BY <2>2 DEF a

\* The smallest element of a finite set of numbers.
LEMMA MinExists ==
  ASSUME NEW S, S \subseteq Int, S # {}, IsFiniteSet(S)
  PROVE  \E m \in S : Below(S, m) = {}
<1>1. Cardinality(S) \in Nat /\ Cardinality(S) # 0
  BY FS_CardinalityType, FS_EmptySet
<1>2. 1 \in 1..Cardinality(S)
  BY <1>1
<1>3. PICK m \in S : Cardinality(Below(S, m)) = 1 - 1
  BY <1>2, Ranks
<1>4. Below(S, m) \in SUBSET S
  BY DEF Below
<1>5. IsFiniteSet(Below(S, m))
  BY <1>4, FS_Subset
<1> QED
  BY <1>3, <1>5, FS_EmptySet

-------------------------------------------------------------------------------
(* Pages. *)

Strict(t) == t \in Seq(Int) /\ \A i, j \in 1..Len(t) : i < j => t[i] < t[j]
\* Row i lies behind cursor c.
ReadUpTo(t, c, i) == t[i] < c.token \/ i \in c.rows
\* The cursor stands at the start of the interval, or at the last row read.
CursorFits(t, c, first, last) ==
  /\ first <= c.token
  /\ \/ c.rows = {} /\ c.token = first
     \/ \E i \in Inside(t, first, last) : c.rows = {i} /\ t[i] = c.token

\* The rows of an interval of tokens.
LEMMA InsideSpec ==
  ASSUME NEW t, Strict(t), NEW a \in Int, NEW b \in Int
  PROVE  /\ \A i : i \in Inside(t, a, b) <=> i \in 1..Len(t) /\ a <= t[i] /\ t[i] <= b
         /\ Inside(t, a, b) \subseteq Nat /\ IsFiniteSet(Inside(t, a, b))
<1>1. Len(t) \in Nat /\ \A i \in 1..Len(t) : t[i] \in Int
  BY DEF Strict
<1>2. \A i : i \in Inside(t, a, b) <=> i \in 1..Len(t) /\ a <= t[i] /\ t[i] <= b
  BY <1>1 DEF Inside
<1>3. IsFiniteSet(1..Len(t)) /\ Inside(t, a, b) \in SUBSET (1..Len(t))
  BY <1>1, <1>2, FS_Interval
<1>4. IsFiniteSet(Inside(t, a, b))
  BY <1>3, FS_Subset
<1>5. 1..Len(t) \subseteq Nat
  BY <1>1
<1> QED
  BY <1>2, <1>3, <1>4, <1>5

\* One page: its rows were not read before and come behind those that were; the rows behind the
\* next cursor are the rows read and the page; an empty page comes when all were read
\* (selectBatchFromTableByToken).
LEMMA PageStep ==
  ASSUME NEW t, Strict(t), NEW n \in Nat, n > 1, NEW first \in Int, NEW last \in Int,
         NEW c \in [token : Int, rows : SUBSET Nat], CursorFits(t, c, first, last)
  PROVE  LET P == PageRows(t, n, c, last)
             W == Inside(t, first, last)
             c2 == NextCursor(t, n, c, last)
         IN /\ P \subseteq W
            /\ c2 \in [token : Int, rows : SUBSET Nat]
            /\ \A i \in P : ~ReadUpTo(t, c, i)
            /\ P = {} => \A i \in W : ReadUpTo(t, c, i)
            /\ P # {} => /\ CursorFits(t, c2, first, last)
                         /\ \A i \in W : ReadUpTo(t, c2, i) <=> ReadUpTo(t, c, i) \/ i \in P
            /\ \A i \in W, k \in P : ReadUpTo(t, c, i) => i < k
<1> DEFINE P == PageRows(t, n, c, last)
           W == Inside(t, first, last)
           F == Inside(t, c.token, last)
           S == Limited(t, n, c.token, last)
           c2 == NextCursor(t, n, c, last)
<1>1. c.token \in Int /\ first <= c.token
  BY DEF CursorFits
<1>2. /\ \A i : i \in W <=> i \in 1..Len(t) /\ first <= t[i] /\ t[i] <= last
      /\ \A i : i \in F <=> i \in 1..Len(t) /\ c.token <= t[i] /\ t[i] <= last
      /\ W \subseteq Nat /\ F \subseteq Nat /\ IsFiniteSet(F)
  BY <1>1, InsideSpec
<1>3. /\ \A i \in 1..Len(t) : t[i] \in Int
      /\ \A i, j \in 1..Len(t) : i < j => t[i] < t[j]
  BY DEF Strict
<1>4. S = {i \in F : Cardinality(Below(F, i)) < n}
  BY DEF Limited, Below
<1>5. P = {i \in S : ~(t[i] = c.token /\ i \in c.rows)}
  BY DEF PageRows, Known
<1>6. \/ c.rows = {} /\ c.token = first
      \/ \E i \in W : c.rows = {i} /\ t[i] = c.token
  BY DEF CursorFits
<1>7. c2 = [token |-> IF S = {} THEN 0 ELSE t[Max(S)],
            rows |-> {i \in P : t[i] = IF S = {} THEN 0 ELSE t[Max(S)]}]
  BY DEF NextCursor, Cursor
<1> HIDE DEF P, W, F, S, c2
<1>8. F \subseteq W /\ c.rows \subseteq F /\ P = S \ c.rows /\ S \subseteq F
  BY <1>1, <1>2, <1>3, <1>4, <1>5, <1>6
<1>9. \A i \in W : ReadUpTo(t, c, i) <=> i \notin F \/ i \in c.rows
  BY <1>1, <1>2, <1>3 DEF ReadUpTo
<1>10. \A i, j \in 1..Len(t) : t[i] < t[j] => i < j
  BY <1>3
<1>11. ASSUME NEW i \in W, ReadUpTo(t, c, i), NEW k \in F \ c.rows
       PROVE  i < k
  <2>1. i \in 1..Len(t) /\ k \in 1..Len(t) /\ c.token <= t[k] /\ t[i] <= c.token
    BY <1>1, <1>2, <1>3, <1>6, <1>9, <1>11 DEF ReadUpTo
  <2>2. CASE t[i] < t[k]
    BY <1>10, <2>1, <2>2
  <2>3. CASE t[i] = t[k]
    <3>1. i \in c.rows
      BY <1>1, <1>3, <1>11, <2>1, <2>3 DEF ReadUpTo
    <3>2. ~(k < i)
      BY <1>3, <2>1, <2>3
    <3>3. i # k
      BY <3>1
    <3> QED
      BY <2>1, <3>2, <3>3
  <2> QED
    BY <1>1, <1>3, <2>1, <2>2, <2>3
<1>12. ASSUME P = {}
       PROVE  \A i \in W : ReadUpTo(t, c, i)
  <2>1. SUFFICES ASSUME F \ c.rows # {}
                 PROVE  FALSE
    BY <1>9
  <2> DEFINE G == F \ c.rows
  <2>2. G \subseteq Int /\ IsFiniteSet(G)
    <3>1. G \in SUBSET F
      OBVIOUS
    <3> QED
      BY <1>2, <3>1, FS_Subset
  <2>3. PICK m \in G : Below(G, m) = {}
    BY <2>1, <2>2, MinExists
  <2>4. Below(F, m) \subseteq c.rows
    BY <2>3 DEF Below
  <2>5. IsFiniteSet(c.rows) /\ Cardinality(c.rows) <= 1
    <3>1. CASE c.rows = {}
      <4>1. IsFiniteSet(c.rows) /\ Cardinality(c.rows) = 0
        BY <3>1, FS_EmptySet
      <4> QED
        BY <4>1
    <3>2. ASSUME NEW i, c.rows = {i} PROVE IsFiniteSet(c.rows) /\ Cardinality(c.rows) <= 1
      <4>1. IsFiniteSet({i}) /\ Cardinality({i}) = 1
        BY FS_Singleton
      <4> QED
        BY <3>2, <4>1
    <3> QED
      BY <1>6, <3>1, <3>2
  <2>6. Cardinality(Below(F, m)) <= Cardinality(c.rows) /\ IsFiniteSet(Below(F, m))
    <3>1. Below(F, m) \in SUBSET c.rows
      BY <2>4
    <3> QED
      BY <2>5, <3>1, FS_Subset
  <2>7. Cardinality(Below(F, m)) \in Nat /\ Cardinality(c.rows) \in Nat
    BY <2>5, <2>6, FS_CardinalityType
  <2>8. Cardinality(Below(F, m)) < n
    BY <2>5, <2>6, <2>7
  <2> QED
    BY <1>4, <1>8, <1>12, <2>8
<1>13. ASSUME P # {}
       PROVE  /\ CursorFits(t, c2, first, last)
              /\ \A i \in W : ReadUpTo(t, c2, i) <=> ReadUpTo(t, c, i) \/ i \in P
              /\ c2 \in [token : Int, rows : SUBSET Nat]
  <2>1. S # {} /\ S \subseteq Int /\ IsFiniteSet(S)
    <3>1. S \in SUBSET F /\ S # {}
      BY <1>8, <1>13
    <3>2. IsFiniteSet(S)
      BY <1>2, <3>1, FS_Subset
    <3> QED
      BY <1>2, <3>1, <3>2
  <2> DEFINE m == Max(S)
  <2>2. m \in S /\ \A i \in S : i <= m
    BY <2>1, MaxSpec
  <2> HIDE DEF m
  <2>3. m \in P
    <3>1. PICK p \in P : TRUE
      BY <1>13
    <3>2. p \in F \ c.rows /\ p <= m
      BY <1>8, <2>2
    <3>3. m \in c.rows => ReadUpTo(t, c, m) /\ m \in W
      BY <1>8, <1>9
    <3>4. ~(m \in c.rows)
      <4>1. m \in c.rows => m < p
        BY <1>11, <3>2, <3>3
      <4>2. m \in Int /\ p \in Int
        BY <1>2, <1>8, <2>2, <3>2
      <4> QED
        BY <3>2, <4>1, <4>2
    <3> QED
      BY <1>8, <2>2, <3>4
  <2>4. m \in 1..Len(t) /\ m \in W /\ m \in F \ c.rows /\ t[m] \in Int /\ c.token <= t[m]
    BY <1>2, <1>3, <1>8, <2>2, <2>3
  <2>5. c2.token = t[m] /\ c2.rows = {m}
    <3>1. c2 = [token |-> t[m], rows |-> {i \in P : t[i] = t[m]}]
      BY <1>7, <2>1 DEF m
    <3>2. ASSUME NEW i \in P, t[i] = t[m] PROVE i = m
      <4>1. i \in 1..Len(t)
        BY <1>2, <1>8
      <4>2. ~(i < m) /\ ~(m < i)
        BY <1>3, <2>4, <3>2, <4>1
      <4> QED
        BY <2>4, <4>1, <4>2
    <3> QED
      BY <2>3, <3>1, <3>2
  <2>6. c2 \in [token : Int, rows : SUBSET Nat]
    <3>1. c2 = [token |-> t[m], rows |-> {i \in P : t[i] = t[m]}]
      BY <1>7, <2>1 DEF m
    <3>2. {i \in P : t[i] = t[m]} \in SUBSET Nat
      BY <1>2, <1>8
    <3> QED
      BY <2>4, <3>1, <3>2
  <2>7. CursorFits(t, c2, first, last)
    <3>1. first <= t[m]
      BY <1>2, <2>4
    <3> QED
      BY <2>4, <2>5, <3>1 DEF CursorFits, W
  <2>8. ASSUME NEW i \in W
        PROVE  ReadUpTo(t, c2, i) <=> ReadUpTo(t, c, i) \/ i \in P
    <3>1. i \in 1..Len(t) /\ i \in Int /\ m \in Int
      BY <1>2, <2>4
    <3>2. ReadUpTo(t, c2, i) <=> i <= m
      <4>1. ReadUpTo(t, c2, i) <=> t[i] < t[m] \/ i = m
        BY <2>5 DEF ReadUpTo
      <4> QED
        BY <1>3, <1>10, <2>4, <3>1, <4>1
    <3>3. ReadUpTo(t, c, i) => i < m
      BY <1>11, <2>4
    <3>4. i \in P => i <= m
      BY <1>8, <2>2
    <3>5. ASSUME i <= m, ~ReadUpTo(t, c, i)
          PROVE  i \in P
      <4>1. i \in F /\ i \notin c.rows
        BY <1>9, <3>5
      <4>2. i \in S
        <5>1. CASE i = m
          BY <2>2, <5>1
        <5>2. CASE i < m
          <6>1. F \subseteq Int /\ m \in F
            BY <1>2, <2>4
          <6>2. /\ Cardinality(Below(F, i)) < Cardinality(Below(F, m))
                /\ Cardinality(Below(F, i)) \in 0..Cardinality(F) - 1
                /\ Cardinality(Below(F, m)) \in 0..Cardinality(F) - 1
            BY <1>2, <4>1, <5>2, <6>1, Ranks
          <6>3. Cardinality(F) \in Nat /\ Cardinality(Below(F, m)) < n
            BY <1>2, <1>4, <2>2, FS_CardinalityType
          <6>4. Cardinality(Below(F, i)) < n
            BY <6>2, <6>3
          <6> QED
            BY <1>4, <4>1, <6>4
        <5> QED
          BY <3>1, <3>5, <5>1, <5>2
      <4> QED
        BY <1>8, <4>1, <4>2
    <3> QED
      BY <3>1, <3>2, <3>3, <3>4, <3>5
  <2> QED
    BY <2>6, <2>7, <2>8
<1>14. c2 \in [token : Int, rows : SUBSET Nat]
  <2>1. CASE P = {}
    <3>1. c2.rows = {} /\ c2 = [token |-> c2.token, rows |-> {}]
      BY <1>7, <2>1
    <3>2. c2.token \in Int
      <4>1. CASE S = {}
        BY <1>7, <4>1
      <4>2. CASE S # {}
        <5>1. S \in SUBSET F /\ S \subseteq Int
          BY <1>2, <1>8
        <5>2. Max(S) \in S
          BY <1>2, <4>2, <5>1, FS_Subset, MaxSpec
        <5>3. t[Max(S)] \in Int
          BY <1>2, <1>3, <1>8, <5>2
        <5> QED
          BY <1>7, <4>2, <5>3
      <4> QED
        BY <4>1, <4>2
    <3> QED
      BY <3>1, <3>2
  <2> QED
    BY <1>13, <2>1
<1>15. P \subseteq W /\ \A i \in P : ~ReadUpTo(t, c, i)
  BY <1>8, <1>9
<1>16. \A i \in W, k \in P : ReadUpTo(t, c, i) => i < k
  BY <1>8, <1>11
<1> QED
  BY <1>12, <1>13, <1>14, <1>15, <1>16 DEF P, W, c2

-------------------------------------------------------------------------------
(* Records in a line of places, each of which holds some in a sequence. *)

Lines(last) == [0..last -> Seq(Nat)]
Within(P, last) == {P[s[1]][s[2]] : s \in {s \in (0..last) \X Nat : s[2] \in 1..Len(P[s[1]])}}
Before(m, k, n, l) == m < n \/ (m = n /\ k < l)
\* Records stand in the line as pairs in R say.
Lined(P, last, R) ==
  \A m, n \in 0..last : \A k \in 1..Len(P[m]), l \in 1..Len(P[n]) :
    Before(m, k, n, l) => <<P[m][k], P[n][l]>> \in R

LEMMA WithinSpec ==
  ASSUME NEW last \in Nat, NEW P \in Lines(last)
  PROVE  /\ \A i : i \in Within(P, last) <=> \E n \in 0..last : \E k \in 1..Len(P[n]) : P[n][k] = i
         /\ Within(P, last) \subseteq Nat
<1>1. \A n \in 0..last : P[n] \in Seq(Nat)
  BY DEF Lines
<1>2. \A n \in 0..last : 1..Len(P[n]) \subseteq Nat /\ \A k \in 1..Len(P[n]) : P[n][k] \in Nat
  BY <1>1
<1>3. \A i : i \in Within(P, last) <=> \E n \in 0..last : \E k \in 1..Len(P[n]) : P[n][k] = i
  <2>1. ASSUME NEW i, i \in Within(P, last)
        PROVE  \E n \in 0..last : \E k \in 1..Len(P[n]) : P[n][k] = i
    <3>1. PICK s \in (0..last) \X Nat : s[2] \in 1..Len(P[s[1]]) /\ i = P[s[1]][s[2]]
      BY <2>1 DEF Within
    <3> QED
      BY <3>1
  <2>2. ASSUME NEW n \in 0..last, NEW k \in 1..Len(P[n])
        PROVE  P[n][k] \in Within(P, last)
    <3>1. <<n, k>> \in (0..last) \X Nat /\ <<n, k>>[1] = n /\ <<n, k>>[2] = k
      BY <1>2
    <3> QED
      BY <3>1 DEF Within
  <2> QED
    BY <2>1, <2>2
<1> QED
  BY <1>2, <1>3

\* A record is put behind all others; maybe a new place is begun behind it.
LEMMA LineAppend ==
  ASSUME NEW last \in Nat, NEW P \in Lines(last),
         NEW lst \in {last, last + 1}, NEW Q \in Lines(lst),
         NEW i \in Nat, NEW R, Lined(P, last, R),
         \A n \in 0..last : n # last => Q[n] = P[n],
         Q[last] = Append(P[last], i),
         lst = last + 1 => Q[lst] = <<>>,
         \A x \in Within(P, last) : <<x, i>> \in R
  PROVE  Within(Q, lst) = Within(P, last) \cup {i} /\ Lined(Q, lst, R)
<1>1. /\ \A n \in 0..last : P[n] \in Seq(Nat) /\ Len(P[n]) \in Nat
      /\ \A n \in 0..lst : n \in 0..last \/ (n = lst /\ lst = last + 1)
      /\ lst \in Nat /\ 0..last \subseteq 0..lst /\ last \in 0..last
  BY DEF Lines
<1>2. /\ Len(Q[last]) = Len(P[last]) + 1
      /\ \A k \in 1..Len(P[last]) : Q[last][k] = P[last][k]
      /\ Q[last][Len(P[last]) + 1] = i
  BY <1>1
<1>3. \A n \in 0..lst : \A k \in 1..Len(Q[n]) :
        \/ n \in 0..last /\ k \in 1..Len(P[n]) /\ Q[n][k] = P[n][k]
        \/ n = last /\ k = Len(P[last]) + 1 /\ Q[n][k] = i
  <2> SUFFICES ASSUME NEW n \in 0..lst, NEW k \in 1..Len(Q[n])
               PROVE  \/ n \in 0..last /\ k \in 1..Len(P[n]) /\ Q[n][k] = P[n][k]
                      \/ n = last /\ k = Len(P[last]) + 1 /\ Q[n][k] = i
    OBVIOUS
  <2>1. CASE n = last
    <3>1. k \in 1..Len(P[last]) + 1 /\ Len(P[last]) \in Nat
      BY <1>1, <1>2, <2>1
    <3>2. k \in 1..Len(P[last]) \/ k = Len(P[last]) + 1
      BY <3>1
    <3> QED
      BY <1>1, <1>2, <2>1, <3>2
  <2>2. CASE n # last /\ n \in 0..last
    BY <2>2
  <2>3. CASE n = lst /\ lst = last + 1
    BY <2>3
  <2> QED
    BY <1>1, <2>1, <2>2, <2>3
<1>4. \A n \in 0..last : \A k \in 1..Len(P[n]) : k \in 1..Len(Q[n]) /\ Q[n][k] = P[n][k]
  <2> SUFFICES ASSUME NEW n \in 0..last, NEW k \in 1..Len(P[n])
               PROVE  k \in 1..Len(Q[n]) /\ Q[n][k] = P[n][k]
    OBVIOUS
  <2>1. CASE n = last
    <3>1. Len(P[last]) \in Nat /\ k \in 1..Len(P[last])
      BY <1>1, <2>1
    <3>2. k \in 1..Len(P[last]) + 1
      BY <3>1
    <3> QED
      BY <1>2, <2>1, <3>1, <3>2
  <2>2. CASE n # last
    BY <2>2
  <2> QED
    BY <2>1, <2>2
<1>5. Within(Q, lst) = Within(P, last) \cup {i}
  <2>a. \A x : x \in Within(P, last) <=> \E n \in 0..last : \E k \in 1..Len(P[n]) : P[n][k] = x
    BY WithinSpec
  <2>b. \A x : x \in Within(Q, lst) <=> \E n \in 0..lst : \E k \in 1..Len(Q[n]) : Q[n][k] = x
    BY <1>1, WithinSpec
  <2>1. ASSUME NEW x \in Within(Q, lst)
        PROVE  x \in Within(P, last) \cup {i}
    <3>1. PICK n \in 0..lst : \E k \in 1..Len(Q[n]) : Q[n][k] = x
      BY <2>b
    <3>2. PICK k \in 1..Len(Q[n]) : Q[n][k] = x
      BY <3>1
    <3> QED
      BY <1>3, <2>a, <3>2
  <2>2. ASSUME NEW x \in Within(P, last)
        PROVE  x \in Within(Q, lst)
    <3>1. PICK n \in 0..last : \E k \in 1..Len(P[n]) : P[n][k] = x
      BY <2>a
    <3>2. PICK k \in 1..Len(P[n]) : P[n][k] = x
      BY <3>1
    <3> QED
      BY <1>1, <1>4, <2>b, <3>2
  <2>3. i \in Within(Q, lst)
    <3>1. Len(P[last]) + 1 \in 1..Len(Q[last]) /\ last \in 0..lst
      BY <1>1, <1>2
    <3> QED
      BY <1>1, <1>2, <3>1, WithinSpec
  <2> QED
    BY <2>1, <2>2, <2>3
<1>6. ASSUME NEW m \in 0..lst, NEW n \in 0..lst, NEW k \in 1..Len(Q[m]), NEW l \in 1..Len(Q[n]),
             Before(m, k, n, l)
      PROVE  <<Q[m][k], Q[n][l]>> \in R
  <2>1. CASE /\ m \in 0..last /\ k \in 1..Len(P[m]) /\ Q[m][k] = P[m][k]
             /\ n \in 0..last /\ l \in 1..Len(P[n]) /\ Q[n][l] = P[n][l]
    BY <1>6, <2>1 DEF Lined
  <2>2. CASE /\ m \in 0..last /\ k \in 1..Len(P[m]) /\ Q[m][k] = P[m][k]
             /\ n = last /\ l = Len(P[last]) + 1 /\ Q[n][l] = i
    <3>1. P[m][k] \in Within(P, last)
      BY <2>2, WithinSpec
    <3> QED
      BY <2>2, <3>1
  <2>3. CASE m = last /\ k = Len(P[last]) + 1
    <3>1. n = last /\ k < l
      <4>1. n = lst /\ lst = last + 1 => Len(Q[n]) = 0
        OBVIOUS
      <4>2. ~(n = lst /\ lst = last + 1)
        BY <4>1
      <4>3. n \in 0..last /\ last \in Nat
        BY <1>1, <4>2
      <4> QED
        BY <1>6, <2>3, <4>3 DEF Before
    <3>2. l \in 1..Len(P[last]) + 1 /\ Len(P[last]) \in Nat
      BY <1>1, <1>2, <3>1
    <3> QED
      BY <2>3, <3>1, <3>2
  <2> QED
    BY <1>3, <2>1, <2>2, <2>3
<1> QED
  BY <1>5, <1>6 DEF Lined

\* A new place is begun.
LEMMA LineLonger ==
  ASSUME NEW last \in Nat, NEW P \in Lines(last), NEW Q \in Lines(last + 1),
         NEW R, Lined(P, last, R),
         \A n \in 0..last : Q[n] = P[n], Q[last + 1] = <<>>
  PROVE  Within(Q, last + 1) = Within(P, last) /\ Lined(Q, last + 1, R)
<1>1. /\ \A n \in 0..last+1 : n \in 0..last \/ n = last + 1
      /\ 0..last \subseteq 0..last+1 /\ last + 1 \in Nat
  OBVIOUS
<1>2. \A n \in 0..last+1 : \A k \in 1..Len(Q[n]) : n \in 0..last /\ Q[n] = P[n]
  <2> SUFFICES ASSUME NEW n \in 0..last+1, NEW k \in 1..Len(Q[n]) PROVE n \in 0..last /\ Q[n] = P[n]
    OBVIOUS
  <2>1. n = last + 1 => Len(Q[n]) = 0
    OBVIOUS
  <2> QED
    BY <1>1, <2>1
<1>3. Within(Q, last + 1) = Within(P, last)
  <2>1. \A x : x \in Within(Q, last + 1) => x \in Within(P, last)
    BY <1>1, <1>2, WithinSpec
  <2>2. \A x : x \in Within(P, last) => x \in Within(Q, last + 1)
    BY <1>1, WithinSpec
  <2> QED
    BY <2>1, <2>2
<1>4. Lined(Q, last + 1, R)
  BY <1>2 DEF Lined
<1> QED
  BY <1>3, <1>4

\* An empty place, the second one, is filled with what is in the next, and so on.
LEMMA LineShift ==
  ASSUME NEW last \in Nat, last > 1, NEW P \in Lines(last), NEW Q \in Lines(last - 1), NEW R,
         Lined(P, last, R), P[1] = <<>>, Q[0] = P[0], \A n \in 1..last-1 : Q[n] = P[n + 1]
  PROVE  Within(Q, last - 1) = Within(P, last) /\ Lined(Q, last - 1, R)
<1> DEFINE g(n) == IF n = 0 THEN 0 ELSE n + 1
<1>1. /\ \A n \in 0..last-1 : g(n) \in 0..last /\ Q[n] = P[g(n)]
      /\ \A m, n \in 0..last-1 : (m < n <=> g(m) < g(n)) /\ (m = n <=> g(m) = g(n))
      /\ last - 1 \in Nat
  OBVIOUS
<1>2. \A n \in 0..last : n # 1 => \E m \in 0..last-1 : g(m) = n
  <2> SUFFICES ASSUME NEW n \in 0..last, n # 1 PROVE \E m \in 0..last-1 : g(m) = n
    OBVIOUS
  <2>1. CASE n = 0
    <3>1. 0 \in 0..last-1 /\ g(0) = 0
      OBVIOUS
    <3> QED
      BY <2>1, <3>1
  <2>2. CASE n # 0
    <3>1. n - 1 \in 0..last-1 /\ g(n - 1) = n
      BY <2>2
    <3> QED
      BY <3>1
  <2> QED
    BY <2>1, <2>2
<1> HIDE DEF g
<1>3. Within(Q, last - 1) = Within(P, last)
  <2>1. ASSUME NEW x \in Within(Q, last - 1)
        PROVE  x \in Within(P, last)
    <3>a. \A y : y \in Within(Q, last - 1) <=>
            \E n \in 0..last-1 : \E k \in 1..Len(Q[n]) : Q[n][k] = y
      BY <1>1, WithinSpec
    <3>0. PICK n \in 0..last-1 : \E k \in 1..Len(Q[n]) : Q[n][k] = x
      BY <3>a
    <3>1. PICK k \in 1..Len(Q[n]) : Q[n][k] = x
      BY <3>0
    <3>2. g(n) \in 0..last /\ k \in 1..Len(P[g(n)]) /\ P[g(n)][k] = x
      BY <1>1, <3>1
    <3> QED
      BY <3>2, WithinSpec
  <2>2. ASSUME NEW x \in Within(P, last)
        PROVE  x \in Within(Q, last - 1)
    <3>0. PICK n \in 0..last : \E k \in 1..Len(P[n]) : P[n][k] = x
      BY WithinSpec
    <3>1. PICK k \in 1..Len(P[n]) : P[n][k] = x
      BY <3>0
    <3>2. n # 1
      BY <3>1
    <3>3. PICK m \in 0..last-1 : g(m) = n
      BY <1>2, <3>2
    <3> QED
      BY <1>1, <3>1, <3>3, WithinSpec
  <2> QED
    BY <2>1, <2>2
<1>4. ASSUME NEW m \in 0..last-1, NEW n \in 0..last-1,
             NEW k \in 1..Len(Q[m]), NEW l \in 1..Len(Q[n]),
             Before(m, k, n, l)
      PROVE  <<Q[m][k], Q[n][l]>> \in R
  <2>1. /\ g(m) \in 0..last /\ Q[m] = P[g(m)] /\ k \in 1..Len(P[g(m)])
        /\ g(n) \in 0..last /\ Q[n] = P[g(n)] /\ l \in 1..Len(P[g(n)])
    BY <1>1
  <2>2. Before(g(m), k, g(n), l)
    BY <1>1, <1>4 DEF Before
  <2> QED
    BY <2>1, <2>2 DEF Lined
<1> QED
  BY <1>3, <1>4 DEF Lined

LEMMA JoinSpec ==
  ASSUME NEW a \in Seq(Nat), NEW b \in Seq(Nat)
  PROVE  /\ Len(a) \in Nat /\ Len(b) \in Nat /\ Len(a \o b) = Len(a) + Len(b)
         /\ \A k \in 1..Len(a) : k \in 1..Len(a \o b) /\ (a \o b)[k] = a[k]
         /\ \A k \in 1..Len(b) : Len(a) + k \in 1..Len(a \o b) /\ (a \o b)[Len(a) + k] = b[k]
         /\ \A k \in 1..Len(a \o b) : k \in 1..Len(a) \/ \E l \in 1..Len(b) : k = Len(a) + l
<1>1. Len(a) \in Nat /\ Len(b) \in Nat /\ Len(a \o b) = Len(a) + Len(b)
  OBVIOUS
<1>2. \A k \in 1..Len(a) : k \in 1..Len(a \o b) /\ (a \o b)[k] = a[k]
  OBVIOUS
<1>3. \A k \in 1..Len(b) : Len(a) + k \in 1..Len(a \o b) /\ (a \o b)[Len(a) + k] = b[k]
  OBVIOUS
<1>4. ASSUME NEW k \in 1..Len(a \o b), k \notin 1..Len(a)
      PROVE  \E l \in 1..Len(b) : k = Len(a) + l
  <2>1. k - Len(a) \in 1..Len(b) /\ k = Len(a) + (k - Len(a))
    BY <1>1, <1>4
  <2> QED
    BY <2>1
<1> QED
  BY <1>1, <1>2, <1>3, <1>4

\* What is in the second place is put behind what is in the first.
LEMMA LineMerge ==
  ASSUME NEW last \in Nat, last > 1, NEW P \in Lines(last), NEW Q \in Lines(last), NEW R,
         Lined(P, last, R), Q[0] = P[0] \o P[1], Q[1] = <<>>, \A n \in 2..last : Q[n] = P[n]
  PROVE  Within(Q, last) = Within(P, last) /\ Lined(Q, last, R)
<1> DEFINE Is(n, k, m, l) == m \in 0..last /\ l \in 1..Len(P[m]) /\ P[m][l] = Q[n][k]
<1>0. 0 \in 0..last /\ 1 \in 0..last
  OBVIOUS
<1>1. P[0] \in Seq(Nat) /\ P[1] \in Seq(Nat)
  BY <1>0 DEF Lines
<1>2. \A n \in 0..last : n \in Nat /\ (n = 0 \/ n = 1 \/ n \in 2..last)
  OBVIOUS
<1> DEFINE len == Len(P[0])
<1>3. /\ len \in Nat /\ Len(P[1]) \in Nat
      /\ \A k \in 1..len : k \in 1..Len(Q[0]) /\ Q[0][k] = P[0][k]
      /\ \A k \in 1..Len(P[1]) : len + k \in 1..Len(Q[0]) /\ Q[0][len + k] = P[1][k]
      /\ \A k \in 1..Len(Q[0]) : k \in 1..len \/ \E l \in 1..Len(P[1]) : k = len + l
  <2> DEFINE a == P[0]
             b == P[1]
  <2>1. a \in Seq(Nat) /\ b \in Seq(Nat) /\ Q[0] = a \o b
    BY <1>1
  <2> HIDE DEF a, b
  <2>2. /\ Len(a) \in Nat /\ Len(b) \in Nat
        /\ \A k \in 1..Len(a) : k \in 1..Len(a \o b) /\ (a \o b)[k] = a[k]
        /\ \A k \in 1..Len(b) : Len(a) + k \in 1..Len(a \o b) /\ (a \o b)[Len(a) + k] = b[k]
        /\ \A k \in 1..Len(a \o b) : k \in 1..Len(a) \/ \E l \in 1..Len(b) : k = Len(a) + l
    BY <2>1, JoinSpec
  <2>3. /\ Len(a) \in Nat /\ Len(b) \in Nat
        /\ \A k \in 1..Len(a) : k \in 1..Len(Q[0]) /\ Q[0][k] = a[k]
        /\ \A k \in 1..Len(b) : Len(a) + k \in 1..Len(Q[0]) /\ Q[0][Len(a) + k] = b[k]
        /\ \A k \in 1..Len(Q[0]) : k \in 1..Len(a) \/ \E l \in 1..Len(b) : k = Len(a) + l
    BY <2>1, <2>2, Zenon
  <2> QED
    BY <2>3 DEF a, b
<1> HIDE DEF len
<1>4. \A n \in 0..last : \A k \in 1..Len(Q[n]) :
        \/ Is(n, k, n, k) /\ (n = 0 => k \in 1..len) /\ n # 1
        \/ \E l \in 1..Len(P[1]) : Is(n, k, 1, l) /\ n = 0 /\ k = len + l
  <2> SUFFICES ASSUME NEW n \in 0..last, NEW k \in 1..Len(Q[n])
               PROVE  \/ Is(n, k, n, k) /\ (n = 0 => k \in 1..len) /\ n # 1
                      \/ \E l \in 1..Len(P[1]) : Is(n, k, 1, l) /\ n = 0 /\ k = len + l
    OBVIOUS
  <2>1. CASE n = 0
    <3>1. CASE k \in 1..len
      BY <1>3, <2>1, <3>1 DEF len
    <3>2. ASSUME NEW l \in 1..Len(P[1]), k = len + l
          PROVE  Is(n, k, 1, l) /\ n = 0 /\ k = len + l
      BY <1>0, <1>3, <2>1, <3>2
    <3> HIDE DEF Is
    <3> QED
      BY <1>3, <2>1, <3>1, <3>2
  <2>2. CASE n = 1
    <3>1. Len(Q[n]) = 0
      BY <2>2
    <3> QED
      BY <3>1
  <2>3. CASE n \in 2..last
    BY <2>3
  <2> HIDE DEF Is
  <2> QED
    BY <1>2, <2>1, <2>2, <2>3
<1>5. ASSUME NEW m \in 0..last, NEW n \in 0..last, NEW k \in 1..Len(Q[m]), NEW l \in 1..Len(Q[n]),
             Before(m, k, n, l)
      PROVE  <<Q[m][k], Q[n][l]>> \in R
  <2>0. \A x \in 1..len, y \in 1..Len(P[1]) : x \in Nat /\ y \in Nat /\ ~(len + y < x)
    BY <1>3
  <2>1. CASE Is(m, k, m, k) /\ Is(n, l, n, l)
    BY <1>5, <2>1 DEF Lined
  <2>2. ASSUME Is(m, k, m, k), m = 0 => k \in 1..len, m # 1,
               NEW y \in 1..Len(P[1]), Is(n, l, 1, y), n = 0, l = len + y
        PROVE  <<Q[m][k], Q[n][l]>> \in R
    <3>1. m = 0
      BY <1>2, <1>5, <2>2 DEF Before
    <3>2. Before(m, k, 1, y)
      BY <3>1 DEF Before
    <3> QED
      BY <2>2, <3>2 DEF Lined
  <2>3. ASSUME NEW x \in 1..Len(P[1]), Is(m, k, 1, x), m = 0, k = len + x,
               Is(n, l, n, l), n = 0 => l \in 1..len, n # 1
        PROVE  <<Q[m][k], Q[n][l]>> \in R
    <3>1. n # 0
      BY <1>5, <2>0, <2>3 DEF Before
    <3>2. Before(1, x, n, l)
      BY <1>2, <2>3, <3>1 DEF Before
    <3> QED
      BY <2>3, <3>2 DEF Lined
  <2>4. ASSUME NEW x \in 1..Len(P[1]), Is(m, k, 1, x), m = 0, k = len + x,
               NEW y \in 1..Len(P[1]), Is(n, l, 1, y), n = 0, l = len + y
        PROVE  <<Q[m][k], Q[n][l]>> \in R
    <3>1. Before(1, x, 1, y)
      <4>1. x \in Nat /\ y \in Nat /\ len \in Nat
        BY <1>3
      <4>2. len + x < len + y
        BY <1>5, <2>4 DEF Before
      <4>3. x < y
        BY <4>1, <4>2
      <4> QED
        BY <4>3 DEF Before
    <3> QED
      BY <2>4, <3>1 DEF Lined
  <2> HIDE DEF Is
  <2> QED
    BY <1>4, <2>1, <2>2, <2>3, <2>4
<1>6. ASSUME NEW x \in Within(Q, last)
      PROVE  x \in Within(P, last)
  <2>1. PICK n \in 0..last : \E k \in 1..Len(Q[n]) : Q[n][k] = x
    BY WithinSpec
  <2>2. PICK k \in 1..Len(Q[n]) : Q[n][k] = x
    BY <2>1
  <2>3. \E m, l : Is(n, k, m, l)
    <3> HIDE DEF Is
    <3> QED
      BY <1>4
  <2> QED
    BY <2>2, <2>3, WithinSpec
<1>7. ASSUME NEW x \in Within(P, last)
      PROVE  x \in Within(Q, last)
  <2>0. PICK n \in 0..last : \E k \in 1..Len(P[n]) : P[n][k] = x
    BY WithinSpec
  <2>1. PICK k \in 1..Len(P[n]) : P[n][k] = x
    BY <2>0
  <2>2. \E m \in 0..last : \E l \in 1..Len(Q[m]) : Q[m][l] = x
    <3>1. CASE n = 0
      <4>1. k \in 1..Len(Q[0]) /\ Q[0][k] = x
        BY <1>3, <2>1, <3>1 DEF len
      <4> QED
        BY <1>0, <4>1
    <3>2. CASE n = 1
      <4>1. len + k \in 1..Len(Q[0]) /\ Q[0][len + k] = x
        BY <1>3, <2>1, <3>2
      <4> QED
        BY <1>0, <4>1
    <3>3. CASE n \in 2..last
      BY <2>1, <3>3
    <3> QED
      BY <1>2, <3>1, <3>2, <3>3
  <2> QED
    BY <2>2, WithinSpec
<1> QED
  BY <1>5, <1>6, <1>7 DEF Lined

-------------------------------------------------------------------------------
(* What the file holds. *)

Phases == {"create", "read", "rows", "top", "check", "leftover", "settle", "stat", "upload", "done",
           "failed"}
Files == [rows : Seq(Nat), size : {"none", "zero", "some"}, whole : BOOLEAN]
Workers == [at : WorkerAts, block : Seq(Nat), group : Seq(Nat),
            openOk : BOOLEAN, closeOk : BOOLEAN]

Shapes ==
  /\ job \in Jobs /\ phase \in Phases /\ result \in BOOLEAN
  /\ cursor \in [token : Int, rows : SUBSET Nat]
  /\ page \in Seq(Nat) /\ pos \in 0..Len(page) /\ read \in Nat /\ added \in Nat
  /\ heap \in SUBSET Nat /\ IsFiniteSet(heap)
  /\ block \in Seq(Nat) /\ blocksIn \in Seq(Seq(Nat))
  /\ worker \in Workers
  /\ file \in Files /\ uploaded \in Files

\* What is so at the ends of the batch, and after an error.
Ends ==
  /\ ~result => phase \in {"check", "leftover", "settle", "failed"}
  /\ phase = "create" => file.rows = <<>> /\ worker.group = <<>>
  /\ phase = "top" => HasTop
  /\ phase \in {"settle", "stat", "upload", "done"} => block = <<>>
  /\ phase \in {"stat", "upload", "done"} => closed
  /\ job.format = "csv" /\ phase \notin {"create", "failed"} => file.whole
  /\ job.format = "csv" /\ phase = "done" /\ job.remote => uploaded.whole
  /\ phase = "done" /\ job.remote /\ uploaded.whole => uploaded.rows = file.rows

\* The rows of a CSV file go to the file itself, those of a Parquet file when the writer is closed.
Grouping ==
  /\ job.format = "csv" => worker.group = <<>>
  /\ job.format = "parquet" =>
       /\ worker.at \notin {"footer", "exit"} => file.rows = <<>> /\ ~file.whole
       /\ worker.at = "footer" => ~file.whole
       /\ worker.at = "footer" \/ file.whole => worker.group = <<>>
       /\ uploaded.whole => file.whole
       /\ phase = "create" => ~file.whole
       /\ phase \notin {"create", "failed"} /\ EndedWell => file.whole

\* The producer knows of an error.
GaveUp == ~result \/ phase = "failed"
\* The worker does, or the producer will.
Hurt == worker.at = "bad" \/ \E k \in 1..Len(statuses) : ~statuses[k]

Scanning == phase \in {"create", "read", "rows", "check"}
\* The rows read, the page among them; those before the page; those that passed so far; and those
\* whose records were given to the inserter.
Gotten == IF Scanning THEN {i \in Wanted : ReadUpTo(job.tokens, cursor, i)} ELSE Wanted
Behind == IF phase = "rows" THEN Gotten \ Elements(page) ELSE Gotten
Taken == {page[k] : k \in 1..pos}
Passed == (IF phase = "rows" THEN Behind \cup Taken ELSE Behind) \cap Passing
Sent == IF ~HasTop THEN Passed ELSE IF Scanning THEN {} ELSE Taken

PageRight ==
  /\ Scanning => CursorFits(job.tokens, cursor, FirstToken, LastToken)
  /\ read = Cardinality(Behind)
  /\ phase = "rows" =>
       /\ Increasing(page) /\ Elements(page) \subseteq Gotten
       /\ \A i \in Behind, k \in Elements(page) : i < k

\* H has the first rows of S in the order of "top", as many as there are to be.
Firsts(H, S) ==
  /\ H \subseteq S
  /\ Cardinality(H) = IF Cardinality(S) < job.top THEN Cardinality(S) ELSE job.top
  /\ \A i \in H, k \in S \ H : KeyOf[i] <= KeyOf[k]
InTopOrder(s) == \A k, l \in 1..Len(s) : k < l => s[k] # s[l] /\ KeyOf[s[k]] <= KeyOf[s[l]]

HeapRight ==
  HasTop =>
    /\ Scanning => Firsts(heap, Passed)
    /\ ~Scanning => Firsts(Elements(page), ToWrite) /\ InTopOrder(page)
    /\ ~Scanning /\ phase # "top" => pos = Len(page)

\* From the file, or the row group that will be the file, to the block that is being filled.
Given == IF worker.group = <<>> THEN file.rows ELSE worker.group
Hand == IF worker.at = "write" THEN worker.block ELSE <<>>
LastPlace == Len(blocksIn) + 2
Line == [n \in 0..LastPlace |->
           IF n = 0 THEN Given ELSE IF n = 1 THEN Hand
           ELSE IF n = LastPlace THEN block ELSE blocksIn[n - 1]]
Pairs(s) == {<<s[p[1]], s[p[2]]>> : p \in {p \in (1..Len(s)) \X (1..Len(s)) : p[1] < p[2]}}
Earlier == IF HasTop THEN Pairs(page) ELSE {p \in Nat \X Nat : p[1] < p[2]}

\* Each record given to the inserter is in one place, in the right order.
PipeRight ==
  /\ Lined(Line, LastPlace, Earlier) /\ Within(Line, LastPlace) = Sent
  /\ added = Cardinality(Sent)

FInv ==
  /\ IInv /\ Shapes /\ Ends /\ Grouping
  /\ GaveUp \/ (PageRight /\ HeapRight)
  /\ GaveUp \/ Hurt \/ PipeRight

-------------------------------------------------------------------------------

\* The rows of a file job.
LEMMA JobSpec ==
  ASSUME Shapes
  PROVE  /\ Strict(job.tokens) /\ Wanted = Inside(job.tokens, FirstToken, LastToken)
         /\ Wanted \subseteq Nat /\ IsFiniteSet(Wanted)
         /\ job.rowsetSize \in Nat /\ job.rowsetSize > 1 /\ job.top \in Nat
         /\ FirstToken \in Int /\ LastToken \in Int
         /\ Rows \subseteq Nat /\ Wanted \subseteq Rows
<1>1. job \in Jobs
  BY DEF Shapes
<1>2. /\ job.tokens \in Seq(Int)
      /\ \A i, k \in 1..Len(job.tokens) : i < k => job.tokens[i] < job.tokens[k]
      /\ job.rowsetSize \in Nat /\ job.rowsetSize > 1 /\ job.top \in Nat
      /\ FirstToken \in Int /\ LastToken \in Int
  BY <1>1, FileAssumption
<1>3. Strict(job.tokens)
  BY <1>2 DEF Strict
<1>4. Wanted = Inside(job.tokens, FirstToken, LastToken)
  BY DEF Wanted, Inside
<1>5. Wanted \subseteq Nat /\ IsFiniteSet(Wanted)
  BY <1>2, <1>3, <1>4, InsideSpec
<1>6. Rows \subseteq Nat
  <2>1. ASSUME NEW j \in Jobs PROVE 1..Len(j.tokens) \subseteq Nat
    <3>1. j.tokens \in Seq(Int)
      BY FileAssumption
    <3> QED
      BY <3>1
  <2> QED
    BY <2>1 DEF Rows
<1>7. Wanted \subseteq Rows
  BY <1>1 DEF Wanted, Rows
<1> QED
  BY <1>2, <1>3, <1>4, <1>5, <1>6, <1>7

\* A page, as ReadPage gets it.
LEMMA PageShape ==
  ASSUME Shapes, PageRight, phase = "read"
  PROVE  LET P == PageRows(job.tokens, job.rowsetSize, cursor, LastToken)
         IN /\ P \subseteq Wanted /\ IsFiniteSet(P)
            /\ Ascending(P) \in Seq(Nat) /\ Elements(Ascending(P)) = P /\ Increasing(Ascending(P))
            /\ Ascending(P) = <<>> <=> P = {}
<1> DEFINE P == PageRows(job.tokens, job.rowsetSize, cursor, LastToken)
<1>1. CursorFits(job.tokens, cursor, FirstToken, LastToken)
  BY DEF PageRight, Scanning
<1>2. P \subseteq Wanted
  <2> DEFINE t == job.tokens
             n == job.rowsetSize
  <2>1. /\ Strict(t) /\ n \in Nat /\ n > 1 /\ FirstToken \in Int /\ LastToken \in Int
        /\ Wanted = Inside(t, FirstToken, LastToken)
    BY JobSpec
  <2>2. cursor \in [token : Int, rows : SUBSET Nat] /\ CursorFits(t, cursor, FirstToken, LastToken)
    BY <1>1 DEF Shapes
  <2>3. P = PageRows(t, n, cursor, LastToken)
    OBVIOUS
  <2> HIDE DEF t, n, P
  <2>4. PageRows(t, n, cursor, LastToken) \subseteq Inside(t, FirstToken, LastToken)
    BY <2>1, <2>2, PageStep
  <2> QED
    BY <2>1, <2>3, <2>4
<1> HIDE DEF P
<1>3. P \subseteq Nat /\ IsFiniteSet(P)
  <2>1. P \in SUBSET Wanted /\ Wanted \subseteq Nat /\ IsFiniteSet(Wanted)
    BY <1>2, JobSpec
  <2> QED
    BY <2>1, FS_Subset
<1>4. /\ Ascending(P) \in Seq(P) /\ Increasing(Ascending(P)) /\ Elements(Ascending(P)) = P
      /\ Len(Ascending(P)) = Cardinality(P)
  BY <1>3, AscendingSpec DEF Elements
<1>5. Ascending(P) \in Seq(Nat)
  <2> DEFINE a == Ascending(P)
  <2>1. a \in Seq(P)
    BY <1>4
  <2> HIDE DEF a
  <2>2. Len(a) \in Nat /\ a = [k \in 1..Len(a) |-> a[k]] /\ \A k \in 1..Len(a) : a[k] \in Nat
    BY <1>3, <2>1
  <2>3. a \in [1..Len(a) -> Nat]
    BY <2>2
  <2>4. a \in Seq(Nat)
    BY <2>2, <2>3
  <2> QED
    BY <2>4 DEF a
<1>6. Ascending(P) = <<>> <=> P = {}
  <2>1. P = {} => Cardinality(P) = 0
    BY FS_EmptySet
  <2>2. Len(Ascending(P)) = 0 => Ascending(P) = <<>>
    BY <1>4
  <2>3. Ascending(P) = <<>> => Elements(Ascending(P)) = {}
    <3>1. Elements(<<>>) = {}
      BY DEF Elements
    <3> QED
      BY <3>1
  <2> QED
    BY <1>4, <2>1, <2>2, <2>3
<1> QED
  BY <1>2, <1>3, <1>4, <1>5, <1>6 DEF P

\* The heap, in the order of "top".
LEMMA HeapShape ==
  ASSUME NEW H \in SUBSET Nat, IsFiniteSet(H), NEW s \in SetToSeqs(H)
  PROVE  /\ s \in Seq(Nat) /\ Elements(s) = H
         /\ \A k, l \in 1..Len(s) : k < l => s[k] # s[l]
<1> DEFINE D == 1..Cardinality(H)
<1>1. Cardinality(H) \in Nat /\ IsFiniteSet(D) /\ Cardinality(D) = Cardinality(H)
  <2>1. Cardinality(H) \in Nat
    BY FS_CardinalityType
  <2>2. IsFiniteSet(D) /\ Cardinality(D) = IF 1 > Cardinality(H) THEN 0 ELSE Cardinality(H) - 1 + 1
    BY <2>1, FS_Interval
  <2> QED
    BY <2>1, <2>2
<1>2. s \in [D -> H] /\ \A i, j \in D : i # j => s[i] # s[j]
  BY DEF SetToSeqs
<1>3. s \in Surjection(D, H)
  <2>1. s \in Injection(D, H)
    BY <1>2 DEF Injection, IsInjective
  <2> HIDE DEF D
  <2> QED
    BY <1>1, <2>1, FS_Injection
<1>4. s \in Seq(Nat) /\ Len(s) = Cardinality(H)
  <2> DEFINE n == Cardinality(H)
  <2>1. n \in Nat /\ s \in [1..n -> Nat]
    BY <1>1, <1>2
  <2> HIDE DEF n
  <2>2. s \in Seq(Nat) /\ Len(s) = n
    BY <2>1
  <2> QED
    BY <2>2 DEF n
<1>5. Elements(s) = H
  BY <1>2, <1>3, <1>4 DEF Elements, Surjection
<1>6. \A k, l \in 1..Len(s) : k < l => s[k] # s[l]
  BY <1>1, <1>2, <1>4
<1> QED
  BY <1>4, <1>5, <1>6

-------------------------------------------------------------------------------
\* A row of a page, and the rows before it.
LEMMA RowAt ==
  ASSUME Shapes, NEW i, AtRow(i)
  PROVE  /\ i \in Nat /\ pos \in Nat /\ pos + 1 \in 1..Len(page) /\ i = page[pos + 1]
         /\ pos + 1 \in 0..Len(page)
         /\ {page[k] : k \in 1..(pos + 1)} = Taken \cup {i}
<1>1. page \in Seq(Nat) /\ pos \in 0..Len(page) /\ pos < Len(page) /\ i = page[pos + 1]
  BY DEF Shapes, AtRow
<1>2. Len(page) \in Nat /\ pos \in Nat /\ pos + 1 \in 1..Len(page) /\ pos + 1 \in 0..Len(page)
  BY <1>1
<1>3. i \in Nat
  BY <1>1, <1>2
<1>4. \A k : k \in 1..(pos + 1) <=> k \in 1..pos \/ k = pos + 1
  BY <1>2
<1>5. {page[k] : k \in 1..(pos + 1)} = Taken \cup {i}
  BY <1>1, <1>4 DEF Taken
<1> QED
  BY <1>1, <1>2, <1>3, <1>5

LEMMA ReadPageShapes ==
  ASSUME Shapes, PageRight, ReadPage
  PROVE  Shapes'
<1> DEFINE P == PageRows(job.tokens, job.rowsetSize, cursor, LastToken)
           rows == Ascending(P)
<1>1. /\ phase = "read" /\ pos' = 0
      /\ cursor' = NextCursor(job.tokens, job.rowsetSize, cursor, LastToken)
      /\ UNCHANGED <<job, result, read, added, block, blocksIn, worker, file, uploaded>>
  BY DEF ReadPage, sending
<1>2. rows \in Seq(Nat)
  BY <1>1, PageShape
<1>3. cursor' \in [token : Int, rows : SUBSET Nat]
  <2> DEFINE t == job.tokens
             n == job.rowsetSize
  <2>1. /\ Strict(t) /\ n \in Nat /\ n > 1 /\ FirstToken \in Int /\ LastToken \in Int
    BY JobSpec
  <2>2. cursor \in [token : Int, rows : SUBSET Nat] /\ CursorFits(t, cursor, FirstToken, LastToken)
    BY <1>1 DEF Shapes, PageRight, Scanning
  <2> HIDE DEF t, n
  <2>3. NextCursor(t, n, cursor, LastToken) \in [token : Int, rows : SUBSET Nat]
    BY <2>1, <2>2, PageStep
  <2> QED
    BY <1>1, <2>3 DEF t, n
<1>4. \/ page' = rows /\ phase' \in {"rows", "leftover"} /\ heap' = heap
      \/ (\E s \in SetToSeqs(heap) : page' = s) /\ phase' = "top" /\ heap' = {}
  BY DEF ReadPage
<1> HIDE DEF rows, P
<1>5. heap \in SUBSET Nat /\ IsFiniteSet(heap)
  BY DEF Shapes
<1>6. page' \in Seq(Nat) /\ heap' \in SUBSET Nat /\ IsFiniteSet(heap') /\ phase' \in Phases
  <2>1. CASE page' = rows /\ phase' \in {"rows", "leftover"} /\ heap' = heap
    BY <1>2, <1>5, <2>1 DEF Phases
  <2>2. CASE (\E s \in SetToSeqs(heap) : page' = s) /\ phase' = "top" /\ heap' = {}
    <3>1. page' \in Seq(Nat)
      BY <1>5, <2>2, HeapShape
    <3> QED
      BY <2>2, <3>1, FS_EmptySet DEF Phases
  <2> QED
    BY <1>4, <2>1, <2>2
<1>7. pos' \in 0..Len(page')
  BY <1>1, <1>6
<1> QED
  BY <1>1, <1>3, <1>6, <1>7 DEF Shapes

LEMMA PushRowShapes ==
  ASSUME Shapes, PushRow
  PROVE  Shapes'
<1>1. /\ pos' = pos + 1
      /\ UNCHANGED <<job, phase, result, cursor, page, read, added, block, blocksIn, worker, file,
                     uploaded>>
  BY DEF PushRow, sending
<1>2. PICK i \in Passing : AtRow(i) /\ heap' \subseteq heap \cup {i}
  BY DEF PushRow
<1>3. i \in Nat /\ pos' \in 0..Len(page)
  BY <1>1, <1>2, RowAt
<1>4. heap \in SUBSET Nat /\ IsFiniteSet(heap)
  BY DEF Shapes
<1>5. IsFiniteSet(heap \cup {i})
  BY <1>4, FS_AddElement
<1>6. heap' \in SUBSET Nat /\ IsFiniteSet(heap')
  BY <1>2, <1>3, <1>4, <1>5, FS_Subset
<1> QED
  BY <1>1, <1>3, <1>6 DEF Shapes

LEMMA SendingShapes ==
  ASSUME Shapes, AddRow \/ SendLeftover
  PROVE  Shapes'
<1>1. UNCHANGED <<job, result, cursor, page, read, heap, worker, file, uploaded>>
  BY DEF AddRow, SendLeftover, reading
<1>2. block \in Seq(Nat) /\ blocksIn \in Seq(Seq(Nat)) /\ added \in Nat
  BY DEF Shapes
<1>3. CASE AddRow
  <2>1. PICK i \in Passing :
          /\ AtRow(i)
          /\ \/ block' = Append(block, i) /\ blocksIn' = blocksIn
             \/ blocksIn' = Append(blocksIn, Append(block, i)) /\ block' = <<>>
    BY <1>3 DEF AddRow
  <2>2. i \in Nat /\ pos + 1 \in 0..Len(page)
    BY <2>1, RowAt
  <2>3. Append(block, i) \in Seq(Nat)
    BY <1>2, <2>2, AppendedTo
  <2>4. block' \in Seq(Nat) /\ blocksIn' \in Seq(Seq(Nat))
    <3>1. Append(blocksIn, Append(block, i)) \in Seq(Seq(Nat))
      BY <1>2, <2>3, AppendedTo
    <3>2. <<>> \in Seq(Nat)
      OBVIOUS
    <3> QED
      BY <1>2, <2>1, <2>3, <3>1, <3>2
  <2>5. pos' = pos + 1 /\ added' = added + 1 /\ phase' = phase
    BY <1>3 DEF AddRow
  <2> QED
    BY <1>1, <1>2, <2>2, <2>4, <2>5 DEF Shapes
<1>4. CASE SendLeftover
  <2>1. /\ phase' = "settle" /\ pos' = pos /\ added' = added
        /\ \/ block' = block /\ blocksIn' = blocksIn
           \/ blocksIn' = Append(blocksIn, block) /\ block' = <<>>
    BY <1>4 DEF SendLeftover, reading
  <2>2. block' \in Seq(Nat) /\ blocksIn' \in Seq(Seq(Nat))
    <3>1. Append(blocksIn, block) \in Seq(Seq(Nat))
      BY <1>2, AppendedTo
    <3>2. <<>> \in Seq(Nat)
      OBVIOUS
    <3> QED
      BY <1>2, <2>1, <3>1, <3>2
  <2> QED
    BY <1>1, <1>2, <2>1, <2>2 DEF Shapes, Phases
<1> QED
  BY <1>3, <1>4

LEMMA OtherProducerShapes ==
  ASSUME Shapes, Typed,
         \/ Create \/ CreateFails \/ ReadFails \/ SkipRow \/ EndRows \/ CheckStatus \/ CheckDone
         \/ AwaitStatus \/ CloseChannels \/ Stat \/ Upload
  PROVE  Shapes'
<1>1. UNCHANGED <<job, cursor, page, heap, block, blocksIn, added>>
  BY DEF Create, CreateFails, ReadFails, SkipRow, EndRows, CheckStatus, CheckDone, AwaitStatus,
         CloseChannels, Stat, Upload, reading, sending
<1>2. phase' \in Phases
  BY DEF Create, CreateFails, ReadFails, SkipRow, EndRows, CheckStatus, CheckDone, AwaitStatus,
         CloseChannels, Stat, Upload, Shapes, Phases
<1>3. result' \in BOOLEAN
  <2>1. CASE CheckStatus \/ AwaitStatus
    <3>1. statuses # <<>> /\ result' = (result /\ Head(statuses)) /\ statuses \in Seq(BOOLEAN)
      BY <2>1 DEF CheckStatus, AwaitStatus, Settle, Typed
    <3> QED
      BY <3>1
  <2>2. CASE ~(CheckStatus \/ AwaitStatus)
    BY <2>2 DEF Create, CreateFails, ReadFails, SkipRow, EndRows, CheckDone, CloseChannels, Stat,
         Upload, Shapes
  <2> QED
    BY <2>1, <2>2
<1>4. pos' \in 0..Len(page)
  <2>1. CASE SkipRow
    BY <2>1, RowAt DEF SkipRow
  <2>2. CASE ~SkipRow
    BY <2>2 DEF Create, CreateFails, ReadFails, EndRows, CheckStatus, CheckDone, AwaitStatus,
         CloseChannels, Stat, Upload, reading, Shapes
  <2> QED
    BY <2>1, <2>2
<1>5. read' \in Nat
  <2>1. Len(page) \in Nat /\ read \in Nat
    BY DEF Shapes
  <2>2. read' = read \/ read' = read + Len(page)
    BY DEF Create, CreateFails, ReadFails, SkipRow, EndRows, CheckStatus, CheckDone, AwaitStatus,
         CloseChannels, Stat, Upload, reading
  <2> QED
    BY <2>1, <2>2
<1>6. /\ file' \in Files /\ uploaded' \in Files
      /\ worker' \in Workers
  <2>1. CASE Create
    <3>1. /\ file' \in {[rows |-> <<>>, size |-> "some", whole |-> TRUE],
                        [rows |-> <<>>, size |-> "zero", whole |-> FALSE]}
          /\ uploaded' = uploaded /\ worker' = [worker EXCEPT !.at = "start"]
      BY <2>1 DEF Create
    <3>2. <<>> \in Seq(Nat)
      OBVIOUS
    <3>3. file' \in Files
      <4>1. /\ [rows |-> <<>>, size |-> "some", whole |-> TRUE] \in Files
            /\ [rows |-> <<>>, size |-> "zero", whole |-> FALSE] \in Files
        BY <3>2, Zenon DEF Files
      <4> QED
        BY <3>1, <4>1
    <3>4. worker' \in Workers
      BY <3>1 DEF Shapes, Workers, WorkerAts
    <3> QED
      BY <3>1, <3>3, <3>4 DEF Shapes
  <2>2. CASE ~Create
    BY <2>2 DEF CreateFails, ReadFails, SkipRow, EndRows, CheckStatus, CheckDone, AwaitStatus,
         CloseChannels, Stat, Upload, Shapes
  <2> QED
    BY <2>1, <2>2
<1> QED
  BY <1>1, <1>2, <1>3, <1>4, <1>5, <1>6 DEF Shapes

LEMMA WroteRows ==
  ASSUME Shapes, NEW b \in Seq(Nat), NEW at \in WorkerAts, Wrote(b, at)
  PROVE  /\ file' \in Files /\ file'.rows = file.rows \o b
         /\ file'.size = file.size /\ file'.whole = file.whole
         /\ worker' \in Workers /\ worker' = [worker EXCEPT !.at = at]
<1>1. file \in Files /\ file' = [file EXCEPT !.rows = @ \o b]
  BY DEF Wrote, Shapes
<1>2. file.rows \o b \in Seq(Nat)
  BY <1>1 DEF Files
<1>3. worker \in Workers /\ worker' = [worker EXCEPT !.at = at]
  BY DEF Wrote, Shapes
<1>4. worker' \in Workers
  BY <1>3 DEF Workers
<1> QED
  BY <1>1, <1>2, <1>3, <1>4 DEF Files

LEMMA GroupedRows ==
  ASSUME Shapes, NEW b \in Seq(Nat), NEW at \in WorkerAts, Grouped(b, at)
  PROVE  /\ worker' \in Workers /\ worker'.at = at /\ worker'.group = worker.group \o b
         /\ worker'.openOk = worker.openOk /\ worker'.closeOk = worker.closeOk
<1>1. worker \in Workers /\ worker' = [worker EXCEPT !.at = at, !.group = @ \o b]
  BY DEF Grouped, Shapes
<1>2. worker.group \o b \in Seq(Nat)
  BY <1>1 DEF Workers
<1> QED
  BY <1>1, <1>2 DEF Workers

\* The two workers take a block, or a part of it.
LEMMA WrittenBlock ==
  ASSUME Shapes, WriteCsv \/ WriteParquet
  PROVE  \E b \in Seq(Nat), at \in {"good", "bad"} :
           /\ at = "good" => b = worker.block
           /\ \/ job.format = "csv" /\ Wrote(b, at)
              \/ job.format = "parquet" /\ Grouped(b, at) /\ file' = file
<1>1. worker.block \in Seq(Nat) /\ Len(worker.block) \in Nat
  BY DEF Shapes, Workers
<1>2. \A n \in {0, Len(worker.block)} \cup (0..Len(worker.block)-1) :
        SubSeq(worker.block, 1, n) \in Seq(Nat)
  <2>1. \A n \in {0, Len(worker.block)} \cup (0..Len(worker.block)-1) :
          n \in Nat /\ n <= Len(worker.block)
    BY <1>1
  <2> QED
    BY <1>1, <2>1
<1>3. CASE WriteCsv
  <2>1. \/ Wrote(worker.block, "good")
        \/ \E n \in {0, Len(worker.block)} : Wrote(SubSeq(worker.block, 1, n), "bad")
    BY <1>3 DEF WriteCsv
  <2>2. job.format = "csv"
    BY <1>3 DEF WriteCsv
  <2> QED
    BY <1>1, <1>2, <2>1, <2>2
<1>4. CASE WriteParquet
  <2>1. \/ Grouped(worker.block, "good")
        \/ \E n \in 0..Len(worker.block)-1 : Grouped(SubSeq(worker.block, 1, n), "bad")
    BY <1>4 DEF WriteParquet
  <2>2. job.format = "parquet" /\ file' = file
    BY <1>4 DEF WriteParquet
  <2> QED
    BY <1>1, <1>2, <2>1, <2>2
<1> QED
  BY <1>3, <1>4

LEMMA WorkerShapes ==
  ASSUME Shapes, Worker
  PROVE  Shapes'
<1>1. UNCHANGED <<job, phase, result, cursor, page, pos, read, heap, block, added>>
  BY DEF Worker, Open, TakeBlock, WriteCsv, WriteParquet, Answer, Finish, WriteFooter, Static,
         reading
<1>2. /\ file \in Files /\ uploaded \in Files /\ blocksIn \in Seq(Seq(Nat))
      /\ worker \in Workers
  BY DEF Shapes
<1>3. CASE Open
  <2>1. UNCHANGED <<blocksIn, file, uploaded>>
    BY <1>3 DEF Open
  <2>2. worker' \in Workers
    BY <1>2, <1>3 DEF Open, Workers, WorkerAts
  <2> QED
    BY <1>1, <1>2, <2>1, <2>2 DEF Shapes
<1>4. CASE TakeBlock
  <2>1. /\ UNCHANGED <<file, uploaded>> /\ blocksIn # <<>> /\ blocksIn' = Tail(blocksIn)
        /\ worker' = [worker EXCEPT !.at = IF worker.openOk THEN "write" ELSE "bad",
                                    !.block = Head(blocksIn)]
    BY <1>4 DEF TakeBlock
  <2>2. Head(blocksIn) \in Seq(Nat) /\ Tail(blocksIn) \in Seq(Seq(Nat))
    <3> DEFINE S == Seq(Nat)
    <3>1. blocksIn \in Seq(S)
      BY <1>2
    <3> HIDE DEF S
    <3>2. Head(blocksIn) \in S /\ Tail(blocksIn) \in Seq(S)
      BY <2>1, <3>1
    <3> QED
      BY <3>2 DEF S
  <2>3. worker' \in Workers
    BY <1>2, <2>1, <2>2 DEF Workers, WorkerAts
  <2> QED
    BY <1>1, <1>2, <2>1, <2>2, <2>3 DEF Shapes
<1>5. CASE WriteCsv \/ WriteParquet
  <2>1. UNCHANGED <<blocksIn, uploaded>>
    BY <1>5 DEF WriteCsv, WriteParquet
  <2>2. file' \in Files /\ worker' \in Workers
    <3>1. PICK b \in Seq(Nat), at \in {"good", "bad"} :
            Wrote(b, at) \/ (Grouped(b, at) /\ file' = file)
      BY <1>5, WrittenBlock
    <3>2. at \in WorkerAts
      BY DEF WorkerAts
    <3> QED
      BY <1>2, <3>1, <3>2, WroteRows, GroupedRows
  <2> QED
    BY <1>1, <1>2, <2>1, <2>2 DEF Shapes
<1>6. CASE Answer
  <2>1. /\ UNCHANGED <<blocksIn, file, uploaded>>
        /\ worker' = [worker EXCEPT !.at = "idle", !.block = <<>>]
    BY <1>6 DEF Answer
  <2>2. <<>> \in Seq(Nat)
    OBVIOUS
  <2>3. worker' \in Workers
    BY <1>2, <2>1, <2>2 DEF Workers, WorkerAts
  <2> QED
    BY <1>1, <1>2, <2>1, <2>3 DEF Shapes
<1>7. CASE Finish
  <2>1. UNCHANGED <<blocksIn, uploaded>>
    BY <1>7 DEF Finish
  <2>2. worker' \in Workers
    <3>1. <<>> \in Seq(Nat)
      OBVIOUS
    <3> QED
      BY <1>2, <1>7, <3>1 DEF Finish, CloseFails, Workers, WorkerAts
  <2>3. file' \in Files
    BY <1>2, <1>7 DEF Finish, Files, Workers
  <2> QED
    BY <1>1, <1>2, <2>1, <2>2, <2>3 DEF Shapes
<1>8. CASE WriteFooter
  <2>1. UNCHANGED <<blocksIn, uploaded>>
    BY <1>8 DEF WriteFooter
  <2>2. worker' \in Workers
    BY <1>2, <1>8 DEF WriteFooter, CloseFails, Workers, WorkerAts
  <2>3. file' \in Files
    BY <1>2, <1>8 DEF WriteFooter, Files
  <2> QED
    BY <1>1, <1>2, <2>1, <2>2, <2>3 DEF Shapes
<1> QED
  BY <1>3, <1>4, <1>5, <1>6, <1>7, <1>8 DEF Worker

-------------------------------------------------------------------------------
LEMMA ProducerEnds ==
  ASSUME Shapes, Ends, Producer
  PROVE  Ends'
<1> USE DEF Producer, Create, CreateFails, ReadPage, ReadFails, SkipRow, PushRow, AddRow, EndRows,
            CheckStatus, CheckDone, SendLeftover, AwaitStatus, CloseChannels, Stat, Upload, AtRow,
            sending
<1>1. job' = job /\ HasTop' = HasTop
  BY DEF HasTop
<1>2. (~result => phase \in {"check", "leftover", "settle", "failed"})'
  BY DEF Ends, Shapes, Settle
<1>3. /\ phase' # "create"
      /\ (phase = "top" => HasTop)'
  BY <1>1 DEF Ends
<1>4. (phase \in {"settle", "stat", "upload", "done"} => block = <<>>)'
  BY DEF Ends
<1>5. (phase \in {"stat", "upload", "done"} => closed)'
  BY DEF Ends
<1>6. (job.format = "csv" /\ phase \notin {"create", "failed"} => file.whole)'
  <2>1. CASE Create
    BY <2>1
  <2>2. CASE ~Create
    <3>1. file' = file /\ (phase \in {"create", "failed"} => phase' = "failed")
      BY <2>2
    <3> QED
      BY <1>1, <3>1 DEF Ends
  <2> QED
    BY <2>1, <2>2
<1>7. /\ (job.format = "csv" /\ phase = "done" /\ job.remote => uploaded.whole)'
      /\ (phase = "done" /\ job.remote /\ uploaded.whole => uploaded.rows = file.rows)'
  <2>1. CASE Upload
    <3>1. file' = file /\ phase = "upload"
      BY <2>1
    <3> QED
      BY <1>1, <2>1, <3>1 DEF Ends
  <2>2. CASE ~Upload
    <3>1. phase' = "done" => ~job.remote \/ (phase = "done" /\ UNCHANGED <<file, uploaded>>)
      BY <2>2
    <3> QED
      BY <1>1, <3>1 DEF Ends
  <2> QED
    BY <2>1, <2>2
<1> QED
  BY <1>2, <1>3, <1>4, <1>5, <1>6, <1>7 DEF Ends

LEMMA WorkerEnds ==
  ASSUME IInv, Shapes, Ends, Grouping, Worker
  PROVE  Ends'
<1>1. /\ UNCHANGED <<job, phase, result, block, closed>> /\ HasTop' = HasTop
      /\ phase # "create"
  <2>1. worker.at # "exit"
    BY DEF Worker, Open, TakeBlock, WriteCsv, WriteParquet, Answer, Report, Finish, WriteFooter
  <2> QED
    BY <2>1 DEF Worker, Open, TakeBlock, WriteCsv, WriteParquet, Answer, Finish, WriteFooter,
                Static, HasTop, IInv, NotYetStarted
<1>2. CASE UNCHANGED <<file, uploaded>>
  BY <1>1, <1>2 DEF Ends
<1>3. CASE WriteCsv \/ WriteParquet
  <2>1. uploaded' = uploaded /\ worker.at = "write"
    BY <1>3 DEF WriteCsv, WriteParquet
  <2>2. file'.whole = file.whole
    <3>1. PICK b \in Seq(Nat), at \in {"good", "bad"} :
            Wrote(b, at) \/ (Grouped(b, at) /\ file' = file)
      BY <1>3, WrittenBlock
    <3>2. at \in WorkerAts
      BY DEF WorkerAts
    <3> QED
      BY <3>1, <3>2, WroteRows
  <2>3. phase # "done"
    <3>1. sent \in Nat /\ Len(blocksIn) \in Nat /\ Len(statuses) \in Nat
      BY DEF IInv, Typed
    <3>2. InHand = 1
      BY <2>1 DEF InHand
    <3>3. sent # 0
      BY <3>1, <3>2 DEF IInv, Counted
    <3> QED
      BY <3>3 DEF IInv, ClosedAtTheEnd, Ends
  <2> QED
    BY <1>1, <2>1, <2>2, <2>3 DEF Ends
<1>4. CASE Finish \/ WriteFooter
  <2>1. uploaded' = uploaded /\ (file.whole => file'.whole)
    BY <1>4 DEF Finish, WriteFooter, Shapes, Files
  <2>2. uploaded.whole => file'.rows = file.rows
    <3>1. CASE WriteFooter
      BY <3>1 DEF WriteFooter, Shapes, Files
    <3>2. CASE Finish
      <4>1. job.format \in {"csv", "parquet"}
        BY FileAssumption DEF Shapes
      <4> QED
        BY <3>2, <4>1 DEF Finish, Grouping
    <3> QED
      BY <1>4, <3>1, <3>2
  <2> QED
    BY <1>1, <2>1, <2>2 DEF Ends
<1> QED
  BY <1>2, <1>3, <1>4 DEF Worker, Open, TakeBlock, Answer

LEMMA ProducerGrouping ==
  ASSUME IInv, Shapes, Ends, Grouping, Producer
  PROVE  Grouping'
<1>1. CASE Create
  <2>1. /\ phase = "create" /\ phase' = "read" /\ job' = job /\ uploaded' = uploaded
        /\ worker' = [worker EXCEPT !.at = "start"]
        /\ job.format = "parquet" => file' = [rows |-> <<>>, size |-> "zero", whole |-> FALSE]
    BY <1>1, FileAssumption DEF Create, Shapes
  <2>2. worker'.at = "start" /\ worker'.group = worker.group
    BY <2>1 DEF Shapes, Workers
  <2> QED
    BY <2>1, <2>2 DEF Grouping, Ends, EndedWell
<1>2. CASE ~Create
  <2>1. UNCHANGED <<job, worker, file>> /\ phase' # "create"
    BY <1>2 DEF Producer, CreateFails, ReadPage, ReadFails, SkipRow, PushRow, AddRow, EndRows,
                CheckStatus, CheckDone, SendLeftover, AwaitStatus, CloseChannels, Stat, Upload,
                AtRow
  <2>2. uploaded' \in {uploaded, file}
    BY <1>2 DEF Producer, CreateFails, ReadPage, ReadFails, SkipRow, PushRow, AddRow, EndRows,
                CheckStatus, CheckDone, SendLeftover, AwaitStatus, CloseChannels, Stat, Upload
  <2>3. phase \in {"create", "failed"} => phase' \in {"create", "failed"}
    BY <1>2 DEF Producer, CreateFails, ReadPage, ReadFails, SkipRow, PushRow, AddRow, EndRows,
                CheckStatus, CheckDone, SendLeftover, AwaitStatus, CloseChannels, Stat, Upload,
                AtRow
  <2> QED
    BY <2>1, <2>2, <2>3 DEF Grouping, EndedWell
<1> QED
  BY <1>1, <1>2

LEMMA WorkerGrouping ==
  ASSUME IInv, Shapes, Ends, Grouping, Worker
  PROVE  Grouping'
<1>1. UNCHANGED <<job, phase>> /\ phase # "create" /\ uploaded' = uploaded
  <2>1. worker.at # "exit"
    BY DEF Worker, Open, TakeBlock, WriteCsv, WriteParquet, Answer, Report, Finish, WriteFooter
  <2> QED
    BY <2>1 DEF Worker, Open, TakeBlock, WriteCsv, WriteParquet, Answer, Finish, WriteFooter,
                Static, IInv, NotYetStarted
<1>2. worker \in Workers /\ file \in Files /\ job.format \in {"csv", "parquet"}
  BY FileAssumption DEF Shapes
<1>3. CASE Open \/ TakeBlock \/ Answer
  <2>1. /\ file' = file /\ worker'.group = worker.group
        /\ worker.at \notin {"footer", "exit"} /\ worker'.at \notin {"footer", "exit"}
    BY <1>2, <1>3 DEF Open, TakeBlock, Answer, Report, Workers
  <2> QED
    BY <1>1, <2>1 DEF Grouping, EndedWell
<1>4. CASE WriteCsv \/ WriteParquet
  <2>1. worker.at = "write"
    BY <1>4 DEF WriteCsv, WriteParquet
  <2>2. PICK b \in Seq(Nat), at \in {"good", "bad"} :
          \/ job.format = "csv" /\ Wrote(b, at)
          \/ job.format = "parquet" /\ Grouped(b, at) /\ file' = file
    BY <1>4, WrittenBlock
  <2>3. at \in WorkerAts
    BY DEF WorkerAts
  <2>4. CASE job.format = "csv" /\ Wrote(b, at)
    <3>1. worker'.group = worker.group
      BY <1>2, <2>4 DEF Wrote, Workers
    <3> QED
      BY <1>1, <2>4, <3>1 DEF Grouping
  <2>5. CASE job.format = "parquet" /\ Grouped(b, at) /\ file' = file
    <3>1. worker'.at = at
      BY <2>3, <2>5, GroupedRows
    <3> QED
      BY <1>1, <2>1, <2>5, <3>1 DEF Grouping, EndedWell
  <2> QED
    BY <2>2, <2>4, <2>5
<1>5. CASE Finish
  <2>1. CASE job.format = "csv"
    BY <1>1, <1>2, <1>5, <2>1 DEF Finish, Grouping, Workers
  <2>2. CASE job.format = "parquet" /\ worker.openOk
    <3>1. worker.at = "idle" /\ ~file.whole /\ ~uploaded.whole
      BY <1>5, <2>2 DEF Finish, Grouping
    <3>2. CASE worker' = [worker EXCEPT !.at = "footer", !.group = <<>>]
      <4>1. worker'.at = "footer" /\ worker'.group = <<>> /\ file'.whole = file.whole
        BY <1>2, <1>5, <2>2, <3>2 DEF Finish, Files, Workers
      <4> QED
        BY <1>1, <2>2, <3>1, <4>1 DEF Grouping, EndedWell
    <3>3. CASE CloseFails
      <4>1. worker'.at = "exit" /\ ~worker'.closeOk
        BY <1>2, <3>3 DEF CloseFails, Workers
      <4>2. file'.whole = file.whole
        BY <1>2, <1>5, <2>2 DEF Finish, Files
      <4> QED
        BY <1>1, <2>2, <3>1, <4>1, <4>2 DEF Grouping, EndedWell
    <3> QED
      BY <1>5, <2>2, <3>2, <3>3 DEF Finish
  <2>3. CASE job.format = "parquet" /\ ~worker.openOk
    <3>1. worker.at = "idle" /\ file' = file /\ worker' = [worker EXCEPT !.at = "exit"]
      BY <1>5, <2>3 DEF Finish
    <3>2. worker'.at = "exit" /\ ~worker'.openOk
      BY <1>2, <2>3, <3>1 DEF Workers
    <3> QED
      BY <1>1, <2>3, <3>1, <3>2 DEF Grouping, EndedWell
  <2> QED
    BY <1>2, <2>1, <2>2, <2>3
<1>6. CASE WriteFooter
  <2>1. worker.at = "footer" /\ worker'.at = "exit" /\ worker'.group = worker.group
    BY <1>2, <1>6 DEF WriteFooter, CloseFails, Workers
  <2>2. file'.whole \/ (file' = file /\ ~worker'.closeOk)
    BY <1>2, <1>6 DEF WriteFooter, CloseFails, Files, Workers
  <2> QED
    BY <1>1, <2>1, <2>2 DEF Grouping, EndedWell
<1> QED
  BY <1>3, <1>4, <1>5, <1>6 DEF Worker

-------------------------------------------------------------------------------
\* What the producer has read.

\* It does not resume once it gave up.
LEMMA GaveUpStays ==
  ASSUME Shapes, Ends, Next, GaveUp
  PROVE  GaveUp'
<1>1. phase = "failed" => phase' = "failed"
  BY DEF Next, Producer, Create, CreateFails, ReadPage, ReadFails, SkipRow, PushRow, AddRow,
         EndRows,
         CheckStatus, CheckDone, SendLeftover, AwaitStatus, CloseChannels, Stat, Upload, AtRow,
         Worker, Open, TakeBlock, WriteCsv, WriteParquet, Answer, Finish, WriteFooter, Static,
         Stopped, vars
<1>2. ~result => ~result'
  BY DEF Next, Producer, Create, CreateFails, ReadPage, ReadFails, SkipRow, PushRow, AddRow,
         EndRows,
         CheckStatus, CheckDone, SendLeftover, AwaitStatus, CloseChannels, Stat, Upload, AtRow,
         Worker, Open, TakeBlock, WriteCsv, WriteParquet, Answer, Finish, WriteFooter, Static,
         Stopped, vars, Settle
<1> QED
  BY <1>1, <1>2 DEF GaveUp

\* All that is said of pages depends on these.
LEMMA SameReading ==
  ASSUME UNCHANGED <<job, reading>>,
         phase' = phase \/ (Scanning' = Scanning /\ phase # "rows" /\ phase' # "rows")
  PROVE  /\ Wanted' = Wanted /\ ToWrite' = ToWrite /\ HasTop' = HasTop
         /\ Gotten' = Gotten /\ Behind' = Behind /\ Taken' = Taken
         /\ Passed' = Passed /\ Sent' = Sent /\ Earlier' = Earlier
         /\ PageRight => PageRight'
         /\ HeapRight /\ (HasTop /\ phase = "top" => phase' = "top") => HeapRight'
<1>1. UNCHANGED <<job, cursor, page, pos, read, heap>>
  BY DEF reading
<1>2. Wanted' = Wanted /\ ToWrite' = ToWrite /\ HasTop' = HasTop /\ Scanning' = Scanning
  BY <1>1 DEF Wanted, ToWrite, HasTop, Scanning
<1>3. Gotten' = Gotten
  BY <1>1, <1>2 DEF Gotten
<1>4. (phase = "rows") = (phase' = "rows")
  OBVIOUS
<1>5. Behind' = Behind
  BY <1>1, <1>3, <1>4 DEF Behind
<1>6. Taken' = Taken
  BY <1>1 DEF Taken
<1>7. Passed' = Passed
  BY <1>4, <1>5, <1>6 DEF Passed
<1>8. Sent' = Sent
  BY <1>2, <1>6, <1>7 DEF Sent
<1>9. Earlier' = Earlier
  BY <1>1, <1>2 DEF Earlier
<1>10. PageRight => PageRight'
  BY <1>1, <1>2, <1>3, <1>4, <1>5 DEF PageRight
<1>11. ASSUME HeapRight, HasTop /\ phase = "top" => phase' = "top" PROVE HeapRight'
  BY <1>1, <1>2, <1>7, <1>11 DEF HeapRight, Firsts
<1> QED
  BY <1>2, <1>3, <1>5, <1>6, <1>7, <1>8, <1>9, <1>10, <1>11

-------------------------------------------------------------------------------
LEMMA ReadPageRight ==
  ASSUME Shapes, Ends, PageRight, HeapRight, ReadPage
  PROVE  /\ PageRight' /\ HeapRight'
         /\ Sent' = Sent /\ (HasTop => Sent = {}) /\ HasTop' = HasTop
<1> DEFINE t == job.tokens
           n == job.rowsetSize
           P == PageRows(t, n, cursor, LastToken)
           rows == Ascending(P)
<1>1. /\ phase = "read" /\ pos' = 0 /\ cursor' = NextCursor(t, n, cursor, LastToken)
      /\ UNCHANGED <<job, result, read, added, block, blocksIn, worker, file, uploaded>>
  BY DEF ReadPage, sending
<1>2. /\ Strict(t) /\ n \in Nat /\ n > 1 /\ FirstToken \in Int /\ LastToken \in Int
      /\ Wanted = Inside(t, FirstToken, LastToken)
  BY JobSpec
<1>3. cursor \in [token : Int, rows : SUBSET Nat] /\ CursorFits(t, cursor, FirstToken, LastToken)
  BY <1>1 DEF Shapes, PageRight, Scanning
<1>4. /\ \A i \in P : ~ReadUpTo(t, cursor, i)
      /\ P = {} => \A i \in Wanted : ReadUpTo(t, cursor, i)
      /\ P # {} => /\ CursorFits(t, cursor', FirstToken, LastToken)
                   /\ \A i \in Wanted :
                        ReadUpTo(t, cursor', i) <=> ReadUpTo(t, cursor, i) \/ i \in P
      /\ \A i \in Wanted, k \in P : ReadUpTo(t, cursor, i) => i < k
  <2> HIDE DEF t, n
  <2> QED
    BY <1>1, <1>2, <1>3, PageStep
<1>5. /\ P \subseteq Wanted /\ IsFiniteSet(P)
      /\ rows \in Seq(Nat) /\ Elements(rows) = P /\ Increasing(rows)
      /\ rows = <<>> <=> P = {}
  BY <1>1, PageShape
<1>6. /\ rows # <<>> => page' = rows /\ phase' = "rows" /\ heap' = heap
      /\ rows = <<>> /\ HasTop =>
           /\ \E s \in SetToSeqs(heap) :
                (\A i, k \in 1..Len(s) : i < k => KeyOf[s[i]] <= KeyOf[s[k]]) /\ page' = s
           /\ heap' = {} /\ phase' = "top"
      /\ rows = <<>> /\ ~HasTop => page' = rows /\ phase' = "leftover" /\ heap' = heap
  BY DEF ReadPage
<1>7. t' = t /\ Wanted' = Wanted /\ ToWrite' = ToWrite /\ HasTop' = HasTop
  BY <1>1 DEF Wanted, ToWrite, HasTop
<1>8. /\ Scanning /\ Gotten = {i \in Wanted : ReadUpTo(t, cursor, i)}
      /\ Behind = Gotten /\ Passed = Gotten \cap Passing
  BY <1>1 DEF Scanning, Gotten, Behind, Passed
<1>9. Taken' = {}
  BY <1>1 DEF Taken
<1>10. read = Cardinality(Gotten) /\ (HasTop => Firsts(heap, Passed)) /\ (HasTop => Sent = {})
  BY <1>8 DEF PageRight, HeapRight, Sent
<1> HIDE DEF rows, P
<1>11. CASE P # {}
  <2>1. page' = rows /\ phase' = "rows" /\ heap' = heap /\ Scanning'
    BY <1>5, <1>6, <1>11 DEF Scanning
  <2>2. Gotten' = {i \in Wanted : ReadUpTo(t, cursor', i)}
    BY <1>7, <2>1 DEF Gotten
  <2> HIDE DEF t
  <2>3. Gotten' = Gotten \cup P /\ Gotten \cap P = {}
    BY <1>4, <1>5, <1>8, <1>11, <2>2
  <2>4. Elements(page)' = P
    BY <1>5, <2>1 DEF Elements
  <2>5. Behind' = Gotten
    BY <2>1, <2>3, <2>4 DEF Behind
  <2>6. Passed' = Passed
    BY <1>8, <1>9, <2>1, <2>5 DEF Passed
  <2>7. Sent' = Sent
    BY <1>7, <1>8, <2>1, <2>6 DEF Sent
  <2>8. PageRight'
    <3>1. CursorFits(job.tokens, cursor, FirstToken, LastToken)'
      BY <1>1, <1>4, <1>11 DEF t, CursorFits
    <3>2. (read = Cardinality(Behind))'
      BY <1>1, <1>10, <2>5
    <3>3. Increasing(page)'
      BY <1>5, <2>1 DEF Increasing
    <3>4. (Elements(page) \subseteq Gotten)'
      BY <2>3, <2>4
    <3>5. \A i \in Gotten, k \in P : i < k
      BY <1>4, <1>8
    <3> QED
      BY <3>1, <3>2, <3>3, <3>4, <3>5, <2>4, <2>5 DEF PageRight
  <2>9. HeapRight'
    BY <1>1, <1>7, <1>10, <2>1, <2>6 DEF HeapRight, Firsts
  <2> QED
    BY <1>7, <1>10, <2>7, <2>8, <2>9
<1>12. CASE P = {}
  <2>1. /\ HasTop => /\ \E s \in SetToSeqs(heap) :
                          (\A i, k \in 1..Len(s) : i < k => KeyOf[s[i]] <= KeyOf[s[k]]) /\ page' = s
                     /\ phase' = "top"
        /\ ~HasTop => page' = <<>> /\ phase' = "leftover"
    BY <1>5, <1>6, <1>12
  <2>2. Gotten = Wanted
    BY <1>4, <1>8, <1>12
  <2>3. ~Scanning' /\ phase' # "rows"
    BY <2>1 DEF Scanning
  <2>4. Gotten' = Wanted /\ Behind' = Wanted /\ Passed' = Passed
    BY <1>7, <1>8, <2>2, <2>3 DEF Gotten, Behind, Passed
  <2>5. Sent' = Sent
    BY <1>7, <1>9, <1>10, <2>3, <2>4 DEF Sent
  <2>6. PageRight'
    BY <1>1, <1>10, <2>2, <2>3, <2>4 DEF PageRight
  <2>7. HeapRight'
    <3> SUFFICES ASSUME HasTop PROVE HeapRight'
      BY <1>7 DEF HeapRight
    <3>1. PICK s \in SetToSeqs(heap) :
            (\A i, k \in 1..Len(s) : i < k => KeyOf[s[i]] <= KeyOf[s[k]]) /\ page' = s
      BY <2>1
    <3>2. heap \in SUBSET Nat /\ IsFiniteSet(heap)
      BY DEF Shapes
    <3>3. Elements(s) = heap /\ \A k, l \in 1..Len(s) : k < l => s[k] # s[l]
      BY <3>2, HeapShape
    <3>4. Elements(page)' = heap
      BY <3>1, <3>3 DEF Elements
    <3>5. InTopOrder(page)'
      BY <3>1, <3>3 DEF InTopOrder
    <3>6. Passed = ToWrite
      BY <1>8, <2>2 DEF ToWrite
    <3>7. Firsts(Elements(page), ToWrite)'
      BY <1>1, <1>7, <1>10, <3>4, <3>6 DEF Firsts
    <3> QED
      BY <2>1, <2>3, <3>5, <3>7 DEF HeapRight
  <2> QED
    BY <1>7, <1>10, <2>5, <2>6, <2>7
<1> QED
  BY <1>11, <1>12

-------------------------------------------------------------------------------
\* The rows of a page, one by one.
LEMMA NextRow ==
  ASSUME Shapes, PageRight, HeapRight, Ends, NEW i, AtRow(i), pos' = pos + 1,
         UNCHANGED <<job, phase, cursor, page, read>>
  PROVE  /\ Wanted' = Wanted /\ ToWrite' = ToWrite /\ HasTop' = HasTop /\ Earlier' = Earlier
         /\ PageRight' /\ Taken' = Taken \cup {i}
         /\ phase = "rows" => /\ Passed' = Passed \cup ({i} \cap Passing)
                              /\ \A x \in Passed : x \in Nat /\ x < i
         /\ phase = "top" => /\ HasTop /\ i \in Passing
                             /\ \A x \in Taken : x \in Nat /\ x # i /\ <<x, i>> \in Earlier
<1>1. /\ i \in Nat /\ pos \in Nat /\ pos + 1 \in 1..Len(page) /\ i = page[pos + 1]
      /\ {page[k] : k \in 1..(pos + 1)} = Taken \cup {i}
  BY RowAt
<1>2. Wanted' = Wanted /\ ToWrite' = ToWrite /\ HasTop' = HasTop /\ Earlier' = Earlier
      /\ Scanning' = Scanning
  BY DEF Wanted, ToWrite, HasTop, Earlier, Scanning
<1>3. Gotten' = Gotten /\ Behind' = Behind
  BY <1>2 DEF Gotten, Behind
<1>4. PageRight'
  BY <1>2, <1>3 DEF PageRight
<1>5. Taken' = Taken \cup {i}
  BY <1>1 DEF Taken
<1>6. \A k \in 1..pos : k \in Nat /\ k \in 1..Len(page) /\ k < pos + 1 /\ page[k] \in Nat
  <2>1. page \in Seq(Nat)
    BY DEF Shapes
  <2>2. Len(page) \in Nat
    BY <2>1
  <2>3. \A k \in 1..pos : k \in 1..Len(page)
    BY <1>1, <2>2
  <2> QED
    BY <1>1, <2>1, <2>3
<1>7. i \in Elements(page) /\ Taken \subseteq Elements(page)
  BY <1>1, <1>6 DEF Elements, Taken
<1>8. ASSUME phase = "rows"
      PROVE  /\ Passed' = Passed \cup ({i} \cap Passing)
             /\ \A x \in Passed : x \in Nat /\ x < i
  <2>1. /\ Passed = (Behind \cup Taken) \cap Passing
        /\ Passed' = (Behind \cup Taken \cup {i}) \cap Passing
    BY <1>3, <1>5, <1>8 DEF Passed
  <2>2. \A x \in Behind : x < i
    BY <1>7, <1>8 DEF PageRight
  <2>3. \A x \in Behind : x \in Nat
    <3>1. Wanted \subseteq Nat
      BY JobSpec
    <3> QED
      BY <3>1 DEF Behind, Gotten
  <2>4. \A x \in Taken : x \in Nat /\ x < i
    BY <1>1, <1>6, <1>8 DEF Taken, PageRight, Increasing
  <2> QED
    BY <2>1, <2>2, <2>3, <2>4
<1>9. ASSUME phase = "top"
      PROVE  /\ HasTop /\ i \in Passing
             /\ \A x \in Taken : x \in Nat /\ x # i /\ <<x, i>> \in Earlier
  <2>1. HasTop
    BY <1>9 DEF Ends
  <2>2. Firsts(Elements(page), ToWrite) /\ InTopOrder(page)
    BY <1>9, <2>1 DEF HeapRight, Scanning
  <2>3. i \in Passing
    BY <1>7, <2>2 DEF Firsts, ToWrite
  <2>4. ASSUME NEW k \in 1..pos
        PROVE  page[k] \in Nat /\ page[k] # i /\ <<page[k], i>> \in Earlier
    <3>1. k \in 1..Len(page) /\ k < pos + 1
      BY <1>6
    <3>2. page[k] # page[pos + 1]
      BY <1>1, <2>2, <3>1 DEF InTopOrder
    <3>3. <<k, pos + 1>> \in {p \in (1..Len(page)) \X (1..Len(page)) : p[1] < p[2]}
      BY <1>1, <3>1
    <3>4. <<page[k], page[pos + 1]>> \in Pairs(page)
      BY <3>3 DEF Pairs
    <3> QED
      BY <1>1, <1>6, <2>1, <3>2, <3>4 DEF Earlier
  <2> QED
    BY <2>1, <2>3, <2>4 DEF Taken
<1> QED
  BY <1>2, <1>4, <1>5, <1>8, <1>9

\* A row goes to the heap, and one of those with the largest key leaves it when it is over its
\* limit.
LEMMA HeapStep ==
  ASSUME NEW S, S \subseteq Passing, IsFiniteSet(S), NEW i \in Passing, i \notin S,
         job.top \in Nat, job.top > 0, NEW H, Firsts(H, S), NEW G,
         IF Evicted(H \cup {i}) THEN \E out \in Popped(H \cup {i}) : G = (H \cup {i}) \ {out}
                                ELSE G = H \cup {i}
  PROVE  Firsts(G, S \cup {i})
<1>1. /\ H \subseteq S /\ IsFiniteSet(H) /\ i \notin H
      /\ Cardinality(H) \in Nat /\ Cardinality(S) \in Nat
      /\ Cardinality(H) = IF Cardinality(S) < job.top THEN Cardinality(S) ELSE job.top
      /\ \A a \in H, k \in S \ H : KeyOf[a] <= KeyOf[k]
  BY FS_Subset, FS_CardinalityType DEF Firsts
<1>2. /\ IsFiniteSet(H \cup {i}) /\ Cardinality(H \cup {i}) = Cardinality(H) + 1
      /\ Cardinality(S \cup {i}) = Cardinality(S) + 1
  BY <1>1, FS_AddElement
<1>3. \A k \in Passing : KeyOf[k] \in Int
  BY FileAssumption
<1>4. CASE Cardinality(S) < job.top
  <2>1. H = S
    <3>1. H \in SUBSET S /\ Cardinality(S) = Cardinality(H)
      BY <1>1, <1>4
    <3> HIDE DEF Evicted
    <3> QED
      BY <3>1, FS_Subset
  <2>2. G = S \cup {i}
    <3>1. ~(Cardinality(H \cup {i}) > job.top)
      BY <1>1, <1>2, <1>4, <2>1
    <3>2. ~Evicted(H \cup {i})
      BY <3>1 DEF Evicted
    <3> QED
      BY <2>1, <3>2
  <2>3. Cardinality(G) = IF Cardinality(S \cup {i}) < job.top THEN Cardinality(S \cup {i})
                                                            ELSE job.top
    BY <1>1, <1>2, <1>4, <2>2
  <2> QED
    BY <2>2, <2>3 DEF Firsts
<1>5. CASE ~(Cardinality(S) < job.top)
  <2>1. Cardinality(H) = job.top
    BY <1>1, <1>5
  <2>a. Cardinality(H \cup {i}) > job.top
    BY <1>1, <1>2, <2>1
  <2>b. Evicted(H \cup {i})
    BY <2>a DEF Evicted
  <2>2. PICK out \in Popped(H \cup {i}) : G = (H \cup {i}) \ {out}
    BY <2>b
  <2>3. out \in H \cup {i} /\ \A k \in H \cup {i} : KeyOf[k] <= KeyOf[out]
    BY <2>2 DEF Popped
  <2>4. Cardinality(G) = job.top
    <3>1. Cardinality((H \cup {i}) \ {out}) = Cardinality(H \cup {i}) - 1
      BY <1>2, <2>3, FS_RemoveElement
    <3> QED
      BY <1>1, <1>2, <2>1, <2>2, <3>1
  <2>5. ASSUME NEW a \in G, NEW k \in (S \cup {i}) \ G
        PROVE  KeyOf[a] <= KeyOf[k]
    <3>1. a \in H \cup {i} /\ a # out
      BY <2>2
    <3>2. k = out \/ k \in S \ H
      BY <2>2, <2>5
    <3>3. CASE k = out
      BY <2>3, <3>1, <3>3
    <3>4. CASE k \in S \ H /\ a \in H
      BY <1>1, <3>4
    <3>5. CASE k \in S \ H /\ a = i
      <4>1. out \in H /\ KeyOf[i] <= KeyOf[out]
        BY <2>3, <3>1, <3>5
      <4>2. KeyOf[out] <= KeyOf[k]
        BY <1>1, <3>5, <4>1
      <4>3. KeyOf[i] \in Int /\ KeyOf[out] \in Int /\ KeyOf[k] \in Int
        BY <1>1, <1>3, <3>5, <4>1
      <4> QED
        BY <3>5, <4>1, <4>2, <4>3
    <3> QED
      BY <3>1, <3>2, <3>3, <3>4, <3>5
  <2>6. G \subseteq S \cup {i}
    BY <1>1, <2>2
  <2>7. Cardinality(G) = IF Cardinality(S \cup {i}) < job.top THEN Cardinality(S \cup {i})
                                                            ELSE job.top
    BY <1>1, <1>2, <1>5, <2>4
  <2> QED
    BY <2>5, <2>6, <2>7 DEF Firsts
<1> QED
  BY <1>4, <1>5

-------------------------------------------------------------------------------
LEMMA SentFinite ==
  ASSUME Shapes, PageRight, phase = "rows"
  PROVE  Passed \subseteq Passing /\ IsFiniteSet(Passed)
<1>1. Taken \subseteq Elements(page)
  <2>1. pos \in 0..Len(page) /\ Len(page) \in Nat
    BY DEF Shapes
  <2>2. \A k \in 1..pos : k \in 1..Len(page)
    BY <2>1
  <2> QED
    BY <2>2 DEF Taken, Elements
<1>2. Gotten \subseteq Wanted /\ Behind \subseteq Wanted
  BY DEF Gotten, Behind
<1>3. Passed \in SUBSET Wanted
  BY <1>1, <1>2 DEF Passed, PageRight
<1>4. IsFiniteSet(Passed)
  BY <1>3, JobSpec, FS_Subset
<1> QED
  BY <1>4 DEF Passed

LEMMA SkipRowRight ==
  ASSUME Shapes, Ends, PageRight, HeapRight, SkipRow
  PROVE  PageRight' /\ HeapRight' /\ Sent' = Sent /\ Earlier' = Earlier
<1>1. /\ pos' = pos + 1 /\ phase \in {"rows", "top"}
      /\ UNCHANGED <<job, phase, cursor, page, read, heap>>
  BY DEF SkipRow, AtRow
<1>2. PICK i \in Rows : AtRow(i) /\ i \notin Passing
  BY DEF SkipRow
<1>3. phase = "rows"
  BY <1>1, <1>2, NextRow
<1>4. /\ ToWrite' = ToWrite /\ HasTop' = HasTop /\ Earlier' = Earlier /\ PageRight'
      /\ Passed' = Passed \cup ({i} \cap Passing)
  BY <1>1, <1>2, <1>3, NextRow
<1>6. Passed' = Passed
  BY <1>2, <1>4
<1>5. Scanning /\ Scanning'
  BY <1>1, <1>3 DEF Scanning
<1> QED
  BY <1>1, <1>4, <1>5, <1>6 DEF HeapRight, Firsts, Sent

LEMMA PushRowRight ==
  ASSUME Shapes, Ends, PageRight, HeapRight, PushRow
  PROVE  PageRight' /\ HeapRight' /\ Sent' = Sent /\ Earlier' = Earlier
<1>1. /\ pos' = pos + 1 /\ phase = "rows" /\ HasTop
      /\ UNCHANGED <<job, phase, cursor, page, read>>
  BY DEF PushRow
<1>2. PICK i \in Passing :
        /\ AtRow(i)
        /\ IF Evicted(heap \cup {i})
           THEN \E out \in Popped(heap \cup {i}) : heap' = (heap \cup {i}) \ {out}
           ELSE heap' = heap \cup {i}
  BY DEF PushRow
<1>3. /\ ToWrite' = ToWrite /\ HasTop' = HasTop /\ Earlier' = Earlier /\ PageRight'
      /\ Passed' = Passed \cup {i} /\ \A x \in Passed : x \in Nat /\ x < i
  BY <1>1, <1>2, NextRow
<1>4. i \in Nat
  BY <1>2, RowAt
<1>5. i \notin Passed
  BY <1>3, <1>4
<1>6. Scanning /\ Scanning'
  BY <1>1 DEF Scanning
<1>7. Firsts(heap, Passed)
  BY <1>1, <1>6 DEF HeapRight
<1>8. Firsts(heap', Passed \cup {i})
  <2>1. job.top \in Nat /\ job.top > 0
    BY <1>1, JobSpec DEF HasTop
  <2>2. Passed \subseteq Passing /\ IsFiniteSet(Passed)
    BY <1>1, SentFinite
  <2> HIDE DEF Evicted, Popped
  <2> DEFINE S == Passed
             H == heap
             G == heap'
  <2>3. IF Evicted(H \cup {i}) THEN \E out \in Popped(H \cup {i}) : G = (H \cup {i}) \ {out}
                               ELSE G = H \cup {i}
    BY <1>2
  <2>4. S \subseteq Passing /\ IsFiniteSet(S) /\ i \notin S /\ Firsts(H, S)
    BY <1>5, <1>7, <2>2
  <2> HIDE DEF S, H, G
  <2>5. Firsts(G, S \cup {i})
    BY <2>1, <2>3, <2>4, HeapStep
  <2> QED
    BY <2>5 DEF S, G
<1>9. Firsts(heap, Passed)'
  BY <1>1, <1>3, <1>8 DEF Firsts
<1> QED
  BY <1>1, <1>3, <1>6, <1>9 DEF HeapRight, Sent

LEMMA AddRowRight ==
  ASSUME Shapes, Ends, PageRight, HeapRight, AddRow, NEW i \in Passing, AtRow(i)
  PROVE  /\ PageRight' /\ HeapRight' /\ Earlier' = Earlier
         /\ Sent' = Sent \cup {i} /\ i \notin Sent /\ \A x \in Sent : <<x, i>> \in Earlier
<1>1. /\ pos' = pos + 1 /\ phase \in {"rows", "top"} /\ (~HasTop \/ phase = "top")
      /\ UNCHANGED <<job, phase, cursor, page, read, heap>>
  BY DEF AddRow, AtRow
<1>2. /\ ToWrite' = ToWrite /\ HasTop' = HasTop /\ Earlier' = Earlier /\ PageRight'
      /\ Taken' = Taken \cup {i}
  BY <1>1, NextRow
<1>3. i \in Nat
  BY RowAt
<1>4. CASE phase = "rows"
  <2>1. Passed' = Passed \cup {i} /\ \A x \in Passed : x \in Nat /\ x < i
    BY <1>1, <1>4, NextRow
  <2>2. ~HasTop
    BY <1>1, <1>4
  <2>3. Sent = Passed /\ Sent' = Passed'
    BY <1>2, <2>2 DEF Sent
  <2>4. HeapRight'
    BY <1>2, <2>2 DEF HeapRight
  <2>5. \A x \in Passed : <<x, i>> \in {p \in Nat \X Nat : p[1] < p[2]}
    BY <1>3, <2>1
  <2>6. i \notin Passed
    BY <1>3, <2>1
  <2> QED
    BY <1>2, <2>1, <2>2, <2>3, <2>4, <2>5, <2>6 DEF Earlier
<1>5. CASE phase = "top"
  <2>1. HasTop /\ \A x \in Taken : x \in Nat /\ x # i /\ <<x, i>> \in Earlier
    BY <1>1, <1>5, NextRow
  <2>2. ~Scanning /\ ~Scanning'
    BY <1>1, <1>5 DEF Scanning
  <2>3. Sent = Taken /\ Sent' = Taken'
    BY <1>2, <2>1, <2>2 DEF Sent
  <2>4. HeapRight'
    BY <1>1, <1>2, <1>5, <2>2 DEF HeapRight, Firsts
  <2> QED
    BY <1>2, <2>1, <2>3, <2>4
<1> QED
  BY <1>1, <1>4, <1>5

LEMMA EndRowsRight ==
  ASSUME Shapes, Ends, PageRight, HeapRight, EndRows
  PROVE  PageRight' /\ HeapRight' /\ Sent' = Sent /\ Earlier' = Earlier
<1>1. pos = Len(page) /\ phase \in {"rows", "top"} /\ UNCHANGED <<job, cursor, page, pos, heap>>
  BY DEF EndRows
<1>2. /\ Wanted' = Wanted /\ ToWrite' = ToWrite /\ HasTop' = HasTop /\ Earlier' = Earlier
      /\ Taken' = Taken
  BY <1>1 DEF Wanted, ToWrite, HasTop, Earlier, Taken
<1>3. CASE phase = "rows"
  <2>1. phase' = "check" /\ read' = read + Len(page) /\ Scanning /\ Scanning'
    BY <1>3 DEF EndRows, Scanning
  <2>2. Gotten' = Gotten /\ Behind' = Gotten
    BY <1>1, <1>2, <2>1 DEF Gotten, Behind
  <2>3. Elements(page) = Taken /\ Behind = Gotten \ Taken
    BY <1>1, <1>3 DEF Elements, Taken, Behind
  <2>4. Taken \subseteq Gotten /\ Increasing(page) /\ read = Cardinality(Gotten \ Taken)
    BY <1>3, <2>3 DEF PageRight
  <2>5. Passed' = Passed
    BY <1>3, <2>1, <2>2, <2>3, <2>4 DEF Passed
  <2>6. read' = Cardinality(Gotten)
    <3>1. page \in Seq(Nat)
      BY DEF Shapes
    <3>2. Cardinality(Taken) = Len(page) /\ IsFiniteSet(Taken)
      BY <2>3, <2>4, <3>1, ElementsSpec
    <3>3. IsFiniteSet(Gotten)
      <4>1. Gotten \in SUBSET Wanted
        BY DEF Gotten
      <4> QED
        BY <4>1, JobSpec, FS_Subset
    <3>4. Cardinality(Gotten \ Taken) = Cardinality(Gotten) - Cardinality(Gotten \cap Taken)
      BY <3>3, FS_Difference
    <3>5. Gotten \cap Taken = Taken
      BY <2>4
    <3>6. Cardinality(Gotten) \in Nat /\ Len(page) \in Nat
      BY <3>1, <3>3, FS_CardinalityType
    <3>7. read = Cardinality(Gotten) - Len(page)
      BY <2>4, <3>2, <3>4, <3>5
    <3> QED
      BY <2>1, <3>6, <3>7
  <2>7. PageRight'
    BY <1>1, <2>1, <2>2, <2>6 DEF PageRight
  <2> QED
    BY <1>1, <1>2, <2>1, <2>5, <2>7 DEF HeapRight, Firsts, Sent
<1>4. CASE phase = "top"
  <2>1. phase' = "leftover" /\ read' = read /\ ~Scanning /\ ~Scanning'
    BY <1>4 DEF EndRows, Scanning
  <2>2. Gotten' = Gotten /\ Behind' = Behind
    BY <1>2, <1>4, <2>1 DEF Gotten, Behind
  <2>3. Passed' = Passed /\ Sent' = Sent
    BY <1>2, <1>4, <2>1, <2>2 DEF Passed, Sent
  <2>4. PageRight'
    BY <1>1, <2>1, <2>2 DEF PageRight
  <2> QED
    BY <1>1, <1>2, <2>1, <2>3, <2>4 DEF HeapRight, Firsts
<1> QED
  BY <1>1, <1>3, <1>4

\* The other steps of the producer, and those of the worker.
LEMMA OtherRight ==
  ASSUME Ends, PageRight, HeapRight, Next,
         ~ReadPage, ~SkipRow, ~PushRow, ~AddRow, ~EndRows
  PROVE  GaveUp' \/ (PageRight' /\ HeapRight' /\ Sent' = Sent /\ Earlier' = Earlier)
<1>1. CASE CreateFails \/ ReadFails
  BY <1>1 DEF CreateFails, ReadFails, GaveUp
<1>2. CASE ~(CreateFails \/ ReadFails) /\ ~GaveUp'
  <2>1. UNCHANGED <<job, reading>>
    BY <1>2 DEF Next, Producer, Create, CheckStatus, CheckDone, SendLeftover, AwaitStatus,
         CloseChannels, Stat, Upload,
         Worker, Open, TakeBlock, WriteCsv, WriteParquet, Answer, Finish, WriteFooter, Static,
         Stopped, vars
  <2>2. \/ phase' = phase
        \/ phase = "create" /\ phase' = "read"
        \/ phase = "check" /\ phase' = "read"
        \/ /\ phase \in {"leftover", "settle", "stat", "upload"}
           /\ phase' \in {"settle", "stat", "upload", "done"}
    BY <1>2 DEF Next, Producer, Create, CheckStatus, CheckDone, SendLeftover, AwaitStatus,
         CloseChannels, Stat, Upload, GaveUp,
         Worker, Open, TakeBlock, WriteCsv, WriteParquet, Answer, Finish, WriteFooter, Static,
         Stopped, vars
  <2>3. phase' = phase \/ (Scanning' = Scanning /\ phase # "rows" /\ phase' # "rows")
    BY <2>2 DEF Scanning
  <2>4. HasTop /\ phase = "top" => phase' = "top"
    BY <2>2
  <2> QED
    BY <2>1, <2>3, <2>4, SameReading
<1> QED
  BY <1>1, <1>2

-------------------------------------------------------------------------------
LEMMA TailSpec ==
  ASSUME NEW S, NEW s \in Seq(S), s # <<>>
  PROVE  /\ Len(s) \in Nat \ {0} /\ Len(Tail(s)) = Len(s) - 1
         /\ Head(s) = s[1] /\ Head(s) \in S /\ Tail(s) \in Seq(S)
         /\ \A n \in 1..Len(Tail(s)) : Tail(s)[n] = s[n + 1]
OBVIOUS

\* An error of the worker is not lost before the producer has it.
LEMMA HurtStays ==
  ASSUME IInv, Next, Hurt
  PROVE  GaveUp' \/ Hurt'
<1>1. statuses \in Seq(BOOLEAN) /\ Len(statuses) \in Nat /\ (phase = "create" => worker.at = "exit")
  BY DEF IInv, Typed, NotYetStarted
<1>2. CASE Answer
  <2>1. statuses' = Append(statuses, worker.at = "good")
    BY <1>2 DEF Answer, Report
  <2>2. /\ Len(statuses') = Len(statuses) + 1
        /\ \A k \in 1..Len(statuses) : k \in 1..Len(statuses') /\ statuses'[k] = statuses[k]
        /\ Len(statuses) + 1 \in 1..Len(statuses')
        /\ statuses'[Len(statuses) + 1] = (worker.at = "good")
    BY <1>1, <2>1
  <2>3. CASE worker.at = "bad"
    <3>1. ~statuses'[Len(statuses) + 1]
      BY <2>2, <2>3
    <3> QED
      BY <2>2, <3>1 DEF Hurt
  <2>4. ASSUME NEW k \in 1..Len(statuses), ~statuses[k] PROVE Hurt'
    BY <2>2, <2>4 DEF Hurt
  <2> QED
    BY <2>3, <2>4 DEF Hurt
<1>3. CASE CheckStatus \/ AwaitStatus
  <2>1. /\ statuses # <<>> /\ statuses' = Tail(statuses)
        /\ result' = (result /\ Head(statuses)) /\ worker' = worker
    BY <1>3 DEF CheckStatus, AwaitStatus, Settle
  <2>2. CASE worker.at = "bad"
    BY <2>1, <2>2 DEF Hurt
  <2>3. ASSUME NEW k \in 1..Len(statuses), ~statuses[k] PROVE GaveUp' \/ Hurt'
    <3>0. /\ Len(statuses') = Len(statuses) - 1 /\ Head(statuses) = statuses[1]
          /\ \A n \in 1..Len(statuses') : statuses'[n] = statuses[n + 1]
      <4> DEFINE S == BOOLEAN
      <4>1. statuses \in Seq(S) /\ statuses # <<>>
        BY <1>1, <2>1
      <4> HIDE DEF S
      <4>2. /\ Len(Tail(statuses)) = Len(statuses) - 1 /\ Head(statuses) = statuses[1]
            /\ \A n \in 1..Len(Tail(statuses)) : Tail(statuses)[n] = statuses[n + 1]
        BY <4>1, TailSpec
      <4> QED
        BY <2>1, <4>2, Zenon
    <3>1. CASE k = 1
      <4>1. ~Head(statuses)
        BY <2>3, <3>0, <3>1, Zenon
      <4>2. ~result'
        BY <2>1, <4>1, Zenon
      <4> QED
        BY <4>2 DEF GaveUp
    <3>2. CASE k # 1
      <4>0. k - 1 \in 1..Len(statuses') /\ k - 1 + 1 = k
        BY <1>1, <3>0, <3>2
      <4>1. k - 1 \in 1..Len(statuses') /\ statuses'[k - 1] = statuses[k]
        BY <3>0, <4>0, Zenon
      <4>2. ~statuses'[k - 1]
        BY <2>3, <4>1
      <4> QED
        BY <4>1, <4>2 DEF Hurt
    <3> QED
      BY <3>1, <3>2
  <2> QED
    BY <2>2, <2>3 DEF Hurt
<1>4. CASE ~Answer /\ ~CheckStatus /\ ~AwaitStatus
  <2>1. statuses' = statuses
    BY <1>4 DEF Next, Producer, Create, CreateFails, ReadPage, ReadFails, SkipRow, PushRow, AddRow,
         EndRows, CheckDone, SendLeftover, CloseChannels, Stat, Upload,
         Worker, Open, TakeBlock, WriteCsv, WriteParquet, Finish, WriteFooter, Stopped, vars
  <2>2. worker.at = "bad" => worker'.at = "bad"
    BY <1>1, <1>4 DEF Next, Producer, Create, CreateFails, ReadPage, ReadFails, SkipRow, PushRow,
         AddRow, EndRows, CheckDone, SendLeftover, CloseChannels, Stat, Upload,
         Worker, Open, TakeBlock, WriteCsv, WriteParquet, Finish, WriteFooter, Stopped, vars
  <2> QED
    BY <2>1, <2>2 DEF Hurt
<1> QED
  BY <1>2, <1>3, <1>4

-------------------------------------------------------------------------------
LEMMA LineSpec ==
  ASSUME Shapes
  PROVE  /\ LastPlace \in Nat /\ LastPlace = Len(blocksIn) + 2 /\ LastPlace > 1
         /\ Len(blocksIn) \in Nat
         /\ Line \in Lines(LastPlace)
         /\ Line[0] = Given /\ Line[1] = Hand /\ Line[LastPlace] = block
         /\ \A n \in 2..Len(blocksIn)+1 : Line[n] = blocksIn[n - 1]
         /\ \A n \in 0..LastPlace : n = 0 \/ n = 1 \/ n = LastPlace \/ n \in 2..Len(blocksIn)+1
<1>1. /\ blocksIn \in Seq(Seq(Nat)) /\ block \in Seq(Nat) /\ Given \in Seq(Nat)
      /\ worker.block \in Seq(Nat)
  BY DEF Shapes, Files, Workers, Given
<1>2. LastPlace \in Nat /\ LastPlace = Len(blocksIn) + 2 /\ LastPlace > 1 /\ Len(blocksIn) \in Nat
  BY <1>1 DEF LastPlace
<1>3. /\ 0 \in 0..LastPlace /\ 1 \in 0..LastPlace /\ LastPlace \in 0..LastPlace
      /\ \A n \in 2..Len(blocksIn)+1 : n \in 0..LastPlace /\ n # 0 /\ n # 1 /\ n # LastPlace
                                       /\ n - 1 \in 1..Len(blocksIn)
      /\ \A n \in 0..LastPlace : n = 0 \/ n = 1 \/ n = LastPlace \/ n \in 2..Len(blocksIn)+1
  BY <1>2
<1>4. /\ Line[0] = Given /\ Line[1] = Hand
      /\ \A n \in 2..Len(blocksIn)+1 : Line[n] = blocksIn[n - 1]
  BY <1>2, <1>3 DEF Line
<1>5. Line[LastPlace] = block
  BY <1>2, <1>3 DEF Line
<1>6. Hand \in Seq(Nat)
  BY <1>1 DEF Hand
<1>7. \A n \in 2..Len(blocksIn)+1 : blocksIn[n - 1] \in Seq(Nat)
  BY <1>1, <1>3
<1>8. \A n \in 0..LastPlace : Line[n] \in Seq(Nat)
  BY <1>1, <1>3, <1>4, <1>5, <1>6, <1>7
<1>9. Line \in Lines(LastPlace)
  BY <1>8 DEF Line, Lines
<1> QED
  BY <1>2, <1>3, <1>4, <1>5, <1>9

LEMMA NextLineSpec ==
  ASSUME Shapes'
  PROVE  /\ LastPlace' \in Nat /\ LastPlace' = Len(blocksIn') + 2 /\ Len(blocksIn') \in Nat
         /\ Line' \in Lines(LastPlace')
         /\ Line'[0] = Given' /\ Line'[1] = Hand' /\ Line'[LastPlace'] = block'
         /\ \A n \in 2..Len(blocksIn')+1 : Line'[n] = blocksIn'[n - 1]
         /\ \A n \in 0..LastPlace' : n = 0 \/ n = 1 \/ n = LastPlace' \/ n \in 2..Len(blocksIn')+1
<1>1. Shapes' => (/\ LastPlace \in Nat /\ LastPlace = Len(blocksIn) + 2 /\ Len(blocksIn) \in Nat
                  /\ Line \in Lines(LastPlace)
                  /\ Line[0] = Given /\ Line[1] = Hand /\ Line[LastPlace] = block
                  /\ \A n \in 2..Len(blocksIn)+1 : Line[n] = blocksIn[n - 1]
                  /\ \A n \in 0..LastPlace :
                       n = 0 \/ n = 1 \/ n = LastPlace \/ n \in 2..Len(blocksIn)+1)'
  BY LineSpec, PTL
<1> QED
  BY <1>1

\* Nothing is put into the line or moved in it.
LEMMA SameLine ==
  ASSUME PipeRight, Shapes, Given' = Given, Hand' = Hand,
         UNCHANGED <<blocksIn, block, added>>, Sent' = Sent, Earlier' = Earlier \/ Sent = {}
  PROVE  PipeRight'
<1>1. LastPlace' = LastPlace /\ Line' = Line
  BY DEF LastPlace, Line
<1>2. Lined(Line, LastPlace, Earlier')
  <2>1. CASE Earlier' = Earlier
    BY <2>1 DEF PipeRight
  <2>2. CASE Sent = {}
    <3>1. \A m \in 0..LastPlace : \A k \in 1..Len(Line[m]) : FALSE
      <4>1. \A i : i \in Within(Line, LastPlace) <=>
              \E n \in 0..LastPlace : \E k \in 1..Len(Line[n]) : Line[n][k] = i
        BY LineSpec, WithinSpec
      <4>2. Within(Line, LastPlace) = {}
        BY <2>2 DEF PipeRight
      <4> QED
        BY <4>1, <4>2
    <3> QED
      BY <3>1 DEF Lined
  <2> QED
    BY <2>1, <2>2
<1>3. Lined(Line', LastPlace', Earlier')
  BY <1>1, <1>2
<1>4. Within(Line', LastPlace') = Sent' /\ added' = Cardinality(Sent')
  BY <1>1 DEF PipeRight
<1> QED
  BY <1>3, <1>4 DEF PipeRight

LEMMA TakeBlockPipe ==
  ASSUME PipeRight, Shapes, Shapes', TakeBlock, Sent' = Sent, Earlier' = Earlier
  PROVE  Hurt' \/ PipeRight'
<1>1. /\ worker.at = "idle" /\ blocksIn # <<>> /\ blocksIn' = Tail(blocksIn)
      /\ worker' = [worker EXCEPT !.at = IF worker.openOk THEN "write" ELSE "bad",
                                  !.block = Head(blocksIn)]
      /\ UNCHANGED <<block, added, file>>
  BY DEF TakeBlock, Static
<1>2. worker \in Workers /\ blocksIn \in Seq(Seq(Nat))
  BY DEF Shapes
<1>3. CASE ~worker.openOk
  BY <1>1, <1>2, <1>3 DEF Hurt, Workers
<1>4. CASE worker.openOk
  <2>1. Hand = <<>> /\ Hand' = Head(blocksIn) /\ Given' = Given
    BY <1>1, <1>2, <1>4 DEF Hand, Given, Workers
  <2>2. /\ Len(blocksIn) \in Nat \ {0} /\ Len(blocksIn') = Len(blocksIn) - 1
        /\ Head(blocksIn) = blocksIn[1]
        /\ \A n \in 1..Len(blocksIn') : blocksIn'[n] = blocksIn[n + 1]
    BY <1>1, <1>2, TailSpec
  <2> DEFINE L == LastPlace
             P == Line
             Q == Line'
  <2>3. /\ L \in Nat /\ L = Len(blocksIn) + 2 /\ L > 1 /\ P \in Lines(L)
        /\ P[0] = Given /\ P[1] = <<>> /\ P[L] = block
        /\ \A n \in 2..Len(blocksIn)+1 : P[n] = blocksIn[n - 1]
    BY <2>1, LineSpec
  <2>4. /\ LastPlace' = L - 1 /\ Q \in Lines(LastPlace')
        /\ Q[0] = Given' /\ Q[1] = Head(blocksIn) /\ Q[LastPlace'] = block'
        /\ \A n \in 2..Len(blocksIn')+1 : Q[n] = blocksIn'[n - 1]
    <3>2. /\ LastPlace' = Len(blocksIn') + 2 /\ Line' \in Lines(LastPlace')
          /\ Line'[0] = Given' /\ Line'[1] = Hand' /\ Line'[LastPlace'] = block'
          /\ \A n \in 2..Len(blocksIn')+1 : Line'[n] = blocksIn'[n - 1]
      BY NextLineSpec
    <3>3. LastPlace' = L - 1
      BY <2>2, <2>3, <3>2
    <3> QED
      BY <2>1, <3>2, <3>3
  <2> HIDE DEF L, P, Q
  <2>5. \A n \in 1..L-1 : Q[n] = P[n + 1]
    <3> SUFFICES ASSUME NEW n \in 1..L-1 PROVE Q[n] = P[n + 1]
      OBVIOUS
    <3>1. CASE n = 1 /\ n # L - 1
      <4>1. 2 \in 2..Len(blocksIn)+1
        BY <2>2
      <4>2. P[2] = blocksIn[1]
        BY <2>3, <4>1
      <4> QED
        BY <2>2, <2>4, <3>1, <4>2
    <3>2. CASE n = L - 1
      BY <1>1, <2>3, <2>4, <3>2
    <3>3. CASE n # 1 /\ n # L - 1
      <4>1. n \in 2..Len(blocksIn')+1 /\ n - 1 \in 1..Len(blocksIn') /\ n + 1 \in 2..Len(blocksIn)+1
        BY <2>2, <2>3, <3>3
      <4>2. Q[n] = blocksIn'[n - 1] /\ P[n + 1] = blocksIn[n]
        BY <2>3, <2>4, <4>1
      <4>3. blocksIn'[n - 1] = blocksIn[n - 1 + 1]
        BY <2>2, <4>1
      <4> QED
        BY <4>2, <4>3
    <3> QED
      BY <3>1, <3>2, <3>3
  <2>6. Q \in Lines(L - 1) /\ Q[0] = P[0] /\ Lined(P, L, Earlier)
    <3>1. Lined(P, L, Earlier)
      BY DEF PipeRight, P, L
    <3> QED
      BY <2>1, <2>3, <2>4, <3>1
  <2>7. Within(Q, L - 1) = Within(P, L) /\ Lined(Q, L - 1, Earlier)
    BY <2>3, <2>5, <2>6, LineShift
  <2> QED
    BY <1>1, <2>4, <2>7 DEF PipeRight, P, Q, L
<1> QED
  BY <1>3, <1>4

-------------------------------------------------------------------------------
LEMMA SentIsFinite ==
  ASSUME Shapes
  PROVE  IsFiniteSet(Sent)
<1>1. IsFiniteSet(Taken)
  <2>1. pos \in 0..Len(page) /\ Len(page) \in Nat /\ page \in Seq(Nat)
    BY DEF Shapes
  <2>2. \A k \in 1..pos : k \in 1..Len(page)
    BY <2>1
  <2>3. Taken \in SUBSET Elements(page)
    BY <2>2 DEF Taken, Elements
  <2> QED
    BY <2>1, <2>3, ElementsSpec, FS_Subset
<1>2. IsFiniteSet(Wanted \cup Taken)
  BY <1>1, JobSpec, FS_Union
<1>3. Sent \in SUBSET (Wanted \cup Taken)
  BY DEF Sent, Passed, Behind, Gotten
<1> QED
  BY <1>2, <1>3, FS_Subset

LEMMA AddRowPipe ==
  ASSUME PipeRight, Shapes, Shapes', AddRow, NEW i \in Passing, AtRow(i),
         Earlier' = Earlier, Sent' = Sent \cup {i}, i \notin Sent,
         \A x \in Sent : <<x, i>> \in Earlier
  PROVE  PipeRight'
<1>1. /\ added' = added + 1 /\ UNCHANGED <<worker, file>>
      /\ \/ block' = Append(block, i) /\ blocksIn' = blocksIn
         \/ blocksIn' = Append(blocksIn, Append(block, i)) /\ block' = <<>>
  <2>1. PICK k \in Passing :
          /\ AtRow(k)
          /\ \/ block' = Append(block, k) /\ blocksIn' = blocksIn
             \/ blocksIn' = Append(blocksIn, Append(block, k)) /\ block' = <<>>
    BY DEF AddRow
  <2>2. k = i
    BY <2>1 DEF AtRow
  <2> QED
    BY <2>1, <2>2 DEF AddRow
<1>2. /\ i \in Nat /\ block \in Seq(Nat) /\ blocksIn \in Seq(Seq(Nat))
      /\ Hand' = Hand /\ Given' = Given
  BY <1>1, RowAt DEF Shapes, Hand, Given
<1>3. added' = Cardinality(Sent')
  <2>1. IsFiniteSet(Sent)
    BY SentIsFinite
  <2>2. Cardinality(Sent \cup {i}) = Cardinality(Sent) + 1
    BY <2>1, FS_AddElement
  <2> QED
    BY <1>1, <2>2 DEF PipeRight
<1> DEFINE L == LastPlace
           M == LastPlace'
           P == Line
           Q == Line'
           R == Earlier
<1>4. /\ L \in Nat /\ L = Len(blocksIn) + 2 /\ P \in Lines(L) /\ Len(blocksIn) \in Nat
      /\ P[0] = Given /\ P[1] = Hand /\ P[L] = block
      /\ \A n \in 2..Len(blocksIn)+1 : P[n] = blocksIn[n - 1]
      /\ \A n \in 0..L : n = 0 \/ n = 1 \/ n = L \/ n \in 2..Len(blocksIn)+1
  BY LineSpec
<1>5. /\ M = Len(blocksIn') + 2 /\ Q \in Lines(M)
      /\ Q[0] = Given /\ Q[1] = Hand /\ Q[M] = block'
      /\ \A n \in 2..Len(blocksIn')+1 : Q[n] = blocksIn'[n - 1]
  BY <1>1, <1>2, NextLineSpec
<1>6. Lined(P, L, R) /\ Within(P, L) = Sent
  BY DEF PipeRight
<1> HIDE DEF L, M, P, Q, R
<1>7. /\ M \in {L, L + 1}
      /\ \A n \in 0..L : n # L => Q[n] = P[n]
      /\ Q[L] = Append(P[L], i)
      /\ M = L + 1 => Q[M] = <<>>
  <2>1. CASE block' = Append(block, i) /\ blocksIn' = blocksIn
    BY <1>4, <1>5, <2>1
  <2>2. CASE blocksIn' = Append(blocksIn, Append(block, i)) /\ block' = <<>>
    <3>1. /\ Len(blocksIn') = Len(blocksIn) + 1
          /\ \A n \in 1..Len(blocksIn) : blocksIn'[n] = blocksIn[n]
          /\ blocksIn'[Len(blocksIn) + 1] = Append(block, i)
      BY <1>2, <2>2
    <3>2. M = L + 1
      BY <1>4, <1>5, <3>1
    <3>3. \A n \in 2..Len(blocksIn)+1 : n \in 2..Len(blocksIn')+1 /\ n - 1 \in 1..Len(blocksIn)
      BY <1>4, <3>1
    <3>4. \A n \in 2..Len(blocksIn)+1 : Q[n] = P[n]
      BY <1>4, <1>5, <3>1, <3>3
    <3>5. Q[L] = Append(P[L], i)
      <4>1. L \in 2..Len(blocksIn')+1 /\ L - 1 = Len(blocksIn) + 1
        BY <1>4, <3>1
      <4> QED
        BY <1>4, <1>5, <3>1, <4>1
    <3> QED
      BY <1>4, <1>5, <2>2, <3>2, <3>4, <3>5
  <2> QED
    BY <1>1, <2>1, <2>2
<1>8. \A x \in Within(P, L) : <<x, i>> \in R
  BY <1>6 DEF R
<1>9. Within(Q, M) = Within(P, L) \cup {i} /\ Lined(Q, M, R)
  <2>1. L \in Nat /\ P \in Lines(L) /\ Q \in Lines(M) /\ i \in Nat /\ Lined(P, L, R)
    BY <1>2, <1>4, <1>5, <1>6
  <2>2. CASE M = L
    <3>1. Within(Q, L) = Within(P, L) \cup {i} /\ Lined(Q, L, R)
      <4>1. Q \in Lines(L) /\ (L = L + 1 => Q[L] = <<>>)
        BY <2>1, <2>2
      <4> QED
        BY <1>7, <1>8, <2>1, <4>1, LineAppend
    <3> QED
      BY <2>2, <3>1
  <2>3. CASE M = L + 1
    <3>1. Within(Q, L + 1) = Within(P, L) \cup {i} /\ Lined(Q, L + 1, R)
      <4>1. Q \in Lines(L + 1) /\ (L + 1 = L + 1 => Q[L + 1] = <<>>)
        BY <1>7, <2>1, <2>3
      <4> QED
        BY <1>7, <1>8, <2>1, <4>1, LineAppend
    <3> QED
      BY <2>3, <3>1
  <2> QED
    BY <1>7, <2>2, <2>3
<1> QED
  BY <1>3, <1>6, <1>9 DEF PipeRight, L, M, P, Q, R

LEMMA SendLeftoverPipe ==
  ASSUME PipeRight, Shapes, Shapes', SendLeftover, Sent' = Sent, Earlier' = Earlier
  PROVE  PipeRight'
<1>1. UNCHANGED <<added, worker, file>> /\ Hand' = Hand /\ Given' = Given
  BY DEF SendLeftover, Hand, Given
<1>2. CASE UNCHANGED <<block, blocksIn>>
  BY <1>1, <1>2, SameLine
<1>3. CASE blocksIn' = Append(blocksIn, block) /\ block' = <<>>
  <2> DEFINE L == LastPlace
             M == LastPlace'
             P == Line
             Q == Line'
             R == Earlier
  <2>1. /\ L \in Nat /\ L = Len(blocksIn) + 2 /\ P \in Lines(L) /\ Len(blocksIn) \in Nat
        /\ P[0] = Given /\ P[1] = Hand /\ P[L] = block
        /\ \A n \in 2..Len(blocksIn)+1 : P[n] = blocksIn[n - 1]
        /\ \A n \in 0..L : n = 0 \/ n = 1 \/ n = L \/ n \in 2..Len(blocksIn)+1
    BY LineSpec
  <2>2. /\ M = Len(blocksIn') + 2 /\ Q \in Lines(M)
        /\ Q[0] = Given /\ Q[1] = Hand /\ Q[M] = block'
        /\ \A n \in 2..Len(blocksIn')+1 : Q[n] = blocksIn'[n - 1]
    BY <1>1, NextLineSpec
  <2>3. Lined(P, L, R) /\ Within(P, L) = Sent
    BY DEF PipeRight
  <2> HIDE DEF L, M, P, Q, R
  <2>4. /\ Len(blocksIn') = Len(blocksIn) + 1
        /\ \A n \in 1..Len(blocksIn) : blocksIn'[n] = blocksIn[n]
        /\ blocksIn'[Len(blocksIn) + 1] = block
    <3>1. block \in Seq(Nat) /\ blocksIn \in Seq(Seq(Nat))
      BY DEF Shapes
    <3> QED
      BY <1>3, <3>1
  <2>5. M = L + 1
    BY <2>1, <2>2, <2>4
  <2>6. \A n \in 2..Len(blocksIn)+1 : Q[n] = P[n]
    <3>1. \A n \in 2..Len(blocksIn)+1 : n \in 2..Len(blocksIn')+1 /\ n - 1 \in 1..Len(blocksIn)
      BY <2>1, <2>4
    <3> QED
      BY <2>1, <2>2, <2>4, <3>1
  <2>7. Q[L] = P[L]
    <3>1. L \in 2..Len(blocksIn')+1 /\ L - 1 = Len(blocksIn) + 1
      BY <2>1, <2>4
    <3> QED
      BY <2>1, <2>2, <2>4, <3>1
  <2>8. \A n \in 0..L : Q[n] = P[n]
    BY <2>1, <2>2, <2>6, <2>7
  <2>9. Q \in Lines(L + 1) /\ Q[L + 1] = <<>>
    BY <1>3, <2>2, <2>5
  <2>10. Within(Q, L + 1) = Within(P, L) /\ Lined(Q, L + 1, R)
    BY <2>1, <2>3, <2>8, <2>9, LineLonger
  <2> QED
    BY <1>1, <2>3, <2>5, <2>10 DEF PipeRight, L, M, P, Q, R
<1> QED
  BY <1>2, <1>3 DEF SendLeftover

LEMMA WritePipe ==
  ASSUME PipeRight, Shapes, Shapes', Grouping, WriteCsv \/ WriteParquet,
         Sent' = Sent, Earlier' = Earlier
  PROVE  Hurt' \/ PipeRight'
<1>1. worker.at = "write" /\ UNCHANGED <<block, blocksIn, added>>
  BY DEF WriteCsv, WriteParquet, Static
<1>2. PICK b \in Seq(Nat), at \in {"good", "bad"} :
        /\ at = "good" => b = worker.block
        /\ \/ job.format = "csv" /\ Wrote(b, at)
           \/ job.format = "parquet" /\ Grouped(b, at) /\ file' = file
  BY WrittenBlock
<1>3. worker \in Workers /\ at \in WorkerAts /\ worker'.at = at
  <2>1. at \in WorkerAts
    BY DEF WorkerAts
  <2>2. worker \in Workers
    BY DEF Shapes
  <2>3. CASE Wrote(b, at)
    BY <2>1, <2>2, <2>3 DEF Wrote, Workers
  <2>4. CASE Grouped(b, at)
    BY <1>2, <2>1, <2>2, <2>4, GroupedRows
  <2>5. Wrote(b, at) \/ Grouped(b, at)
    BY <1>2, Zenon
  <2>6. worker'.at = at
    BY <2>3, <2>4, <2>5, Zenon
  <2> QED
    BY <2>1, <2>2, <2>6
<1>4. CASE at = "bad"
  BY <1>3, <1>4 DEF Hurt
<1>5. CASE at = "good"
  <2>1. Hand = worker.block /\ b = Hand /\ Hand' = <<>> /\ Hand \in Seq(Nat)
    BY <1>1, <1>2, <1>3, <1>5 DEF Hand, Workers
  <2>2. Given' = Given \o Hand
    <3>1. CASE job.format = "csv" /\ Wrote(b, at)
      <4>1. worker.group = <<>> /\ worker'.group = <<>>
        BY <1>3, <3>1 DEF Grouping, Wrote, Workers
      <4> QED
        BY <1>3, <2>1, <3>1, <4>1, WroteRows DEF Given
    <3>2. CASE job.format = "parquet" /\ Grouped(b, at) /\ file' = file
      <4>1. file.rows = <<>>
        BY <1>1, <3>2 DEF Grouping
      <4>2. worker'.group = worker.group \o Hand
        BY <1>3, <2>1, <3>2, GroupedRows
      <4> QED
        BY <3>2, <4>1, <4>2 DEF Given
    <3> QED
      BY <1>2, <3>1, <3>2
  <2> DEFINE L == LastPlace
             P == Line
             Q == Line'
             R == Earlier
  <2>3. /\ L \in Nat /\ L = Len(blocksIn) + 2 /\ L > 1 /\ P \in Lines(L) /\ Len(blocksIn) \in Nat
        /\ P[0] = Given /\ P[1] = Hand /\ P[L] = block
        /\ \A n \in 2..Len(blocksIn)+1 : P[n] = blocksIn[n - 1]
        /\ \A n \in 0..L : n = 0 \/ n = 1 \/ n = L \/ n \in 2..Len(blocksIn)+1
    BY LineSpec
  <2>4. LastPlace' = L
    BY <1>1 DEF LastPlace
  <2>5. /\ Q \in Lines(L)
        /\ Q[0] = Given' /\ Q[1] = <<>> /\ Q[L] = block
        /\ \A n \in 2..Len(blocksIn)+1 : Q[n] = blocksIn[n - 1]
    BY <1>1, <2>1, <2>4, NextLineSpec
  <2>6. Lined(P, L, R) /\ Within(P, L) = Sent
    BY DEF PipeRight
  <2> HIDE DEF L, P, Q, R
  <2>7. Q[0] = P[0] \o P[1] /\ \A n \in 2..L : Q[n] = P[n]
    <3>1. \A n \in 2..L : n = L \/ n \in 2..Len(blocksIn)+1
      BY <2>3
    <3> QED
      BY <2>2, <2>3, <2>5, <3>1
  <2>8. Within(Q, L) = Within(P, L) /\ Lined(Q, L, R)
    BY <2>3, <2>5, <2>6, <2>7, LineMerge
  <2> QED
    BY <1>1, <2>4, <2>6, <2>8 DEF PipeRight, L, P, Q, R
<1> QED
  BY <1>3, <1>4, <1>5

\* Closing the writer moves the row group to the file.
LEMMA ClosingGiven ==
  ASSUME Shapes, Grouping, Finish \/ WriteFooter
  PROVE  Given' = Given
<1>1. worker \in Workers /\ file \in Files /\ job.format \in {"csv", "parquet"}
  BY FileAssumption DEF Shapes
<1>2. CASE WriteFooter
  <2>1. worker'.group = worker.group /\ file'.rows = file.rows
    BY <1>1, <1>2 DEF WriteFooter, CloseFails, Workers, Files
  <2> QED
    BY <2>1 DEF Given
<1>3. CASE Finish
  <2>1. CASE /\ job.format = "parquet"
             /\ worker' = [worker EXCEPT !.at = "footer", !.group = <<>>]
             /\ file' = [file EXCEPT !.rows = worker.group, !.size = "some"]
    <3>1. worker'.group = <<>> /\ file'.rows = worker.group
      BY <1>1, <2>1 DEF Workers, Files
    <3>2. file.rows = <<>>
      BY <1>3, <2>1 DEF Finish, Grouping
    <3> QED
      BY <3>1, <3>2 DEF Given
  <2>2. CASE /\ worker' = [worker EXCEPT !.at = "exit", !.closeOk = FALSE]
             /\ \E size : file' = [file EXCEPT !.size = size]
    <3>1. worker'.group = worker.group /\ file'.rows = file.rows
      BY <1>1, <2>2 DEF Workers, Files
    <3> QED
      BY <3>1 DEF Given
  <2>3. CASE worker' = [worker EXCEPT !.at = "exit"] /\ file' = file
    <3>1. worker'.group = worker.group
      BY <1>1, <2>3 DEF Workers
    <3> QED
      BY <2>3, <3>1 DEF Given
  <2> QED
    BY <1>3, <2>1, <2>2, <2>3 DEF Finish, CloseFails
<1> QED
  BY <1>2, <1>3

-------------------------------------------------------------------------------
LEMMA InitFInv == Init => FInv
<1> SUFFICES ASSUME Init PROVE FInv
  OBVIOUS
<1>1. /\ job \in Jobs /\ phase = "create" /\ result = TRUE
      /\ cursor = [token |-> FirstToken, rows |-> {}] /\ page = <<>>
      /\ pos = 0 /\ read = 0 /\ added = 0
      /\ heap = {} /\ block = <<>> /\ blocksIn = <<>>
      /\ worker = [at |-> "exit", block |-> <<>>, group |-> <<>>,
                   openOk |-> TRUE, closeOk |-> TRUE]
      /\ file = None /\ uploaded = None
  BY DEF Init, Cursor
<1>2. <<>> \in Seq(Nat) /\ <<>> \in Seq(Seq(Nat)) /\ Len(<<>>) = 0
  OBVIOUS
<1>3. None \in Files /\ None.rows = <<>>
  <2>1. [rows |-> <<>>, size |-> "none", whole |-> FALSE] \in Files
    BY <1>2, Zenon DEF Files
  <2> QED
    BY <2>1 DEF None
<1>4. Shapes
  <2>1. cursor \in [token : Int, rows : SUBSET Nat]
    BY <1>1, FileAssumption
  <2>2. heap \in SUBSET Nat /\ IsFiniteSet(heap)
    BY <1>1, FS_EmptySet
  <2>3. worker \in Workers
    BY <1>1, <1>2 DEF Workers, WorkerAts
  <2>4. /\ page \in Seq(Nat) /\ pos \in 0..Len(page)
        /\ block \in Seq(Nat) /\ blocksIn \in Seq(Seq(Nat))
    BY <1>1, <1>2
  <2> QED
    BY <1>1, <1>3, <2>1, <2>2, <2>3, <2>4 DEF Shapes, Phases
<1>5. Ends /\ Grouping
  BY <1>1, <1>3 DEF Ends, Grouping, None
<1>6. Scanning /\ Gotten = {} /\ Behind = {} /\ Taken = {} /\ Passed = {} /\ Sent = {}
  <2>1. Scanning
    BY <1>1 DEF Scanning
  <2>2. \A i \in Wanted : ~ReadUpTo(job.tokens, cursor, i)
    <3>1. \A i \in Wanted : i \in 1..Len(job.tokens) /\ job.tokens[i] \in FirstToken..LastToken
      BY DEF Wanted
    <3>2. FirstToken \in Int
      BY FileAssumption
    <3> QED
      BY <1>1, <3>1, <3>2 DEF ReadUpTo
  <2>3. Gotten = {}
    BY <2>1, <2>2 DEF Gotten
  <2>4. Taken = {}
    BY <1>1 DEF Taken
  <2> QED
    BY <1>1, <2>1, <2>3, <2>4 DEF Behind, Passed, Sent
<1>7. PageRight
  <2>1. FirstToken \in Int
    BY FileAssumption
  <2>2. CursorFits(job.tokens, cursor, FirstToken, LastToken)
    BY <1>1, <2>1 DEF CursorFits
  <2>3. Cardinality({}) = 0
    BY FS_EmptySet
  <2> QED
    BY <1>1, <1>6, <2>2, <2>3 DEF PageRight
<1>8. HeapRight
  <2>1. Cardinality({}) = 0
    BY FS_EmptySet
  <2> QED
    BY <1>1, <1>6, <2>1 DEF HeapRight, Firsts, HasTop
<1>9. PipeRight
  <2>1. \A n \in 0..LastPlace : Len(Line[n]) = 0
    <3>1. Hand = <<>>
      BY <1>1 DEF Hand
    <3>2. LastPlace = 2
      BY <1>1, <1>2 DEF LastPlace
    <3>3. \A n \in 0..LastPlace : Line[n] = <<>>
      BY <1>1, <1>3, <3>1, <3>2 DEF Line, Given
    <3> QED
      BY <3>3
  <2>2. \A i : i \in Within(Line, LastPlace) <=>
          \E n \in 0..LastPlace : \E k \in 1..Len(Line[n]) : Line[n][k] = i
    BY <1>4, LineSpec, WithinSpec
  <2>3. \A n \in 0..LastPlace : \A k \in 1..Len(Line[n]) : FALSE
    BY <2>1
  <2>4. Within(Line, LastPlace) = {}
    BY <2>2, <2>3
  <2>5. Cardinality({}) = 0
    BY FS_EmptySet
  <2> QED
    BY <1>1, <1>6, <2>3, <2>4, <2>5 DEF PipeRight, Lined
<1> QED
  BY <1>4, <1>5, <1>7, <1>8, <1>9, InitIInv DEF FInv

\* What one step does to the invariant.
LEMMA StepFInv == FInv /\ [Next]_vars => FInv'
<1> SUFFICES ASSUME FInv, [Next]_vars PROVE FInv'
  OBVIOUS
<1>0. /\ IInv /\ Shapes /\ Ends /\ Grouping
      /\ GaveUp \/ (PageRight /\ HeapRight)
      /\ GaveUp \/ Hurt \/ PipeRight
  BY DEF FInv
<1>1. IInv'
  BY <1>0, StepIInv
<1>2. CASE UNCHANGED vars
  <2>1. Line' = Line /\ LastPlace' = LastPlace /\ Earlier' = Earlier /\ Sent' = Sent
        /\ Shapes' = Shapes /\ Ends' = Ends /\ Grouping' = Grouping
        /\ GaveUp' = GaveUp /\ Hurt' = Hurt
        /\ PageRight' = PageRight /\ HeapRight' = HeapRight /\ PipeRight' = PipeRight
    <3> USE <1>2 DEF vars, reading, sending
    <3>1. HasTop' = HasTop /\ Wanted' = Wanted /\ Scanning' = Scanning /\ Hand' = Hand
      BY DEF HasTop, Wanted, Scanning, Hand
    <3>2. Gotten' = Gotten /\ Taken' = Taken
      BY <3>1 DEF Gotten, Taken
    <3>3. Behind' = Behind
      BY <3>2 DEF Behind
    <3>4. Passed' = Passed
      BY <3>2, <3>3 DEF Passed
    <3>5. Sent' = Sent /\ Earlier' = Earlier
      BY <3>1, <3>2, <3>4 DEF Sent, Earlier
    <3>6. LastPlace' = LastPlace /\ Line' = Line
      BY <3>1 DEF LastPlace, Line, Given
    <3>7. ToWrite' = ToWrite
      BY <3>1 DEF ToWrite
    <3>8. Shapes' = Shapes
      BY DEF Shapes
    <3>9. Ends' = Ends /\ Grouping' = Grouping
      BY DEF Ends, HasTop, Grouping, EndedWell
    <3>10. GaveUp' = GaveUp /\ Hurt' = Hurt
      BY DEF GaveUp, Hurt
    <3>11. PageRight' = PageRight
      BY <3>1, <3>2, <3>3 DEF PageRight
    <3>12. HeapRight' = HeapRight
      BY <3>1, <3>4, <3>7 DEF HeapRight, Firsts
    <3>13. PipeRight' = PipeRight
      BY <3>5, <3>6 DEF PipeRight
    <3> QED
      BY <3>5, <3>6, <3>8, <3>9, <3>10, <3>11, <3>12, <3>13
  <2> QED
    BY <1>0, <1>1, <2>1 DEF FInv
<1>3. CASE Next /\ ~UNCHANGED vars
  <2>0. Producer \/ Worker
    BY <1>3 DEF Next, Stopped
  <2>1. phase \in {"read", "rows", "top"} => ~GaveUp
    BY <1>0 DEF GaveUp, Ends
  <2>2. Shapes'
    <3>1. CASE ReadPage
      <4>1. PageRight
        BY <1>0, <2>1, <3>1 DEF ReadPage
      <4> QED
        BY <1>0, <3>1, <4>1, ReadPageShapes
    <3>2. CASE Producer /\ ~ReadPage
      BY <1>0, <3>2, PushRowShapes, SendingShapes, OtherProducerShapes DEF Producer, IInv
    <3> QED
      BY <1>0, <2>0, <3>1, <3>2, WorkerShapes
  <2>3. Ends' /\ Grouping'
    BY <1>0, <2>0, ProducerEnds, WorkerEnds, ProducerGrouping, WorkerGrouping
  <2>4. CASE GaveUp
    BY <1>0, <1>1, <1>3, <2>2, <2>3, <2>4, GaveUpStays DEF FInv
  <2>5. CASE ~GaveUp
    <3>1. PageRight /\ HeapRight /\ (Hurt \/ PipeRight)
      BY <1>0, <2>5
    <3>2. GaveUp' \/ (PageRight' /\ HeapRight')
      <4>1. CASE AddRow
        <5>1. PICK i \in Passing : AtRow(i)
          BY <4>1 DEF AddRow
        <5> QED
          BY <1>0, <3>1, <4>1, <5>1, AddRowRight
      <4> QED
        BY <1>0, <1>3, <3>1, <4>1, ReadPageRight, SkipRowRight, PushRowRight, EndRowsRight,
           OtherRight
    <3>3. CASE Hurt
      BY <1>0, <1>1, <1>3, <2>2, <2>3, <3>2, <3>3, HurtStays DEF FInv
    <3>4. CASE PipeRight
      <4>1. CASE AddRow
        <5>1. PICK i \in Passing : AtRow(i)
          BY <4>1 DEF AddRow
        <5>2. /\ Earlier' = Earlier /\ Sent' = Sent \cup {i} /\ i \notin Sent
              /\ \A x \in Sent : <<x, i>> \in Earlier
          BY <1>0, <3>1, <4>1, <5>1, AddRowRight
        <5>3. PipeRight'
          BY <1>0, <2>2, <3>4, <4>1, <5>1, <5>2, AddRowPipe
        <5> QED
          BY <1>1, <2>2, <2>3, <3>2, <5>3 DEF FInv
      <4>2. CASE ~AddRow
        <5>1. GaveUp' \/ (Sent' = Sent /\ (Earlier' = Earlier \/ (ReadPage /\ Sent = {})))
          <6>1. CASE ReadPage
            <7>1. Sent' = Sent /\ (HasTop => Sent = {}) /\ HasTop' = HasTop
              BY <1>0, <3>1, <6>1, ReadPageRight
            <7>2. ~HasTop => Earlier' = Earlier
              BY <7>1 DEF Earlier
            <7> QED
              BY <6>1, <7>1, <7>2
          <6> QED
            BY <1>0, <1>3, <3>1, <4>2, <6>1, SkipRowRight, PushRowRight, EndRowsRight, OtherRight
        <5>2. CASE GaveUp'
          BY <1>1, <2>2, <2>3, <5>2 DEF FInv
        <5>3. CASE ~GaveUp'
          <6>1. CASE SendLeftover \/ TakeBlock \/ WriteCsv \/ WriteParquet
            <7>1. ~ReadPage
              BY <6>1 DEF SendLeftover, TakeBlock, WriteCsv, WriteParquet, Static, ReadPage
            <7>2. Sent' = Sent /\ Earlier' = Earlier
              BY <5>1, <5>3, <7>1
            <7>3. Hurt' \/ PipeRight'
              BY <1>0, <2>2, <3>4, <6>1, <7>2, SendLeftoverPipe, TakeBlockPipe, WritePipe
            <7> QED
              BY <1>1, <2>2, <2>3, <3>2, <7>3 DEF FInv
          <6>2. CASE ~(SendLeftover \/ TakeBlock \/ WriteCsv \/ WriteParquet)
            <7>1. UNCHANGED <<blocksIn, block, added>> /\ Given' = Given
              <8>1. UNCHANGED <<blocksIn, block, added>>
                BY <1>3, <2>0, <4>2, <6>2
                DEF Producer, Create, CreateFails, ReadPage, ReadFails, SkipRow, PushRow, EndRows,
                  CheckStatus, CheckDone, AwaitStatus, CloseChannels, Stat, Upload, sending,
                  Worker, Open, Answer, Finish, WriteFooter, Static
              <8>2. (file' = file /\ worker'.group = worker.group)
                    \/ Create \/ Finish \/ WriteFooter
                BY <1>0, <1>3, <2>0, <4>2, <6>2
                DEF Producer, CreateFails, ReadPage, ReadFails, SkipRow, PushRow, EndRows,
                  CheckStatus, CheckDone, AwaitStatus, CloseChannels, Stat, Upload, sending,
                  Worker, Open, Answer, Static, Shapes, Workers
              <8>3. Create => Given' = Given
                <9>1. Create => /\ file'.rows = <<>> /\ file.rows = <<>>
                                /\ worker'.group = worker.group
                  BY <1>0 DEF Create, Ends, Shapes, Workers
                <9> QED
                  BY <9>1 DEF Given
              <8>4. Finish \/ WriteFooter => Given' = Given
                BY <1>0, ClosingGiven
              <8> QED
                BY <8>1, <8>2, <8>3, <8>4 DEF Given
            <7>2. Hand' = Hand
              <8>1. CASE Create
                <9>1. worker.at # "write" /\ worker' = [worker EXCEPT !.at = "start"]
                  BY <1>0, <8>1 DEF Create, IInv, NotYetStarted
                <9> QED
                  BY <1>0, <9>1 DEF Shapes, Workers, Hand
              <8>2. CASE Producer /\ ~Create
                <9>1. worker' = worker
                  BY <4>2, <6>2, <8>2
                  DEF Producer, CreateFails, ReadPage, ReadFails, SkipRow, PushRow, EndRows,
                    CheckStatus, CheckDone, AwaitStatus, CloseChannels, Stat, Upload
                <9> QED
                  BY <9>1 DEF Hand
              <8>3. CASE Worker
                <9>1. worker.at # "write" /\ worker'.at # "write"
                  BY <1>0, <6>2, <8>3
                  DEF Worker, Open, Answer, Report, Finish, WriteFooter, CloseFails, Shapes,
                    Workers
                <9> QED
                  BY <9>1 DEF Hand
              <8> QED
                BY <2>0, <8>1, <8>2, <8>3
            <7>3. PipeRight'
              BY <1>0, <3>4, <5>1, <5>3, <7>1, <7>2, SameLine
            <7> QED
              BY <1>1, <2>2, <2>3, <3>2, <7>3 DEF FInv
          <6> QED
            BY <6>1, <6>2
        <5> QED
          BY <5>2, <5>3
      <4> QED
        BY <4>1, <4>2
    <3> QED
      BY <3>1, <3>3, <3>4
  <2> QED
    BY <2>4, <2>5
<1> QED
  BY <1>2, <1>3

-------------------------------------------------------------------------------
LEMMA DistinctSpec ==
  ASSUME NEW s \in Seq(Nat), \A k, l \in 1..Len(s) : k < l => s[k] # s[l]
  PROVE  Cardinality(Elements(s)) = Len(s)
<1>1. Len(s) \in Nat /\ \A k \in 1..Len(s) : k \in Nat
  OBVIOUS
<1>2. IsFiniteSet(1..Len(s)) /\ Cardinality(1..Len(s)) = Len(s)
  <2>1. /\ IsFiniteSet(1..Len(s))
        /\ Cardinality(1..Len(s)) = IF 1 > Len(s) THEN 0 ELSE Len(s) - 1 + 1
    BY <1>1, FS_Interval
  <2> QED
    BY <1>1, <2>1
<1> DEFINE f == [k \in 1..Len(s) |-> s[k]]
<1>3. f \in [1..Len(s) -> Elements(s)] /\ \A e \in Elements(s) : \E k \in 1..Len(s) : f[k] = e
  BY DEF Elements
<1>4. ASSUME NEW k \in 1..Len(s), NEW l \in 1..Len(s), f[k] = f[l] PROVE k = l
  <2>1. ~(k < l) /\ ~(l < k)
    BY <1>4
  <2> QED
    BY <1>1, <2>1
<1> HIDE DEF f
<1>5. f \in Surjection(1..Len(s), Elements(s)) /\ f \in Injection(1..Len(s), Elements(s))
  BY <1>3, <1>4 DEF Surjection, Injection, IsInjective
<1> QED
  BY <1>2, <1>5, FS_Surjection

LEMMA DoneIsExact == FInv => FileIsExact
<1> SUFFICES ASSUME FInv, phase = "done"
             PROVE  /\ read = Cardinality(Wanted)
                    /\ Destination.whole =>
                         Expected(Destination.rows) /\ added = Len(Destination.rows)
                    /\ job.format = "csv" => Destination.whole
                    /\ ~job.remote /\ EndedWell => Destination.whole
  BY DEF FileIsExact
<1> DEFINE s == Given
<1>1. IInv /\ Shapes /\ Ends /\ Grouping
  BY DEF FInv
<1>2. ~GaveUp
  BY <1>1 DEF Ends, GaveUp
<1>3. Len(blocksIn) = 0 /\ Len(statuses) = 0 /\ InHand = 0
  <2>1. closed
    BY <1>1 DEF Ends
  <2>2. sent = 0 /\ sent = Len(blocksIn) + InHand + Len(statuses)
    BY <1>1, <2>1 DEF IInv, ClosedAtTheEnd, Counted
  <2>3. Len(blocksIn) \in Nat /\ Len(statuses) \in Nat /\ InHand \in {0, 1}
    BY <1>1 DEF IInv, Typed, InHand
  <2> QED
    BY <2>2, <2>3
<1>4. ~Hurt /\ Hand = <<>>
  <2>1. worker.at \notin {"write", "good", "bad"}
    BY <1>3 DEF InHand
  <2> QED
    BY <1>3, <2>1 DEF Hurt, Hand
<1>5. PageRight /\ HeapRight /\ PipeRight
  BY <1>2, <1>4 DEF FInv
<1>6. ~Scanning /\ Gotten = Wanted /\ Behind = Wanted /\ Passed = ToWrite
  BY DEF Scanning, Gotten, Behind, Passed, ToWrite
<1>7. read = Cardinality(Wanted)
  BY <1>5, <1>6 DEF PageRight
<1>8. s \in Seq(Nat) /\ Len(s) \in Nat
  BY <1>1 DEF Shapes, Files, Workers, Given
<1>9. /\ LastPlace = 2 /\ Line[0] = s /\ Line[1] = <<>> /\ Line[2] = <<>>
      /\ Line \in Lines(2)
  <2>1. block = <<>>
    BY <1>1 DEF Ends
  <2> QED
    BY <1>1, <1>3, <1>4, <2>1, LineSpec
<1>10. Elements(s) = Sent
  <2>1. \A i : i \in Within(Line, 2) <=> \E n \in 0..2 : \E k \in 1..Len(Line[n]) : Line[n][k] = i
    BY <1>9, WithinSpec
  <2>2. \A n \in 0..2 : \A k \in 1..Len(Line[n]) : n = 0
    <3>1. Len(Line[1]) = 0 /\ Len(Line[2]) = 0
      BY <1>9
    <3>2. \A n \in 0..2 : n = 0 \/ n = 1 \/ n = 2
      OBVIOUS
    <3> QED
      BY <3>1, <3>2
  <2>3. \A i : i \in Within(Line, 2) <=> \E k \in 1..Len(s) : s[k] = i
    <3>1. 0 \in 0..2
      OBVIOUS
    <3> QED
      BY <1>9, <2>1, <2>2, <3>1
  <2>4. Within(Line, 2) = Sent
    BY <1>5, <1>9 DEF PipeRight
  <2>5. \A i : i \in Elements(s) <=> \E k \in 1..Len(s) : s[k] = i
    BY DEF Elements
  <2> QED
    BY <2>3, <2>4, <2>5
<1>11. \A k, l \in 1..Len(s) : k < l => <<s[k], s[l]>> \in Earlier
  <2>1. Lined(Line, 2, Earlier)
    BY <1>5, <1>9 DEF PipeRight
  <2>2. 0 \in 0..2
    OBVIOUS
  <2> QED
    BY <1>9, <2>1, <2>2 DEF Lined, Before
<1>12. added = Cardinality(Elements(s))
  BY <1>5, <1>10 DEF PipeRight
<1>13. /\ Destination.whole => Destination.rows = s
       /\ job.format = "csv" => Destination.whole
       /\ ~job.remote /\ EndedWell => Destination.whole
  <2>1. job.format \in {"csv", "parquet"}
    BY <1>1, FileAssumption DEF Shapes
  <2>2. CASE job.format = "csv"
    <3>1. s = file.rows
      BY <1>1, <2>2 DEF Grouping, Given
    <3> QED
      BY <1>1, <2>2, <3>1 DEF Ends, Destination
  <2>3. CASE job.format = "parquet"
    <3>1. file.whole => s = file.rows
      BY <1>1, <2>3 DEF Grouping, Given
    <3>2. uploaded.whole => file.whole
      BY <1>1, <2>3 DEF Grouping
    <3>3. EndedWell => file.whole
      BY <1>1, <2>3 DEF Grouping
    <3> QED
      BY <1>1, <2>3, <3>1, <3>2, <3>3 DEF Ends, Destination
  <2> QED
    BY <2>1, <2>2, <2>3
<1> HIDE DEF s
<1>14. CASE ~HasTop
  <2>1. Sent = ToWrite
    BY <1>6, <1>14 DEF Sent
  <2>2. Increasing(s)
    BY <1>11, <1>14 DEF Earlier, Increasing
  <2>3. s = Ascending(ToWrite)
    BY <1>8, <1>10, <2>1, <2>2, OneOrder
  <2>4. Len(s) = Cardinality(Elements(s))
    BY <1>8, <2>2, ElementsSpec
  <2> QED
    BY <1>7, <1>12, <1>13, <1>14, <2>3, <2>4 DEF Expected
<1>15. CASE HasTop
  <2>1. Firsts(Elements(page), ToWrite) /\ InTopOrder(page) /\ pos = Len(page)
    BY <1>5, <1>6, <1>15 DEF HeapRight
  <2>2. Elements(s) = Elements(page)
    BY <1>6, <1>10, <1>15, <2>1 DEF Sent, Taken, Elements
  <2>3. ASSUME NEW k \in 1..Len(s), NEW l \in 1..Len(s), k < l
        PROVE  s[k] # s[l] /\ KeyOf[s[k]] <= KeyOf[s[l]]
    <3>1. <<s[k], s[l]>> \in Pairs(page)
      BY <1>11, <1>15, <2>3 DEF Earlier
    <3>2. PICK p \in (1..Len(page)) \X (1..Len(page)) :
            p[1] < p[2] /\ <<s[k], s[l]>> = <<page[p[1]], page[p[2]]>>
      BY <3>1 DEF Pairs
    <3>3. s[k] = page[p[1]] /\ s[l] = page[p[2]] /\ p[1] \in 1..Len(page) /\ p[2] \in 1..Len(page)
      BY <3>2
    <3> QED
      BY <2>1, <3>2, <3>3 DEF InTopOrder
  <2>4. Cardinality(Elements(s)) = Len(s)
    BY <1>8, <2>3, DistinctSpec
  <2>5. ToSet(s) = Elements(s) /\ DOMAIN s = 1..Len(s)
    BY <1>8 DEF ToSet, Elements
  <2>6. /\ Cardinality(ToSet(s)) = Len(s)
        /\ Len(s) = IF Cardinality(ToWrite) < job.top THEN Cardinality(ToWrite) ELSE job.top
        /\ ToSet(s) \subseteq ToWrite
        /\ \A i \in ToSet(s), k \in ToWrite \ ToSet(s) : KeyOf[i] <= KeyOf[k]
    BY <2>1, <2>2, <2>4, <2>5 DEF Firsts
  <2>7. \A i, k \in DOMAIN s : i < k => KeyOf[s[i]] <= KeyOf[s[k]]
    BY <2>3, <2>5
  <2>8. Expected(s)
    BY <1>15, <2>6, <2>7 DEF Expected
  <2> QED
    BY <1>7, <1>12, <1>13, <2>4, <2>8
<1> QED
  BY <1>14, <1>15

\* A batch that reports success has written exactly the rows that pass, each once and in the order
\* in which they are read, or the first ones in the order of "top": to the CSV file at once, to the
\* local Parquet file when its worker has ended without an error of opening or closing, and to an
\* uploaded Parquet file if it has a footer at all.  This is so for any number of rows, size of
\* pages, blocks and channel, and whatever fails when, where FileAssumption holds: the tokens of the
\* rows are distinct and pages have more than one row (runCreateFile, FileInserter.add,
\* checkWorkerOutputForErrors, waitForWorker).
THEOREM FileIsExactHolds == Spec => []FileIsExact
<1> QED
  BY InitFInv, StepFInv, DoneIsExact, PTL DEF Spec
===============================================================================
