-------------------------- MODULE BatchWorkflowProofs --------------------------
(***************************************************************************)
(* Theorems about BatchWorkflow, for any nodes and batches, any            *)
(* dependencies and rerun policies, any number of workers and daemons.     *)
(*                                                                         *)
(* The first part, of when a node or a run is complete, is for every kind  *)
(* and number of faults, lost leases and timeouts included.  The second,   *)
(* of the rows in the data tables, is for every fault but a lease that is  *)
(* lost while its holder still works; the third, of what workers know of   *)
(* other nodes, for every fault again.  The fourth, of the order in which  *)
(* the statuses of a node are written, also excludes that a run is stopped. *)
(***************************************************************************)
EXTENDS BatchWorkflow, Functions, FiniteSetTheorems, WellFoundedInduction, TLAPS

\* What a worker knows when it comes to a step.  The run of any message was
\* started; a batch is only reported as ended; a worker that refreshes the status
\* of a node does so for a batch that has ended, and what it read of batches and
\* nodes before it writes is still true, whatever others did in between.
Knows(w) ==
  /\ phase[w] # "idle" => runRows[RunStart] > 0
  /\ phase[w] \in {"setStatus", "setStatusOnly"} => seen[w] \in Final
  /\ phase[w] = "readBatches" => Done(task[w])
  /\ phase[w] = "writeNode" => seen[w] \in Final /\ \A c \in BatchesOf(NodeOf[task[w]]) : Done(c)
  /\ phase[w] = "writeRun" => \A b \in Batches : Done(b)

\* Messages exist only once the run is marked as started.
Started ==
  /\ sent => runRows[RunStart] > 0
  /\ queue \cup wip # {} => sent

IInv == TypeOK /\ CompleteMeansDone /\ Started /\ \A w \in Workers : Knows(w)

\* The tables only grow, as far as the presence of rows is concerned.
Grows ==
  /\ \A s \in RunWritten : runRows[s] > 0 => runRows'[s] > 0
  /\ \A b \in Batches, s \in Written : batchRows[b][s] > 0 => batchRows'[b][s] > 0

-------------------------------------------------------------------------------
\* A row that is written has a time stamp.
LEMMA StampIsTime ==
  ASSUME NEW old \in SUBSET Nat, NEW t \in Stamps(old)
  PROVE  t \in Nat /\ t > 0
BY DEF Stamps

\* SetRunStatus adds the row of a status and leaves the others alone.
LEMMA SetRunStatusAdds ==
  ASSUME runRows \in [RunWritten -> Nat], NEW s \in RunWritten, SetRunStatus(s)
  PROVE  /\ runRows' \in [RunWritten -> Nat] /\ runRows'[s] > 0
         /\ \A r \in RunWritten : r # s => runRows'[r] = runRows[r]
<1>1. CASE runRows[s] > 0
  BY <1>1 DEF SetRunStatus
<1>2. CASE ~(runRows[s] > 0)
  <2>1. PICK t \in Stamps({runRows[r] : r \in RunWritten}) : runRows' = [runRows EXCEPT ![s] = t]
    BY <1>2 DEF SetRunStatus
  <2>2. t \in Nat /\ t > 0
    BY StampIsTime
  <2>3. QED
    BY <2>1, <2>2
<1>3. QED
  BY <1>1, <1>2

\* SetBatchStatus adds a row to batch history.
LEMMA SetBatchStatusAdds ==
  ASSUME batchRows \in [Batches -> [Written -> Nat]], NEW b \in Batches, NEW s \in Written,
         SetBatchStatus(b, s)
  PROVE  /\ batchRows' \in [Batches -> [Written -> Nat]] /\ batchRows'[b][s] > 0
         /\ \A c \in Batches, r \in Written : batchRows[c][r] > 0 => batchRows'[c][r] > 0
<1>1. PICK t \in Stamps({batchRows[b][r] : r \in Written}) :
        batchRows' = [batchRows EXCEPT ![b][s] = t]
  BY DEF SetBatchStatus
<1>2. {batchRows[b][r] : r \in Written} \subseteq Nat
  OBVIOUS
<1>3. t \in Nat /\ t > 0
  BY <1>2, StampIsTime
<1>4. QED
  BY <1>1, <1>3

\* SetNodeStatus adds a row to node history and leaves the others alone.
LEMMA SetNodeStatusAdds ==
  ASSUME nodeRows \in [Batches -> [Written -> Nat]], NEW b \in Batches, NEW s \in Written,
         SetNodeStatus(b, s)
  PROVE  /\ nodeRows' \in [Batches -> [Written -> Nat]]
         /\ \A c \in Batches, r \in Written : c # b \/ r # s => nodeRows'[c][r] = nodeRows[c][r]
<1>1. PICK t \in Stamps(UNION {{nodeRows[c][r] : r \in Written} : c \in BatchesOf(NodeOf[b])}) :
        nodeRows' = [nodeRows EXCEPT ![b][s] = t]
  BY DEF SetNodeStatus
<1>2. UNION {{nodeRows[c][r] : r \in Written} : c \in BatchesOf(NodeOf[b])} \subseteq Nat
  BY DEF BatchesOf
<1>3. t \in Nat /\ t > 0
  BY <1>2, StampIsTime
<1>4. QED
  BY <1>1, <1>3

\* updateNodeStatusFromBatches finds a node ended only when each of its batches
\* is, once there is a row of one of them.
LEMMA NodeStatusMeansDone ==
  ASSUME NEW n \in Nodes, NEW b \in BatchesOf(n), Done(b), NodeStatusFromBatches(n) \in Final
  PROVE  \A c \in BatchesOf(n) : Done(c)
<1>1. \E s \in Written : HasBatchRow(n, s)
  BY DEF Done, HasBatchRow, Written
<1>2. NodeBatchStart \notin Final
  BY DEF NodeBatchStart, Final, NodeBatchSuccess, NodeBatchFail, NodeBatchRunStopReceived
<1>3. QED
  BY <1>1, <1>2 DEF NodeStatusFromBatches

\* updateRunStatusFromNodes finds a run ended only when every batch of it is.
LEMMA RunIsOverMeansDone ==
  ASSUME CompleteMeansDone, RunIsOver
  PROVE  \A b \in Batches : Done(b)
<1> SUFFICES ASSUME NEW b \in Batches PROVE Done(b)
  OBVIOUS
<1>1. NodeOf[b] \in Nodes
  BY WorkflowAssumption
<1>2. PICK s \in {NodeBatchSuccess, NodeBatchFail} : NodeStatusIs(NodeOf[b], s)
  BY <1>1 DEF RunIsOver
<1>3. s \in Final /\ s # NodeBatchNone
  BY DEF Final, NodeBatchSuccess, NodeBatchFail, NodeBatchNone
<1>4. \E c \in Kept(NodeOf[b], s) : TRUE
  BY <1>2, <1>3 DEF NodeStatusIs
<1>5. PICK c \in BatchesOf(NodeOf[b]) : nodeRows[c][s] > 0
  BY <1>4 DEF Kept
<1>6. c \in Batches /\ NodeOf[c] = NodeOf[b] /\ b \in BatchesOf(NodeOf[b])
  BY DEF BatchesOf
<1>7. QED
  BY <1>3, <1>5, <1>6 DEF CompleteMeansDone

-------------------------------------------------------------------------------
\* The tables and the caches have the shapes of TypeOK.
TablesOK ==
  /\ runRows \in [RunWritten -> Nat]
  /\ batchRows \in [Batches -> [Written -> Nat]]
  /\ nodeRows \in [Batches -> [Written -> Nat]]
  /\ data \in [Batches -> Nat]
  /\ cache \in [Daemons -> [Nodes -> {"none", "go", "wait", "nogo"}]]

\* What a worker must know to go on with step p, remembering status s.
MayGo(w, p, s) ==
  /\ p \in Phases \ {"idle"} /\ s \in Statuses \cup RunStatuses
  /\ p \in {"setStatus", "setStatusOnly"} => s \in Final
  /\ p = "readBatches" => Done(task[w])'
  /\ p = "writeNode" => s \in Final /\ \A c \in BatchesOf(NodeOf[task[w]]) : Done(c)'
  /\ p = "writeRun" => \A b \in Batches : Done(b)'

\* A batch that has ended remains so while rows are only added.
LEMMA DoneStays ==
  ASSUME Grows, NEW b \in Batches, Done(b)
  PROVE  Done(b)'
<1>1. Final \subseteq Written
  BY DEF Written
<1>2. QED
  BY <1>1 DEF Grows, Done

\* What a worker knows stays true whatever others add to the tables.
LEMMA KnowledgeStays ==
  ASSUME TypeOK, Grows, NEW w \in Workers, Knows(w),
         phase'[w] = phase[w], seen'[w] = seen[w], task'[w] = task[w]
  PROVE  Knows(w)'
<1>1. phase[w] # "idle" => task[w] \in Batches
  BY DEF TypeOK
<1>2. \A c \in BatchesOf(NodeOf[task[w]]) : c \in Batches
  BY DEF BatchesOf
<1>3. RunStart \in RunWritten
  BY DEF RunWritten
<1>4. phase'[w] # "idle" => runRows'[RunStart] > 0
  BY <1>3 DEF Knows, Grows
<1>5. phase'[w] = "readBatches" => Done(task[w])'
  BY <1>1, DoneStays DEF Knows
<1>6. phase'[w] = "writeNode" => \A c \in BatchesOf(NodeOf[task[w]]) : Done(c)'
  BY <1>2, DoneStays DEF Knows
<1>7. phase'[w] = "writeRun" => \A b \in Batches : Done(b)'
  BY DoneStays DEF Knows
<1>8. BatchesOf(NodeOf[task[w]])' = BatchesOf(NodeOf[task[w]])
  BY DEF BatchesOf
<1>9. QED
  BY <1>4, <1>5, <1>6, <1>7, <1>8 DEF Knows

\* A step of one worker keeps the invariant when it keeps the tables sound and
\* leaves the worker with what its next step relies on.
LEMMA WorkerStep ==
  ASSUME IInv, NEW w \in Workers, NEW p, NEW s, phase[w] # "idle",
         phase' = [phase EXCEPT ![w] = p], seen' = [seen EXCEPT ![w] = s],
         task' = task, UNCHANGED broker, faults' \in 0..MaxFaults,
         TablesOK', Grows, CompleteMeansDone', MayGo(w, p, s)
  PROVE  IInv'
<1> USE DEF IInv
<1>1. p \in Phases /\ s \in Statuses \cup RunStatuses
  BY DEF MayGo
<1>2. TypeOK'
  BY <1>1 DEF TypeOK, TablesOK, broker
<1>3. phase'[w] = p /\ seen'[w] = s /\ task'[w] = task[w]
  BY DEF TypeOK
<1>4. RunStart \in RunWritten
  BY DEF RunWritten
<1>5. Started'
  BY <1>4 DEF Started, Grows, broker
<1>6. Knows(w)'
  <2>1. runRows'[RunStart] > 0
    BY <1>4 DEF Knows, Grows
  <2>2. BatchesOf(NodeOf[task[w]])' = BatchesOf(NodeOf[task[w]])
    BY <1>3 DEF BatchesOf
  <2>3. QED
    BY <1>3, <2>1, <2>2 DEF Knows, MayGo
<1>7. ASSUME NEW v \in Workers, v # w PROVE Knows(v)'
  <2>1. phase'[v] = phase[v] /\ seen'[v] = seen[v] /\ task'[v] = task[v]
    BY <1>7 DEF TypeOK
  <2>2. QED
    BY <2>1, KnowledgeStays
<1>8. QED
  BY <1>2, <1>5, <1>6, <1>7

\* The same for a step that writes no history: a read, or the batch's data.
LEMMA ReadStep ==
  ASSUME IInv, NEW w \in Workers, NEW p, NEW s, phase[w] # "idle",
         phase' = [phase EXCEPT ![w] = p], seen' = [seen EXCEPT ![w] = s],
         task' = task, UNCHANGED <<broker, runRows, batchRows, nodeRows>>,
         faults' \in 0..MaxFaults,
         data' \in [Batches -> Nat],
         cache' \in [Daemons -> [Nodes -> {"none", "go", "wait", "nogo"}]],
         MayGo(w, p, s)
  PROVE  IInv'
<1>1. Grows
  BY DEF Grows
<1>2. TablesOK'
  BY DEF IInv, TypeOK, TablesOK
<1>3. CompleteMeansDone'
  BY DEF IInv, CompleteMeansDone, Done, BatchesOf
<1>4. QED
  BY <1>1, <1>2, <1>3, WorkerStep

-------------------------------------------------------------------------------
\* The values of the statuses, and the phases a worker goes through.
LEMMA Values ==
  /\ Final \subseteq Written /\ Written \subseteq Statuses /\ NodeBatchStart \notin Final
  /\ {NodeBatchNone, NodeBatchStart, NodeBatchSuccess, NodeBatchFail, NodeBatchRunStopReceived}
       \subseteq Statuses
  /\ {NodeBatchSuccess, NodeBatchFail, NodeBatchRunStopReceived} \subseteq Final
  /\ NodeBatchStart \in Written
  /\ {RunStart, RunComplete, RunStop} \subseteq RunWritten /\ RunWritten \subseteq RunStatuses
  /\ RunComplete # RunStart /\ RunComplete # RunStop /\ RunNone \in RunStatuses
BY DEF Final, Written, Statuses, RunWritten, RunStatuses, NodeBatchNone, NodeBatchStart,
       NodeBatchSuccess, NodeBatchFail, NodeBatchRunStopReceived, RunNone, RunStart, RunComplete,
       RunStop

\* Nothing is there before the run is started.
LEMMA InitInv == Init => IInv
<1> SUFFICES ASSUME Init PROVE IInv
  OBVIOUS
<1>1. TypeOK
  <2>1. NodeBatchNone \in Statuses
    BY Values
  <2>2. "idle" \in Phases
    BY DEF Phases
  <2>3. faults \in 0..MaxFaults
    BY WorkflowAssumption DEF Init
  <2>4. cache \in [Daemons -> [Nodes -> {"none", "go", "wait", "nogo"}]]
    BY DEF Init
  <2>5. phase \in [Workers -> Phases] /\ \A w \in Workers : phase[w] = "idle"
    BY <2>2 DEF Init
  <2>6. /\ seen \in [Workers -> Statuses \cup RunStatuses]
        /\ task \in [Workers -> Batches \cup {NoTask}]
    BY <2>1 DEF Init
  <2>7. /\ runRows \in [RunWritten -> Nat] /\ data \in [Batches -> Nat]
        /\ batchRows \in [Batches -> [Written -> Nat]] /\ nodeRows \in [Batches -> [Written -> Nat]]
    BY DEF Init
  <2>8. sent \in BOOLEAN /\ queue \subseteq Batches /\ wip \subseteq Batches
    BY DEF Init
  <2>9. QED
    BY <2>3, <2>4, <2>5, <2>6, <2>7, <2>8 DEF TypeOK
<1>2. CompleteMeansDone
  BY Values DEF Init, CompleteMeansDone
<1>3. Started
  BY DEF Init, Started
<1>4. \A w \in Workers : Knows(w)
  BY DEF Init, Knows
<1>5. QED
  BY <1>1, <1>2, <1>3, <1>4 DEF IInv

\* The operator's actions: they touch no worker and no batch.
LEMMA OperatorStep ==
  ASSUME IInv, StartRunMark \/ StartRunSend \/ StopRun
  PROVE  IInv'
<1> USE DEF IInv
<1>1. CASE StartRunSend
  <2>1. TypeOK' /\ Started'
    BY <1>1 DEF StartRunSend, TypeOK, Started, tables, workers
  <2>2. CompleteMeansDone'
    BY <1>1 DEF StartRunSend, CompleteMeansDone, tables, Done, BatchesOf
  <2>3. \A w \in Workers : Knows(w)'
    BY <1>1 DEF StartRunSend, Knows, tables, workers, Done, BatchesOf
  <2>4. QED
    BY <2>1, <2>2, <2>3
<1>2. ASSUME NEW s \in {RunStart, RunStop}, SetRunStatus(s),
             UNCHANGED <<batchRows, nodeRows, data, broker, workers, cache, faults>>
      PROVE  IInv'
  <2>1. s \in RunWritten /\ s # RunComplete
    BY Values
  <2>2. /\ runRows' \in [RunWritten -> Nat] /\ runRows'[s] > 0
        /\ \A r \in RunWritten : r # s => runRows'[r] = runRows[r]
    BY <1>2, <2>1, SetRunStatusAdds DEF TypeOK
  <2>3. TypeOK'
    BY <1>2, <2>2 DEF TypeOK, broker, workers
  <2>4. Grows
    BY <1>2, <2>2 DEF Grows
  <2>5. CompleteMeansDone'
    BY <1>2, <2>1, <2>2, Values DEF CompleteMeansDone, Done, BatchesOf
  <2>6. Started'
    BY <1>2, <2>4, Values DEF Started, Grows, broker
  <2>7. \A w \in Workers : Knows(w)'
    BY <1>2, <2>4, KnowledgeStays DEF workers
  <2>8. QED
    BY <2>3, <2>5, <2>6, <2>7
<1>3. CASE StartRunMark
  BY <1>2, <1>3 DEF StartRunMark
<1>4. CASE StopRun
  BY <1>2, <1>4 DEF StopRun
<1>5. QED
  BY <1>1, <1>3, <1>4

\* Steps in which messages change hands, or workers die.
LEMMA BrokerStep ==
  ASSUME IInv, UNCHANGED tables, TypeOK', Started',
         \A w \in Workers :
           \/ phase'[w] \in {"idle", "runStatus"} /\ (phase'[w] = "idle" \/ runRows[RunStart] > 0)
           \/ phase'[w] = phase[w] /\ seen'[w] = seen[w] /\ task'[w] = task[w]
  PROVE  IInv'
<1> USE DEF IInv
<1>1. CompleteMeansDone'
  BY DEF CompleteMeansDone, tables, Done, BatchesOf
<1>2. Grows
  BY DEF Grows, tables
<1>3. ASSUME NEW w \in Workers PROVE Knows(w)'
  <2>1. CASE phase'[w] = "idle"
    BY <2>1 DEF Knows
  <2>2. CASE phase'[w] = "runStatus" /\ runRows[RunStart] > 0
    BY <2>2 DEF Knows, tables
  <2>3. CASE phase'[w] = phase[w] /\ seen'[w] = seen[w] /\ task'[w] = task[w]
    BY <1>2, <2>3, KnowledgeStays
  <2>4. QED
    BY <2>1, <2>2, <2>3
<1>4. QED
  BY <1>1, <1>3

-------------------------------------------------------------------------------
\* A worker that reads, or writes rows of data, and goes on.
LEMMA GotoStep ==
  ASSUME IInv, NEW w \in Workers, NEW p, NEW s, phase[w] # "idle", Goto(w, p, s),
         UNCHANGED <<broker, runRows, batchRows, nodeRows>>,
         data' \in [Batches -> Nat],
         cache' \in [Daemons -> [Nodes -> {"none", "go", "wait", "nogo"}]],
         MayGo(w, p, s)
  PROVE  IInv'
<1>1. faults' \in 0..MaxFaults
  BY DEF Goto, IInv, TypeOK
<1>2. QED
  BY <1>1, ReadStep DEF Goto

\* A step that can rely on anything: most phases ask nothing of a worker.
LEMMA MayGoFreely ==
  ASSUME NEW w \in Workers,
         NEW p \in {"runStatus", "lastStatus", "cleanUp", "depRuns", "depNodes", "nodeStart",
                    "batchStart", "work1", "work2", "readNodes", "ack", "retry"},
         NEW s \in Statuses \cup RunStatuses
  PROVE  MayGo(w, p, s)
BY DEF MayGo, Phases

\* The batch is to be reported as ended.
LEMMA MayReport ==
  ASSUME NEW w \in Workers, NEW p \in {"setStatus", "setStatusOnly"}, NEW s \in Final
  PROVE  MayGo(w, p, s)
BY Values DEF MayGo, Phases

\* checkRunStatus: the branch for a run that was never started is not taken.
LEMMA CheckRunStatusKeeps ==
  ASSUME IInv, NEW w \in Workers, CheckRunStatus(w)
  PROVE  IInv'
<1>1. /\ phase[w] # "idle" /\ UNCHANGED <<broker, runRows, batchRows, nodeRows, data, cache>>
  BY DEF CheckRunStatus, tables
<1>2. /\ data' \in [Batches -> Nat]
      /\ cache' \in [Daemons -> [Nodes -> {"none", "go", "wait", "nogo"}]]
  BY <1>1 DEF IInv, TypeOK
<1>3. CASE \E p \in {"lastStatus", "ack"} : Goto(w, p, NodeBatchNone)
  BY <1>1, <1>2, <1>3, GotoStep, MayGoFreely, Values
<1>4. CASE \E s \in {NodeBatchFail, NodeBatchRunStopReceived} : Goto(w, "setStatus", s)
  BY <1>1, <1>2, <1>4, GotoStep, MayReport, Values
<1>5. QED
  BY <1>3, <1>4 DEF CheckRunStatus

\* checkLastBatchStatus: only a batch that has ended has its node refreshed.
LEMMA CheckLastBatchStatusKeeps ==
  ASSUME IInv, NEW w \in Workers, CheckLastBatchStatus(w) \/ RerunAbandoned(w)
  PROVE  IInv'
<1>1. /\ phase[w] # "idle" /\ UNCHANGED <<broker, runRows, batchRows, nodeRows, data, cache>>
  BY DEF CheckLastBatchStatus, RerunAbandoned, tables
<1>2. /\ data' \in [Batches -> Nat]
      /\ cache' \in [Daemons -> [Nodes -> {"none", "go", "wait", "nogo"}]]
  BY <1>1 DEF IInv, TypeOK
<1>3. CASE \E p \in {"ack", "depRuns", "retry", "cleanUp"} : Goto(w, p, NodeBatchNone)
  BY <1>1, <1>2, <1>3, GotoStep, MayGoFreely, Values
<1>4. CASE Goto(w, "setStatus", NodeBatchFail)
  BY <1>1, <1>2, <1>4, GotoStep, MayReport, Values
<1>5. ASSUME NEW s \in {NodeBatchFail, NodeBatchSuccess}, LastBatchStatusIs(task[w], s),
             Goto(w, "readBatches", NodeBatchNone)
      PROVE  IInv'
  <2>1. s \in Final /\ s # NodeBatchNone
    BY DEF Final, NodeBatchSuccess, NodeBatchFail, NodeBatchNone
  <2>2. Done(task[w])
    BY <1>5, <2>1 DEF LastBatchStatusIs, Done
  <2>3. Done(task[w])'
    BY <1>1, <1>5, <2>2 DEF Done, Goto
  <2>4. MayGo(w, "readBatches", NodeBatchNone)
    BY <2>3, Values DEF MayGo, Phases
  <2>5. QED
    BY <1>1, <1>2, <1>5, <2>4, GotoStep
<1>6. QED
  BY <1>3, <1>4, <1>5 DEF CheckLastBatchStatus, RerunAbandoned

\* DeleteDataAndUniqueIndexesByBatchIdx and the processors touch no history.
LEMMA DataStepKeeps ==
  ASSUME IInv, NEW w \in Workers, CleanUp(w) \/ Process(w)
  PROVE  IInv'
<1>1. phase[w] # "idle" /\ UNCHANGED <<broker, runRows, batchRows, nodeRows, cache>>
  BY DEF CleanUp, Process
<1>2. data \in [Batches -> Nat] /\ task[w] \in Batches
      /\ cache' \in [Daemons -> [Nodes -> {"none", "go", "wait", "nogo"}]]
  BY <1>1 DEF IInv, TypeOK
<1>3. data' \in [Batches -> Nat]
  BY <1>2 DEF CleanUp, Process
<1>4. CASE \E p \in {"depRuns", "work2"} : Goto(w, p, NodeBatchNone)
  BY <1>1, <1>2, <1>3, <1>4, GotoStep, MayGoFreely, Values
<1>5. CASE \E s \in {NodeBatchSuccess, NodeBatchFail} : Goto(w, "setStatus", s)
  BY <1>1, <1>2, <1>3, <1>5, GotoStep, MayReport, Values
<1>6. QED
  BY <1>4, <1>5 DEF CleanUp, Process

\* What a worker is told to do with a message by a go, wait or nogo.
LEMMA ActOnKeeps ==
  ASSUME IInv, NEW w \in Workers, NEW cmd \in {"go", "wait", "nogo"}, phase[w] # "idle",
         ActOn(w, cmd), UNCHANGED <<broker, runRows, batchRows, nodeRows, data>>,
         cache' \in [Daemons -> [Nodes -> {"none", "go", "wait", "nogo"}]]
  PROVE  IInv'
<1>1. data' \in [Batches -> Nat]
  BY DEF IInv, TypeOK
<1>2. CASE \E p \in {"nodeStart", "retry"} : Goto(w, p, NodeBatchNone)
  BY <1>1, <1>2, GotoStep, MayGoFreely, Values
<1>3. CASE Goto(w, "setStatus", NodeBatchFail)
  BY <1>1, <1>3, GotoStep, MayReport, Values
<1>4. QED
  BY <1>2, <1>3 DEF ActOn

\* checkDependencyNodesReady reads, and remembers in the cache.
LEMMA CheckDependencyKeeps ==
  ASSUME IInv, NEW w \in Workers, CheckDependencyRuns(w) \/ CheckDependencyNodes(w)
  PROVE  IInv'
<1> DEFINE n == NodeOf[task[w]]
           cached == cache[DaemonOf[w]][n]
           cmd == DependencyCmd(n, seen[w])
<1>1. phase[w] # "idle" /\ UNCHANGED <<broker, runRows, batchRows, nodeRows, data>>
  BY DEF CheckDependencyRuns, CheckDependencyNodes, tables
<1>2. task[w] \in Batches /\ n \in Nodes /\ DaemonOf[w] \in Daemons
  BY <1>1, WorkflowAssumption DEF IInv, TypeOK
<1>3. cache \in [Daemons -> [Nodes -> {"none", "go", "wait", "nogo"}]] /\ data' \in [Batches -> Nat]
  BY <1>1 DEF IInv, TypeOK
<1>4. CASE CheckDependencyRuns(w)
  <2>1. cache' = cache
    BY <1>4 DEF CheckDependencyRuns
  <2>2. CASE cached # "none"
    <3>1. cached \in {"go", "wait", "nogo"} /\ ActOn(w, cached)
      BY <1>2, <1>3, <1>4, <2>2 DEF CheckDependencyRuns
    <3>2. QED
      BY <1>1, <1>3, <2>1, <3>1, ActOnKeeps
  <2>3. CASE cached = "none" /\ Deps[n] = {}
    <3>1. ActOn(w, "go")
      BY <1>4, <2>3 DEF CheckDependencyRuns
    <3>2. QED
      BY <1>1, <1>3, <2>1, <3>1, ActOnKeeps
  <2>4. CASE cached = "none" /\ Deps[n] # {}
    <3>1. Goto(w, "depNodes", DepRunStatus)
      BY <1>4, <2>4 DEF CheckDependencyRuns
    <3>2. DepRunStatus \in RunStatuses
      BY Values DEF DepRunStatus
    <3>3. QED
      BY <1>1, <1>3, <2>1, <3>1, <3>2, GotoStep, MayGoFreely
  <2>5. QED
    BY <2>2, <2>3, <2>4
<1>5. CASE CheckDependencyNodes(w)
  <2>1. cmd \in {"go", "wait", "nogo"}
    BY DEF DependencyCmd
  <2>2. ActOn(w, cmd) /\ cache' = [cache EXCEPT ![DaemonOf[w]][n] = cmd]
    BY <1>5 DEF CheckDependencyNodes
  <2>3. cache' \in [Daemons -> [Nodes -> {"none", "go", "wait", "nogo"}]]
    BY <1>2, <1>3, <2>1, <2>2
  <2>4. QED
    BY <1>1, <2>1, <2>2, <2>3, ActOnKeeps
<1>6. QED
  BY <1>4, <1>5

-------------------------------------------------------------------------------
\* SetBatchStatus leaves the batch with a row, and what was complete complete.
LEMMA BatchWriteKeeps ==
  ASSUME IInv, NEW w \in Workers, NEW p, NEW s \in Written, phase[w] # "idle",
         SetBatchStatus(task[w], s), Goto(w, p, NodeBatchNone),
         UNCHANGED <<broker, runRows, nodeRows, data, cache>>,
         p \in {"work1", "ack"} \/ (p = "readBatches" /\ s \in Final)
  PROVE  IInv'
<1> USE DEF IInv
<1>1. task[w] \in Batches
  BY DEF TypeOK
<1>2. /\ batchRows' \in [Batches -> [Written -> Nat]] /\ batchRows'[task[w]][s] > 0
      /\ \A c \in Batches, r \in Written : batchRows[c][r] > 0 => batchRows'[c][r] > 0
  BY <1>1, SetBatchStatusAdds DEF TypeOK
<1>3. Grows
  BY <1>2 DEF Grows
<1>4. TablesOK'
  BY <1>2 DEF TypeOK, TablesOK
<1>5. CompleteMeansDone'
  BY <1>3, DoneStays DEF CompleteMeansDone, BatchesOf
<1>6. MayGo(w, p, NodeBatchNone)
  <2>1. CASE p \in {"work1", "ack"}
    BY <2>1, MayGoFreely, Values
  <2>2. CASE p = "readBatches" /\ s \in Final
    <3>1. Done(task[w])'
      BY <1>2, <2>2 DEF Done, Goto
    <3>2. QED
      BY <2>2, <3>1, Values DEF MayGo, Phases
  <2>3. QED
    BY <2>1, <2>2
<1>7. faults' \in 0..MaxFaults
  BY DEF Goto, TypeOK
<1>8. QED
  BY <1>3, <1>4, <1>5, <1>6, <1>7, WorkerStep DEF Goto

\* SetNodeStatus marks a node started, or ended when all its batches are.
LEMMA NodeWriteKeeps ==
  ASSUME IInv, NEW w \in Workers, NEW p \in {"batchStart", "readNodes"}, NEW s \in Written,
         phase[w] # "idle", SetNodeStatus(task[w], s), Goto(w, p, NodeBatchNone),
         UNCHANGED <<broker, runRows, batchRows, data, cache>>,
         s \in Final => \A c \in BatchesOf(NodeOf[task[w]]) : Done(c)
  PROVE  IInv'
<1> USE DEF IInv
<1>1. task[w] \in Batches
  BY DEF TypeOK
<1>2. /\ nodeRows' \in [Batches -> [Written -> Nat]]
      /\ \A c \in Batches, r \in Written : c # task[w] \/ r # s => nodeRows'[c][r] = nodeRows[c][r]
  BY <1>1, SetNodeStatusAdds DEF TypeOK
<1>3. Grows
  BY DEF Grows
<1>4. TablesOK'
  BY <1>2 DEF TypeOK, TablesOK
<1>5. CompleteMeansDone'
  <2>1. ASSUME NEW b \in Batches, NEW r \in Final, nodeRows'[b][r] > 0,
               NEW c \in BatchesOf(NodeOf[b])
        PROVE  Done(c)
    <3>1. CASE b = task[w] /\ r = s
      BY <2>1, <3>1
    <3>2. CASE b # task[w] \/ r # s
      BY <1>2, <2>1, <3>2, Values DEF CompleteMeansDone
    <3>3. QED
      BY <3>1, <3>2
  <2>2. \A b \in Batches, r \in Final :
          nodeRows'[b][r] > 0 => \A c \in BatchesOf(NodeOf[b]) : Done(c)'
    BY <2>1, <1>3, DoneStays DEF BatchesOf
  <2>3. runRows'[RunComplete] > 0 => \A b \in Batches : Done(b)'
    BY <1>3, DoneStays DEF CompleteMeansDone
  <2>4. QED
    BY <2>2, <2>3 DEF CompleteMeansDone, BatchesOf
<1>6. faults' \in 0..MaxFaults
  BY DEF Goto, TypeOK
<1>7. MayGo(w, p, NodeBatchNone)
  BY MayGoFreely, Values
<1>8. QED
  BY <1>3, <1>4, <1>5, <1>6, <1>7, WorkerStep DEF Goto

\* The marks of start, the report of the batch, and the refresh of its node.
LEMMA MarkKeeps ==
  ASSUME IInv, NEW w \in Workers,
         MarkNodeStart(w) \/ MarkBatchStart(w) \/ ReportBatch(w) \/ WriteNode(w)
  PROVE  IInv'
<1>1. CASE MarkNodeStart(w)
  BY <1>1, NodeWriteKeeps, Values DEF MarkNodeStart
<1>2. CASE MarkBatchStart(w)
  BY <1>2, BatchWriteKeeps, Values DEF MarkBatchStart
<1>3. CASE ReportBatch(w)
  <2>1. seen[w] \in Final
    BY <1>3 DEF ReportBatch, IInv, Knows
  <2>2. PICK p \in {"ack", "readBatches"} : Goto(w, p, NodeBatchNone)
    BY <1>3 DEF ReportBatch
  <2>3. QED
    BY <1>3, <2>1, <2>2, BatchWriteKeeps, Values DEF ReportBatch
<1>4. CASE WriteNode(w)
  <2>1. seen[w] \in Final /\ \A c \in BatchesOf(NodeOf[task[w]]) : Done(c)
    BY <1>4 DEF WriteNode, IInv, Knows
  <2>2. QED
    BY <1>4, <2>1, NodeWriteKeeps, Values DEF WriteNode
<1>5. QED
  BY <1>1, <1>2, <1>3, <1>4

\* updateNodeStatusFromBatches and updateRunStatusFromNodes, the reads.
LEMMA RefreshReadKeeps ==
  ASSUME IInv, NEW w \in Workers, ReadBatches(w) \/ ReadNodes(w)
  PROVE  IInv'
<1>1. /\ phase[w] # "idle" /\ UNCHANGED <<broker, runRows, batchRows, nodeRows, data, cache>>
      /\ task[w] \in Batches
  BY DEF ReadBatches, ReadNodes, tables, IInv, TypeOK
<1>2. /\ data' \in [Batches -> Nat] /\ NodeOf[task[w]] \in Nodes
      /\ cache' \in [Daemons -> [Nodes -> {"none", "go", "wait", "nogo"}]]
  BY <1>1, WorkflowAssumption DEF IInv, TypeOK
<1>3. CASE \E p \in {"readNodes", "ack"} : Goto(w, p, NodeBatchNone)
  BY <1>1, <1>2, <1>3, GotoStep, MayGoFreely, Values
<1>4. ASSUME NEW s \in Final, s = NodeStatusFromBatches(NodeOf[task[w]]), ReadBatches(w),
             Goto(w, "writeNode", s)
      PROVE  IInv'
  <2>1. Done(task[w]) /\ task[w] \in BatchesOf(NodeOf[task[w]])
    BY <1>1, <1>4 DEF ReadBatches, IInv, Knows, BatchesOf
  <2>2. \A c \in BatchesOf(NodeOf[task[w]]) : Done(c)
    BY <1>2, <1>4, <2>1, NodeStatusMeansDone
  <2>3. \A c \in BatchesOf(NodeOf[task[w]]) : Done(c)'
    BY <1>1, <2>2 DEF Done
  <2>4. MayGo(w, "writeNode", s)
    BY <2>3, Values DEF MayGo, Phases
  <2>5. QED
    BY <1>1, <1>2, <1>4, <2>4, GotoStep
<1>5. ASSUME RunIsOver, Goto(w, "writeRun", NodeBatchNone)
      PROVE  IInv'
  <2>1. \A b \in Batches : Done(b)
    BY <1>5, RunIsOverMeansDone DEF IInv
  <2>2. \A b \in Batches : Done(b)'
    BY <1>1, <2>1 DEF Done
  <2>3. MayGo(w, "writeRun", NodeBatchNone)
    BY <2>2, Values DEF MayGo, Phases
  <2>4. QED
    BY <1>1, <1>2, <1>5, <2>3, GotoStep
<1>6. QED
  BY <1>3, <1>4, <1>5 DEF ReadBatches, ReadNodes

\* The run is marked complete by a worker that knows every batch has ended.
LEMMA WriteRunKeeps ==
  ASSUME IInv, NEW w \in Workers, WriteRun(w)
  PROVE  IInv'
<1> USE DEF IInv
<1>1. /\ phase[w] # "idle" /\ SetRunStatus(RunComplete) /\ Goto(w, "ack", NodeBatchNone)
      /\ UNCHANGED <<batchRows, nodeRows, data, broker, cache>>
      /\ \A b \in Batches : Done(b)
  BY DEF WriteRun, Knows
<1>2. /\ runRows' \in [RunWritten -> Nat] /\ runRows'[RunComplete] > 0
      /\ \A r \in RunWritten : r # RunComplete => runRows'[r] = runRows[r]
  BY <1>1, SetRunStatusAdds, Values DEF TypeOK
<1>3. Grows
  BY <1>1, <1>2 DEF Grows
<1>4. TablesOK'
  BY <1>1, <1>2 DEF TypeOK, TablesOK
<1>5. CompleteMeansDone'
  BY <1>1, <1>3, DoneStays DEF CompleteMeansDone, BatchesOf
<1>6. faults' \in 0..MaxFaults
  BY <1>1 DEF Goto, TypeOK
<1>7. MayGo(w, "ack", NodeBatchNone)
  BY MayGoFreely, Values
<1>8. QED
  BY <1>1, <1>3, <1>4, <1>5, <1>6, <1>7, WorkerStep DEF Goto

-------------------------------------------------------------------------------
\* Claim, acknowledgement, return, and the end of a lease.
LEMMA MessageStepKeeps ==
  ASSUME IInv,
         \/ \E w \in Workers, b \in Batches : Claim(w, b)
         \/ \E w \in Workers : SendAck(w) \/ SendRetry(w)
         \/ \E b \in Batches : LeaseExpires(b) \/ LeaseLost(b)
  PROVE  IInv'
<1> USE DEF IInv
<1>1. ASSUME NEW w \in Workers, NEW b \in Batches, Claim(w, b) PROVE IInv'
  <2>1. "runStatus" \in Phases /\ "runStatus" # "idle"
    BY DEF Phases
  <2>2. TypeOK'
    BY <1>1, <2>1 DEF Claim, TypeOK, tables
  <2>3. Started' /\ runRows[RunStart] > 0
    BY <1>1 DEF Claim, Started, tables
  <2>4. \A v \in Workers :
          \/ v = w /\ phase'[v] = "runStatus"
          \/ phase'[v] = phase[v] /\ seen'[v] = seen[v] /\ task'[v] = task[v]
    BY <1>1 DEF Claim, TypeOK
  <2>5. UNCHANGED tables
    BY <1>1 DEF Claim
  <2>6. QED
    BY <2>2, <2>3, <2>4, <2>5, BrokerStep
<1>2. ASSUME NEW w \in Workers, SendAck(w) \/ SendRetry(w) PROVE IInv'
  <2>1. "idle" \in Phases /\ phase[w] # "idle"
    BY <1>2 DEF Phases, SendAck, SendRetry
  <2>2. /\ phase' = [phase EXCEPT ![w] = "idle"] /\ task' = [task EXCEPT ![w] = NoTask]
        /\ UNCHANGED <<seen, sent, tables, cache, faults>>
    BY <1>2 DEF SendAck, SendRetry, Rest
  <2>3. task[w] \in Batches
    BY <2>1 DEF TypeOK
  <2>4. queue' \subseteq queue \cup wip /\ wip' \subseteq wip
    BY <1>2 DEF SendAck, SendRetry
  <2>5. TypeOK'
    BY <2>1, <2>2, <2>4 DEF TypeOK, tables
  <2>6. Started'
    BY <2>2, <2>4 DEF Started, tables
  <2>7. \A v \in Workers :
          \/ phase'[v] = "idle"
          \/ phase'[v] = phase[v] /\ seen'[v] = seen[v] /\ task'[v] = task[v]
    BY <2>2 DEF TypeOK
  <2>8. QED
    BY <2>2, <2>5, <2>6, <2>7, BrokerStep
<1>3. ASSUME NEW b \in Batches, LeaseExpires(b) \/ LeaseLost(b) PROVE IInv'
  <2>1. /\ b \in wip /\ wip' = wip \ {b} /\ queue' = queue \cup {b}
        /\ UNCHANGED <<tables, sent, workers, cache>>
    BY <1>3 DEF LeaseExpires, LeaseLost
  <2>2. faults' \in 0..MaxFaults
    BY <1>3, WorkflowAssumption DEF LeaseExpires, LeaseLost, TypeOK
  <2>3. TypeOK'
    BY <2>1, <2>2 DEF TypeOK, tables, workers
  <2>4. Started'
    BY <2>1 DEF Started, tables
  <2>5. \A v \in Workers : phase'[v] = phase[v] /\ seen'[v] = seen[v] /\ task'[v] = task[v]
    BY <2>1 DEF workers
  <2>6. QED
    BY <2>1, <2>3, <2>4, <2>5, BrokerStep
<1>4. QED
  BY <1>1, <1>2, <1>3

\* A fault that leaves a worker in a phase it may be in.
LEMMA FaultStep ==
  ASSUME IInv, NEW w \in Workers, NEW k, NEW p, NEW s, phase[w] # "idle",
         Fault(k, w, p, s), MayGo(w, p, s)
  PROVE  IInv'
<1>1. faults' \in 0..MaxFaults
  BY WorkflowAssumption DEF Fault, IInv, TypeOK
<1>2. /\ data' \in [Batches -> Nat]
      /\ cache' \in [Daemons -> [Nodes -> {"none", "go", "wait", "nogo"}]]
  BY DEF Fault, tables, IInv, TypeOK
<1>3. task' = task /\ UNCHANGED <<broker, runRows, batchRows, nodeRows>>
  BY DEF Fault, tables
<1>4. QED
  BY <1>1, <1>2, <1>3, ReadStep DEF Fault

\* Errors of the database.
LEMMA ErrorKeeps ==
  ASSUME IInv, NEW w \in Workers, ConnectionError(w) \/ OtherError(w)
  PROVE  IInv'
<1>1. phase[w] # "idle"
  BY DEF ConnectionError, OtherError
<1>2. CASE ConnectionError(w)
  <2>1. PICK p \in {"ack", "retry"} : Fault("connection", w, p, NodeBatchNone)
    BY <1>2 DEF ConnectionError
  <2>2. QED
    BY <1>1, <2>1, FaultStep, MayGoFreely, Values
<1>3. CASE OtherError(w)
  <2>1. ~RunStatusIs(RunNone)
    BY <1>1, Values DEF RunStatusIs, IInv, Knows, TypeOK
  <2>2. \/ \E p \in {"setStatus", "setStatusOnly"} : Fault("timeout", w, p, NodeBatchFail)
        \/ Fault("timeout", w, "ack", NodeBatchNone)
    BY <1>3, <2>1 DEF OtherError
  <2>3. QED
    BY <1>1, <2>2, FaultStep, MayGoFreely, MayReport, Values
<1>4. QED
  BY <1>2, <1>3

\* Faults that end the work of a worker, and cache entries that expire.
LEMMA LossKeeps ==
  ASSUME IInv,
         \/ \E w \in Workers : AnswerLost(w)
         \/ \E d \in Daemons : Crash(d)
         \/ \E d \in Daemons, n \in Nodes : CacheExpires(d, n)
  PROVE  IInv'
<1> USE DEF IInv
<1>1. ASSUME NEW w \in Workers, AnswerLost(w) PROVE IInv'
  <2>1. TypeOK'
    BY <1>1, WorkflowAssumption DEF AnswerLost, TypeOK, tables, broker, Phases
  <2>2. Started'
    BY <1>1 DEF AnswerLost, Started, tables, broker
  <2>3. UNCHANGED tables /\ \A v \in Workers :
          \/ phase'[v] = "idle"
          \/ phase'[v] = phase[v] /\ seen'[v] = seen[v] /\ task'[v] = task[v]
    BY <1>1 DEF AnswerLost, TypeOK
  <2>4. QED
    BY <2>1, <2>2, <2>3, BrokerStep
<1>2. ASSUME NEW d \in Daemons, Crash(d) PROVE IInv'
  <2>1. faults' \in 0..MaxFaults
    BY <1>2, WorkflowAssumption DEF Crash, TypeOK
  <2>2. cache' \in [Daemons -> [Nodes -> {"none", "go", "wait", "nogo"}]]
    BY <1>2 DEF Crash, TypeOK
  <2>3. /\ phase' \in [Workers -> Phases] /\ task' \in [Workers -> Batches \cup {NoTask}]
        /\ seen' \in [Workers -> Statuses \cup RunStatuses]
        /\ \A w \in Workers : phase'[w] # "idle" => task'[w] \in Batches
    BY <1>2, Values DEF Crash, TypeOK, Phases
  <2>4. TypeOK'
    BY <1>2, <2>1, <2>2, <2>3 DEF Crash, TypeOK, tables, broker
  <2>5. Started'
    BY <1>2 DEF Crash, Started, tables, broker
  <2>6. UNCHANGED tables /\ \A v \in Workers :
          \/ phase'[v] = "idle"
          \/ phase'[v] = phase[v] /\ seen'[v] = seen[v] /\ task'[v] = task[v]
    BY <1>2 DEF Crash
  <2>7. QED
    BY <2>4, <2>5, <2>6, BrokerStep
<1>3. ASSUME NEW d \in Daemons, NEW n \in Nodes, CacheExpires(d, n) PROVE IInv'
  <2>1. cache' \in [Daemons -> [Nodes -> {"none", "go", "wait", "nogo"}]]
    BY <1>3 DEF CacheExpires, TypeOK
  <2>2. TypeOK' /\ Started'
    BY <1>3, <2>1 DEF CacheExpires, TypeOK, Started, tables, broker, workers
  <2>3. UNCHANGED tables /\ \A v \in Workers :
          phase'[v] = phase[v] /\ seen'[v] = seen[v] /\ task'[v] = task[v]
    BY <1>3 DEF CacheExpires, workers
  <2>4. QED
    BY <2>2, <2>3, BrokerStep
<1>4. QED
  BY <1>1, <1>2, <1>3

-------------------------------------------------------------------------------
\* Nothing changes: nothing is lost.
LEMMA StutterKeeps == IInv /\ UNCHANGED vars => IInv'
BY DEF IInv, TypeOK, CompleteMeansDone, Started, Knows, Done, BatchesOf, vars, tables, broker,
   workers

\* Every step keeps the invariant.
LEMMA InvStep == IInv /\ [Next]_vars => IInv'
<1> SUFFICES ASSUME IInv, [Next]_vars PROVE IInv'
  OBVIOUS
<1>1. CASE StartRunMark \/ StartRunSend \/ StopRun
  BY <1>1, OperatorStep
<1>2. CASE \/ \E w \in Workers, b \in Batches : Claim(w, b)
           \/ \E b \in Batches : LeaseExpires(b) \/ LeaseLost(b)
  BY <1>2, MessageStepKeeps
<1>3. ASSUME NEW w \in Workers, Step(w) PROVE IInv'
  BY <1>3, CheckRunStatusKeeps, CheckLastBatchStatusKeeps, DataStepKeeps, CheckDependencyKeeps,
     MarkKeeps, RefreshReadKeeps, WriteRunKeeps, MessageStepKeeps DEF Step
<1>4. CASE \E w \in Workers : RerunAbandoned(w)
  BY <1>4, CheckLastBatchStatusKeeps
<1>5. CASE \E w \in Workers : ConnectionError(w) \/ OtherError(w)
  BY <1>5, ErrorKeeps
<1>6. CASE \/ \E w \in Workers : AnswerLost(w)
           \/ \E d \in Daemons : Crash(d)
           \/ \E d \in Daemons, n \in Nodes : CacheExpires(d, n)
  BY <1>6, LossKeeps
<1>7. CASE UNCHANGED vars
  BY <1>7, StutterKeeps
<1>8. QED
  BY <1>1, <1>2, <1>3, <1>4, <1>5, <1>6, <1>7 DEF Next

\* The invariant holds throughout.
LEMMA Invariance == Spec => []IInv
BY InitInv, InvStep, PTL DEF Spec

\* The tables, the broker and the workers keep the shapes of TypeOK, whatever
\* the faults: no worker is without a message when it works on one.
THEOREM WorkflowTyping == Spec => []TypeOK
<1>1. IInv => TypeOK
  BY DEF IInv
<1>2. QED
  BY <1>1, Invariance, PTL

\* updateNodeStatusFromBatches and updateRunStatusFromNodes never declare a node
\* or a run complete too early, for any number of workers that read and write
\* concurrently, and under every fault: a node's status is final only when all
\* its batches have ended, a run's only when all batches have.
THEOREM CompleteOnlyWhenDone == Spec => []CompleteMeansDone
<1>1. IInv => CompleteMeansDone
  BY DEF IInv
<1>2. QED
  BY <1>1, Invariance, PTL

-------------------------------------------------------------------------------
(* The data of a batch, as long as no lease is lost while its holder works.  *)

Succeeded(b) == batchRows[b][NodeBatchSuccess] > 0
Failed(b) == batchRows[b][NodeBatchFail] > 0

\* A message is with one worker, and leased for as long as he works on it.
Leased ==
  /\ queue \cap wip = {}
  /\ \A w \in Workers : phase[w] # "idle" => task[w] \in wip
  /\ \A v, w \in Workers :
       phase[v] # "idle" /\ phase[w] # "idle" /\ task[v] = task[w] => v = w

\* No start of a batch is later than its end, and no batch ends both ways.
RowsInOrder(b) ==
  /\ \A s \in Final : batchRows[b][s] > 0 => batchRows[b][NodeBatchStart] <= batchRows[b][s]
  /\ ~(Succeeded(b) /\ Failed(b))

\* What a batch's rows of history say of its rows in the data table.
DataFollowsRows(b) ==
  /\ Succeeded(b) => data[b] = Full
  /\ batchRows[b][NodeBatchStart] = 0 => data[b] = 0

\* The phases from the look at the batch's last status to its last insert.
Open == {"cleanUp", "depRuns", "depNodes", "nodeStart", "batchStart", "work1", "work2"}
Reporting == {"setStatus", "setStatusOnly"}

\* How far worker w is with the batch of his message.
Works(w) ==
  LET b == task[w] IN
  /\ phase[w] \in Open => ~Done(b)
  /\ phase[w] \in Reporting /\ seen[w] # NodeBatchRunStopReceived => ~Done(b)
  /\ phase[w] \in {"depRuns", "depNodes", "nodeStart", "batchStart", "work1"} => data[b] = 0
  /\ phase[w] = "work2" => data[b] = 1
  /\ phase[w] \in {"work1", "work2"} => batchRows[b][NodeBatchStart] > 0
  /\ phase[w] \in Reporting /\ seen[w] = NodeBatchSuccess
       => data[b] = Full /\ batchRows[b][NodeBatchStart] > 0

DInv ==
  /\ Leased
  /\ \A b \in Batches : RowsInOrder(b) /\ DataFollowsRows(b)
  /\ \A w \in Workers : phase[w] # "idle" => Works(w)

\* SetBatchStatus stamps its row with a time no earlier than those there.
LEMMA SetBatchStatusStamps ==
  ASSUME batchRows \in [Batches -> [Written -> Nat]], NEW b \in Batches, NEW s \in Written,
         SetBatchStatus(b, s)
  PROVE  /\ batchRows' \in [Batches -> [Written -> Nat]] /\ batchRows'[b][s] > 0
         /\ \A r \in Written : batchRows[b][r] <= batchRows'[b][s]
         /\ \A r \in Written : r # s => batchRows'[b][r] = batchRows[b][r]
         /\ \A c \in Batches : c # b => batchRows'[c] = batchRows[c]
<1>1. PICK t \in Stamps({batchRows[b][r] : r \in Written}) :
        batchRows' = [batchRows EXCEPT ![b][s] = t]
  BY DEF SetBatchStatus
<1>2. {batchRows[b][r] : r \in Written} \subseteq Nat
  OBVIOUS
<1>3. t \in Nat /\ t > 0
  BY <1>2, StampIsTime
<1>4. \A r \in Written : batchRows[b][r] <= t
  BY <1>1 DEF Stamps
<1>5. QED
  BY <1>1, <1>3, <1>4

\* A step of one worker, who touches only the batch of his message.
LEMMA OwnStep ==
  ASSUME IInv, DInv, NEW w \in Workers, NEW p, NEW s, phase[w] # "idle",
         phase' = [phase EXCEPT ![w] = p], seen' = [seen EXCEPT ![w] = s],
         task' = task, UNCHANGED broker,
         \A b \in Batches : b # task[w] => batchRows'[b] = batchRows[b] /\ data'[b] = data[b],
         RowsInOrder(task[w])', DataFollowsRows(task[w])', Works(w)'
  PROVE  DInv'
<1>1. TypeOK /\ Leased
  BY DEF IInv, DInv
<1>2. task'[w] = task[w] /\ task[w] \in Batches
  BY <1>1 DEF TypeOK
<1>3. \A v \in Workers : v # w => phase'[v] = phase[v] /\ seen'[v] = seen[v] /\ task'[v] = task[v]
  BY <1>1 DEF TypeOK
<1>4. Leased'
  BY <1>1, <1>2, <1>3 DEF Leased, broker
<1>5. ASSUME NEW b \in Batches PROVE RowsInOrder(b)' /\ DataFollowsRows(b)'
  <2>1. CASE b = task[w]
    BY <2>1, <1>2
  <2>2. CASE b # task[w]
    BY <2>2 DEF DInv, RowsInOrder, DataFollowsRows, Succeeded, Failed
  <2>3. QED
    BY <2>1, <2>2
<1>6. ASSUME NEW v \in Workers, phase'[v] # "idle" PROVE Works(v)'
  <2>1. CASE v = w
    BY <2>1
  <2>2. CASE v # w
    <3>1. task[v] \in Batches /\ task[v] # task[w] /\ phase[v] # "idle"
      BY <1>1, <1>3, <1>6, <2>2 DEF Leased, TypeOK
    <3>2. batchRows'[task[v]] = batchRows[task[v]] /\ data'[task[v]] = data[task[v]]
      BY <3>1
    <3>3. Works(v)
      BY <3>1 DEF DInv
    <3>4. QED
      BY <1>3, <2>2, <3>2, <3>3 DEF Works, Done
  <2>3. QED
    BY <2>1, <2>2
<1>7. QED
  BY <1>4, <1>5, <1>6 DEF DInv

\* A worker that reads, or fails, and goes on with step p.
LEMMA LookStep ==
  ASSUME IInv, DInv, NEW w \in Workers, NEW p, NEW s, phase[w] # "idle",
         phase' = [phase EXCEPT ![w] = p], seen' = [seen EXCEPT ![w] = s],
         task' = task, UNCHANGED <<broker, batchRows, data>>,
         Works(w)'
  PROVE  DInv'
<1>1. task[w] \in Batches
  BY DEF IInv, TypeOK
<1>2. RowsInOrder(task[w])' /\ DataFollowsRows(task[w])'
  BY <1>1 DEF DInv, RowsInOrder, DataFollowsRows, Succeeded, Failed
<1>3. QED
  BY <1>2, OwnStep

\* In the other phases nothing is asked of a worker.
Free == {"runStatus", "lastStatus", "readBatches", "writeNode", "readNodes", "writeRun", "ack",
         "retry"}

\* A worker that reads, or fails, and of whom nothing is asked.
LEMMA FreeStep ==
  ASSUME IInv, DInv, NEW w \in Workers, NEW p \in Free, NEW s, phase[w] # "idle",
         phase' = [phase EXCEPT ![w] = p], seen' = [seen EXCEPT ![w] = s],
         task' = task, UNCHANGED <<broker, batchRows, data>>
  PROVE  DInv'
<1>1. phase'[w] = p
  BY DEF IInv, TypeOK
<1>2. Works(w)'
  BY <1>1 DEF Works, Free, Open, Reporting
<1>3. QED
  BY <1>2, LookStep

\* The three values a status is told apart by.
LEMMA Distinct ==
  /\ NodeBatchStart # NodeBatchSuccess /\ NodeBatchStart # NodeBatchFail
  /\ NodeBatchStart # NodeBatchRunStopReceived /\ NodeBatchSuccess # NodeBatchFail
  /\ NodeBatchSuccess # NodeBatchRunStopReceived /\ NodeBatchFail # NodeBatchRunStopReceived
  /\ NodeBatchNone \notin Written
  /\ Final = {NodeBatchSuccess, NodeBatchFail, NodeBatchRunStopReceived}
  /\ Written = {NodeBatchStart, NodeBatchSuccess, NodeBatchFail, NodeBatchRunStopReceived}
BY DEF Final, Written, NodeBatchNone, NodeBatchStart, NodeBatchSuccess, NodeBatchFail,
       NodeBatchRunStopReceived

\* A worker that goes on with the same batch, which has not ended.
LEMMA OpenStep ==
  ASSUME IInv, DInv, NEW w \in Workers, NEW p, NEW s, phase[w] # "idle",
         phase' = [phase EXCEPT ![w] = p], seen' = [seen EXCEPT ![w] = s],
         task' = task, UNCHANGED <<broker, batchRows, data>>,
         ~Done(task[w]),
         \/ p \in {"depRuns", "depNodes", "nodeStart", "batchStart"} /\ data[task[w]] = 0
         \/ p = "cleanUp"
         \/ p \in Reporting /\ s # NodeBatchSuccess
  PROVE  DInv'
<1>1. phase'[w] = p /\ seen'[w] = s /\ task'[w] = task[w]
  BY DEF IInv, TypeOK
<1>2. Done(task[w])' = Done(task[w])
  BY <1>1 DEF Done
<1>3. Works(w)'
  BY <1>1, <1>2 DEF Works, Open, Reporting
<1>4. QED
  BY <1>3, LookStep

-------------------------------------------------------------------------------
\* checkRunStatus
LEMMA CheckRunStatusData ==
  ASSUME IInv, DInv, NEW w \in Workers, CheckRunStatus(w)
  PROVE  DInv'
<1>1. phase[w] # "idle" /\ UNCHANGED <<broker, batchRows, data>> /\ ~RunStatusIs(RunNone)
  BY Values DEF CheckRunStatus, tables, RunStatusIs, IInv, Knows, TypeOK
<1>2. CASE \E p \in {"lastStatus", "ack"} : Goto(w, p, NodeBatchNone)
  BY <1>1, <1>2, FreeStep DEF Goto, Free
<1>3. CASE Goto(w, "setStatus", NodeBatchRunStopReceived)
  <2>1. phase'[w] = "setStatus" /\ seen'[w] = NodeBatchRunStopReceived
    BY <1>3 DEF Goto, IInv, TypeOK
  <2>2. Works(w)'
    BY <2>1, Distinct DEF Works, Open, Reporting
  <2>3. QED
    BY <1>1, <1>3, <2>2, LookStep DEF Goto
<1>4. QED
  BY <1>1, <1>2, <1>3 DEF CheckRunStatus

\* The last status of a batch is a start only while it has not ended.
LEMMA StartIsOpen ==
  ASSUME IInv, DInv, NEW b \in Batches,
         LastBatchStatusIs(b, NodeBatchStart) \/ LastBatchStatusIs(b, NodeBatchNone)
  PROVE  ~Done(b)
<1> SUFFICES ASSUME NEW s \in Final, batchRows[b][s] > 0 PROVE FALSE
  BY DEF Done
<1>1. s \in Written /\ s > NodeBatchStart /\ NodeBatchStart \in Written
      /\ NodeBatchStart # NodeBatchNone
  BY DEF Final, Written, NodeBatchStart, NodeBatchSuccess, NodeBatchFail, NodeBatchRunStopReceived,
         NodeBatchNone
<1>2. batchRows[b][s] \in Nat /\ batchRows[b][NodeBatchStart] \in Nat
  BY <1>1 DEF IInv, TypeOK
<1>3. batchRows[b][NodeBatchStart] <= batchRows[b][s]
  BY DEF DInv, RowsInOrder
<1>4. CASE LastBatchStatusIs(b, NodeBatchNone)
  BY <1>1, <1>2, <1>4 DEF LastBatchStatusIs
<1>5. CASE LastBatchStatusIs(b, NodeBatchStart)
  <2>1. \/ batchRows[b][s] < batchRows[b][NodeBatchStart]
        \/ batchRows[b][s] = batchRows[b][NodeBatchStart] /\ s <= NodeBatchStart
    BY <1>1, <1>5 DEF LastBatchStatusIs
  <2>2. s \in Nat /\ NodeBatchStart \in Nat
    BY DEF Final, NodeBatchStart, NodeBatchSuccess, NodeBatchFail, NodeBatchRunStopReceived
  <2>3. QED
    BY <1>1, <1>2, <1>3, <2>1, <2>2
<1>6. QED
  BY <1>4, <1>5

\* checkLastBatchStatus: a batch without a start row has no rows of data.
LEMMA CheckLastBatchStatusData ==
  ASSUME IInv, DInv, NEW w \in Workers, CheckLastBatchStatus(w) \/ RerunAbandoned(w)
  PROVE  DInv'
<1>1. phase[w] # "idle" /\ UNCHANGED <<broker, batchRows, data>>
  BY DEF CheckLastBatchStatus, RerunAbandoned, tables
<1>2. task[w] \in Batches
  BY <1>1 DEF IInv, TypeOK
<1>3. CASE \E p \in {"readBatches", "ack", "retry"} : Goto(w, p, NodeBatchNone)
  BY <1>1, <1>3, FreeStep DEF Goto, Free
<1>4. CASE LastBatchStatusIs(task[w], NodeBatchNone) /\ Goto(w, "depRuns", NodeBatchNone)
  <2>1. ~Done(task[w])
    BY <1>2, <1>4, StartIsOpen
  <2>2. batchRows[task[w]][NodeBatchStart] = 0
    BY <1>4, Values DEF LastBatchStatusIs
  <2>3. data[task[w]] = 0
    BY <1>2, <2>2 DEF DInv, DataFollowsRows
  <2>4. QED
    BY <1>1, <1>4, <2>1, <2>3, OpenStep DEF Goto
<1>5. CASE /\ LastBatchStatusIs(task[w], NodeBatchStart)
           /\ Goto(w, "setStatus", NodeBatchFail) \/ Goto(w, "cleanUp", NodeBatchNone)
  <2>1. ~Done(task[w])
    BY <1>2, <1>5, StartIsOpen
  <2>2. CASE Goto(w, "setStatus", NodeBatchFail)
    BY <1>1, <2>1, <2>2, OpenStep, Distinct DEF Goto, Reporting
  <2>3. CASE Goto(w, "cleanUp", NodeBatchNone)
    BY <1>1, <2>1, <2>3, OpenStep DEF Goto
  <2>4. QED
    BY <1>5, <2>2, <2>3
<1>6. QED
  BY <1>3, <1>4, <1>5 DEF CheckLastBatchStatus, RerunAbandoned

\* DeleteDataAndUniqueIndexesByBatchIdx and the processors: only the holder of
\* a message changes the rows of its batch, and none while the batch has ended.
LEMMA ProcessData ==
  ASSUME IInv, DInv, NEW w \in Workers, CleanUp(w) \/ Process(w)
  PROVE  DInv'
<1> DEFINE b == task[w]
<1>1. phase[w] \in {"cleanUp", "work1", "work2"} /\ UNCHANGED <<broker, batchRows>>
  BY DEF CleanUp, Process
<1>2. b \in Batches /\ data \in [Batches -> Nat]
  BY <1>1 DEF IInv, TypeOK
<1>3. ~Done(b) /\ Works(w) /\ phase[w] # "idle"
  BY <1>1 DEF DInv, Works, Open
<1>4. ~Succeeded(b) /\ ~Failed(b)
  BY <1>3, Distinct DEF Done, Succeeded, Failed
<1>5. RowsInOrder(b) /\ DataFollowsRows(b)
  BY <1>2 DEF DInv
<1>6. ASSUME NEW p, NEW s, NEW x, Goto(w, p, s), data' = [data EXCEPT ![b] = x],
             batchRows[b][NodeBatchStart] = 0 => x = 0,
             \/ p = "depRuns" /\ x = 0
             \/ p = "work2" /\ x = 1 /\ batchRows[b][NodeBatchStart] > 0
             \/ /\ p = "setStatus" /\ s = NodeBatchSuccess /\ x = Full
                /\ batchRows[b][NodeBatchStart] > 0
      PROVE  DInv'
  <2>1. phase'[w] = p /\ seen'[w] = s /\ task'[w] = b /\ data'[b] = x
    BY <1>2, <1>6 DEF Goto, IInv, TypeOK
  <2>2. Works(w)'
    BY <1>1, <1>3, <1>6, <2>1 DEF Works, Open, Reporting, Done
  <2>3. RowsInOrder(b)'
    BY <1>1, <1>5, <1>6 DEF RowsInOrder, Succeeded, Failed, Goto
  <2>4. DataFollowsRows(b)'
    BY <1>1, <1>4, <1>6, <2>1 DEF DataFollowsRows, Succeeded, Goto
  <2>5. \A c \in Batches : c # b => batchRows'[c] = batchRows[c] /\ data'[c] = data[c]
    BY <1>1, <1>2, <1>6
  <2>6. QED
    BY <1>1, <1>3, <1>6, <2>2, <2>3, <2>4, <2>5, OwnStep DEF Goto
<1>7. CASE CleanUp(w)
  BY <1>6, <1>7 DEF CleanUp
<1>8. CASE Process(w)
  <2>1. CASE /\ phase[w] = "work1" /\ data' = [data EXCEPT ![b] = @ + 1]
             /\ Goto(w, "work2", NodeBatchNone)
    <3>1. data[b] = 0 /\ batchRows[b][NodeBatchStart] > 0
      BY <1>3, <2>1 DEF Works
    <3>2. data' = [data EXCEPT ![b] = 1] /\ batchRows[b][NodeBatchStart] # 0
      BY <2>1, <3>1
    <3>3. QED
      BY <1>6, <2>1, <3>1, <3>2
  <2>2. CASE /\ phase[w] = "work2" /\ data' = [data EXCEPT ![b] = @ + 1]
             /\ Goto(w, "setStatus", NodeBatchSuccess)
    <3>1. data[b] = 1 /\ batchRows[b][NodeBatchStart] > 0
      BY <1>3, <2>2 DEF Works
    <3>2. data' = [data EXCEPT ![b] = Full] /\ batchRows[b][NodeBatchStart] # 0
      BY <2>2, <3>1 DEF Full
    <3>3. QED
      BY <1>6, <2>2, <3>1, <3>2
  <2>3. CASE Goto(w, "setStatus", NodeBatchFail) /\ UNCHANGED data
    BY <1>1, <1>3, <2>3, OpenStep, Distinct DEF Goto, Reporting
  <2>4. QED
    BY <1>8, <2>1, <2>2, <2>3 DEF Process
<1>9. QED
  BY <1>7, <1>8

\* What checkDependencyNodesReady makes of a go, a wait or a nogo.
LEMMA DependencyCommands ==
  ASSUME IInv, NEW w \in Workers, CheckDependencyRuns(w) \/ CheckDependencyNodes(w)
  PROVE  \/ \E cmd \in {"go", "wait", "nogo"} : ActOn(w, cmd)
         \/ Goto(w, "depNodes", DepRunStatus)
<1> DEFINE n == NodeOf[task[w]]
           cached == cache[DaemonOf[w]][n]
<1>1. phase[w] # "idle"
  BY DEF CheckDependencyRuns, CheckDependencyNodes
<1>2. n \in Nodes /\ DaemonOf[w] \in Daemons
  BY <1>1, WorkflowAssumption DEF IInv, TypeOK
<1>3. cached \in {"none", "go", "wait", "nogo"}
  BY <1>2 DEF IInv, TypeOK
<1>4. DependencyCmd(n, seen[w]) \in {"go", "wait", "nogo"}
  BY DEF DependencyCmd
<1>5. CASE CheckDependencyRuns(w)
  BY <1>3, <1>5 DEF CheckDependencyRuns
<1>6. CASE CheckDependencyNodes(w)
  BY <1>4, <1>6 DEF CheckDependencyNodes
<1>7. QED
  BY <1>5, <1>6

\* checkDependencyNodesReady: the batch is as it was.
LEMMA CheckDependencyData ==
  ASSUME IInv, DInv, NEW w \in Workers, CheckDependencyRuns(w) \/ CheckDependencyNodes(w)
  PROVE  DInv'
<1>1. phase[w] \in {"depRuns", "depNodes"} /\ UNCHANGED <<broker, batchRows, data>>
  BY DEF CheckDependencyRuns, CheckDependencyNodes, tables
<1>2. ~Done(task[w]) /\ data[task[w]] = 0 /\ phase[w] # "idle"
  BY <1>1 DEF DInv, Works, Open
<1>3. ASSUME NEW cmd \in {"go", "wait", "nogo"}, ActOn(w, cmd) PROVE DInv'
  <2>1. CASE Goto(w, "nodeStart", NodeBatchNone)
    BY <1>1, <1>2, <2>1, OpenStep DEF Goto
  <2>2. CASE Goto(w, "retry", NodeBatchNone)
    BY <1>1, <1>2, <2>2, FreeStep DEF Goto, Free
  <2>3. CASE Goto(w, "setStatus", NodeBatchFail)
    BY <1>1, <1>2, <2>3, OpenStep, Distinct DEF Goto, Reporting
  <2>4. QED
    BY <1>3, <2>1, <2>2, <2>3 DEF ActOn
<1>4. CASE Goto(w, "depNodes", DepRunStatus)
  BY <1>1, <1>2, <1>4, OpenStep DEF Goto
<1>5. QED
  BY <1>3, <1>4, DependencyCommands

\* SetNodeStatus(batch_start) and the refresh of node and run: the batch is as it was.
LEMMA RefreshData ==
  ASSUME IInv, DInv, NEW w \in Workers,
         MarkNodeStart(w) \/ ReadBatches(w) \/ WriteNode(w) \/ ReadNodes(w) \/ WriteRun(w)
  PROVE  DInv'
<1>1. phase[w] # "idle" /\ UNCHANGED <<broker, batchRows, data>>
  BY DEF MarkNodeStart, ReadBatches, WriteNode, ReadNodes, WriteRun, tables
<1>2. CASE MarkNodeStart(w)
  <2>1. ~Done(task[w]) /\ data[task[w]] = 0
    BY <1>2 DEF MarkNodeStart, DInv, Works, Open
  <2>2. QED
    BY <1>1, <1>2, <2>1, OpenStep DEF MarkNodeStart, Goto
<1>3. CASE ReadBatches(w) \/ WriteNode(w) \/ ReadNodes(w) \/ WriteRun(w)
  <2>1. \E p \in {"writeNode", "readNodes", "writeRun", "ack"} : \E s : Goto(w, p, s)
    BY <1>3 DEF ReadBatches, WriteNode, ReadNodes, WriteRun
  <2>2. QED
    BY <1>1, <2>1, FreeStep DEF Goto, Free
<1>4. QED
  BY <1>2, <1>3

\* SetBatchStatus: the start of a batch that has not ended, and the one end of it.
LEMMA BatchStatusData ==
  ASSUME IInv, DInv, NEW w \in Workers, MarkBatchStart(w) \/ ReportBatch(w)
  PROVE  DInv'
<1> DEFINE b == task[w]
<1>1. /\ phase[w] \in {"batchStart", "setStatus", "setStatusOnly"} /\ phase[w] # "idle"
      /\ UNCHANGED <<broker, data>>
  BY DEF MarkBatchStart, ReportBatch
<1>2. b \in Batches /\ batchRows \in [Batches -> [Written -> Nat]]
  BY <1>1 DEF IInv, TypeOK
<1>3. Works(w) /\ RowsInOrder(b) /\ DataFollowsRows(b)
  BY <1>1, <1>2 DEF DInv
<1>4. CASE MarkBatchStart(w)
  <2>1. ~Done(b) /\ data[b] = 0
    BY <1>3, <1>4 DEF MarkBatchStart, Works, Open
  <2>2. /\ batchRows'[b][NodeBatchStart] > 0
        /\ \A r \in Written : r # NodeBatchStart => batchRows'[b][r] = batchRows[b][r]
        /\ \A c \in Batches : c # b => batchRows'[c] = batchRows[c]
    BY <1>2, <1>4, SetBatchStatusStamps, Values DEF MarkBatchStart
  <2>3. phase'[w] = "work1" /\ task'[w] = b /\ data'[b] = 0
    BY <1>1, <1>4, <2>1 DEF MarkBatchStart, Goto, IInv, TypeOK
  <2>4. \A r \in Final : ~(batchRows'[b][r] > 0)
    BY <2>1, <2>2, Distinct DEF Done
  <2>5. ~Done(b)' /\ RowsInOrder(b)' /\ DataFollowsRows(b)'
    <3>1. ~Done(b)'
      BY <2>3, <2>4 DEF Done
    <3>2. RowsInOrder(b)' /\ DataFollowsRows(b)'
      BY <2>2, <2>3, <2>4, Distinct DEF RowsInOrder, DataFollowsRows, Succeeded, Failed
    <3>3. QED
      BY <3>1, <3>2
  <2>6. Works(w)'
    BY <2>2, <2>3, <2>5 DEF Works, Open, Reporting
  <2>7. QED
    BY <1>1, <1>4, <2>2, <2>5, <2>6, OwnStep DEF MarkBatchStart, Goto
<1>5. CASE ReportBatch(w)
  <2>1. seen[w] \in Final /\ seen[w] \in Written /\ seen[w] # NodeBatchStart
    BY <1>5, Values DEF ReportBatch, IInv, Knows
  <2>2. /\ batchRows' \in [Batches -> [Written -> Nat]] /\ batchRows'[b][seen[w]] > 0
        /\ \A r \in Written : batchRows[b][r] <= batchRows'[b][seen[w]]
        /\ \A r \in Written : r # seen[w] => batchRows'[b][r] = batchRows[b][r]
        /\ \A c \in Batches : c # b => batchRows'[c] = batchRows[c]
    BY <1>2, <1>5, <2>1, SetBatchStatusStamps DEF ReportBatch
  <2>3. PICK p \in {"readBatches", "ack"} : Goto(w, p, NodeBatchNone)
    BY <1>5 DEF ReportBatch
  <2>4. phase'[w] = p /\ task'[w] = b /\ data'[b] = data[b]
    BY <1>1, <2>3 DEF Goto, IInv, TypeOK
  <2>5. Works(w)'
    BY <2>4 DEF Works, Open, Reporting
  <2>6. batchRows'[b][NodeBatchStart] = batchRows[b][NodeBatchStart]
    BY <2>1, <2>2, Values
  <2>7. \A s \in Final : batchRows'[b][s] > 0 => batchRows'[b][NodeBatchStart] <= batchRows'[b][s]
    <3>1. ASSUME NEW s \in Final, batchRows'[b][s] > 0
          PROVE  batchRows'[b][NodeBatchStart] <= batchRows'[b][s]
      <4>1. CASE s = seen[w]
        BY <2>2, <2>6, <4>1, Values
      <4>2. CASE s # seen[w]
        <5>1. batchRows'[b][s] = batchRows[b][s]
          BY <2>2, <4>2, Values
        <5>2. QED
          BY <1>3, <2>6, <3>1, <5>1 DEF RowsInOrder
      <4>3. QED
        BY <4>1, <4>2
    <3>2. QED
      BY <3>1
  <2>8. CASE seen[w] = NodeBatchRunStopReceived
    <3>1. /\ batchRows'[b][NodeBatchSuccess] = batchRows[b][NodeBatchSuccess]
          /\ batchRows'[b][NodeBatchFail] = batchRows[b][NodeBatchFail]
      BY <2>2, <2>8, Distinct
    <3>2. RowsInOrder(b)' /\ DataFollowsRows(b)'
      BY <1>3, <2>4, <2>6, <2>7, <3>1 DEF RowsInOrder, DataFollowsRows, Succeeded, Failed
    <3>3. QED
      BY <1>1, <2>2, <2>3, <2>5, <3>2, OwnStep DEF Goto
  <2>9. CASE seen[w] # NodeBatchRunStopReceived
    <3>1. ~Done(b)
      BY <1>3, <1>5, <2>9 DEF ReportBatch, Works, Reporting
    <3>2. \A r \in Final : r # seen[w] => ~(batchRows'[b][r] > 0)
      BY <2>2, <3>1, Values DEF Done
    <3>3. ~(Succeeded(b)' /\ Failed(b)')
      BY <2>4, <3>2, Distinct DEF Succeeded, Failed
    <3>4. Succeeded(b)' => data'[b] = Full
      <4>1. Succeeded(b)' => seen[w] = NodeBatchSuccess
        BY <2>4, <3>2, Distinct DEF Succeeded
      <4>2. seen[w] = NodeBatchSuccess => data[b] = Full
        BY <1>3, <1>5 DEF ReportBatch, Works, Reporting
      <4>3. QED
        BY <2>4, <4>1, <4>2
    <3>5. RowsInOrder(b)' /\ DataFollowsRows(b)'
      <4>1. RowsInOrder(b)'
        BY <2>4, <2>7, <3>3 DEF RowsInOrder, Succeeded, Failed
      <4>2. DataFollowsRows(b)'
        BY <1>3, <2>4, <2>6, <3>4 DEF DataFollowsRows, Succeeded
      <4>3. QED
        BY <4>1, <4>2
    <3>6. QED
      BY <1>1, <2>2, <2>3, <2>5, <3>5, OwnStep DEF Goto
  <2>10. QED
    BY <2>8, <2>9
<1>6. QED
  BY <1>4, <1>5

-------------------------------------------------------------------------------
\* A message changes hands, or a worker drops his: whoever goes on is where he was.
LEMMA HandOver ==
  ASSUME IInv, DInv, UNCHANGED tables, Leased',
         \A w \in Workers :
           \/ phase'[w] \in {"idle", "runStatus"}
           \/ phase'[w] = phase[w] /\ seen'[w] = seen[w] /\ task'[w] = task[w]
  PROVE  DInv'
<1>1. UNCHANGED <<batchRows, data>>
  BY DEF tables
<1>2. ASSUME NEW w \in Workers, phase'[w] # "idle" PROVE Works(w)'
  <2>1. CASE phase'[w] = "runStatus"
    BY <2>1 DEF Works, Open, Reporting
  <2>2. CASE phase'[w] = phase[w] /\ seen'[w] = seen[w] /\ task'[w] = task[w]
    BY <1>1, <1>2, <2>2 DEF DInv, Works, Done
  <2>3. QED
    BY <1>2, <2>1, <2>2
<1>3. \A b \in Batches : RowsInOrder(b)' /\ DataFollowsRows(b)'
  BY <1>1 DEF DInv, RowsInOrder, DataFollowsRows, Succeeded, Failed
<1>4. QED
  BY <1>2, <1>3 DEF DInv

\* Claim, acknowledgement, return, and the end of a lease nobody works under.
LEMMA MessageData ==
  ASSUME IInv, DInv, "lease" \notin FaultKinds,
         \/ \E w \in Workers, b \in Batches : Claim(w, b)
         \/ \E w \in Workers : SendAck(w) \/ SendRetry(w) \/ AnswerLost(w)
         \/ \E b \in Batches : LeaseExpires(b) \/ LeaseLost(b)
  PROVE  DInv'
<1>1. Leased /\ TypeOK
  BY DEF DInv, IInv
<1>2. ASSUME NEW w \in Workers, NEW b \in Batches, Claim(w, b) PROVE DInv'
  <2>1. b \notin wip /\ \A v \in Workers : phase[v] # "idle" => task[v] # b
    BY <1>1, <1>2 DEF Leased, Claim
  <2>2. phase'[w] = "runStatus" /\ task'[w] = b
    BY <1>1, <1>2 DEF Claim, TypeOK
  <2>3. \A v \in Workers : v # w => phase'[v] = phase[v] /\ seen'[v] = seen[v] /\ task'[v] = task[v]
    BY <1>1, <1>2 DEF Claim, TypeOK
  <2>4. queue' = queue \ {b} /\ wip' = wip \cup {b} /\ UNCHANGED tables
    BY <1>2 DEF Claim
  <2>5. Leased'
    BY <1>1, <2>1, <2>2, <2>3, <2>4 DEF Leased
  <2>6. \A v \in Workers :
          \/ phase'[v] \in {"idle", "runStatus"}
          \/ phase'[v] = phase[v] /\ seen'[v] = seen[v] /\ task'[v] = task[v]
    BY <2>2, <2>3
  <2>7. QED
    BY <2>4, <2>5, <2>6, HandOver
<1>3. ASSUME NEW w \in Workers, SendAck(w) \/ SendRetry(w) \/ AnswerLost(w) PROVE DInv'
  <2>1. phase[w] # "idle" /\ phase'[w] = "idle" /\ UNCHANGED tables
    BY <1>1, <1>3 DEF SendAck, SendRetry, AnswerLost, Rest, TypeOK
  <2>2. \A v \in Workers : v # w => phase'[v] = phase[v] /\ seen'[v] = seen[v] /\ task'[v] = task[v]
    BY <1>1, <1>3 DEF SendAck, SendRetry, AnswerLost, Rest, TypeOK
  <2>3. \/ wip' = wip /\ queue' = queue
        \/ wip' = wip \ {task[w]} /\ queue' \subseteq queue \cup {task[w]}
    BY <1>3 DEF SendAck, SendRetry, AnswerLost, broker
  <2>4. \A v \in Workers : v # w /\ phase[v] # "idle" => task[v] # task[w]
    BY <1>1, <2>1 DEF Leased
  <2>5. Leased'
    BY <1>1, <2>1, <2>2, <2>3, <2>4 DEF Leased
  <2>6. \A v \in Workers :
          \/ phase'[v] \in {"idle", "runStatus"}
          \/ phase'[v] = phase[v] /\ seen'[v] = seen[v] /\ task'[v] = task[v]
    BY <2>1, <2>2
  <2>7. QED
    BY <2>1, <2>5, <2>6, HandOver
<1>4. ASSUME NEW b \in Batches, LeaseExpires(b) \/ LeaseLost(b) PROVE DInv'
  <2>1. /\ \A w \in Workers : task[w] # b
        /\ wip' = wip \ {b} /\ queue' = queue \cup {b} /\ UNCHANGED <<tables, workers>>
    BY <1>4 DEF LeaseExpires, LeaseLost
  <2>2. Leased'
    BY <1>1, <2>1 DEF Leased, workers
  <2>3. QED
    BY <2>1, <2>2, HandOver DEF workers
<1>5. QED
  BY <1>2, <1>3, <1>4

\* Errors of the database leave what was written; a failed clean-up is reported
\* while the batch is still open.
LEMMA ErrorData ==
  ASSUME IInv, DInv, NEW w \in Workers, ConnectionError(w) \/ OtherError(w)
  PROVE  DInv'
<1>1. phase[w] # "idle" /\ ~RunStatusIs(RunNone)
  <2>1. phase[w] # "idle"
    BY DEF ConnectionError, OtherError
  <2>2. QED
    BY <2>1, Values DEF RunStatusIs, IInv, Knows, TypeOK
<1>2. ASSUME NEW k, NEW p, NEW s, Fault(k, w, p, s),
             \/ p \in Free
             \/ p \in Reporting /\ s # NodeBatchSuccess /\ ~Done(task[w])
      PROVE  DInv'
  <2>1. UNCHANGED <<broker, batchRows, data>>
    BY <1>2 DEF Fault, tables
  <2>2. QED
    BY <1>1, <1>2, <2>1, FreeStep, OpenStep DEF Fault
<1>3. CASE ConnectionError(w)
  BY <1>2, <1>3 DEF ConnectionError, Free
<1>4. CASE OtherError(w)
  <2>1. CASE phase[w] \in {"work1", "work2", "cleanUp"}
    <3>1. ~Done(task[w])
      BY <2>1, <1>1 DEF DInv, Works, Open
    <3>2. PICK p \in Reporting : Fault("timeout", w, p, NodeBatchFail)
      BY <1>4, <2>1 DEF OtherError, Reporting
    <3>3. QED
      BY <1>2, <3>1, <3>2, Distinct
  <2>2. CASE phase[w] \notin {"work1", "work2", "cleanUp"}
    <3>1. Fault("timeout", w, "ack", NodeBatchNone)
      BY <1>1, <1>4, <2>2 DEF OtherError
    <3>2. QED
      BY <1>2, <3>1 DEF Free
  <2>3. QED
    BY <2>1, <2>2
<1>5. QED
  BY <1>3, <1>4

\* The operator, a crash, the expiry of a cache entry.
LEMMA OutsideData ==
  ASSUME IInv, DInv,
         \/ StartRunMark \/ StartRunSend \/ StopRun
         \/ \E d \in Daemons, n \in Nodes : CacheExpires(d, n)
         \/ \E d \in Daemons : Crash(d)
         \/ UNCHANGED vars
  PROVE  DInv'
<1>1. Leased /\ TypeOK
  BY DEF DInv, IInv
<1>2. ASSUME UNCHANGED <<batchRows, data, broker, workers>> PROVE DInv'
  BY <1>2 DEF DInv, Leased, RowsInOrder, DataFollowsRows, Succeeded, Failed, Works, Done, broker,
     workers
<1>3. CASE StartRunMark \/ StopRun
  BY <1>2, <1>3 DEF StartRunMark, StopRun
<1>4. CASE \/ \E d \in Daemons, n \in Nodes : CacheExpires(d, n)
           \/ UNCHANGED vars
  BY <1>2, <1>4 DEF CacheExpires, vars, tables
<1>5. CASE StartRunSend
  <2>1. queue = {} /\ wip = {} /\ wip' = wip /\ UNCHANGED <<tables, workers>>
    BY <1>5 DEF StartRunSend, IInv, Started
  <2>2. Leased'
    BY <1>1, <2>1 DEF Leased, workers
  <2>3. QED
    BY <2>1, <2>2, HandOver DEF workers
<1>6. ASSUME NEW d \in Daemons, Crash(d) PROVE DInv'
  <2>1. /\ UNCHANGED <<tables, broker>>
        /\ \A w \in Workers :
             \/ phase'[w] = "idle"
             \/ phase'[w] = phase[w] /\ seen'[w] = seen[w] /\ task'[w] = task[w]
    BY <1>6 DEF Crash
  <2>2. Leased'
    BY <1>1, <2>1 DEF Leased, broker
  <2>3. QED
    BY <2>1, <2>2, HandOver
<1>7. QED
  BY <1>3, <1>4, <1>5, <1>6

\* Every step keeps DInv, unless a lease is lost.
LEMMA DInvStep ==
  ASSUME "lease" \notin FaultKinds, IInv, DInv, [Next]_vars
  PROVE  DInv'
<1>1. ASSUME NEW w \in Workers, Step(w) PROVE DInv'
  BY <1>1, CheckRunStatusData, CheckLastBatchStatusData, ProcessData, CheckDependencyData,
     RefreshData, BatchStatusData, MessageData DEF Step
<1>2. ASSUME NEW w \in Workers, RerunAbandoned(w) PROVE DInv'
  BY <1>2, CheckLastBatchStatusData
<1>3. ASSUME NEW w \in Workers, ConnectionError(w) \/ OtherError(w) PROVE DInv'
  BY <1>3, ErrorData
<1>4. CASE \/ \E w \in Workers, b \in Batches : Claim(w, b)
           \/ \E w \in Workers : AnswerLost(w)
           \/ \E b \in Batches : LeaseExpires(b) \/ LeaseLost(b)
  BY <1>4, MessageData
<1>5. CASE \/ StartRunMark \/ StartRunSend \/ StopRun
           \/ \E d \in Daemons, n \in Nodes : CacheExpires(d, n)
           \/ \E d \in Daemons : Crash(d)
           \/ UNCHANGED vars
  BY <1>5, OutsideData
<1>6. QED
  BY <1>1, <1>2, <1>3, <1>4, <1>5 DEF Next

\* At the start there are no rows and no messages.
LEMMA DInvInit == Init => DInv
<1> SUFFICES ASSUME Init PROVE DInv
  OBVIOUS
<1>1. \A b \in Batches, s \in Written : batchRows[b][s] = 0
  BY DEF Init
<1>2. \A b \in Batches : data[b] = 0 /\ ~Succeeded(b)
  BY <1>1, Values DEF Init, Succeeded
<1>3. \A b \in Batches : RowsInOrder(b) /\ DataFollowsRows(b)
  BY <1>1, <1>2, Values DEF RowsInOrder, DataFollowsRows
<1>4. Leased /\ \A w \in Workers : phase[w] = "idle"
  BY DEF Init, Leased
<1>5. QED
  BY <1>3, <1>4 DEF DInv

\* Under DInv the rows of a batch that has succeeded are touched by nobody.
LEMMA FrozenStep ==
  ASSUME IInv, DInv, [Next]_vars, NEW b \in Batches, Succeeded(b)
  PROVE  data'[b] = data[b]
<1>1. ASSUME NEW w \in Workers, CleanUp(w) \/ Process(w) PROVE data'[b] = data[b]
  <2>1. phase[w] \in Open /\ phase[w] # "idle"
    BY <1>1 DEF CleanUp, Process, Open
  <2>2. ~Done(task[w])
    BY <2>1 DEF DInv, Works
  <2>3. b # task[w]
    BY <2>2, Values DEF Done, Succeeded
  <2>4. data \in [Batches -> Nat]
    BY DEF IInv, TypeOK
  <2>5. QED
    BY <1>1, <2>3, <2>4 DEF CleanUp, Process
<1>2. ASSUME NEW w \in Workers, Step(w), ~(CleanUp(w) \/ Process(w)) PROVE data' = data
  BY <1>2 DEF Step, CheckRunStatus, CheckLastBatchStatus, CheckDependencyRuns,
     CheckDependencyNodes, MarkNodeStart, MarkBatchStart, ReportBatch, ReadBatches, WriteNode,
     ReadNodes, WriteRun, SendAck, SendRetry, Rest, tables
<1>3. CASE \/ StartRunMark \/ StartRunSend \/ StopRun
           \/ \E w \in Workers, c \in Batches : Claim(w, c)
           \/ \E w \in Workers : RerunAbandoned(w)
           \/ \E d \in Daemons, n \in Nodes : CacheExpires(d, n)
           \/ \E c \in Batches : LeaseExpires(c) \/ LeaseLost(c)
           \/ \E d \in Daemons : Crash(d)
           \/ UNCHANGED vars
  BY <1>3 DEF StartRunMark, StartRunSend, StopRun, Claim, RerunAbandoned, CacheExpires,
     LeaseExpires, LeaseLost, Crash, vars, tables
<1>4. CASE \E w \in Workers : ConnectionError(w) \/ OtherError(w) \/ AnswerLost(w)
  BY <1>4 DEF ConnectionError, OtherError, AnswerLost, Fault, tables
<1>5. QED
  BY <1>1, <1>2, <1>3, <1>4 DEF Next

\* DInv holds throughout.
LEMMA DataInvariance ==
  ASSUME "lease" \notin FaultKinds
  PROVE  Spec => [](IInv /\ DInv)
<1>1. Init => IInv /\ DInv
  BY InitInv, DInvInit
<1>2. IInv /\ DInv /\ [Next]_vars => IInv' /\ DInv'
  BY InvStep, DInvStep
<1>3. QED
  BY <1>1, <1>2, PTL DEF Spec

\* As long as no lease is lost under a worker, a batch whose last status is success
\* has all its rows in the data table, once: whatever died, was retried, cleaned up
\* or processed again before left nothing behind and nothing out.
THEOREM DataWrittenOnce ==
  ASSUME "lease" \notin FaultKinds
  PROVE  Spec => []DataOnce
<1>1. IInv /\ DInv => DataOnce
  BY Distinct DEF DataOnce, DInv, DataFollowsRows, Succeeded, LastBatchStatusIs
<1>2. QED
  BY <1>1, DataInvariance, PTL

\* And from the moment its success is recorded no step changes those rows again:
\* a message that is delivered again is acknowledged, by whoever handles it.
THEOREM CompletedDataStays ==
  ASSUME "lease" \notin FaultKinds
  PROVE  Spec => CompletedDataFrozen
<1>1. IInv /\ DInv /\ [Next]_vars
        => [\A b \in Batches : batchRows[b][NodeBatchSuccess] > 0 => data'[b] = data[b]]_vars
  BY FrozenStep DEF Succeeded
<1>2. QED
  BY <1>1, DataInvariance, PTL DEF Spec, CompletedDataFrozen

-------------------------------------------------------------------------------
(* Finite sets, and the events of node history, have a first and a last.     *)

\* A set of numbers has a least one: the natural numbers are well-founded.
LEMMA LeastNumber ==
  ASSUME NEW S \in SUBSET Nat, S # {}
  PROVE  \E n \in S : \A m \in S : n <= m
<1> DEFINE Less == OpToRel(<, Nat)
<1>1. \A n \in Nat, m \in Nat : m < n => <<m, n>> \in Less
  BY DEF OpToRel
<1>2. IsWellFoundedOn(Less, Nat)
  BY NatLessThanWellFounded
<1> HIDE DEF Less
<1>3. PICK n \in S : \A m \in S : ~ (<<m, n>> \in Less)
  BY <1>2, WFMin
<1>4. \A m \in S : ~(m < n) /\ m \in Nat /\ n \in Nat
  BY <1>1, <1>3
<1>5. QED
  BY <1>4

\* A finite set of numbers has a bound: else take the smallest set without one.
LEMMA FiniteIsBounded ==
  ASSUME NEW S \in SUBSET Nat, IsFiniteSet(S)
  PROVE  \E n \in Nat : \A m \in S : m <= n
<1> DEFINE Unbounded(T) == /\ T \in SUBSET Nat /\ IsFiniteSet(T)
                           /\ \A n \in Nat : \E m \in T : ~(m <= n)
           Sizes == {k \in Nat : \E T \in SUBSET Nat : Unbounded(T) /\ Cardinality(T) = k}
<1>1. SUFFICES ASSUME Unbounded(S) PROVE FALSE
  OBVIOUS
<1>2. Cardinality(S) \in Sizes
  BY <1>1, FS_CardinalityType
<1>3. PICK k \in Sizes : \A j \in Sizes : k <= j
  <2> HIDE DEF Sizes
  <2>1. Sizes \in SUBSET Nat
    BY DEF Sizes
  <2>2. QED
    BY <1>2, <2>1, LeastNumber
<1>4. PICK T \in SUBSET Nat : Unbounded(T) /\ Cardinality(T) = k
  OBVIOUS
<1>5. PICK x \in T : ~(x <= 0)
  BY <1>4
<1>6. IsFiniteSet(T \ {x}) /\ Cardinality(T \ {x}) = k - 1 /\ k - 1 \in Nat
  <2>1. IsFiniteSet(T) /\ Cardinality(T) = k
    BY <1>4
  <2>2. IsFiniteSet(T \ {x}) /\ Cardinality(T \ {x}) = k - 1
    BY <2>1, FS_RemoveElement
  <2>3. QED
    BY <2>2, FS_CardinalityType
<1>7. k - 1 \notin Sizes
  <2> HIDE DEF Sizes
  <2>1. k \in Nat /\ k - 1 < k
    <3>1. k \in Nat
      BY DEF Sizes
    <3>2. QED
      BY <3>1
  <2>2. QED
    BY <1>3, <1>6, <2>1
<1>8. PICK n \in Nat : \A m \in T \ {x} : m <= n
  BY <1>6, <1>7
<1>9. PICK p \in Nat : n <= p /\ x <= p
  <2>1. n + x \in Nat /\ n <= n + x /\ x <= n + x
    OBVIOUS
  <2>2. QED
    BY <2>1
<1>10. \A m \in T : m <= p
  BY <1>8, <1>9
<1>11. QED
  BY <1>4, <1>10

\* A finite set of numbers has a greatest one: its least bound.
LEMMA GreatestNumber ==
  ASSUME NEW S \in SUBSET Nat, S # {}, IsFiniteSet(S)
  PROVE  \E n \in S : \A m \in S : m <= n
<1> DEFINE Bounds == {n \in Nat : \A m \in S : m <= n}
<1>1. Bounds # {} /\ Bounds \in SUBSET Nat
  BY FiniteIsBounded
<1>2. PICK n \in Bounds : \A m \in Bounds : n <= m
  <2> HIDE DEF Bounds
  <2>1. QED
    BY <1>1, LeastNumber
<1>3. n \in Nat /\ \A m \in S : m <= n
  OBVIOUS
<1>4. CASE n \in S
  BY <1>3, <1>4
<1>5. CASE n \notin S
  <2>1. \A m \in S : m < n /\ m >= 0 /\ m \in Nat
    BY <1>3, <1>5
  <2>2. n - 1 \in Nat /\ \A m \in S : m <= n - 1
    <3>1. PICK x \in S : TRUE
      OBVIOUS
    <3>2. x < n /\ x \in Nat
      BY <2>1
    <3>3. n - 1 \in Nat
      BY <1>3, <3>2
    <3>4. QED
      BY <1>3, <2>1, <3>3
  <2>3. n - 1 \in Bounds /\ ~(n <= n - 1)
    BY <1>3, <2>2
  <2>4. QED
    BY <1>2, <2>3
<1>6. QED
  BY <1>4, <1>5

\* A function on a finite set takes a greatest value.
LEMMA GreatestValue ==
  ASSUME NEW S, S # {}, IsFiniteSet(S), NEW F \in [S -> Nat]
  PROVE  \E x \in S : \A y \in S : F[y] <= F[x]
<1> DEFINE T == {F[x] : x \in S}
<1>1. T \in SUBSET Nat /\ T # {}
  OBVIOUS
<1>2. F \in Surjection(S, T)
  BY DEF Surjection
<1>3. IsFiniteSet(T)
  BY <1>2, FS_Surjection
<1>4. PICK n \in T : \A m \in T : m <= n
  <2> HIDE DEF T
  <2>1. QED
    BY <1>1, <1>3, GreatestNumber
<1>5. QED
  BY <1>4

\* A function whose values are numbers takes a least one.
LEMMA LeastValue ==
  ASSUME NEW S, S # {}, NEW F \in [S -> Nat]
  PROVE  \E x \in S : \A y \in S : F[x] <= F[y]
<1> DEFINE T == {F[x] : x \in S}
<1>1. T \in SUBSET Nat /\ T # {}
  OBVIOUS
<1>2. PICK n \in T : \A m \in T : n <= m
  <2> HIDE DEF T
  <2>1. QED
    BY <1>1, LeastNumber
<1>3. QED
  BY <1>2

\* Of the elements with the greatest, or the least, value there is a first one.
LEMMA FirstOfLatest ==
  ASSUME NEW R \in SUBSET Nat, R # {}, IsFiniteSet(R), NEW F \in [R -> Nat]
  PROVE  \E b \in R : \A c \in R : F[c] < F[b] \/ (F[c] = F[b] /\ b <= c)
<1>1. PICK m \in R : \A c \in R : F[c] <= F[m]
  BY GreatestValue
<1> DEFINE M == {b \in R : F[b] = F[m]}
<1>2. M \in SUBSET Nat /\ M # {}
  OBVIOUS
<1>3. PICK b \in M : \A c \in M : b <= c
  <2> HIDE DEF M
  <2>1. QED
    BY <1>2, LeastNumber
<1>4. \A c \in R : F[c] < F[b] \/ (F[c] = F[b] /\ b <= c)
  BY <1>1, <1>3
<1>5. QED
  BY <1>3, <1>4

\* The same for the least value.
LEMMA FirstOfEarliest ==
  ASSUME NEW R \in SUBSET Nat, R # {}, NEW F \in [R -> Nat]
  PROVE  \E b \in R : \A c \in R : F[b] < F[c] \/ (F[c] = F[b] /\ b <= c)
<1>1. PICK m \in R : \A c \in R : F[m] <= F[c]
  BY LeastValue
<1> DEFINE M == {b \in R : F[b] = F[m]}
<1>2. M \in SUBSET Nat /\ M # {}
  OBVIOUS
<1>3. PICK b \in M : \A c \in M : b <= c
  <2> HIDE DEF M
  <2>1. QED
    BY <1>2, LeastNumber
<1>4. \A c \in R : F[b] < F[c] \/ (F[c] = F[b] /\ b <= c)
  BY <1>1, <1>3
<1>5. QED
  BY <1>3, <1>4

\* Events ordered by time, then by batch, then by status: there is a last one.
LEMMA LastEvent ==
  ASSUME NEW E \in SUBSET (Nat \X Nat), E # {}, IsFiniteSet(E), NEW F \in [E -> Nat]
  PROVE  \E e \in E : \A x \in E :
           \/ F[x] < F[e]
           \/ F[x] = F[e] /\ (x[1] < e[1] \/ (x[1] = e[1] /\ x[2] <= e[2]))
<1>1. PICK m \in E : \A x \in E : F[x] <= F[m]
  BY GreatestValue
<1> DEFINE E2 == {x \in E : F[x] = F[m]}
           G == [x \in E2 |-> x[1]]
<1>2. E2 # {} /\ IsFiniteSet(E2) /\ G \in [E2 -> Nat]
  BY FS_Subset
<1>3. PICK b \in E2 : \A x \in E2 : G[x] <= G[b]
  <2> HIDE DEF E2, G
  <2>1. QED
    BY <1>2, GreatestValue
<1> DEFINE E3 == {x \in E2 : x[1] = b[1]}
           H == [x \in E3 |-> x[2]]
<1>4. E3 # {} /\ H \in [E3 -> Nat]
  BY <1>3
<1>5. IsFiniteSet(E3)
  <2>1. E3 \in SUBSET E2
    OBVIOUS
  <2> HIDE DEF E2, E3
  <2>2. QED
    BY <1>2, <2>1, FS_Subset
<1>6. PICK e \in E3 : \A x \in E3 : H[x] <= H[e]
  <2> HIDE DEF E3, H
  <2>1. QED
    BY <1>4, <1>5, GreatestValue
<1>7. e \in E /\ F[e] = F[m] /\ e[1] = b[1]
  OBVIOUS
<1>8. ASSUME NEW x \in E
      PROVE  F[x] < F[e] \/ (F[x] = F[e] /\ (x[1] < e[1] \/ (x[1] = e[1] /\ x[2] <= e[2])))
  <2>1. F[x] <= F[e] /\ F[x] \in Nat /\ F[e] \in Nat
    BY <1>1, <1>7
  <2>2. x[1] \in Nat /\ e[1] \in Nat
    BY <1>7
  <2>3. CASE F[x] = F[e]
    <3>1. x \in E2
      BY <1>7, <2>3
    <3>2. x[1] <= e[1]
      BY <1>3, <1>7, <3>1
    <3>3. x[1] = e[1] => x[2] <= e[2]
      BY <1>6, <1>7, <3>1
    <3>4. QED
      BY <2>2, <2>3, <3>2, <3>3
  <2>4. QED
    BY <2>1, <2>3
<1>9. QED
  BY <1>7, <1>8

-------------------------------------------------------------------------------
(* What workers are told of the nodes they depend on.                        *)

\* A status of which there is a row is one of the node's events.
LEMMA KeptExists ==
  ASSUME nodeRows \in [Batches -> [Written -> Nat]],
         NEW n \in Nodes, NEW s \in Written, NEW a \in BatchesOf(n), nodeRows[a][s] > 0
  PROVE  Kept(n, s) # {}
<1> DEFINE R == {b \in BatchesOf(n) : nodeRows[b][s] > 0}
           F == [b \in R |-> nodeRows[b][s]]
<1>1. R \in SUBSET Nat /\ R # {} /\ R \in SUBSET Batches
  BY WorkflowAssumption DEF BatchesOf
<1>2. IsFiniteSet(R) /\ F \in [R -> Nat]
  BY <1>1, WorkflowAssumption, FS_Subset
<1>3. CASE s = NodeBatchStart
  <2>1. PICK b \in R : \A c \in R : F[b] < F[c] \/ (F[c] = F[b] /\ b <= c)
    <3> HIDE DEF R, F
    <3>1. QED
      BY <1>1, <1>2, FirstOfEarliest
  <2>2. b \in Kept(n, s)
    BY <1>3, <2>1 DEF Kept
  <2>3. QED
    BY <2>2
<1>4. CASE s # NodeBatchStart
  <2>1. PICK b \in R : \A c \in R : F[c] < F[b] \/ (F[c] = F[b] /\ b <= c)
    <3> HIDE DEF R, F
    <3>1. QED
      BY <1>1, <1>2, FirstOfLatest
  <2>2. b \in Kept(n, s)
    BY <1>4, <2>1 DEF Kept
  <2>3. QED
    BY <2>2
<1>5. QED
  BY <1>3, <1>4

\* There are finitely many statuses, and they are numbers.
LEMMA WrittenFinite == IsFiniteSet(Written) /\ Written \in SUBSET Nat
<1>1. IsFiniteSet({NodeBatchStart, NodeBatchSuccess, NodeBatchFail, NodeBatchRunStopReceived})
  <2>1. IsFiniteSet({NodeBatchStart})
    BY FS_Singleton
  <2>2. IsFiniteSet({NodeBatchStart} \cup {NodeBatchSuccess})
    BY <2>1, FS_AddElement
  <2>3. IsFiniteSet(({NodeBatchStart} \cup {NodeBatchSuccess}) \cup {NodeBatchFail})
    BY <2>2, FS_AddElement
  <2>4. IsFiniteSet((({NodeBatchStart} \cup {NodeBatchSuccess}) \cup {NodeBatchFail})
                    \cup {NodeBatchRunStopReceived})
    BY <2>3, FS_AddElement
  <2>5. QED
    BY <2>4
<1>2. Written = {NodeBatchStart, NodeBatchSuccess, NodeBatchFail, NodeBatchRunStopReceived}
  BY Distinct
<1>3. QED
  BY <1>1, <1>2 DEF NodeBatchStart, NodeBatchSuccess, NodeBatchFail, NodeBatchRunStopReceived

\* Every node has a status: FigureOutRunStatusAndAffectedNodesStatusesFromNodeEvents
\* always comes to one.
LEMMA NodeHasStatus ==
  ASSUME nodeRows \in [Batches -> [Written -> Nat]], NEW n \in Nodes
  PROVE  \E s \in Statuses : NodeStatusIs(n, s)
<1>1. CASE \A t \in Written : Kept(n, t) = {}
  BY <1>1, Values DEF NodeStatusIs
<1>2. CASE Kept(n, NodeBatchRunStopReceived) # {}
  BY <1>2, Values, Distinct DEF NodeStatusIs
<1>3. CASE Kept(n, NodeBatchRunStopReceived) = {} /\ \E t \in Written : Kept(n, t) # {}
  <2> DEFINE E == {e \in Batches \X Written : e[1] \in Kept(n, e[2])}
             F == [e \in E |-> nodeRows[e[1]][e[2]]]
  <2>1. \A t \in Written : \A b \in Kept(n, t) : b \in Batches /\ <<b, t>> \in E
    BY DEF Kept, BatchesOf
  <2>2. E # {} /\ E \in SUBSET (Nat \X Nat) /\ F \in [E -> Nat]
    <3>1. E # {}
      BY <1>3, <2>1
    <3>2. E \in SUBSET (Nat \X Nat)
      BY WorkflowAssumption, WrittenFinite
    <3>3. F \in [E -> Nat]
      OBVIOUS
    <3>4. QED
      BY <3>1, <3>2, <3>3
  <2>3. IsFiniteSet(E)
    <3>1. IsFiniteSet(Batches \X Written)
      BY WorkflowAssumption, WrittenFinite, FS_Product
    <3>2. QED
      BY <3>1, FS_Subset
  <2>4. PICK e \in E : \A x \in E :
           \/ F[x] < F[e]
           \/ F[x] = F[e] /\ (x[1] < e[1] \/ (x[1] = e[1] /\ x[2] <= e[2]))
    <3> HIDE DEF E, F
    <3>1. QED
      BY <2>2, <2>3, LastEvent
  <2>5. PICK b \in Batches, s \in Written : e = <<b, s>> /\ b \in Kept(n, s)
    OBVIOUS
  <2>6. ASSUME NEW t \in Written, NEW c \in Batches, c \in Kept(n, t)
        PROVE  EventBefore(c, t, b, s)
    <3>1. <<c, t>> \in E
      BY <2>1, <2>6
    <3>2. \/ F[<<c, t>>] < F[e]
          \/ F[<<c, t>>] = F[e] /\ (c < b \/ (c = b /\ t <= s))
      BY <2>4, <2>5, <3>1
    <3>3. F[<<c, t>>] = nodeRows[c][t] /\ F[e] = nodeRows[b][s]
      BY <2>5, <3>1
    <3>4. QED
      BY <3>2, <3>3 DEF EventBefore
  <2>7. NodeStatusIs(n, s)
    BY <1>3, <2>1, <2>5, <2>6, Distinct DEF NodeStatusIs
  <2>8. QED
    BY <2>7, Values
<1>4. QED
  BY <1>1, <1>2, <1>3

Ready(n) == \A b \in Batches : NodeOf[b] \in Deps[n] => Succeeded(b)
Nogo(n) == \E b \in Batches : NodeOf[b] \in Deps[n] /\ Failed(b)

\* A node is marked as ended the way its batches have ended.
NodeRowsTrue ==
  \A b \in Batches :
    /\ nodeRows[b][NodeBatchSuccess] > 0 => \A c \in BatchesOf(NodeOf[b]) : Succeeded(c)
    /\ nodeRows[b][NodeBatchFail] > 0 => \E c \in BatchesOf(NodeOf[b]) : Failed(c)

\* What a daemon remembers of the nodes another depends on is so, however old.
CacheTrue ==
  \A d \in Daemons, n \in Nodes :
    /\ cache[d][n] = "go" => Ready(n)
    /\ cache[d][n] = "nogo" => Nogo(n)

\* What worker w has read, and acts on, is still so.
Informed(w) ==
  LET n == NodeOf[task[w]] IN
  /\ phase[w] \in {"nodeStart", "batchStart", "work1", "work2"} => Ready(n)
  /\ phase[w] = "writeNode" /\ seen[w] = NodeBatchSuccess => \A c \in BatchesOf(n) : Succeeded(c)
  /\ phase[w] = "writeNode" /\ seen[w] = NodeBatchFail => \E c \in BatchesOf(n) : Failed(c)

RInv == NodeRowsTrue /\ CacheTrue /\ \A w \in Workers : phase[w] # "idle" => Informed(w)

\* No step takes a row of run or batch history away.
LEMMA RowsStay ==
  ASSUME IInv, [Next]_vars
  PROVE  Grows
<1> USE DEF IInv
<1>1. ASSUME UNCHANGED <<runRows, batchRows>> PROVE Grows
  BY <1>1 DEF Grows
<1>2. ASSUME NEW s \in RunWritten, SetRunStatus(s), UNCHANGED batchRows PROVE Grows
  <2>1. runRows'[s] > 0 /\ \A r \in RunWritten : r # s => runRows'[r] = runRows[r]
    BY <1>2, SetRunStatusAdds DEF TypeOK
  <2>2. QED
    BY <1>2, <2>1 DEF Grows
<1>3. ASSUME NEW b \in Batches, NEW s \in Written, SetBatchStatus(b, s), UNCHANGED runRows
      PROVE  Grows
  BY <1>3, SetBatchStatusAdds DEF TypeOK, Grows
<1>4. CASE StartRunMark \/ StopRun
  BY <1>2, <1>4, Values DEF StartRunMark, StopRun
<1>5. ASSUME NEW w \in Workers, WriteRun(w) PROVE Grows
  BY <1>2, <1>5, Values DEF WriteRun
<1>6. ASSUME NEW w \in Workers, MarkBatchStart(w) \/ ReportBatch(w) PROVE Grows
  <2>1. task[w] \in Batches
    BY <1>6 DEF MarkBatchStart, ReportBatch, TypeOK
  <2>2. PICK s \in Written : SetBatchStatus(task[w], s) /\ UNCHANGED runRows
    BY <1>6, Values DEF MarkBatchStart, ReportBatch, Knows
  <2>3. QED
    BY <1>3, <2>1, <2>2
<1>7. ASSUME NEW w \in Workers, Step(w), ~WriteRun(w), ~MarkBatchStart(w), ~ReportBatch(w)
      PROVE  UNCHANGED <<runRows, batchRows>>
  BY <1>7 DEF Step, CheckRunStatus, CheckLastBatchStatus, CleanUp, CheckDependencyRuns,
     CheckDependencyNodes, MarkNodeStart, Process, ReadBatches, WriteNode, ReadNodes, SendAck,
     SendRetry, Rest, tables
<1>8. CASE \/ StartRunSend
           \/ \E w \in Workers, b \in Batches : Claim(w, b)
           \/ \E w \in Workers : RerunAbandoned(w)
           \/ \E d \in Daemons, n \in Nodes : CacheExpires(d, n)
           \/ \E b \in Batches : LeaseExpires(b) \/ LeaseLost(b)
           \/ \E w \in Workers : ConnectionError(w) \/ OtherError(w) \/ AnswerLost(w)
           \/ \E d \in Daemons : Crash(d)
           \/ UNCHANGED vars
  <2>1. UNCHANGED <<runRows, batchRows>>
    BY <1>8 DEF StartRunSend, Claim, RerunAbandoned, CacheExpires, LeaseExpires, LeaseLost,
       ConnectionError, OtherError, AnswerLost, Fault, Crash, vars, tables
  <2>2. QED
    BY <1>1, <2>1
<1>9. QED
  BY <1>1, <1>4, <1>5, <1>6, <1>7, <1>8 DEF Next

\* What is true of ended batches stays true.
LEMMA TruthStays ==
  ASSUME Grows
  PROVE  /\ \A b \in Batches : (Succeeded(b) => Succeeded(b)') /\ (Failed(b) => Failed(b)')
         /\ \A n \in Nodes : (Ready(n) => Ready(n)') /\ (Nogo(n) => Nogo(n)')
<1>1. \A b \in Batches : (Succeeded(b) => Succeeded(b)') /\ (Failed(b) => Failed(b)')
  BY Values DEF Grows, Succeeded, Failed
<1>2. QED
  BY <1>1 DEF Ready, Nogo

\* What a worker knows of nodes stays true while rows are only added.
LEMMA InformedStays ==
  ASSUME IInv, Grows, NEW w \in Workers, phase[w] # "idle", Informed(w),
         phase'[w] = phase[w], seen'[w] = seen[w], task'[w] = task[w]
  PROVE  Informed(w)'
<1> DEFINE n == NodeOf[task[w]]
<1>1. n \in Nodes
  BY WorkflowAssumption DEF IInv, TypeOK
<1>2. \A c \in BatchesOf(n) : c \in Batches
  BY DEF BatchesOf
<1>3. BatchesOf(n)' = BatchesOf(n)
  BY DEF BatchesOf
<1>4. NodeOf[task[w]]' = n
  OBVIOUS
<1>5. QED
  BY <1>1, <1>2, <1>3, <1>4, TruthStays DEF Informed

\* Node history and caches that are not written stay true.
LEMMA MarksStay ==
  ASSUME Grows, NodeRowsTrue, nodeRows' = nodeRows
  PROVE  NodeRowsTrue'
<1>1. \A n : BatchesOf(n)' = BatchesOf(n) /\ \A c \in BatchesOf(n) : c \in Batches
  BY DEF BatchesOf
<1>2. QED
  BY <1>1, TruthStays DEF NodeRowsTrue

\* A cache whose entries are only dropped stays true.
LEMMA CacheStays ==
  ASSUME Grows, CacheTrue, cache \in [Daemons -> [Nodes -> {"none", "go", "wait", "nogo"}]],
         \A d \in Daemons, n \in Nodes : cache'[d][n] \in {cache[d][n], "none"}
  PROVE  CacheTrue'
BY TruthStays DEF CacheTrue

\* A step of one worker who learns nothing wrong.
LEMMA InformedStep ==
  ASSUME IInv, RInv, Grows, NEW w \in Workers, NEW p, NEW s, phase[w] # "idle",
         phase' = [phase EXCEPT ![w] = p], seen' = [seen EXCEPT ![w] = s], task' = task,
         NodeRowsTrue', CacheTrue', Informed(w)'
  PROVE  RInv'
<1>1. ASSUME NEW v \in Workers, v # w, phase'[v] # "idle" PROVE Informed(v)'
  <2>1. phase'[v] = phase[v] /\ seen'[v] = seen[v] /\ task'[v] = task[v]
    BY <1>1 DEF IInv, TypeOK
  <2>2. QED
    BY <1>1, <2>1, InformedStays DEF RInv
<1>2. QED
  BY <1>1 DEF RInv

\* A worker who goes on to a step that relies on nothing he read of nodes, or on
\* what he knows.
LEMMA PlainStep ==
  ASSUME IInv, RInv, Grows, NEW w \in Workers, NEW p, NEW s, phase[w] # "idle",
         phase' = [phase EXCEPT ![w] = p], seen' = [seen EXCEPT ![w] = s], task' = task,
         UNCHANGED <<nodeRows, cache>>,
         p \in {"nodeStart", "batchStart", "work1", "work2"} => Ready(NodeOf[task[w]]),
         p # "writeNode"
  PROVE  RInv'
<1>1. phase'[w] = p /\ task'[w] = task[w] /\ NodeOf[task[w]] \in Nodes
  BY WorkflowAssumption DEF IInv, TypeOK
<1>2. Ready(NodeOf[task[w]]) => Ready(NodeOf[task[w]])'
  <2>1. Ready(NodeOf[task[w]])
          => \A b \in Batches : NodeOf[b] \in Deps[NodeOf[task[w]]] => Succeeded(b)'
    BY TruthStays DEF Ready
  <2>2. QED
    BY <1>1, <2>1 DEF Ready
<1>3. Informed(w)'
  BY <1>1, <1>2 DEF Informed
<1>4. NodeRowsTrue' /\ CacheTrue'
  BY MarksStay, CacheStays DEF RInv, IInv, TypeOK
<1>5. QED
  BY <1>3, <1>4, InformedStep

-------------------------------------------------------------------------------
\* checkDependencyNodesReady: a go is only told when every batch of the nodes has
\* succeeded, a nogo when one of them has failed.
LEMMA GoIsTrue ==
  ASSUME IInv, RInv, NEW n \in Nodes, NEW r
  PROVE  /\ DependencyCmd(n, r) = "go" => Ready(n)
         /\ DependencyCmd(n, r) = "nogo" => Nogo(n)
<1> DEFINE statuses == {t \in Statuses : \E m \in Deps[n] : NodeStatusIs(m, t)}
           cmds == {NodeCmd(r, s) : s \in statuses}
<1>1. Deps[n] \in SUBSET Nodes
  BY WorkflowAssumption
<1>2. \A s \in Statuses : /\ NodeCmd(r, s) = "go" => s = NodeBatchSuccess
                          /\ NodeCmd(r, s) = "nogo" => s = NodeBatchFail
  BY DEF NodeCmd
<1>3. nodeRows \in [Batches -> [Written -> Nat]]
  BY DEF IInv, TypeOK
<1>4. ASSUME NEW m \in Nodes, NEW s \in {NodeBatchSuccess, NodeBatchFail}, NodeStatusIs(m, s)
      PROVE  \E b \in BatchesOf(m) : nodeRows[b][s] > 0
  <2>1. s # NodeBatchNone
    BY DEF NodeBatchNone, NodeBatchSuccess, NodeBatchFail
  <2>2. \E b \in Kept(m, s) : TRUE
    BY <1>4, <2>1 DEF NodeStatusIs
  <2>3. QED
    BY <2>2 DEF Kept
<1>5. ASSUME DependencyCmd(n, r) = "go" PROVE Ready(n)
  <2>1. "nogo" \notin cmds /\ "wait" \notin cmds
    BY <1>5 DEF DependencyCmd
  <2>2. \A s \in statuses : NodeCmd(r, s) \in {"go", "nogo", "wait"} /\ NodeCmd(r, s) \in cmds
    BY DEF NodeCmd
  <2>3. \A s \in statuses : s = NodeBatchSuccess
    BY <1>2, <2>1, <2>2
  <2>4. ASSUME NEW b \in Batches, NodeOf[b] \in Deps[n] PROVE Succeeded(b)
    <3>1. NodeOf[b] \in Nodes
      BY <1>1, <2>4
    <3>2. PICK s \in Statuses : NodeStatusIs(NodeOf[b], s)
      BY <1>3, <3>1, NodeHasStatus
    <3>3. s = NodeBatchSuccess
      BY <2>3, <2>4, <3>2
    <3>4. PICK c \in BatchesOf(NodeOf[b]) : nodeRows[c][NodeBatchSuccess] > 0
      BY <1>4, <3>1, <3>2, <3>3
    <3>5. c \in Batches /\ NodeOf[c] = NodeOf[b] /\ b \in BatchesOf(NodeOf[b])
      BY DEF BatchesOf
    <3>6. QED
      BY <3>4, <3>5 DEF RInv, NodeRowsTrue
  <2>5. QED
    BY <2>4 DEF Ready
<1>6. ASSUME DependencyCmd(n, r) = "nogo" PROVE Nogo(n)
  <2>1. "nogo" \in cmds
    BY <1>6 DEF DependencyCmd
  <2>2. PICK m \in Deps[n] : NodeStatusIs(m, NodeBatchFail)
    BY <1>2, <2>1
  <2>3. PICK b \in BatchesOf(m) : nodeRows[b][NodeBatchFail] > 0
    BY <1>1, <1>4, <2>2
  <2>4. b \in Batches /\ NodeOf[b] = m
    BY DEF BatchesOf
  <2>5. PICK c \in BatchesOf(m) : Failed(c)
    BY <2>3, <2>4 DEF RInv, NodeRowsTrue
  <2>6. c \in Batches /\ NodeOf[c] = m
    BY DEF BatchesOf
  <2>7. QED
    BY <2>5, <2>6 DEF Nogo
<1>7. QED
  BY <1>5, <1>6

\* checkDependencyNodesReady: go, wait or nogo, from the cache or from history.
LEMMA CheckDependencyInformed ==
  ASSUME IInv, RInv, Grows, NEW w \in Workers, CheckDependencyRuns(w) \/ CheckDependencyNodes(w)
  PROVE  RInv'
<1> DEFINE n == NodeOf[task[w]]
           d == DaemonOf[w]
           cached == cache[d][n]
<1>1. phase[w] # "idle" /\ UNCHANGED <<nodeRows, batchRows>>
  BY DEF CheckDependencyRuns, CheckDependencyNodes, tables
<1>2. n \in Nodes /\ d \in Daemons
  BY <1>1, WorkflowAssumption DEF IInv, TypeOK
<1>3. cache \in [Daemons -> [Nodes -> {"none", "go", "wait", "nogo"}]]
  BY DEF IInv, TypeOK
<1>4. ASSUME NEW cmd \in {"go", "wait", "nogo"}, ActOn(w, cmd), cmd = "go" => Ready(n)
      PROVE  \E p \in {"nodeStart", "retry", "setStatus"} : \E s :
               Goto(w, p, s) /\ (p = "nodeStart" => Ready(n))
  BY <1>4 DEF ActOn
<1>5. CASE CheckDependencyRuns(w)
  <2>1. cache' = cache
    BY <1>5 DEF CheckDependencyRuns
  <2>2. CASE cached # "none"
    <3>1. cached \in {"go", "wait", "nogo"} /\ ActOn(w, cached)
      BY <1>2, <1>3, <1>5, <2>2 DEF CheckDependencyRuns
    <3>2. cached = "go" => Ready(n)
      BY <1>2 DEF RInv, CacheTrue
    <3>3. PICK p \in {"nodeStart", "retry", "setStatus"} : \E s :
               Goto(w, p, s) /\ (p = "nodeStart" => Ready(n))
      BY <1>4, <3>1, <3>2
    <3>4. QED
      BY <1>1, <2>1, <3>3, PlainStep DEF Goto
  <2>3. CASE cached = "none" /\ Deps[n] = {}
    <3>1. Ready(n) /\ ActOn(w, "go")
      BY <1>5, <2>3 DEF CheckDependencyRuns, Ready
    <3>2. PICK p \in {"nodeStart", "retry", "setStatus"} : \E s :
               Goto(w, p, s) /\ (p = "nodeStart" => Ready(n))
      BY <1>4, <3>1
    <3>3. QED
      BY <1>1, <2>1, <3>2, PlainStep DEF Goto
  <2>4. CASE cached = "none" /\ Deps[n] # {}
    <3>1. Goto(w, "depNodes", DepRunStatus)
      BY <1>5, <2>4 DEF CheckDependencyRuns
    <3>2. QED
      BY <1>1, <2>1, <3>1, PlainStep DEF Goto
  <2>5. QED
    BY <2>2, <2>3, <2>4
<1>6. CASE CheckDependencyNodes(w)
  <2> DEFINE cmd == DependencyCmd(n, seen[w])
  <2>1. cmd \in {"go", "wait", "nogo"}
    BY DEF DependencyCmd
  <2>2. ActOn(w, cmd) /\ cache' = [cache EXCEPT ![d][n] = cmd]
    BY <1>6 DEF CheckDependencyNodes
  <2>3. (cmd = "go" => Ready(n)) /\ (cmd = "nogo" => Nogo(n))
    BY <1>2, GoIsTrue
  <2> HIDE DEF cmd
  <2>4. PICK p \in {"nodeStart", "retry", "setStatus"} : \E s :
             Goto(w, p, s) /\ (p = "nodeStart" => Ready(n))
    BY <1>4, <2>1, <2>2, <2>3
  <2>5. phase'[w] = p /\ task'[w] = task[w]
    BY <2>4 DEF Goto, IInv, TypeOK
  <2>6. Informed(w)'
    BY <1>1, <2>4, <2>5 DEF Informed, Ready, Succeeded
  <2>7. CacheTrue'
    <3>1. ASSUME NEW e \in Daemons, NEW m \in Nodes
          PROVE  /\ cache'[e][m] = "go" => Ready(m)
                 /\ cache'[e][m] = "nogo" => Nogo(m)
      <4>1. CASE e = d /\ m = n
        BY <1>2, <1>3, <2>2, <2>3, <4>1
      <4>2. CASE ~(e = d /\ m = n)
        <5>1. cache'[e][m] = cache[e][m]
          BY <1>2, <1>3, <2>2, <4>2
        <5>2. QED
          BY <5>1 DEF RInv, CacheTrue
      <4>3. QED
        BY <4>1, <4>2
    <3>2. QED
      BY <3>1, TruthStays DEF CacheTrue
  <2>8. NodeRowsTrue'
    BY <1>1, MarksStay DEF RInv
  <2>9. QED
    BY <1>1, <2>4, <2>6, <2>7, <2>8, InformedStep DEF Goto
<1>7. QED
  BY <1>5, <1>6

\* The marks on a node: started by a worker that may start, ended by one that has
\* read how the batches ended.
LEMMA NodeMarkInformed ==
  ASSUME IInv, RInv, Grows, NEW w \in Workers, MarkNodeStart(w) \/ WriteNode(w)
  PROVE  RInv'
<1> DEFINE b == task[w]
           n == NodeOf[b]
<1>1. phase[w] # "idle" /\ UNCHANGED <<batchRows, cache>>
  BY DEF MarkNodeStart, WriteNode
<1>2. b \in Batches /\ n \in Nodes /\ b \in BatchesOf(n)
  BY <1>1, WorkflowAssumption DEF IInv, TypeOK, BatchesOf
<1>3. Informed(w)
  BY <1>1 DEF RInv
<1>4. PICK s \in Written, p \in {"batchStart", "readNodes"} :
        /\ SetNodeStatus(b, s) /\ Goto(w, p, NodeBatchNone)
        /\ p = "batchStart" => Ready(n)
        /\ s = NodeBatchSuccess => \A c \in BatchesOf(n) : Succeeded(c)
        /\ s = NodeBatchFail => \E c \in BatchesOf(n) : Failed(c)
  <2>1. CASE MarkNodeStart(w)
    BY <1>3, <2>1, Values, Distinct DEF MarkNodeStart, Informed
  <2>2. CASE WriteNode(w)
    BY <1>3, <2>2, Values DEF WriteNode, Informed, IInv, Knows
  <2>3. QED
    BY <2>1, <2>2
<1>5. \A c \in Batches, r \in Written : c # b \/ r # s => nodeRows'[c][r] = nodeRows[c][r]
  BY <1>2, <1>4, SetNodeStatusAdds DEF IInv, TypeOK
<1>6. \A m : BatchesOf(m)' = BatchesOf(m)
  BY DEF BatchesOf
<1>7. \A c \in Batches : Succeeded(c)' = Succeeded(c) /\ Failed(c)' = Failed(c)
  BY <1>1 DEF Succeeded, Failed
<1>8. NodeRowsTrue'
  <2>1. ASSUME NEW c \in Batches, nodeRows'[c][NodeBatchSuccess] > 0
        PROVE  \A e \in BatchesOf(NodeOf[c]) : Succeeded(e)
    <3>1. CASE c = b /\ s = NodeBatchSuccess
      BY <1>4, <3>1
    <3>2. CASE ~(c = b /\ s = NodeBatchSuccess)
      BY <1>5, <2>1, <3>2, Values DEF RInv, NodeRowsTrue
    <3>3. QED
      BY <3>1, <3>2
  <2>2. ASSUME NEW c \in Batches, nodeRows'[c][NodeBatchFail] > 0
        PROVE  \E e \in BatchesOf(NodeOf[c]) : Failed(e)
    <3>1. CASE c = b /\ s = NodeBatchFail
      BY <1>4, <3>1
    <3>2. CASE ~(c = b /\ s = NodeBatchFail)
      BY <1>5, <2>2, <3>2, Values DEF RInv, NodeRowsTrue
    <3>3. QED
      BY <3>1, <3>2
  <2>3. \A c : \A e \in BatchesOf(c) : e \in Batches
    BY DEF BatchesOf
  <2>4. QED
    BY <1>6, <1>7, <2>1, <2>2, <2>3 DEF NodeRowsTrue
<1>9. CacheTrue'
  BY <1>1, CacheStays DEF RInv, IInv, TypeOK
<1>10. Informed(w)'
  <2>1. phase'[w] = p /\ task'[w] = b
    BY <1>4 DEF Goto, IInv, TypeOK
  <2>2. p = "batchStart" => \A c \in Batches : NodeOf[c] \in Deps[n] => Succeeded(c)'
    BY <1>4, <1>7 DEF Ready
  <2>3. QED
    BY <2>1, <2>2 DEF Informed, Ready
<1>11. QED
  BY <1>1, <1>4, <1>8, <1>9, <1>10, InformedStep DEF Goto

\* updateNodeStatusFromBatches finds how the batches of a node have ended.
LEMMA EndIsTrue ==
  ASSUME IInv, NEW n \in Nodes, NEW a \in BatchesOf(n), Done(a)
  PROVE  /\ NodeStatusFromBatches(n) = NodeBatchSuccess => \A b \in BatchesOf(n) : Succeeded(b)
         /\ NodeStatusFromBatches(n) = NodeBatchFail => \E b \in BatchesOf(n) : Failed(b)
<1>1. \E s \in Written : HasBatchRow(n, s)
  BY DEF Done, HasBatchRow, Written
<1>2. ASSUME NodeStatusFromBatches(n) = NodeBatchSuccess, NEW b \in BatchesOf(n)
      PROVE  Succeeded(b)
  <2>1. Done(b) /\ ~HasBatchRow(n, NodeBatchFail) /\ ~HasBatchRow(n, NodeBatchRunStopReceived)
    BY <1>1, <1>2, Distinct DEF NodeStatusFromBatches
  <2>2. QED
    BY <2>1, Distinct DEF Done, HasBatchRow, Succeeded
<1>3. ASSUME NodeStatusFromBatches(n) = NodeBatchFail PROVE \E b \in BatchesOf(n) : Failed(b)
  BY <1>3, Distinct DEF NodeStatusFromBatches, HasBatchRow, Failed
<1>4. QED
  BY <1>2, <1>3

\* updateNodeStatusFromBatches, the read: the status it comes to is still so.
LEMMA ReadBatchesInformed ==
  ASSUME IInv, RInv, Grows, NEW w \in Workers, ReadBatches(w)
  PROVE  RInv'
<1> DEFINE b == task[w]
           n == NodeOf[b]
<1>1. phase[w] = "readBatches" /\ UNCHANGED <<nodeRows, batchRows, cache>>
  BY DEF ReadBatches, tables
<1>2. b \in Batches /\ n \in Nodes /\ b \in BatchesOf(n) /\ Done(b)
  BY <1>1, WorkflowAssumption DEF IInv, TypeOK, BatchesOf, Knows
<1>3. CASE Goto(w, "readNodes", NodeBatchNone)
  BY <1>1, <1>3, PlainStep DEF Goto
<1>4. CASE Goto(w, "writeNode", NodeStatusFromBatches(n))
  <2> DEFINE s == NodeStatusFromBatches(n)
  <2>1. /\ s = NodeBatchSuccess => \A c \in BatchesOf(n) : Succeeded(c)
        /\ s = NodeBatchFail => \E c \in BatchesOf(n) : Failed(c)
    BY <1>2, EndIsTrue
  <2> HIDE DEF s
  <2>2. Goto(w, "writeNode", s)
    BY <1>4 DEF s
  <2>3. phase'[w] = "writeNode" /\ seen'[w] = s /\ task'[w] = b
    BY <2>2 DEF Goto, IInv, TypeOK
  <2>4. Informed(w)'
    BY <1>1, <2>1, <2>3 DEF Informed, BatchesOf, Succeeded, Failed
  <2>5. NodeRowsTrue' /\ CacheTrue'
    BY <1>1, MarksStay, CacheStays DEF RInv, IInv, TypeOK
  <2>6. QED
    BY <1>1, <2>2, <2>4, <2>5, InformedStep DEF Goto
<1>5. QED
  BY <1>3, <1>4 DEF ReadBatches

-------------------------------------------------------------------------------
\* The steps that neither look at nodes nor mark them.
LEMMA OtherInformed ==
  ASSUME IInv, RInv, Grows, NEW w \in Workers,
         \/ CheckRunStatus(w) \/ CheckLastBatchStatus(w) \/ RerunAbandoned(w) \/ CleanUp(w)
         \/ MarkBatchStart(w) \/ Process(w) \/ ReportBatch(w) \/ ReadNodes(w) \/ WriteRun(w)
         \/ ConnectionError(w) \/ OtherError(w)
  PROVE  RInv'
<1>1. phase[w] # "idle" /\ UNCHANGED <<nodeRows, cache>>
  BY DEF CheckRunStatus, CheckLastBatchStatus, RerunAbandoned, CleanUp, MarkBatchStart, Process,
     ReportBatch, ReadNodes, WriteRun, ConnectionError, OtherError, Fault, tables
<1>2. ASSUME NEW p, NEW s, p \notin {"nodeStart", "batchStart", "work1", "work2", "writeNode"},
             phase' = [phase EXCEPT ![w] = p], seen' = [seen EXCEPT ![w] = s], task' = task
      PROVE  RInv'
  BY <1>1, <1>2, PlainStep
<1>3. CASE CheckRunStatus(w) \/ CheckLastBatchStatus(w) \/ RerunAbandoned(w)
  BY <1>2, <1>3 DEF CheckRunStatus, CheckLastBatchStatus, RerunAbandoned, Goto
<1>4. CASE CleanUp(w) \/ ReportBatch(w) \/ ReadNodes(w) \/ WriteRun(w)
  BY <1>2, <1>4 DEF CleanUp, ReportBatch, ReadNodes, WriteRun, Goto
<1>5. CASE ConnectionError(w) \/ OtherError(w)
  BY <1>2, <1>5 DEF ConnectionError, OtherError, Fault
<1>6. CASE MarkBatchStart(w) \/ Process(w)
  <2>1. Ready(NodeOf[task[w]])
    BY <1>1, <1>6 DEF MarkBatchStart, Process, RInv, Informed
  <2>2. PICK p \in {"work1", "work2", "setStatus"} : \E s : Goto(w, p, s)
    BY <1>6 DEF MarkBatchStart, Process
  <2>3. QED
    BY <1>1, <2>1, <2>2, PlainStep DEF Goto
<1>7. QED
  BY <1>3, <1>4, <1>5, <1>6

\* Messages, leases, crashes, the operator, the clock.
LEMMA OutsideInformed ==
  ASSUME IInv, RInv, Grows,
         \/ StartRunMark \/ StartRunSend \/ StopRun
         \/ \E w \in Workers, b \in Batches : Claim(w, b)
         \/ \E w \in Workers : SendAck(w) \/ SendRetry(w) \/ AnswerLost(w)
         \/ \E d \in Daemons, n \in Nodes : CacheExpires(d, n)
         \/ \E b \in Batches : LeaseExpires(b) \/ LeaseLost(b)
         \/ \E d \in Daemons : Crash(d)
         \/ UNCHANGED vars
  PROVE  RInv'
<1>1. TypeOK
  BY DEF IInv
<1>2. ASSUME nodeRows' = nodeRows,
             \A d \in Daemons, n \in Nodes : cache'[d][n] \in {cache[d][n], "none"},
             \A v \in Workers :
               \/ phase'[v] \in {"idle", "runStatus"}
               \/ phase'[v] = phase[v] /\ seen'[v] = seen[v] /\ task'[v] = task[v]
      PROVE  RInv'
  <2>1. ASSUME NEW v \in Workers, phase'[v] # "idle" PROVE Informed(v)'
    <3>1. CASE phase'[v] = "runStatus"
      BY <3>1 DEF Informed
    <3>2. CASE phase'[v] = phase[v] /\ seen'[v] = seen[v] /\ task'[v] = task[v]
      BY <2>1, <3>2, InformedStays DEF RInv
    <3>3. QED
      BY <1>2, <2>1, <3>1, <3>2
  <2>2. NodeRowsTrue' /\ CacheTrue'
    BY <1>1, <1>2, MarksStay, CacheStays DEF RInv, TypeOK
  <2>3. QED
    BY <2>1, <2>2 DEF RInv
<1>3. CASE StartRunMark \/ StartRunSend \/ StopRun \/ UNCHANGED vars
           \/ \E b \in Batches : LeaseExpires(b) \/ LeaseLost(b)
  BY <1>2, <1>3 DEF StartRunMark, StartRunSend, StopRun, LeaseExpires, LeaseLost, vars, tables,
     workers
<1>4. ASSUME NEW w \in Workers, NEW b \in Batches, Claim(w, b) PROVE RInv'
  BY <1>1, <1>2, <1>4 DEF Claim, tables, TypeOK
<1>5. ASSUME NEW w \in Workers, SendAck(w) \/ SendRetry(w) \/ AnswerLost(w) PROVE RInv'
  BY <1>1, <1>2, <1>5 DEF SendAck, SendRetry, AnswerLost, Rest, tables, TypeOK
<1>6. ASSUME NEW d \in Daemons, Crash(d) PROVE RInv'
  <2>1. \A e \in Daemons, n \in Nodes : cache'[e][n] \in {cache[e][n], "none"}
    BY <1>1, <1>6 DEF Crash, TypeOK
  <2>2. QED
    BY <1>2, <1>6, <2>1 DEF Crash, tables
<1>7. ASSUME NEW d \in Daemons, NEW n \in Nodes, CacheExpires(d, n) PROVE RInv'
  <2>1. \A e \in Daemons, m \in Nodes : cache'[e][m] \in {cache[e][m], "none"}
    BY <1>1, <1>7 DEF CacheExpires, TypeOK
  <2>2. QED
    BY <1>2, <1>7, <2>1 DEF CacheExpires, tables, workers
<1>8. QED
  BY <1>3, <1>4, <1>5, <1>6, <1>7

\* Every step keeps RInv, whatever the faults.
LEMMA RInvStep ==
  ASSUME IInv, RInv, [Next]_vars
  PROVE  RInv'
<1>1. Grows
  BY RowsStay
<1>2. ASSUME NEW w \in Workers, Step(w) PROVE RInv'
  BY <1>1, <1>2, OtherInformed, CheckDependencyInformed, NodeMarkInformed, ReadBatchesInformed,
     OutsideInformed DEF Step
<1>3. CASE \E w \in Workers : RerunAbandoned(w) \/ ConnectionError(w) \/ OtherError(w)
  BY <1>1, <1>3, OtherInformed
<1>4. QED
  BY <1>1, <1>2, <1>3, OutsideInformed DEF Next

\* At the start no node is marked and nothing is cached.
LEMMA RInvInit == Init => RInv
<1> SUFFICES ASSUME Init PROVE RInv
  OBVIOUS
<1>1. NodeRowsTrue
  BY Values DEF Init, NodeRowsTrue
<1>2. CacheTrue
  BY DEF Init, CacheTrue
<1>3. QED
  BY <1>1, <1>2 DEF Init, RInv

\* RInv holds throughout.
LEMMA KnowledgeInvariance == Spec => [](IInv /\ RInv)
<1>1. Init => IInv /\ RInv
  BY InitInv, RInvInit
<1>2. IInv /\ RInv /\ [Next]_vars => IInv' /\ RInv'
  BY InvStep, RInvStep
<1>3. QED
  BY <1>1, <1>2, PTL DEF Spec

\* A worker that processes a batch of a node finds every batch of the nodes it
\* depends on succeeded and their rows complete, whether he was told to go by the
\* history or by a cache entry of whatever age.
THEOREM TablesReadAreComplete ==
  ASSUME "lease" \notin FaultKinds
  PROVE  Spec => []DependenciesComplete
<1>1. IInv /\ DInv /\ RInv => DependenciesComplete
  BY DEF DependenciesComplete, RInv, Informed, Ready, DInv, DataFollowsRows, Succeeded
<1>2. QED
  BY <1>1, DataInvariance, KnowledgeInvariance, PTL

-------------------------------------------------------------------------------
(* The status of a node, as long as no run is stopped and no lease is lost.  *)

\* Nobody ever heard of a stop.
NeverStopped ==
  /\ runRows[RunStop] = 0
  /\ \A b \in Batches : batchRows[b][NodeBatchRunStopReceived] = 0
                        /\ nodeRows[b][NodeBatchRunStopReceived] = 0
  /\ \A w \in Workers :
       phase[w] \in Reporting \cup {"writeNode"} => seen[w] # NodeBatchRunStopReceived

\* The node of a batch is marked as started before the batch is, only when it may
\* start, and never after it is marked as ended.
StartsTrue ==
  \A b \in Batches :
    /\ nodeRows[b][NodeBatchStart] > 0 => Ready(NodeOf[b])
    /\ batchRows[b][NodeBatchStart] > 0 => nodeRows[b][NodeBatchStart] > 0
    /\ Succeeded(b) => nodeRows[b][NodeBatchStart] > 0
    /\ Failed(b) => nodeRows[b][NodeBatchStart] > 0 \/ Nogo(NodeOf[b])
    /\ \A c \in BatchesOf(NodeOf[b]), s \in Final :
         nodeRows[c][s] > 0 => nodeRows[b][NodeBatchStart] <= nodeRows[c][s]

StartsKnown(w) ==
  LET b == task[w] IN
  /\ phase[w] \in {"cleanUp", "batchStart"} => nodeRows[b][NodeBatchStart] > 0
  /\ phase[w] \in Reporting =>
        \/ nodeRows[b][NodeBatchStart] > 0
        \/ seen[w] = NodeBatchFail /\ Nogo(NodeOf[b])

SInv == StartsTrue /\ \A w \in Workers : phase[w] # "idle" => StartsKnown(w)

\* No row of node history is taken away either.
MarksGrow == \A b \in Batches, s \in Written : nodeRows[b][s] > 0 => nodeRows'[b][s] > 0

\* SetNodeStatus stamps its row with a time no earlier than those of the node.
LEMMA SetNodeStatusStamps ==
  ASSUME nodeRows \in [Batches -> [Written -> Nat]], NEW b \in Batches, NEW s \in Written,
         SetNodeStatus(b, s)
  PROVE  /\ nodeRows'[b][s] > 0
         /\ \A c \in BatchesOf(NodeOf[b]), r \in Written : nodeRows[c][r] <= nodeRows'[b][s]
<1>1. PICK t \in Stamps(UNION {{nodeRows[c][r] : r \in Written} : c \in BatchesOf(NodeOf[b])}) :
        nodeRows' = [nodeRows EXCEPT ![b][s] = t]
  BY DEF SetNodeStatus
<1>2. UNION {{nodeRows[c][r] : r \in Written} : c \in BatchesOf(NodeOf[b])} \subseteq Nat
  BY DEF BatchesOf
<1>3. t \in Nat /\ t > 0
  BY <1>2, StampIsTime
<1>4. \A c \in BatchesOf(NodeOf[b]), r \in Written : nodeRows[c][r] <= t
  BY <1>1 DEF Stamps
<1>5. QED
  BY <1>1, <1>3, <1>4

\* No step takes a row of node history away.
LEMMA MarksStayThere ==
  ASSUME IInv, [Next]_vars
  PROVE  MarksGrow
<1>1. ASSUME NEW w \in Workers, MarkNodeStart(w) \/ WriteNode(w) PROVE MarksGrow
  <2>1. task[w] \in Batches /\ nodeRows \in [Batches -> [Written -> Nat]]
    BY <1>1 DEF MarkNodeStart, WriteNode, IInv, TypeOK
  <2>2. PICK s \in Written : SetNodeStatus(task[w], s)
    BY <1>1, Values DEF MarkNodeStart, WriteNode, IInv, Knows
  <2>3. nodeRows'[task[w]][s] > 0
    BY <2>1, <2>2, SetNodeStatusStamps
  <2>4. \A c \in Batches, r \in Written : c # task[w] \/ r # s => nodeRows'[c][r] = nodeRows[c][r]
    BY <2>1, <2>2, SetNodeStatusAdds
  <2>5. QED
    BY <2>3, <2>4 DEF MarksGrow
<1>2. ASSUME nodeRows' = nodeRows PROVE MarksGrow
  BY <1>2 DEF MarksGrow
<1>3. ASSUME NEW w \in Workers, Step(w), ~MarkNodeStart(w), ~WriteNode(w)
      PROVE  nodeRows' = nodeRows
  BY <1>3 DEF Step, CheckRunStatus, CheckLastBatchStatus, CleanUp, CheckDependencyRuns,
     CheckDependencyNodes, MarkBatchStart, Process, ReportBatch, ReadBatches, ReadNodes, WriteRun,
     SendAck, SendRetry, Rest, tables
<1>4. CASE \/ StartRunMark \/ StartRunSend \/ StopRun
           \/ \E w \in Workers, b \in Batches : Claim(w, b)
           \/ \E w \in Workers : RerunAbandoned(w)
           \/ \E d \in Daemons, n \in Nodes : CacheExpires(d, n)
           \/ \E b \in Batches : LeaseExpires(b) \/ LeaseLost(b)
           \/ \E w \in Workers : ConnectionError(w) \/ OtherError(w) \/ AnswerLost(w)
           \/ \E d \in Daemons : Crash(d)
           \/ UNCHANGED vars
  <2>1. nodeRows' = nodeRows
    BY <1>4 DEF StartRunMark, StartRunSend, StopRun, Claim, RerunAbandoned, CacheExpires,
       LeaseExpires, LeaseLost, ConnectionError, OtherError, AnswerLost, Fault, Crash, vars, tables
  <2>2. QED
    BY <1>2, <2>1
<1>5. QED
  BY <1>1, <1>2, <1>3, <1>4 DEF Next

-------------------------------------------------------------------------------
\* A step of one worker who does not tell of a stop.
LEMMA UnstoppedStep ==
  ASSUME IInv, NeverStopped, NEW w \in Workers, NEW p, NEW s,
         phase' = [phase EXCEPT ![w] = p], seen' = [seen EXCEPT ![w] = s],
         runRows'[RunStop] = 0,
         \A b \in Batches : batchRows'[b][NodeBatchRunStopReceived] = 0
                            /\ nodeRows'[b][NodeBatchRunStopReceived] = 0,
         p \in Reporting \cup {"writeNode"} => s # NodeBatchRunStopReceived
  PROVE  NeverStopped'
<1>1. ASSUME NEW v \in Workers, phase'[v] \in Reporting \cup {"writeNode"}
      PROVE  seen'[v] # NodeBatchRunStopReceived
  <2>1. CASE v = w
    BY <1>1, <2>1 DEF IInv, TypeOK
  <2>2. CASE v # w
    BY <1>1, <2>2 DEF IInv, TypeOK, NeverStopped
  <2>3. QED
    BY <2>1, <2>2
<1>2. QED
  BY <1>1 DEF NeverStopped

\* No worker comes to a stop that was never ordered.
LEMMA WorkerUnstopped ==
  ASSUME IInv, NeverStopped, NEW w \in Workers,
         Step(w) \/ RerunAbandoned(w) \/ ConnectionError(w) \/ OtherError(w)
  PROVE  NeverStopped'
<1> USE DEF IInv
<1>1. /\ runRows[RunStop] = 0
      /\ \A b \in Batches : batchRows[b][NodeBatchRunStopReceived] = 0
                            /\ nodeRows[b][NodeBatchRunStopReceived] = 0
      /\ phase[w] \in Reporting \cup {"writeNode"} => seen[w] # NodeBatchRunStopReceived
  BY DEF NeverStopped
<1>2. ASSUME NEW p, NEW s, p \in Reporting \cup {"writeNode"} => s # NodeBatchRunStopReceived,
             Goto(w, p, s), UNCHANGED <<runRows, batchRows, nodeRows>>
      PROVE  NeverStopped'
  BY <1>1, <1>2, UnstoppedStep DEF Goto
<1>3. CASE CheckRunStatus(w)
  <2>1. ~RunStatusIs(RunStop)
    BY <1>1, Values DEF RunStatusIs, RunNone, RunStop
  <2>2. QED
    BY <1>2, <1>3, <2>1, Distinct DEF CheckRunStatus, tables, Reporting
<1>4. CASE CheckLastBatchStatus(w) \/ RerunAbandoned(w) \/ CleanUp(w) \/ Process(w) \/ ReadNodes(w)
  BY <1>2, <1>4, Distinct DEF CheckLastBatchStatus, RerunAbandoned, CleanUp, Process, ReadNodes,
     tables, Reporting
<1>5. CASE CheckDependencyRuns(w) \/ CheckDependencyNodes(w)
  <2>1. UNCHANGED <<runRows, batchRows, nodeRows>>
    BY <1>5 DEF CheckDependencyRuns, CheckDependencyNodes, tables
  <2>2. \/ \E cmd \in {"go", "wait", "nogo"} : ActOn(w, cmd)
        \/ Goto(w, "depNodes", DepRunStatus)
    BY <1>5, DependencyCommands
  <2>3. QED
    BY <1>2, <2>1, <2>2, Distinct DEF ActOn, Reporting
<1>6. CASE MarkBatchStart(w) \/ ReportBatch(w)
  <2>1. task[w] \in Batches
    BY <1>6 DEF MarkBatchStart, ReportBatch, TypeOK
  <2>2. PICK s \in Written \ {NodeBatchRunStopReceived} : SetBatchStatus(task[w], s)
    BY <1>1, <1>6, Values, Distinct DEF MarkBatchStart, ReportBatch, Knows, Reporting
  <2>3. \A b \in Batches : batchRows'[b][NodeBatchRunStopReceived] = 0
    BY <1>1, <2>1, <2>2, SetBatchStatusStamps, Values DEF TypeOK
  <2>4. PICK p \in {"work1", "readBatches", "ack"} : Goto(w, p, NodeBatchNone)
    BY <1>6 DEF MarkBatchStart, ReportBatch
  <2>5. UNCHANGED <<runRows, nodeRows>>
    BY <1>6 DEF MarkBatchStart, ReportBatch
  <2>6. QED
    BY <1>1, <2>3, <2>4, <2>5, UnstoppedStep DEF Goto, Reporting
<1>7. CASE MarkNodeStart(w) \/ WriteNode(w)
  <2>1. task[w] \in Batches
    BY <1>7 DEF MarkNodeStart, WriteNode, TypeOK
  <2>2. PICK s \in Written \ {NodeBatchRunStopReceived} : SetNodeStatus(task[w], s)
    BY <1>1, <1>7, Values, Distinct DEF MarkNodeStart, WriteNode, Knows
  <2>3. \A b \in Batches : nodeRows'[b][NodeBatchRunStopReceived] = 0
    BY <1>1, <2>1, <2>2, SetNodeStatusAdds, Values DEF TypeOK
  <2>4. PICK p \in {"batchStart", "readNodes"} : Goto(w, p, NodeBatchNone)
    BY <1>7 DEF MarkNodeStart, WriteNode
  <2>5. UNCHANGED <<runRows, batchRows>>
    BY <1>7 DEF MarkNodeStart, WriteNode
  <2>6. QED
    BY <1>1, <2>3, <2>4, <2>5, UnstoppedStep DEF Goto, Reporting
<1>8. CASE ReadBatches(w)
  <2> DEFINE s == NodeStatusFromBatches(NodeOf[task[w]])
  <2>1. ~HasBatchRow(NodeOf[task[w]], NodeBatchRunStopReceived)
    BY <1>1 DEF HasBatchRow, BatchesOf
  <2>2. s # NodeBatchRunStopReceived
    BY <2>1, Distinct DEF NodeStatusFromBatches
  <2>3. QED
    BY <1>2, <1>8, <2>2 DEF ReadBatches, tables, Reporting
<1>9. CASE WriteRun(w)
  <2>1. SetRunStatus(RunComplete)
    BY <1>9 DEF WriteRun
  <2>2. runRows'[RunStop] = runRows[RunStop]
    BY <2>1, SetRunStatusAdds, Values DEF TypeOK
  <2>3. QED
    BY <1>1, <1>9, <2>2, UnstoppedStep DEF WriteRun, Goto, Reporting
<1>10. CASE SendAck(w) \/ SendRetry(w)
  BY <1>10 DEF SendAck, SendRetry, Rest, NeverStopped, tables, TypeOK, Reporting
<1>11. CASE ConnectionError(w) \/ OtherError(w)
  <2>1. PICK k, p, s : /\ Fault(k, w, p, s)
                       /\ p \in Reporting \cup {"writeNode"} => s # NodeBatchRunStopReceived
    BY <1>11, Distinct DEF ConnectionError, OtherError, Reporting
  <2>2. QED
    BY <1>1, <2>1, UnstoppedStep DEF Fault, tables
<1>12. QED
  BY <1>3, <1>4, <1>5, <1>6, <1>7, <1>8, <1>9, <1>10, <1>11 DEF Step

\* Nor does anything else bring one, when the operator orders none.
LEMMA OutsideUnstopped ==
  ASSUME IInv, NeverStopped, StopTimes = {},
         \/ StartRunMark \/ StartRunSend \/ StopRun
         \/ \E w \in Workers, b \in Batches : Claim(w, b)
         \/ \E w \in Workers : AnswerLost(w)
         \/ \E d \in Daemons, n \in Nodes : CacheExpires(d, n)
         \/ \E b \in Batches : LeaseExpires(b) \/ LeaseLost(b)
         \/ \E d \in Daemons : Crash(d)
         \/ UNCHANGED vars
  PROVE  NeverStopped'
<1>1. CASE StartRunMark
  <2>1. runRows'[RunStop] = runRows[RunStop]
    BY <1>1, SetRunStatusAdds, Values DEF StartRunMark, IInv, TypeOK, RunStart, RunStop
  <2>2. QED
    BY <1>1, <2>1 DEF StartRunMark, NeverStopped, workers
<1>2. ~StopRun
  BY DEF StopRun
<1>3. CASE \/ StartRunSend
           \/ \E d \in Daemons, n \in Nodes : CacheExpires(d, n)
           \/ \E b \in Batches : LeaseExpires(b) \/ LeaseLost(b)
           \/ UNCHANGED vars
  <2>1. UNCHANGED <<runRows, batchRows, nodeRows, phase, seen>>
    BY <1>3 DEF StartRunSend, CacheExpires, LeaseExpires, LeaseLost, vars, tables, workers
  <2>2. QED
    BY <2>1 DEF NeverStopped
<1>4. CASE \/ \E w \in Workers, b \in Batches : Claim(w, b)
           \/ \E w \in Workers : AnswerLost(w)
           \/ \E d \in Daemons : Crash(d)
  <2> DEFINE Silent ==
        /\ UNCHANGED <<runRows, batchRows, nodeRows>>
        /\ \A v \in Workers : \/ phase'[v] \in {"idle", "runStatus"}
                              \/ phase'[v] = phase[v] /\ seen'[v] = seen[v]
  <2>1. CASE \E w \in Workers, b \in Batches : Claim(w, b)
    <3>1. Silent
      BY <2>1 DEF Claim, tables, IInv, TypeOK
    <3>2. QED
      BY <3>1 DEF NeverStopped, Reporting
  <2>2. CASE \E w \in Workers : AnswerLost(w)
    <3>1. Silent
      BY <2>2 DEF AnswerLost, tables, IInv, TypeOK
    <3>2. QED
      BY <3>1 DEF NeverStopped, Reporting
  <2>3. ASSUME NEW d \in Daemons, Crash(d) PROVE NeverStopped'
    <3>1. /\ UNCHANGED <<tables, broker>>
          /\ \A v \in Workers : \/ phase'[v] = "idle"
                                \/ phase'[v] = phase[v] /\ seen'[v] = seen[v]
      BY <2>3 DEF Crash
    <3>2. QED
      BY <3>1 DEF NeverStopped, Reporting, tables
  <2>4. QED
    BY <1>4, <2>1, <2>2, <2>3
<1>5. QED
  BY <1>1, <1>2, <1>3, <1>4

\* All the invariants together.
AllInv == IInv /\ DInv /\ RInv /\ NeverStopped /\ SInv

\* The mark a worker has made, or the failure he has read of, stays.
LEMMA StartsKnownStays ==
  ASSUME IInv, Grows, MarksGrow, NEW w \in Workers, phase[w] # "idle", StartsKnown(w),
         phase'[w] = phase[w], seen'[w] = seen[w], task'[w] = task[w]
  PROVE  StartsKnown(w)'
<1> DEFINE n == NodeOf[task[w]]
<1>1. task[w] \in Batches /\ n \in Nodes
  BY WorkflowAssumption DEF IInv, TypeOK
<1>2. nodeRows[task[w]][NodeBatchStart] > 0 => nodeRows'[task[w]][NodeBatchStart] > 0
  BY <1>1, Values DEF MarksGrow
<1>3. NodeOf[task[w]]' = n
  OBVIOUS
<1>4. QED
  BY <1>1, <1>2, <1>3, TruthStays DEF StartsKnown

\* Marks that are not touched stay in order.
LEMMA StartsStay ==
  ASSUME StartsTrue, UNCHANGED <<nodeRows, batchRows>>
  PROVE  StartsTrue'
BY DEF StartsTrue, Ready, Nogo, Succeeded, Failed, BatchesOf

\* A step of one worker who has marked his node before his batch.
LEMMA StartedStep ==
  ASSUME IInv, SInv, Grows, MarksGrow, NEW w \in Workers, NEW p, NEW s, phase[w] # "idle",
         phase' = [phase EXCEPT ![w] = p], seen' = [seen EXCEPT ![w] = s], task' = task,
         StartsTrue', StartsKnown(w)'
  PROVE  SInv'
<1>1. ASSUME NEW v \in Workers, v # w, phase'[v] # "idle" PROVE StartsKnown(v)'
  <2>1. phase'[v] = phase[v] /\ seen'[v] = seen[v] /\ task'[v] = task[v]
    BY <1>1 DEF IInv, TypeOK
  <2>2. QED
    BY <1>1, <2>1, StartsKnownStays DEF SInv
<1>2. QED
  BY <1>1 DEF SInv

\* The same for a step that writes no history.
LEMMA QuietStep ==
  ASSUME IInv, SInv, Grows, MarksGrow, NEW w \in Workers, NEW p, NEW s, phase[w] # "idle",
         phase' = [phase EXCEPT ![w] = p], seen' = [seen EXCEPT ![w] = s], task' = task,
         UNCHANGED <<nodeRows, batchRows>>,
         p \in {"cleanUp", "batchStart"} => nodeRows[task[w]][NodeBatchStart] > 0,
         p \in Reporting => \/ nodeRows[task[w]][NodeBatchStart] > 0
                            \/ s = NodeBatchFail /\ Nogo(NodeOf[task[w]])
  PROVE  SInv'
<1>1. phase'[w] = p /\ seen'[w] = s /\ task'[w] = task[w]
  BY DEF IInv, TypeOK
<1>2. Nogo(NodeOf[task[w]]) = Nogo(NodeOf[task[w]])'
  BY DEF Nogo, Failed
<1>3. StartsKnown(w)'
  BY <1>1, <1>2 DEF StartsKnown, Reporting
<1>4. StartsTrue'
  BY StartsStay DEF SInv
<1>5. QED
  BY <1>3, <1>4, StartedStep

\* The steps that touch neither node nor batch history.
LEMMA QuietStarts ==
  ASSUME AllInv, Grows, MarksGrow, NEW w \in Workers,
         \/ CheckRunStatus(w) \/ CheckLastBatchStatus(w) \/ RerunAbandoned(w) \/ CleanUp(w)
         \/ Process(w) \/ ReadBatches(w) \/ ReadNodes(w) \/ WriteRun(w)
         \/ ConnectionError(w) \/ OtherError(w)
  PROVE  SInv'
<1> DEFINE b == task[w]
           Marked == nodeRows[b][NodeBatchStart] > 0
<1> USE DEF AllInv
<1>1. phase[w] # "idle" /\ UNCHANGED <<nodeRows, batchRows>>
  BY DEF CheckRunStatus, CheckLastBatchStatus, RerunAbandoned, CleanUp, Process, ReadBatches,
     ReadNodes, WriteRun, ConnectionError, OtherError, Fault, tables
<1>2. b \in Batches
  BY <1>1 DEF IInv, TypeOK
<1>3. batchRows[b][NodeBatchStart] > 0 => Marked
  BY <1>2 DEF SInv, StartsTrue
<1>4. ASSUME NEW p, NEW s, p \in {"cleanUp", "batchStart"} \cup Reporting => Marked,
             phase' = [phase EXCEPT ![w] = p], seen' = [seen EXCEPT ![w] = s], task' = task
      PROVE  SInv'
  BY <1>1, <1>4, QuietStep
<1>5. CASE CheckRunStatus(w)
  <2>1. ~RunStatusIs(RunNone) /\ ~RunStatusIs(RunStop)
    BY <1>1, Values DEF RunStatusIs, RunNone, RunStop, IInv, Knows, TypeOK, NeverStopped
  <2>2. QED
    BY <1>4, <1>5, <2>1 DEF CheckRunStatus, Goto, Reporting
<1>6. CASE CheckLastBatchStatus(w) \/ RerunAbandoned(w)
  <2>1. LastBatchStatusIs(b, NodeBatchStart) => Marked
    BY <1>3, Distinct, Values DEF LastBatchStatusIs
  <2>2. PICK p, s : Goto(w, p, s) /\ (p \in {"cleanUp", "batchStart"} \cup Reporting => Marked)
    BY <1>6, <2>1 DEF CheckLastBatchStatus, RerunAbandoned, Reporting
  <2>3. QED
    BY <1>4, <2>2 DEF Goto
<1>7. CASE CleanUp(w) \/ ReadBatches(w) \/ ReadNodes(w) \/ WriteRun(w)
  <2>1. PICK p, s : Goto(w, p, s) /\ p \notin {"cleanUp", "batchStart"} \cup Reporting
    BY <1>7 DEF CleanUp, ReadBatches, ReadNodes, WriteRun, Reporting
  <2>2. QED
    BY <1>4, <2>1 DEF Goto
<1>8. CASE Process(w)
  <2>1. Marked
    BY <1>1, <1>3, <1>8 DEF Process, DInv, Works
  <2>2. PICK p, s : Goto(w, p, s)
    BY <1>8 DEF Process
  <2>3. QED
    BY <1>4, <2>1, <2>2 DEF Goto
<1>9. CASE ConnectionError(w)
  <2>1. PICK k, p, s : Fault(k, w, p, s) /\ p \in {"retry", "ack"}
    BY <1>9 DEF ConnectionError
  <2>2. QED
    BY <1>4, <2>1 DEF Fault, Reporting
<1>10. CASE OtherError(w)
  <2>1. CASE phase[w] \in {"work1", "work2", "cleanUp"}
    <3>1. Marked
      BY <1>1, <1>3, <2>1 DEF DInv, Works, SInv, StartsKnown
    <3>2. PICK k, p, s : Fault(k, w, p, s)
      BY <1>10 DEF OtherError
    <3>3. QED
      BY <1>4, <3>1, <3>2 DEF Fault
  <2>2. CASE phase[w] \notin {"work1", "work2", "cleanUp"}
    <3>1. PICK k, p, s : Fault(k, w, p, s) /\ p \in {"readBatches", "ack"}
      BY <1>10, <2>2 DEF OtherError
    <3>2. QED
      BY <1>4, <3>1 DEF Fault, Reporting
  <2>3. QED
    BY <2>1, <2>2
<1>11. QED
  BY <1>5, <1>6, <1>7, <1>8, <1>9, <1>10

\* A batch that may not start is reported as failed without a mark on its node.
LEMMA DependencyStarts ==
  ASSUME AllInv, Grows, MarksGrow, NEW w \in Workers,
         CheckDependencyRuns(w) \/ CheckDependencyNodes(w)
  PROVE  SInv'
<1> DEFINE n == NodeOf[task[w]]
           d == DaemonOf[w]
<1> USE DEF AllInv
<1>1. phase[w] # "idle" /\ UNCHANGED <<nodeRows, batchRows>>
  BY DEF CheckDependencyRuns, CheckDependencyNodes, tables
<1>2. n \in Nodes /\ d \in Daemons
  BY <1>1, WorkflowAssumption DEF IInv, TypeOK
<1>3. cache[d][n] \in {"none", "go", "wait", "nogo"}
  BY <1>2 DEF IInv, TypeOK
<1>4. ASSUME NEW p, NEW s, Goto(w, p, s), p \in {"nodeStart", "depNodes", "retry"}
      PROVE  SInv'
  BY <1>1, <1>4, QuietStep DEF Goto, Reporting
<1>5. ASSUME NEW cmd \in {"go", "wait", "nogo"}, ActOn(w, cmd), cmd = "nogo" => Nogo(n)
      PROVE  SInv'
  <2>1. CASE cmd # "nogo"
    BY <1>4, <1>5, <2>1 DEF ActOn
  <2>2. CASE cmd = "nogo"
    <3>1. Goto(w, "setStatus", NodeBatchFail) /\ Nogo(n)
      BY <1>5, <2>2 DEF ActOn
    <3>2. QED
      BY <1>1, <3>1, QuietStep DEF Goto
  <2>3. QED
    BY <2>1, <2>2
<1>6. CASE CheckDependencyRuns(w)
  <2>1. cache[d][n] = "nogo" => Nogo(n)
    BY <1>2 DEF RInv, CacheTrue
  <2>2. CASE cache[d][n] # "none"
    <3>1. ActOn(w, cache[d][n]) /\ cache[d][n] \in {"go", "wait", "nogo"}
      BY <1>3, <1>6, <2>2 DEF CheckDependencyRuns
    <3>2. QED
      BY <1>5, <2>1, <3>1
  <2>3. CASE cache[d][n] = "none"
    <3>1. ActOn(w, "go") \/ Goto(w, "depNodes", DepRunStatus)
      BY <1>6, <2>3 DEF CheckDependencyRuns
    <3>2. QED
      BY <1>4, <1>5, <3>1
  <2>4. QED
    BY <2>2, <2>3
<1>7. CASE CheckDependencyNodes(w)
  <2>1. ActOn(w, DependencyCmd(n, seen[w]))
    BY <1>7 DEF CheckDependencyNodes
  <2>2. DependencyCmd(n, seen[w]) \in {"go", "wait", "nogo"}
    BY DEF DependencyCmd
  <2>3. DependencyCmd(n, seen[w]) = "nogo" => Nogo(n)
    BY <1>2, GoIsTrue
  <2>4. QED
    BY <1>5, <2>1, <2>2, <2>3
<1>8. QED
  BY <1>6, <1>7

-------------------------------------------------------------------------------
\* SetBatchStatus: the start comes after the node's, and so does every end.
LEMMA BatchMarkStarts ==
  ASSUME AllInv, Grows, MarksGrow, NEW w \in Workers, MarkBatchStart(w) \/ ReportBatch(w)
  PROVE  SInv'
<1> DEFINE b == task[w]
<1> USE DEF AllInv
<1>1. phase[w] # "idle" /\ nodeRows' = nodeRows
  BY DEF MarkBatchStart, ReportBatch
<1>2. b \in Batches /\ NodeOf[b] \in Nodes /\ batchRows \in [Batches -> [Written -> Nat]]
  BY <1>1, WorkflowAssumption DEF IInv, TypeOK
<1>3. StartsKnown(w)
  BY <1>1 DEF SInv
<1>4. PICK s \in Written, p \in {"work1", "readBatches", "ack"} :
        /\ SetBatchStatus(b, s) /\ Goto(w, p, NodeBatchNone)
        /\ \/ nodeRows[b][NodeBatchStart] > 0
           \/ s = NodeBatchFail /\ Nogo(NodeOf[b])
  <2>1. CASE MarkBatchStart(w)
    BY <1>3, <2>1, Values DEF MarkBatchStart, StartsKnown
  <2>2. CASE ReportBatch(w)
    <3>1. seen[w] \in Written /\ SetBatchStatus(b, seen[w])
      BY <2>2, Values DEF ReportBatch, IInv, Knows
    <3>2. \E p \in {"readBatches", "ack"} : Goto(w, p, NodeBatchNone)
      BY <2>2 DEF ReportBatch
    <3>3. nodeRows[b][NodeBatchStart] > 0 \/ (seen[w] = NodeBatchFail /\ Nogo(NodeOf[b]))
      BY <1>3, <2>2 DEF ReportBatch, StartsKnown, Reporting
    <3>4. QED
      BY <3>1, <3>2, <3>3
  <2>3. QED
    BY <2>1, <2>2
<1>5. /\ \A r \in Written : r # s => batchRows'[b][r] = batchRows[b][r]
      /\ \A c \in Batches : c # b => batchRows'[c] = batchRows[c]
  BY <1>2, <1>4, SetBatchStatusStamps
<1>6. StartsTrue'
  <2>1. ASSUME NEW c \in Batches
        PROVE  /\ nodeRows[c][NodeBatchStart] > 0 => Ready(NodeOf[c])'
               /\ batchRows'[c][NodeBatchStart] > 0 => nodeRows[c][NodeBatchStart] > 0
               /\ batchRows'[c][NodeBatchSuccess] > 0 => nodeRows[c][NodeBatchStart] > 0
               /\ batchRows'[c][NodeBatchFail] > 0
                    => nodeRows[c][NodeBatchStart] > 0 \/ Nogo(NodeOf[c])'
    <3>1. NodeOf[c] \in Nodes
      BY WorkflowAssumption
    <3>2. (Ready(NodeOf[c]) => Ready(NodeOf[c])') /\ (Nogo(NodeOf[c]) => Nogo(NodeOf[c])')
      BY <3>1, TruthStays
    <3>3. CASE c # b
      BY <1>5, <3>2, <3>3 DEF SInv, StartsTrue, Succeeded, Failed
    <3>4. CASE c = b
      <4>1. ASSUME NEW r \in Written, batchRows'[b][r] > 0
            PROVE  r = s \/ batchRows[b][r] > 0
        BY <1>5, <4>1
      <4>2. Nogo(NodeOf[b]) => Nogo(NodeOf[c])'
        BY <3>2, <3>4
      <4>3. batchRows'[b][NodeBatchStart] > 0 => nodeRows[b][NodeBatchStart] > 0
        BY <1>2, <1>4, <4>1, Distinct, Values DEF SInv, StartsTrue
      <4>4. batchRows'[b][NodeBatchSuccess] > 0 => nodeRows[b][NodeBatchStart] > 0
        BY <1>2, <1>4, <4>1, Distinct, Values DEF SInv, StartsTrue, Succeeded
      <4>5. batchRows'[b][NodeBatchFail] > 0
              => nodeRows[b][NodeBatchStart] > 0 \/ Nogo(NodeOf[b])
        BY <1>2, <1>4, <4>1, Distinct, Values DEF SInv, StartsTrue, Failed
      <4>6. nodeRows[b][NodeBatchStart] > 0 => Ready(NodeOf[c])'
        BY <1>2, <3>2, <3>4 DEF SInv, StartsTrue
      <4>7. QED
        BY <3>4, <4>2, <4>3, <4>4, <4>5, <4>6
    <3>5. QED
      BY <3>3, <3>4
  <2>2. \A c \in Batches : \A e \in BatchesOf(NodeOf[c]), r \in Final :
           nodeRows[e][r] > 0 => nodeRows[c][NodeBatchStart] <= nodeRows[e][r]
    BY DEF SInv, StartsTrue
  <2>3. QED
    BY <1>1, <2>1, <2>2 DEF StartsTrue, Succeeded, Failed, BatchesOf
<1>7. StartsKnown(w)'
  <2>1. phase'[w] = p
    BY <1>4 DEF Goto, IInv, TypeOK
  <2>2. QED
    BY <2>1 DEF StartsKnown, Reporting
<1>8. QED
  BY <1>1, <1>4, <1>6, <1>7, StartedStep DEF Goto

\* SetNodeStatus: a node is marked as started while none of it has ended, and as
\* ended no earlier than it was started.
LEMMA NodeMarkStarts ==
  ASSUME AllInv, Grows, MarksGrow, NEW w \in Workers, MarkNodeStart(w) \/ WriteNode(w)
  PROVE  SInv'
<1> DEFINE b == task[w]
           n == NodeOf[b]
<1> USE DEF AllInv
<1>1. phase[w] # "idle" /\ batchRows' = batchRows
  BY DEF MarkNodeStart, WriteNode
<1>2. b \in Batches /\ n \in Nodes /\ b \in BatchesOf(n)
      /\ nodeRows \in [Batches -> [Written -> Nat]]
  BY <1>1, WorkflowAssumption DEF IInv, TypeOK, BatchesOf
<1>3. PICK s \in Written, p \in {"batchStart", "readNodes"} :
        /\ SetNodeStatus(b, s) /\ Goto(w, p, NodeBatchNone)
        /\ \/ s = NodeBatchStart /\ ~Done(b) /\ Ready(n)
           \/ s \in Final /\ p = "readNodes"
  <2>1. CASE MarkNodeStart(w)
    <3>1. Ready(n) /\ ~Done(b)
      BY <1>1, <2>1 DEF MarkNodeStart, RInv, Informed, DInv, Works, Open
    <3>2. QED
      BY <2>1, <3>1, Values DEF MarkNodeStart
  <2>2. CASE WriteNode(w)
    BY <2>2, Values DEF WriteNode, IInv, Knows
  <2>3. QED
    BY <2>1, <2>2
<1>4. /\ nodeRows' \in [Batches -> [Written -> Nat]]
      /\ \A c \in Batches, r \in Written : c # b \/ r # s => nodeRows'[c][r] = nodeRows[c][r]
  BY <1>2, <1>3, SetNodeStatusAdds
<1>5. nodeRows'[b][s] > 0
      /\ \A c \in BatchesOf(n), r \in Written : nodeRows[c][r] <= nodeRows'[b][s]
  BY <1>2, <1>3, SetNodeStatusStamps
<1>6. \A c \in Batches : nodeRows[c][NodeBatchStart] > 0 => nodeRows'[c][NodeBatchStart] > 0
  BY Values DEF MarksGrow
<1>7. ASSUME NEW c \in Batches
      PROVE  /\ nodeRows'[c][NodeBatchStart] > 0 => Ready(NodeOf[c])
             /\ batchRows[c][NodeBatchStart] > 0 => nodeRows'[c][NodeBatchStart] > 0
             /\ Succeeded(c) => nodeRows'[c][NodeBatchStart] > 0
             /\ Failed(c) => nodeRows'[c][NodeBatchStart] > 0 \/ Nogo(NodeOf[c])
  <2>1. nodeRows'[c][NodeBatchStart] > 0
          => nodeRows[c][NodeBatchStart] > 0 \/ (c = b /\ s = NodeBatchStart)
    BY <1>4, Values
  <2>2. s = NodeBatchStart => Ready(n)
    BY <1>3, Values
  <2>3. QED
    BY <1>6, <2>1, <2>2 DEF SInv, StartsTrue
<1>8. ASSUME NEW c \in Batches, NEW e \in BatchesOf(NodeOf[c]), NEW r \in Final, nodeRows'[e][r] > 0
      PROVE  nodeRows'[c][NodeBatchStart] <= nodeRows'[e][r]
  <2>1. e \in Batches /\ NodeOf[e] = NodeOf[c] /\ r \in Written /\ r # NodeBatchStart
        /\ NodeBatchStart \in Written
    BY Values DEF BatchesOf
  <2>2. CASE NodeOf[c] # n
    <3>1. c # b /\ e # b
      BY <2>1, <2>2
    <3>2. /\ nodeRows'[c][NodeBatchStart] = nodeRows[c][NodeBatchStart]
          /\ nodeRows'[e][r] = nodeRows[e][r]
      BY <1>4, <2>1, <3>1
    <3>3. QED
      BY <1>8, <3>2 DEF SInv, StartsTrue
  <2>3. CASE NodeOf[c] = n /\ s = NodeBatchStart
    <3>1. ~Done(b)
      BY <1>3, <2>3, Values
    <3>2. nodeRows'[e][r] = nodeRows[e][r]
      BY <1>4, <2>1, <2>3
    <3>3. b \in BatchesOf(NodeOf[e])
      BY <1>2, <2>1, <2>3 DEF BatchesOf
    <3>4. Done(b)
      BY <1>8, <2>1, <3>2, <3>3 DEF IInv, CompleteMeansDone
    <3>5. QED
      BY <3>1, <3>4
  <2>4. CASE NodeOf[c] = n /\ s \in Final
    <3>1. nodeRows'[c][NodeBatchStart] = nodeRows[c][NodeBatchStart]
      BY <1>4, <2>1, <2>4, Values
    <3>2. CASE e = b /\ r = s
      <4>1. c \in BatchesOf(n)
        BY <2>4 DEF BatchesOf
      <4>2. QED
        BY <1>5, <2>1, <3>1, <3>2, <4>1
    <3>3. CASE ~(e = b /\ r = s)
      <4>1. nodeRows'[e][r] = nodeRows[e][r]
        BY <1>4, <2>1, <3>3
      <4>2. QED
        BY <1>8, <3>1, <4>1 DEF SInv, StartsTrue
    <3>4. QED
      BY <3>2, <3>3
  <2>5. QED
    BY <1>3, <2>2, <2>3, <2>4
<1>9. StartsTrue'
  BY <1>1, <1>7, <1>8 DEF StartsTrue, Ready, Nogo, Succeeded, Failed, BatchesOf
<1>10. StartsKnown(w)'
  <2>1. phase'[w] = p /\ task'[w] = b
    BY <1>3 DEF Goto, IInv, TypeOK
  <2>2. p = "batchStart" => s = NodeBatchStart
    BY <1>3
  <2>3. QED
    BY <1>5, <2>1, <2>2 DEF StartsKnown, Reporting
<1>11. QED
  BY <1>1, <1>3, <1>9, <1>10, StartedStep DEF Goto

\* Messages, leases, crashes, the operator, the clock.
LEMMA OutsideStarts ==
  ASSUME AllInv, Grows, MarksGrow,
         \/ StartRunMark \/ StartRunSend \/ StopRun
         \/ \E w \in Workers, b \in Batches : Claim(w, b)
         \/ \E w \in Workers : SendAck(w) \/ SendRetry(w) \/ AnswerLost(w)
         \/ \E d \in Daemons, n \in Nodes : CacheExpires(d, n)
         \/ \E b \in Batches : LeaseExpires(b) \/ LeaseLost(b)
         \/ \E d \in Daemons : Crash(d)
         \/ UNCHANGED vars
  PROVE  SInv'
<1> USE DEF AllInv
<1>1. TypeOK
  BY DEF IInv
<1>2. ASSUME UNCHANGED <<nodeRows, batchRows>>,
             \A v \in Workers :
               \/ phase'[v] \in {"idle", "runStatus"}
               \/ phase'[v] = phase[v] /\ seen'[v] = seen[v] /\ task'[v] = task[v]
      PROVE  SInv'
  <2>1. ASSUME NEW v \in Workers, phase'[v] # "idle" PROVE StartsKnown(v)'
    <3>1. CASE phase'[v] = "runStatus"
      BY <3>1 DEF StartsKnown, Reporting
    <3>2. CASE phase'[v] = phase[v] /\ seen'[v] = seen[v] /\ task'[v] = task[v]
      BY <2>1, <3>2, StartsKnownStays DEF SInv
    <3>3. QED
      BY <1>2, <2>1, <3>1, <3>2
  <2>2. StartsTrue'
    BY <1>2, StartsStay DEF SInv
  <2>3. QED
    BY <2>1, <2>2 DEF SInv
<1>3. CASE \/ StartRunMark \/ StartRunSend \/ StopRun \/ UNCHANGED vars
           \/ \E b \in Batches : LeaseExpires(b) \/ LeaseLost(b)
           \/ \E d \in Daemons, n \in Nodes : CacheExpires(d, n)
  BY <1>2, <1>3 DEF StartRunMark, StartRunSend, StopRun, LeaseExpires, LeaseLost, CacheExpires,
     vars, tables, workers
<1>4. ASSUME NEW w \in Workers, NEW b \in Batches, Claim(w, b) PROVE SInv'
  BY <1>1, <1>2, <1>4 DEF Claim, tables, TypeOK
<1>5. ASSUME NEW w \in Workers, SendAck(w) \/ SendRetry(w) \/ AnswerLost(w) PROVE SInv'
  BY <1>1, <1>2, <1>5 DEF SendAck, SendRetry, AnswerLost, Rest, tables, TypeOK
<1>6. ASSUME NEW d \in Daemons, Crash(d) PROVE SInv'
  BY <1>2, <1>6 DEF Crash, tables
<1>7. QED
  BY <1>3, <1>4, <1>5, <1>6

\* Every step keeps all the invariants, unless a lease is lost or the run stopped.
LEMMA AllInvStep ==
  ASSUME "lease" \notin FaultKinds, StopTimes = {}, AllInv, [Next]_vars
  PROVE  AllInv'
<1> USE DEF AllInv
<1>1. Grows /\ MarksGrow
  BY RowsStay, MarksStayThere
<1>2. IInv' /\ DInv' /\ RInv'
  BY InvStep, DInvStep, RInvStep
<1>3. NeverStopped'
  BY WorkerUnstopped, OutsideUnstopped DEF Next
<1>4. SInv'
  <2>1. ASSUME NEW w \in Workers, Step(w) PROVE SInv'
    BY <1>1, <2>1, QuietStarts, DependencyStarts, BatchMarkStarts, NodeMarkStarts, OutsideStarts
    DEF Step
  <2>2. CASE \E w \in Workers : RerunAbandoned(w) \/ ConnectionError(w) \/ OtherError(w)
    BY <1>1, <2>2, QuietStarts
  <2>3. QED
    BY <1>1, <2>1, <2>2, OutsideStarts DEF Next
<1>5. QED
  BY <1>2, <1>3, <1>4

\* At the start they hold.
LEMMA AllInvInit == Init => AllInv
<1> SUFFICES ASSUME Init PROVE AllInv
  OBVIOUS
<1>1. IInv /\ DInv /\ RInv
  BY InitInv, DInvInit, RInvInit
<1>2. NeverStopped
  BY Values DEF Init, NeverStopped, Reporting
<1>3. SInv
  <2>1. \A b \in Batches, s \in Written : batchRows[b][s] = 0 /\ nodeRows[b][s] = 0
    BY DEF Init
  <2>2. StartsTrue
    <3>1. \A c, n : c \in BatchesOf(n) => c \in Batches
      BY DEF BatchesOf
    <3>2. QED
      BY <2>1, <3>1, Values DEF StartsTrue, Succeeded, Failed
  <2>3. QED
    BY <2>2 DEF Init, SInv
<1>4. QED
  BY <1>1, <1>2, <1>3 DEF AllInv

\* The status of a node is the highest of those it has a row of.
StatusesTrue ==
  \A n \in Nodes :
    /\ \A a \in BatchesOf(n), k \in Final : nodeRows[a][k] > 0 => NodeStatusIs(n, k)
    /\ (\E a \in BatchesOf(n) : nodeRows[a][NodeBatchStart] > 0)
         => NodeStatusIs(n, NodeBatchStart)
            \/ \E a \in BatchesOf(n), k \in Final : nodeRows[a][k] > 0

\* The row of an end is later than all starts, and is of a batch that was marked
\* as started first or of a node that never was: the last event is the end.
LEMMA StatusOfRows == AllInv => StatusesTrue
<1> SUFFICES ASSUME AllInv, NEW n \in Nodes
             PROVE  /\ \A a \in BatchesOf(n), k \in Final : nodeRows[a][k] > 0 => NodeStatusIs(n, k)
                    /\ (\E a \in BatchesOf(n) : nodeRows[a][NodeBatchStart] > 0)
                         => NodeStatusIs(n, NodeBatchStart)
                            \/ \E a \in BatchesOf(n), k \in Final : nodeRows[a][k] > 0
  BY DEF StatusesTrue
<1> USE DEF AllInv
<1>1. nodeRows \in [Batches -> [Written -> Nat]] /\ Batches \in SUBSET Nat
  BY WorkflowAssumption DEF IInv, TypeOK
<1>2. \A t : \A c \in Kept(n, t) : c \in BatchesOf(n) /\ c \in Batches /\ NodeOf[c] = n
                                    /\ nodeRows[c][t] > 0
  BY DEF Kept, BatchesOf
<1>3. \A c \in BatchesOf(n) : c \in Batches /\ NodeOf[c] = n
  BY DEF BatchesOf
<1>4. ASSUME NEW s \in Written, NEW b \in Kept(n, s), NEW c \in Kept(n, s) PROVE b = c
  <2>1. b \in Nat /\ c \in Nat /\ nodeRows[b][s] \in Nat /\ nodeRows[c][s] \in Nat
    BY <1>1, <1>2
  <2>2. /\ \/ nodeRows[c][s] = nodeRows[b][s] /\ b <= c
           \/ s = NodeBatchStart /\ nodeRows[b][s] < nodeRows[c][s]
           \/ s # NodeBatchStart /\ nodeRows[c][s] < nodeRows[b][s]
        /\ \/ nodeRows[b][s] = nodeRows[c][s] /\ c <= b
           \/ s = NodeBatchStart /\ nodeRows[c][s] < nodeRows[b][s]
           \/ s # NodeBatchStart /\ nodeRows[b][s] < nodeRows[c][s]
    BY <1>2 DEF Kept
  <2>3. QED
    BY <2>1, <2>2
<1>5. \A s \in Written, b \in Batches : b \in Kept(n, s) => EventBefore(b, s, b, s)
  <2>1. Written \in SUBSET Nat
    BY WrittenFinite
  <2>2. QED
    BY <1>1, <2>1 DEF EventBefore
<1>6. Kept(n, NodeBatchRunStopReceived) = {}
  BY <1>2 DEF NeverStopped
<1>7. ASSUME NEW a \in BatchesOf(n), NEW k \in Final, nodeRows[a][k] > 0
      PROVE  NodeStatusIs(n, k)
  <2>1. k \in {NodeBatchSuccess, NodeBatchFail} /\ k \in Written /\ k # NodeBatchNone
        /\ k # NodeBatchStart
    BY <1>3, <1>7, Distinct DEF NeverStopped
  <2>2. PICK b \in Kept(n, k) : TRUE
    BY <1>1, <1>7, <2>1, KeptExists
  <2>3. b \in Batches /\ b \in BatchesOf(n) /\ nodeRows[b][k] > 0
    BY <1>2
  <2>4. \A c \in Batches : NodeOf[c] = n =>
          /\ nodeRows[c][NodeBatchSuccess] > 0 => \A e \in BatchesOf(n) : Succeeded(e)
          /\ nodeRows[c][NodeBatchFail] > 0 => \E e \in BatchesOf(n) : Failed(e)
    BY DEF RInv, NodeRowsTrue
  <2>5. \A e \in BatchesOf(n) : ~(Succeeded(e) /\ Failed(e))
    BY <1>3 DEF DInv, RowsInOrder
  <2>6. ASSUME NEW t \in Written, NEW c \in Batches, c \in Kept(n, t)
        PROVE  t \in {NodeBatchStart, k}
    <3>1. NodeOf[c] = n /\ nodeRows[c][t] > 0 /\ NodeOf[b] = n
      BY <1>2, <2>3, <2>6
    <3>2. t # NodeBatchRunStopReceived
      BY <1>6, <2>6
    <3>3. CASE k = NodeBatchSuccess /\ t = NodeBatchFail
      BY <2>3, <2>4, <2>5, <3>1, <3>3
    <3>4. CASE k = NodeBatchFail /\ t = NodeBatchSuccess
      BY <2>3, <2>4, <2>5, <3>1, <3>4
    <3>5. QED
      BY <2>1, <3>2, <3>3, <3>4, Distinct
  <2>7. ASSUME NEW c \in Batches, c \in Kept(n, NodeBatchStart)
        PROVE  EventBefore(c, NodeBatchStart, b, k)
    <3> DEFINE start(x) == nodeRows[x][NodeBatchStart]
    <3>1. c \in BatchesOf(n) /\ NodeOf[c] = n /\ NodeOf[b] = n /\ start(c) > 0
      BY <1>2, <2>3, <2>7
    <3>2. start(c) <= nodeRows[b][k] /\ start(b) <= nodeRows[b][k]
      BY <2>3, <3>1 DEF SInv, StartsTrue
    <3>3. start(b) > 0
      <4>1. Done(b)
        BY <2>3, <3>1 DEF IInv, CompleteMeansDone
      <4>2. Succeeded(b) \/ Failed(b)
        BY <2>3, <4>1, Distinct DEF Done, Succeeded, Failed, NeverStopped
      <4>3. Ready(n)
        BY <3>1 DEF SInv, StartsTrue
      <4>4. ~Nogo(n)
        BY <4>3 DEF Ready, Nogo, DInv, RowsInOrder
      <4>5. QED
        BY <2>3, <3>1, <4>2, <4>4 DEF SInv, StartsTrue
    <3>4. (start(b) = start(c) /\ c <= b) \/ start(c) < start(b)
      BY <2>3, <2>7, <3>3 DEF Kept
    <3>5. start(b) \in Nat /\ start(c) \in Nat /\ nodeRows[b][k] \in Nat /\ b \in Nat /\ c \in Nat
      BY <1>1, <2>1, <2>3, Values
    <3>6. NodeBatchStart <= k
      BY <2>1 DEF NodeBatchStart, NodeBatchSuccess, NodeBatchFail
    <3>7. \/ start(c) < nodeRows[b][k]
          \/ start(c) = nodeRows[b][k] /\ (c < b \/ (c = b /\ NodeBatchStart <= k))
      BY <3>2, <3>4, <3>5, <3>6
    <3>8. QED
      BY <3>7 DEF EventBefore
  <2>8. ASSUME NEW t \in Written, NEW c \in Batches, c \in Kept(n, t)
        PROVE  EventBefore(c, t, b, k)
    <3>1. CASE t = NodeBatchStart
      BY <2>7, <2>8, <3>1
    <3>2. CASE t = k
      <4>1. c = b
        BY <1>4, <2>1, <2>2, <2>8, <3>2
      <4>2. QED
        BY <1>5, <2>1, <2>3, <2>2, <3>2, <4>1
    <3>3. QED
      BY <2>6, <2>8, <3>1, <3>2
  <2>9. \A t \in Written : \A c \in Kept(n, t) : EventBefore(c, t, b, k)
    BY <1>2, <2>8
  <2>10. QED
    BY <1>6, <2>1, <2>2, <2>9 DEF NodeStatusIs
<1>8. ASSUME NEW a \in BatchesOf(n), nodeRows[a][NodeBatchStart] > 0,
             \A e \in BatchesOf(n), k \in Final : ~(nodeRows[e][k] > 0)
      PROVE  NodeStatusIs(n, NodeBatchStart)
  <2>1. NodeBatchStart \in Written /\ NodeBatchStart # NodeBatchNone
    BY Values, Distinct
  <2>2. PICK b \in Kept(n, NodeBatchStart) : TRUE
    BY <1>1, <1>8, <2>1, KeptExists
  <2>3. \A t \in Written : \A c \in Kept(n, t) : t = NodeBatchStart
    BY <1>2, <1>8 DEF Written
  <2>4. \A t \in Written : \A c \in Kept(n, t) : EventBefore(c, t, b, NodeBatchStart)
    BY <1>2, <1>4, <1>5, <2>1, <2>2, <2>3
  <2>5. QED
    BY <1>6, <2>1, <2>2, <2>4 DEF NodeStatusIs
<1>9. QED
  BY <1>7, <1>8

\* The highest status a node has a row of only goes up, as no row goes away.
LEMMA StatusStep ==
  ASSUME StatusesTrue', MarksGrow, NEW n \in Nodes, NEW s \in Written, NodeStatusIs(n, s)
  PROVE  \E t \in Written : s <= t /\ NodeStatusIs(n, t)'
<1>1. s # NodeBatchNone
  BY Distinct
<1>2. PICK b \in Kept(n, s) : TRUE
  BY <1>1 DEF NodeStatusIs
<1>3. b \in BatchesOf(n) /\ nodeRows[b][s] > 0 /\ b \in Batches
  BY DEF Kept, BatchesOf
<1>4. nodeRows'[b][s] > 0
  BY <1>3 DEF MarksGrow
<1>5. BatchesOf(n)' = BatchesOf(n)
  BY DEF BatchesOf
<1>6. ASSUME NEW a \in BatchesOf(n), NEW k \in Final, nodeRows'[a][k] > 0
      PROVE  NodeStatusIs(n, k)'
  BY <1>5, <1>6 DEF StatusesTrue
<1>7. CASE s \in Final
  <2>1. NodeStatusIs(n, s)'
    BY <1>3, <1>4, <1>6, <1>7
  <2>2. s <= s
    BY WrittenFinite
  <2>3. QED
    BY <2>1, <2>2
<1>8. CASE s = NodeBatchStart
  <2>1. CASE \E a \in BatchesOf(n), k \in Final : nodeRows'[a][k] > 0
    <3>1. PICK a \in BatchesOf(n), k \in Final : nodeRows'[a][k] > 0
      BY <2>1
    <3>2. NodeStatusIs(n, k)' /\ k \in Written
      BY <1>6, <3>1, Values
    <3>3. s <= k
      BY <1>8 DEF Final, NodeBatchStart, NodeBatchSuccess, NodeBatchFail, NodeBatchRunStopReceived
    <3>4. QED
      BY <3>2, <3>3
  <2>2. CASE ~\E a \in BatchesOf(n), k \in Final : nodeRows'[a][k] > 0
    <3>1. NodeStatusIs(n, NodeBatchStart)'
      BY <1>3, <1>4, <1>5, <1>8, <2>2 DEF StatusesTrue
    <3>2. s <= s
      BY WrittenFinite
    <3>3. QED
      BY <1>8, <3>1, <3>2
  <2>3. QED
    BY <2>1, <2>2
<1>9. QED
  BY <1>7, <1>8 DEF Written

\* As long as no lease is lost and no run stopped, the status of a node never goes
\* down, although several workers write it concurrently from what they read before
\* and rows of the same millisecond are ordered by their key alone.
THEOREM NodeStatusOnlyRises ==
  ASSUME "lease" \notin FaultKinds, StopTimes = {}
  PROVE  Spec => NodeStatusNeverRegresses
<1>1. Init => AllInv
  BY AllInvInit
<1>2. AllInv /\ [Next]_vars => AllInv'
  BY AllInvStep
<1>3. AllInv => StatusesTrue
  BY StatusOfRows
<1>4. AllInv /\ StatusesTrue' /\ [Next]_vars
        => [nodeRows' # nodeRows =>
              \A n \in Nodes, s \in Written : NodeStatusIs(n, s) =>
                \E t \in Written : s <= t /\ NodeStatusIs(n, t)']_vars
  BY StatusStep, MarksStayThere DEF AllInv
<1>5. QED
  BY <1>1, <1>2, <1>3, <1>4, PTL DEF Spec, NodeStatusNeverRegresses
===============================================================================
