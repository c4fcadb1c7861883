------------------------------ MODULE BatchWorkflow ------------------------------
(***************************************************************************)
(* One run of a script, from StartRun to its end: the messages of its      *)
(* batches, the workers that handle them (ProcessDataBatchMsg of           *)
(* pkg/api/message_handler.go), and the three history tables from which    *)
(* everything else is derived: wf_run_history, wf_batch_history and        *)
(* wf_node_history.                                                        *)
(*                                                                         *)
(* Every access to the database is an action: between any two of them      *)
(* another worker may run, the daemon may die, the lease of the message    *)
(* may run out and the message be given to somebody else.                  *)
(*                                                                         *)
(* A row's ts is the database's clock, in milliseconds, at the write, and  *)
(* only its order against the other rows of the same batch, node or run is *)
(* ever read.  A write stamps its row with the latest ts of those rows (it *)
(* fell in the same millisecond) or with the next one.                     *)
(***************************************************************************)
EXTENDS Integers, FiniteSets

CONSTANTS
  Batches,       \* batches of the run; the order is that of batch_idx in a node
  Nodes,         \* the run's affected nodes
  NodeOf,        \* NodeOf[b]: the node (TargetNodeName) of batch b
  Deps,          \* Deps[n]: the nodes that create n's reader and lookup tables
  RerunNodes,    \* nodes with rerun_policy "rerun"; the others have "fail"
  Fallible,      \* batches whose processing may fail
  Workers,       \* processing goroutines
  Daemons,
  DaemonOf,      \* DaemonOf[w]: the process w runs in
  StopTimes,     \* subset of {"starting", "running"}: when an operator may stop the run
  FaultKinds,    \* subset of {"crash", "connection", "timeout", "lease", "answer"}
  MaxFaults      \* bound: number of faults of these kinds in a behaviour

ASSUME WorkflowAssumption ==
  /\ Batches \subseteq Nat /\ IsFiniteSet(Batches)
  /\ NodeOf \in [Batches -> Nodes]
  /\ \A n \in Nodes : \E b \in Batches : NodeOf[b] = n
  /\ Deps \in [Nodes -> SUBSET Nodes]
  /\ DaemonOf \in [Workers -> Daemons]
  /\ MaxFaults \in Nat

\* NodeBatchStatusType (batch_history.go) and RunStatusType (run_history.go)
NodeBatchNone == 0
NodeBatchStart == 1
NodeBatchSuccess == 2
NodeBatchFail == 3
NodeBatchRunStopReceived == 104
Final == {NodeBatchSuccess, NodeBatchFail, NodeBatchRunStopReceived}
Written == {NodeBatchStart} \cup Final
Statuses == {NodeBatchNone} \cup Written

RunNone == 0
RunStart == 1
RunComplete == 2
RunStop == 3
RunWritten == {RunStart, RunComplete, RunStop}
RunStatuses == {RunNone} \cup RunWritten

VARIABLES
  \* the tables: ts of each row by its key, 0 where there is no row
  runRows,       \* runRows[status]
  batchRows,     \* batchRows[b][status]
  nodeRows,      \* nodeRows[b][status]: of node NodeOf[b], written_by_batch_idx b
  data,          \* data[b]: halves of b's rows in the data table of its node
  \* the broker: messages that wait, and messages that are leased
  sent, queue, wip,
  \* the workers
  phase, task, seen,
  cache,         \* cache[d][n]: NodeDependencyReadynessCache of daemon d
  faults         \* number of faults so far

tables == <<runRows, batchRows, nodeRows, data>>
broker == <<sent, queue, wip>>
workers == <<phase, task, seen>>
vars == <<tables, broker, workers, cache, faults>>

\* What a worker does next: the steps of ProcessDataBatchMsg in their order.
Phases == {"idle", "runStatus", "lastStatus", "cleanUp", "depRuns", "depNodes", "nodeStart",
           "batchStart", "work1", "work2", "setStatus", "setStatusOnly", "readBatches",
           "writeNode", "readNodes", "writeRun", "ack", "retry"}
NoTask == -1
BatchesOf(n) == {b \in Batches : NodeOf[b] = n}
Full == 2        \* data[b] of a batch that was written once and completely

-------------------------------------------------------------------------------
\* ts of a row written now, next to rows with the time stamps old.
Stamps(old) ==
  {t \in old \cup {u + 1 : u \in old} : t > 0 /\ \A u \in old : u <= t}

\* RunHistoryRowsToStatus: the row with the latest ts.  Rows come in the order
\* of their key, and of rows with the same ts the first one wins.
RunStatusIs(s) ==
  IF s = RunNone
  THEN \A r \in RunWritten : runRows[r] = 0
  ELSE /\ runRows[s] > 0
       /\ \A r \in RunWritten : runRows[r] < runRows[s] \/ (runRows[r] = runRows[s] /\ s <= r)

\* RunHistoryEventsToRunStatusMap: stop > complete > start, whatever the order.
DepRunStatus ==
  CASE runRows[RunStop] > 0 -> RunStop
    [] runRows[RunStop] = 0 /\ runRows[RunComplete] > 0 -> RunComplete
    [] runRows[RunStop] = 0 /\ runRows[RunComplete] = 0 /\ runRows[RunStart] > 0 -> RunStart
    [] OTHER -> RunNone

\* SingleBatchHistoryRowsToLastBatchStatus: latest ts, ties go to the higher status.
LastBatchStatusIs(b, s) ==
  IF s = NodeBatchNone
  THEN \A r \in Written : batchRows[b][r] = 0
  ELSE /\ batchRows[b][s] > 0
       /\ \A r \in Written :
            \/ batchRows[b][r] < batchRows[b][s]
            \/ batchRows[b][r] = batchRows[b][s] /\ r <= s

\* AllBatchHistoryRowsToNodeStatus.  A batch is done when it has any final row,
\* a later start notwithstanding; without rows there is no batch in progress.
Done(b) == \E s \in Final : batchRows[b][s] > 0
HasBatchRow(n, s) == \E b \in BatchesOf(n) : batchRows[b][s] > 0

\* Faulty variant: only the batches that have a row are expected to be done.
NodeStatusFromBatches_OnlyFound(n) ==
  IF \E b \in BatchesOf(n) : batchRows[b][NodeBatchStart] > 0 /\ ~Done(b) THEN NodeBatchStart
  ELSE IF HasBatchRow(n, NodeBatchFail) THEN NodeBatchFail
  ELSE IF HasBatchRow(n, NodeBatchRunStopReceived) THEN NodeBatchRunStopReceived
  ELSE NodeBatchSuccess

NodeStatusFromBatches(n) ==
  IF (\E s \in Written : HasBatchRow(n, s)) /\ (\E b \in BatchesOf(n) : ~Done(b))
  THEN NodeBatchStart
  ELSE IF HasBatchRow(n, NodeBatchFail) THEN NodeBatchFail
  ELSE IF HasBatchRow(n, NodeBatchRunStopReceived) THEN NodeBatchRunStopReceived
  ELSE NodeBatchSuccess

\* NodeHistoryRowsToEvents keeps of each node and status one row: the earliest
\* start, the latest success, fail and stop; the first one where ts are equal.
Kept(n, s) ==
  {b \in BatchesOf(n) :
     /\ nodeRows[b][s] > 0
     /\ \A c \in BatchesOf(n) : nodeRows[c][s] > 0 =>
          \/ nodeRows[c][s] = nodeRows[b][s] /\ b <= c
          \/ s = NodeBatchStart /\ nodeRows[b][s] < nodeRows[c][s]
          \/ s # NodeBatchStart /\ nodeRows[c][s] < nodeRows[b][s]}

\* The order those events are sorted in: ts, written_by_batch_idx, status.
EventBefore(b, s, c, t) ==
  \/ nodeRows[b][s] < nodeRows[c][t]
  \/ nodeRows[b][s] = nodeRows[c][t] /\ (b < c \/ (b = c /\ s <= t))

\* FigureOutRunStatusAndAffectedNodesStatusesFromNodeEvents, for one node: stop
\* if there ever was one, else the last event.
NodeStatusIs(n, s) ==
  IF s = NodeBatchNone
  THEN \A t \in Written : Kept(n, t) = {}
  ELSE \/ s = NodeBatchRunStopReceived /\ Kept(n, s) # {}
       \/ /\ Kept(n, NodeBatchRunStopReceived) = {}
          /\ \E b \in Kept(n, s) :
               \A t \in Written : \A c \in Kept(n, t) : EventBefore(c, t, b, s)

\* Faulty variant of RunIsOver: one node that has ended is enough.
RunIsOver_OneNode ==
  \E n \in Nodes : NodeStatusIs(n, NodeBatchSuccess) \/ NodeStatusIs(n, NodeBatchFail)

\* The same function for the run: every node has ended, none by a stop.
RunIsOver == \A n \in Nodes : NodeStatusIs(n, NodeBatchSuccess) \/ NodeStatusIs(n, NodeBatchFail)

\* Faulty variant of NodeCmd: a node that is running is taken for one that is done.
NodeCmd_StartIsGo(run, node) ==
  CASE run = RunStart /\ node \in {NodeBatchSuccess, NodeBatchStart} -> "go"
    [] run = RunStart /\ node = NodeBatchFail -> "nogo"
    [] OTHER -> "wait"

\* DefaultPolicyCheckerConf and CheckDependencyPolicyAgainstNodeEventList, for a
\* dependency node of the current run; no rule matches a stopped run: wait.
NodeCmd(run, node) ==
  CASE run = RunStart /\ node = NodeBatchSuccess -> "go"
    [] run = RunStart /\ node = NodeBatchFail -> "nogo"
    [] OTHER -> "wait"

\* checkDependencyNodesReady: the reader's and the lookup's node together.
DependencyCmd(n, run) ==
  LET cmds == {NodeCmd(run, s) : s \in {t \in Statuses : \E m \in Deps[n] : NodeStatusIs(m, t)}}
  IN  IF "nogo" \in cmds THEN "nogo" ELSE IF "wait" \in cmds THEN "wait" ELSE "go"

-------------------------------------------------------------------------------
Init ==
  /\ runRows = [s \in RunWritten |-> 0]
  /\ batchRows = [b \in Batches |-> [s \in Written |-> 0]]
  /\ nodeRows = [b \in Batches |-> [s \in Written |-> 0]]
  /\ data = [b \in Batches |-> 0]
  /\ sent = FALSE /\ queue = {} /\ wip = {}
  /\ phase = [w \in Workers |-> "idle"]
  /\ task = [w \in Workers |-> NoTask]
  /\ seen = [w \in Workers |-> NodeBatchNone]
  /\ cache = [d \in Daemons |-> [n \in Nodes |-> "none"]]
  /\ faults = 0

\* SetRunStatus inserts IF NOT EXISTS: the row of a status is written once.
SetRunStatus(s) ==
  IF runRows[s] > 0 THEN UNCHANGED runRows
  ELSE \E t \in Stamps({runRows[r] : r \in RunWritten}) : runRows' = [runRows EXCEPT ![s] = t]

\* The rows of batch and node history are overwritten.
SetBatchStatus(b, s) ==
  \E t \in Stamps({batchRows[b][r] : r \in Written}) : batchRows' = [batchRows EXCEPT ![b][s] = t]

SetNodeStatus(b, s) ==
  \E t \in Stamps(UNION {{nodeRows[c][r] : r \in Written} : c \in BatchesOf(NodeOf[b])}) :
    nodeRows' = [nodeRows EXCEPT ![b][s] = t]

\* StartRun: the run is marked started, then all its messages are sent in bulk.
StartRunMark ==
  /\ runRows[RunStart] = 0
  /\ SetRunStatus(RunStart)
  /\ UNCHANGED <<batchRows, nodeRows, data, broker, workers, cache, faults>>

StartRunSend ==
  /\ runRows[RunStart] > 0 /\ ~sent
  /\ sent' = TRUE /\ queue' = Batches
  /\ UNCHANGED <<tables, wip, workers, cache, faults>>

\* StopRun checks nothing.  An operator may stop the run at any time, even as
\* StartRun is still creating its tables; or he waits for StartRun to return,
\* and is then later than the start by a millisecond at least.
StopRun ==
  /\ runRows[RunStop] = 0
  /\ \/ "starting" \in StopTimes /\ SetRunStatus(RunStop)
     \/ /\ "running" \in StopTimes /\ sent
        /\ SetRunStatus(RunStop) /\ runRows'[RunStop] > runRows[RunStart]
  /\ UNCHANGED <<batchRows, nodeRows, data, broker, workers, cache, faults>>

-------------------------------------------------------------------------------
\* Worker w goes on with step p, remembering status s.
Goto(w, p, s) ==
  /\ phase' = [phase EXCEPT ![w] = p]
  /\ seen' = [seen EXCEPT ![w] = s]
  /\ UNCHANGED <<task, faults>>

\* The daemon takes a message from the broker and starts ProcessDataBatchMsg.
Claim(w, b) ==
  /\ phase[w] = "idle" /\ b \in queue
  /\ queue' = queue \ {b} /\ wip' = wip \cup {b}
  /\ phase' = [phase EXCEPT ![w] = "runStatus"]
  /\ task' = [task EXCEPT ![w] = b]
  /\ UNCHANGED <<tables, sent, seen, cache, faults>>

\* checkRunStatus
CheckRunStatus(w) ==
  /\ phase[w] = "runStatus"
  /\ \/ RunStatusIs(RunNone) /\ Goto(w, "setStatus", NodeBatchFail)
     \/ RunStatusIs(RunStart) /\ Goto(w, "lastStatus", NodeBatchNone)
     \/ RunStatusIs(RunComplete) /\ Goto(w, "ack", NodeBatchNone)
     \/ RunStatusIs(RunStop) /\ Goto(w, "setStatus", NodeBatchRunStopReceived)
  /\ UNCHANGED <<tables, broker, cache>>

\* Faulty variant of CheckLastBatchStatus: a batch that was processed already
\* is processed once more.
CheckLastBatchStatus_NoDedup(w) ==
  /\ phase[w] = "lastStatus"
  /\ \/ \E s \in {NodeBatchNone, NodeBatchFail, NodeBatchSuccess} :
          LastBatchStatusIs(task[w], s) /\ Goto(w, "depRuns", NodeBatchNone)
     \/ LastBatchStatusIs(task[w], NodeBatchRunStopReceived) /\ Goto(w, "ack", NodeBatchNone)
     \/ /\ LastBatchStatusIs(task[w], NodeBatchStart)
        /\ IF NodeOf[task[w]] \in RerunNodes THEN Goto(w, "retry", NodeBatchNone)
           ELSE Goto(w, "setStatus", NodeBatchFail)
  /\ UNCHANGED <<tables, broker, cache>>

\* Faulty variant of CheckLastBatchStatus: a processed batch is acknowledged
\* and its node's status is not looked after.
CheckLastBatchStatus_NoRefresh(w) ==
  /\ phase[w] = "lastStatus"
  /\ \/ \E s \in Final : LastBatchStatusIs(task[w], s) /\ Goto(w, "ack", NodeBatchNone)
     \/ LastBatchStatusIs(task[w], NodeBatchNone) /\ Goto(w, "depRuns", NodeBatchNone)
     \/ /\ LastBatchStatusIs(task[w], NodeBatchStart)
        /\ IF NodeOf[task[w]] \in RerunNodes THEN Goto(w, "retry", NodeBatchNone)
           ELSE Goto(w, "setStatus", NodeBatchFail)
  /\ UNCHANGED <<tables, broker, cache>>

\* checkLastBatchStatus, all but the end of the grace period.  A batch somebody
\* has started is left to him until max_batch_processing_time is over.  The
\* script is loaded before (initCtxScript): that it cannot be is a connection
\* error (the message goes back) or another one (it is acknowledged).
CheckLastBatchStatus(w) ==
  /\ phase[w] = "lastStatus"
  /\ \/ \E s \in {NodeBatchFail, NodeBatchSuccess} :
          LastBatchStatusIs(task[w], s) /\ Goto(w, "readBatches", NodeBatchNone)
     \/ LastBatchStatusIs(task[w], NodeBatchRunStopReceived) /\ Goto(w, "ack", NodeBatchNone)
     \/ LastBatchStatusIs(task[w], NodeBatchNone) /\ Goto(w, "depRuns", NodeBatchNone)
     \/ /\ LastBatchStatusIs(task[w], NodeBatchStart)
        /\ IF NodeOf[task[w]] \in RerunNodes THEN Goto(w, "retry", NodeBatchNone)
           ELSE Goto(w, "setStatus", NodeBatchFail)
  /\ UNCHANGED <<tables, broker, cache>>

\* The phases between the write of the start row and the write of the status
\* that ends it.
AtWork == {"work1", "work2", "setStatus"}

\* Faulty variant of RerunAbandoned: the grace period begins anew at each look.
RerunAbandoned_Never(w) == phase[w] = "lastStatus" /\ Goto(w, "cleanUp", NodeBatchNone) /\ FALSE

\* checkLastBatchStatus, the grace period over.  max_batch_processing_time is
\* the operator's bound on the work on a batch: who started it has either
\* reported the result or died.
RerunAbandoned(w) ==
  /\ phase[w] = "lastStatus"
  /\ LastBatchStatusIs(task[w], NodeBatchStart) /\ NodeOf[task[w]] \in RerunNodes
  /\ \A v \in Workers : task[v] = task[w] => phase[v] \notin AtWork
  /\ Goto(w, "cleanUp", NodeBatchNone)
  /\ UNCHANGED <<tables, broker, cache>>

\* Faulty variant of CleanUp: the leftovers stay.
CleanUp_Skipped(w) ==
  /\ phase[w] = "cleanUp"
  /\ Goto(w, "depRuns", NodeBatchNone)
  /\ UNCHANGED <<tables, broker, cache>>

\* DeleteDataAndUniqueIndexesByBatchIdx
CleanUp(w) ==
  /\ phase[w] = "cleanUp"
  /\ data' = [data EXCEPT ![task[w]] = 0]
  /\ Goto(w, "depRuns", NodeBatchNone)
  /\ UNCHANGED <<runRows, batchRows, nodeRows, broker, cache>>

-------------------------------------------------------------------------------
\* checkDependencyNogoOrWait
ActOn(w, cmd) ==
  CASE cmd = "go" -> Goto(w, "nodeStart", NodeBatchNone)
    [] cmd = "wait" -> Goto(w, "retry", NodeBatchNone)
    [] cmd = "nogo" -> Goto(w, "setStatus", NodeBatchFail)

\* checkDependencyNodesReady: first the cache, then the run history, then the
\* node history; seen holds the run status in between.
CheckDependencyRuns(w) ==
  LET n == NodeOf[task[w]]  cached == cache[DaemonOf[w]][n]
  IN  /\ phase[w] = "depRuns"
      /\ IF cached # "none" THEN ActOn(w, cached)
         ELSE IF Deps[n] = {} THEN ActOn(w, "go")
         ELSE Goto(w, "depNodes", DepRunStatus)
      /\ UNCHANGED <<tables, broker, cache>>

CheckDependencyNodes(w) ==
  LET n == NodeOf[task[w]]  cmd == DependencyCmd(n, seen[w])
  IN  /\ phase[w] = "depNodes"
      /\ cache' = [cache EXCEPT ![DaemonOf[w]][n] = cmd]
      /\ ActOn(w, cmd)
      /\ UNCHANGED <<tables, broker>>

\* Faulty variant of CacheExpires: what is cached once stays.
CacheExpires_OnlyGo(d, n) ==
  /\ cache[d][n] = "go"
  /\ cache' = [cache EXCEPT ![d][n] = "none"]
  /\ UNCHANGED <<tables, broker, workers, faults>>

CacheExpires(d, n) ==
  /\ cache[d][n] # "none"
  /\ cache' = [cache EXCEPT ![d][n] = "none"]
  /\ UNCHANGED <<tables, broker, workers, faults>>

-------------------------------------------------------------------------------
MarkNodeStart(w) ==
  /\ phase[w] = "nodeStart"
  /\ SetNodeStatus(task[w], NodeBatchStart)
  /\ Goto(w, "batchStart", NodeBatchNone)
  /\ UNCHANGED <<runRows, batchRows, data, broker, cache>>

MarkBatchStart(w) ==
  /\ phase[w] = "batchStart"
  /\ SetBatchStatus(task[w], NodeBatchStart)
  /\ Goto(w, "work1", NodeBatchNone)
  /\ UNCHANGED <<runRows, nodeRows, data, broker, cache>>

\* CallAppropriateProcessorForBatch: rows are inserted as the batch is read, and
\* those inserted before an error stay.
Process(w) ==
  /\ \/ /\ phase[w] = "work1"
        /\ data' = [data EXCEPT ![task[w]] = @ + 1]
        /\ Goto(w, "work2", NodeBatchNone)
     \/ /\ phase[w] = "work2"
        /\ data' = [data EXCEPT ![task[w]] = @ + 1]
        /\ Goto(w, "setStatus", NodeBatchSuccess)
     \/ /\ phase[w] \in {"work1", "work2"} /\ task[w] \in Fallible
        /\ Goto(w, "setStatus", NodeBatchFail)
        /\ UNCHANGED data
  /\ UNCHANGED <<runRows, batchRows, nodeRows, broker, cache>>

\* The status that ends the batch; then refreshNodeAndRunStatus, except after a
\* clean-up that failed.
ReportBatch(w) ==
  /\ phase[w] \in {"setStatus", "setStatusOnly"}
  /\ SetBatchStatus(task[w], seen[w])
  /\ Goto(w, IF phase[w] = "setStatus" THEN "readBatches" ELSE "ack", NodeBatchNone)
  /\ UNCHANGED <<runRows, nodeRows, data, broker, cache>>

-------------------------------------------------------------------------------
\* updateNodeStatusFromBatches: the read, and the write of what was read.
ReadBatches(w) ==
  LET s == NodeStatusFromBatches(NodeOf[task[w]])
  IN  /\ phase[w] = "readBatches"
      /\ IF s \in Final THEN Goto(w, "writeNode", s) ELSE Goto(w, "readNodes", NodeBatchNone)
      /\ UNCHANGED <<tables, broker, cache>>

WriteNode(w) ==
  /\ phase[w] = "writeNode"
  /\ SetNodeStatus(task[w], seen[w])
  /\ Goto(w, "readNodes", NodeBatchNone)
  /\ UNCHANGED <<runRows, batchRows, data, broker, cache>>

\* updateRunStatusFromNodes
ReadNodes(w) ==
  /\ phase[w] = "readNodes"
  /\ Goto(w, IF RunIsOver THEN "writeRun" ELSE "ack", NodeBatchNone)
  /\ UNCHANGED <<tables, broker, cache>>

WriteRun(w) ==
  /\ phase[w] = "writeRun"
  /\ SetRunStatus(RunComplete)
  /\ Goto(w, "ack", NodeBatchNone)
  /\ UNCHANGED <<batchRows, nodeRows, data, broker, cache>>

-------------------------------------------------------------------------------
\* Faulty variant of Rest: the message is forgotten, the worker not set free.
Rest_StaysBusy(w) ==
  /\ task' = [task EXCEPT ![w] = NoTask]
  /\ UNCHANGED <<phase, seen, sent, tables, cache, faults>>

\* The worker is free for the next message.
Rest(w) ==
  /\ phase' = [phase EXCEPT ![w] = "idle"]
  /\ task' = [task EXCEPT ![w] = NoTask]
  /\ UNCHANGED <<seen, sent, tables, cache, faults>>

\* The broker looks a message up among the leased ones by its id, whoever
\* leased it; when it is not there the request has no effect.
SendAck(w) ==
  /\ phase[w] = "ack"
  /\ wip' = wip \ {task[w]}
  /\ UNCHANGED queue
  /\ Rest(w)

SendRetry(w) ==
  /\ phase[w] = "retry"
  /\ wip' = wip \ {task[w]}
  /\ queue' = IF task[w] \in wip THEN queue \cup {task[w]} ELSE queue
  /\ Rest(w)

\* ReturnDead: the lease of a message runs out, as its daemon died or as the
\* answer of its worker was lost.
LeaseExpires(b) ==
  /\ b \in wip /\ \A w \in Workers : task[w] # b
  /\ wip' = wip \ {b} /\ queue' = queue \cup {b}
  /\ UNCHANGED <<tables, sent, workers, cache, faults>>

\* The same while somebody works on the message: his heartbeats did not reach
\* the broker, or were not sent.
LeaseLost(b) ==
  /\ b \in wip /\ \E w \in Workers : task[w] = b
  /\ "lease" \in FaultKinds /\ faults < MaxFaults
  /\ faults' = faults + 1
  /\ wip' = wip \ {b} /\ queue' = queue \cup {b}
  /\ UNCHANGED <<tables, sent, workers, cache>>

\* A fault of kind k strikes worker w, which goes on with step p.
Fault(k, w, p, s) ==
  /\ k \in FaultKinds /\ faults < MaxFaults
  /\ faults' = faults + 1
  /\ phase' = [phase EXCEPT ![w] = p]
  /\ seen' = [seen EXCEPT ![w] = s]
  /\ UNCHANGED <<task, tables, broker, cache>>

\* The request of acknowledgerWorker fails, which it only logs.
AnswerLost(w) ==
  /\ phase[w] \in {"ack", "retry"}
  /\ "answer" \in FaultKinds /\ faults < MaxFaults
  /\ faults' = faults + 1
  /\ phase' = [phase EXCEPT ![w] = "idle"]
  /\ task' = [task EXCEPT ![w] = NoTask]
  /\ UNCHANGED <<seen, tables, broker, cache>>

\* IsDbConnError: the message is given back, whatever the step (but the report
\* of a failed clean-up).  A write whose answer is lost is the write followed
\* by this error at the next step.
ConnectionError(w) ==
  /\ phase[w] \notin {"idle", "ack", "retry"}
  /\ Fault("connection", w, IF phase[w] = "setStatusOnly" THEN "ack" ELSE "retry", NodeBatchNone)

\* Any other error of the database, a timeout say: the message is acknowledged,
\* except that the error of the processor makes the batch fail, that a failed
\* clean-up is reported in the batch status, and that a run that was never
\* started goes on to refresh its status (there seen is Fail and no row is there).
OtherError(w) ==
  CASE phase[w] \in {"work1", "work2"} -> Fault("timeout", w, "setStatus", NodeBatchFail)
    [] phase[w] = "cleanUp" -> Fault("timeout", w, "setStatusOnly", NodeBatchFail)
    [] phase[w] = "setStatus" /\ RunStatusIs(RunNone) ->
         Fault("timeout", w, "readBatches", NodeBatchNone)
    [] phase[w] \in {"idle", "ack", "retry"} -> FALSE
    [] OTHER -> Fault("timeout", w, "ack", NodeBatchNone)

\* The daemon dies, and all its workers with it.
Crash(d) ==
  LET dying == {w \in Workers : DaemonOf[w] = d}
  IN  /\ "crash" \in FaultKinds /\ faults < MaxFaults
      /\ \E w \in dying : phase[w] # "idle"
      /\ faults' = faults + 1
      /\ phase' = [w \in Workers |-> IF w \in dying THEN "idle" ELSE phase[w]]
      /\ task' = [w \in Workers |-> IF w \in dying THEN NoTask ELSE task[w]]
      /\ seen' = [w \in Workers |-> IF w \in dying THEN NodeBatchNone ELSE seen[w]]
      /\ cache' = [cache EXCEPT ![d] = [n \in Nodes |-> "none"]]
      /\ UNCHANGED <<tables, broker>>

-------------------------------------------------------------------------------
\* One step of ProcessDataBatchMsg, or the message that ends it.
Step(w) ==
  \/ CheckRunStatus(w) \/ CheckLastBatchStatus(w) \/ CleanUp(w)
  \/ CheckDependencyRuns(w) \/ CheckDependencyNodes(w)
  \/ MarkNodeStart(w) \/ MarkBatchStart(w) \/ Process(w) \/ ReportBatch(w)
  \/ ReadBatches(w) \/ WriteNode(w) \/ ReadNodes(w) \/ WriteRun(w)
  \/ SendAck(w) \/ SendRetry(w)

Next ==
  \/ StartRunMark \/ StartRunSend \/ StopRun
  \/ \E w \in Workers, b \in Batches : Claim(w, b)
  \/ \E w \in Workers : Step(w)
  \/ \E w \in Workers : RerunAbandoned(w)
  \/ \E d \in Daemons, n \in Nodes : CacheExpires(d, n)
  \/ \E b \in Batches : LeaseExpires(b) \/ LeaseLost(b)
  \/ \E w \in Workers : ConnectionError(w) \/ OtherError(w) \/ AnswerLost(w)
  \/ \E d \in Daemons : Crash(d)

Spec == Init /\ [][Next]_vars

\* What the code and its surroundings keep going: StartRun; the goroutines; the
\* broker, which postpones a returned message and so comes round to every other;
\* the clock, which ends leases of dead workers, cache entries and, at one of
\* the deliveries, the grace period.  No fault is fair.
Fairness ==
  /\ WF_vars(StartRunMark) /\ WF_vars(StartRunSend)
  /\ \A w \in Workers : WF_vars(Step(w))
  /\ \A b \in Batches :
       /\ SF_vars(\E w \in Workers : Claim(w, b))
       /\ SF_vars(\E w \in Workers : task[w] = b /\ RerunAbandoned(w))
       /\ WF_vars(LeaseExpires(b))
  /\ \A d \in Daemons, n \in Nodes : WF_vars(CacheExpires(d, n))

FairSpec == Spec /\ Fairness

-------------------------------------------------------------------------------
\* The tables, the broker and the workers have the shapes the code gives them.
TypeOK ==
  /\ runRows \in [RunWritten -> Nat]
  /\ batchRows \in [Batches -> [Written -> Nat]]
  /\ nodeRows \in [Batches -> [Written -> Nat]]
  /\ data \in [Batches -> Nat]
  /\ sent \in BOOLEAN /\ queue \subseteq Batches /\ wip \subseteq Batches
  /\ phase \in [Workers -> Phases]
  /\ task \in [Workers -> Batches \cup {NoTask}]
  /\ \A w \in Workers : phase[w] # "idle" => task[w] \in Batches
  /\ seen \in [Workers -> Statuses \cup RunStatuses]
  /\ cache \in [Daemons -> [Nodes -> {"none", "go", "wait", "nogo"}]]
  /\ faults \in 0..MaxFaults

\* "If all batches for this node are complete, mark node as complete" and the
\* same for the run (sequence.txt:19-20), which the workers do from reads that
\* may be stale when they write: a node is never marked ended while a batch of
\* it is not, nor a run complete while a node is not.
CompleteMeansDone ==
  /\ \A b \in Batches, s \in Final : nodeRows[b][s] > 0 => \A c \in BatchesOf(NodeOf[b]) : Done(c)
  /\ runRows[RunComplete] > 0 => \A b \in Batches : Done(b)

\* "The handler that handles the re-routed message needs to make sure that there
\* are no leftovers of the first message handler activity" (scriptconfig.md:64):
\* the rows of a batch that last succeeded are there, all of them, once.
DataOnce == \A b \in Batches : LastBatchStatusIs(b, NodeBatchSuccess) => data[b] = Full

\* A worker that reads the tables of its dependency nodes finds them complete:
\* each of their batches succeeded and its rows are there, once.
DependenciesComplete ==
  \A w \in Workers : phase[w] \in {"work1", "work2"} =>
    \A b \in Batches : NodeOf[b] \in Deps[NodeOf[task[w]]] =>
      batchRows[b][NodeBatchSuccess] > 0 /\ data[b] = Full

\* "A redelivered message for an already completed batch must be acked without
\* re-running it, or it duplicates data" (message_handler.go:409): once the
\* success of a batch is recorded its rows never change again.
CompletedDataFrozen ==
  [][\A b \in Batches : batchRows[b][NodeBatchSuccess] > 0 => data'[b] = data[b]]_vars

\* A node's status only goes up, start < success < fail < stop, in the order in
\* which FigureOutRunStatusAndAffectedNodesStatusesFromNodeEvents (node_history.go:181)
\* ranks its events: no late writer takes it back.
NodeStatusNeverRegresses ==
  [][nodeRows' # nodeRows =>
       \A n \in Nodes, s \in Written : NodeStatusIs(n, s) =>
         \E t \in Written : s <= t /\ NodeStatusIs(n, t)']_vars

\* Whatever crashes, leases and connections do, a run that was started comes to
\* an end: it is complete, or it was stopped and every batch has ended.
RunEnds ==
  <>(\/ runRows[RunComplete] > 0
     \/ runRows[RunStop] > 0 /\ \A b \in Batches : Done(b))

\* "The window between SetBatchStatus(success) and refreshNodeAndRunStatus
\* self-heals" (message_handler.go:414): when all batches of a node have ended,
\* the node's status says so in the end.
NodeStatusHeals ==
  \A n \in Nodes : (\A b \in BatchesOf(n) : Done(b)) ~> \E s \in Final : NodeStatusIs(n, s)

\* Every message is acknowledged in the end: a wait for another node, for a
\* grace period or for a cache entry does not return it to the broker forever.
MessagesDrain == sent ~> [](queue \cup wip = {})

\* "A stopped run must not be retried forever" (message_handler.go:408): once a
\* run was stopped its messages leave the broker.
StoppedRunDrains == sent /\ runRows[RunStop] > 0 ~> queue \cup wip = {}
===============================================================================
