------------------------------- MODULE RunControl -------------------------------
(***************************************************************************)
(* Several runs of one script in one keyspace: operators that call         *)
(* StartRun (pkg/api/run.go) at the same time, each of its accesses to the *)
(* database and the broker a step that may fail, before or after it took   *)
(* effect; and the daemons, which for every batch choose the run whose     *)
(* table it reads (pkg/dpc).  How a daemon handles a batch is              *)
(* BatchWorkflow's subject: here a batch starts, ends, and its node's      *)
(* status follows.                                                         *)
(***************************************************************************)
EXTENDS Integers, Sequences, FiniteSets

CONSTANTS
  Scripts,     \* the scripts, see ScriptsAssumption
  Operators,   \* calls of StartRun
  MinToken, MaxToken,  \* ends of the token ring, MinInt64 and MaxInt64
  MaxInt16,
  MaxRetries,  \* of GetNextRunCounter
  FaultKinds,  \* subset of {"db", "broker", "stop"}
  MaxFaults    \* bound: failed accesses and stopped runs

\* reads[n]: the nodes that create n's reader and lookup table; batches[n]: of a file
\* reader its files, otherwise expected_batches_total.  A batch index fits into int16.
ASSUME ScriptsAssumption ==
  \A s \in Scripts :
    /\ s.nodes \subseteq Nat \ {0}
    /\ s.reads \in [s.nodes -> SUBSET s.nodes]
    /\ \A n \in s.nodes : Cardinality(s.reads[n]) <= 2 /\ \A d \in s.reads[n] : d < n
    /\ s.batches \in [s.nodes -> 1..MaxInt16]
    /\ {s.manual, s.fallible} \subseteq SUBSET s.nodes
    /\ s.starts \subseteq (SUBSET s.nodes) \ {{}}  \* start nodes an operator may choose
    /\ s.bulk \in BOOLEAN  \* the broker takes all messages of a run at once
    /\ s.calls \in Nat     \* bound: calls of StartRun
ASSUME TokensAssumption ==
  MinToken \in Int /\ MaxToken \in Nat /\ MinToken < 0 /\ MaxInt16 \in Nat

VARIABLES
  script,
  lastRun,     \* wf_run_counter
  properties,  \* wf_run_properties: properties[r] = [start, affected]
  history,     \* wf_run_history: history[r], the statuses in the order they were written
  batches,     \* batches[m]: what became of message m
  op,          \* op[o]: [pc, start, run, read, tries, todo]
  faults
vars == <<script, lastRun, properties, history, batches, op, faults>>

None == "none"
Start == "start"
Success == "success"
Fail == "fail"
StopReceived == "stop"
Complete == "complete"
Final == {Success, Fail, StopReceived}

-------------------------------------------------------------------------------
\* The nodes of a run.

Children(s, S) == {n \in s.nodes : s.reads[n] \cap S # {}}
\* The least of the sets, if they are closed under intersection.
Least(U, sets) == {n \in U : \A S \in sets : n \in S}
Reached(s, start) ==
  Least(s.nodes, {S \in SUBSET s.nodes : start \cup Children(s, S) \subseteq S})

\* Faulty variant: what reads a manual node is not manual.
ManualSet_NotInherited(s, start) == s.manual \cap Children(s, Reached(s, start))

\* addChildrenToManual from every start node: the manual nodes that can be reached from
\* one, and what depends on them, unless they are started themselves.
ManualSet(s, start) ==
  LET reached == Reached(s, start)
      Below(M) == {n \in reached : s.reads[n] \cap (M \ start) # {}}
  IN Least(reached, {M \in SUBSET reached :
                       (s.manual \cap Children(s, reached)) \cup Below(M) \subseteq M})

\* addChildrenToAffected, GetAffectedNodes.
Affected(s, start) ==
  Least(s.nodes, {S \in SUBSET s.nodes :
                    start \cup (Children(s, S) \ ManualSet(s, start)) \subseteq S})
AffectedNodes == [s \in Scripts |-> [start \in s.starts |-> Affected(s, start)]]

\* Go's integer division cuts off towards zero.
Quo(x, n) == IF x >= 0 THEN x \div n ELSE -((-x) \div n)

\* Faulty variant: every interval has the same length.
Interval_NotPinned(n, k) ==
  LET total == script.batches[n]
      length == Quo(MaxToken, total) - Quo(MinToken, total)
  IN IF script.reads[n] = {} THEN <<k, k>>
     ELSE IF total = 1 THEN <<MinToken, MaxToken>>
     ELSE <<MinToken + k * length, MinToken + (k + 1) * length - 1>>

\* GetTokenIntervalsByNumberOfBatches: of a file reader, file k; otherwise the k-th part
\* of the ring, the last one up to its end.
Interval(n, k) ==
  LET total == script.batches[n]
      length == Quo(MaxToken, total) - Quo(MinToken, total)
  IN IF script.reads[n] = {} THEN <<k, k>>
     ELSE IF total = 1 THEN <<MinToken, MaxToken>>
     ELSE <<MinToken + k * length,
            IF k = total - 1 THEN MaxToken ELSE MinToken + (k + 1) * length - 1>>

\* The messages of run r.
Messages(r, nodes) ==
  UNION {{[run |-> r, node |-> n, idx |-> k, total |-> script.batches[n],
           tokens |-> Interval(n, k)] : k \in 0..(script.batches[n] - 1)} : n \in nodes}

-------------------------------------------------------------------------------
\* StartRun.

Init ==
  /\ script \in Scripts
  /\ lastRun = 0
  /\ properties = <<>>
  /\ history = [r \in 1..MaxInt16 |-> <<>>]
  /\ batches = <<>>
  /\ op = [o \in Operators |->
            [pc |-> "idle", start |-> {}, run |-> 0, read |-> 0, tries |-> 0, todo |-> {}]]
  /\ faults = 0

Go(o, pc) == op' = [op EXCEPT ![o].pc = pc]

\* The access fails, after or before it took effect, which says whether it does now.
Fails(o, kind) ==
  /\ kind \in FaultKinds /\ faults < MaxFaults
  /\ faults' = faults + 1
  /\ Go(o, "failed")

\* An operator calls StartRun.
CallStartRun(o) ==
  /\ op[o].pc = "idle"
  /\ Cardinality({q \in Operators : op[q].pc # "idle"}) < script.calls
  /\ \E start \in script.starts :
       op' = [op EXCEPT ![o].pc = "counter", ![o].start = start]
  /\ UNCHANGED <<script, lastRun, properties, history, batches, faults>>

\* GetNextRunCounter: read the counter; 32767 was the last run.
ReadCounter(o) ==
  /\ op[o].pc = "counter"
  /\ op' = IF lastRun + 1 > MaxInt16 THEN [op EXCEPT ![o].pc = "failed"]
           ELSE [op EXCEPT ![o].pc = "increment", ![o].read = lastRun]
  /\ UNCHANGED <<script, lastRun, properties, history, batches, faults>>

\* Faulty variant: a plain update in place of compare-and-set.
Increments_Always(o) == TRUE

\* "It is the entire anti-collision mechanism" (run_counter.go:66).
Increments(o) == lastRun = op[o].read

IncrementCounter(o) ==
  /\ op[o].pc = "increment"
  /\ \/ /\ Increments(o)
        /\ lastRun' = op[o].read + 1
        /\ op' = [op EXCEPT ![o].pc = "properties", ![o].run = op[o].read + 1,
                                 ![o].read = 0, ![o].tries = 0]
     \/ /\ ~Increments(o)
        /\ op' = [op EXCEPT ![o].tries = @ + 1,
                            ![o].pc = IF op[o].tries + 1 = MaxRetries THEN "failed"
                                      ELSE "counter"]
        /\ UNCHANGED lastRun
  /\ UNCHANGED <<script, properties, history, batches, faults>>

IncrementFails(o) ==
  /\ op[o].pc = "increment"
  /\ Fails(o, "db")
  /\ lastRun' \in {lastRun, IF Increments(o) THEN op[o].read + 1 ELSE lastRun}
  /\ UNCHANGED <<script, properties, history, batches>>

\* WriteRunProperties: if there are none of this run.
WithProperties(o) ==
  LET p == [start |-> op[o].start, affected |-> AffectedNodes[script][op[o].start]]
  IN IF op[o].run \in DOMAIN properties THEN properties
     ELSE [r \in DOMAIN properties \cup {op[o].run} |->
             IF r = op[o].run THEN p ELSE properties[r]]

WriteRunProperties(o) ==
  /\ op[o].pc = "properties"
  /\ properties' = WithProperties(o)
  /\ Go(o, "tables")
  /\ UNCHANGED <<script, lastRun, history, batches, faults>>

PropertiesFail(o) ==
  /\ op[o].pc = "properties"
  /\ Fails(o, "db")
  /\ properties' \in {properties, WithProperties(o)}
  /\ UNCHANGED <<script, lastRun, history, batches>>

\* The tables of the run's nodes; what a failure leaves of them is of no consequence.
CreateTables(o) ==
  /\ op[o].pc = "tables"
  /\ Go(o, "status")
  /\ UNCHANGED <<script, lastRun, properties, history, batches, faults>>

CreateTableFails(o) ==
  /\ op[o].pc = "tables"
  /\ Fails(o, "db")
  /\ UNCHANGED <<script, lastRun, properties, history, batches>>

WithStatus(r, s) == [history EXCEPT ![r] = Append(@, s)]

\* SetRunStatus(RunStart).
SetRunStart(o) ==
  /\ op[o].pc = "status"
  /\ history' = WithStatus(op[o].run, Start)
  /\ op' = [op EXCEPT ![o].pc = "send",
                      ![o].todo = Messages(op[o].run, AffectedNodes[script][op[o].start])]
  /\ UNCHANGED <<script, lastRun, properties, batches, faults>>

SetRunStartFails(o) ==
  /\ op[o].pc = "status"
  /\ Fails(o, "db")
  /\ history' \in {history, WithStatus(op[o].run, Start)}
  /\ UNCHANGED <<script, lastRun, properties, batches>>

Queued == [status |-> "queued", from |-> <<>>]
With(M) == [m \in DOMAIN batches \cup M |-> IF m \in M THEN Queued ELSE batches[m]]
Requests(o) == IF script.bulk THEN {op[o].todo} ELSE {{m} : m \in op[o].todo}

\* SendBulk, or Send of one message after the other.
SendMessages(o) ==
  /\ op[o].pc = "send"
  /\ \E M \in Requests(o) :
       /\ batches' = With(M)
       /\ op' = [op EXCEPT ![o].todo = @ \ M, ![o].pc = IF M = op[o].todo THEN "done" ELSE @]
  /\ UNCHANGED <<script, lastRun, properties, history, faults>>

SendFails(o) ==
  /\ op[o].pc = "send"
  /\ Fails(o, "broker")
  /\ \E M \in Requests(o) : batches' \in {batches, With(M)}
  /\ UNCHANGED <<script, lastRun, properties, history>>

\* StopRun, of a run that the front end lists.
StopRun(r) ==
  /\ "stop" \in FaultKinds /\ faults < MaxFaults
  /\ r \in DOMAIN properties /\ StopReceived \notin {history[r][k] : k \in DOMAIN history[r]}
  /\ history' = WithStatus(r, StopReceived)
  /\ faults' = faults + 1
  /\ UNCHANGED <<script, lastRun, properties, batches, op>>

-------------------------------------------------------------------------------
\* The daemons.

Of(r, n) == {m \in DOMAIN batches : m.run = r /\ m.node = n}
StatusOf(M) == {batches[m].status : m \in M}

\* What wf_node_history says: a node starts with its first batch; all its batches are in
\* when as many as a message's total have ended.
NodeStatus(r, n) ==
  LET M == Of(r, n)
      ended == {m \in M : batches[m].status \in Final}
  IN CASE StatusOf(M) \subseteq {"queued", "refused"}      -> None
       [] StatusOf(M) \cap (Final \cup {Start}) # {}
            /\ Cardinality(ended) < script.batches[n]      -> Start
       [] Cardinality(ended) = script.batches[n]           ->
            IF Fail \in StatusOf(M) THEN Fail
            ELSE IF StopReceived \in StatusOf(M) THEN StopReceived ELSE Success

\* RunHistoryEventsToRunStatusMap.
RunStatus(r) ==
  LET written == {history[r][k] : k \in DOMAIN history[r]}
  IN CASE StopReceived \in written -> StopReceived
       [] StopReceived \notin written /\ Complete \in written -> Complete
       [] written = {Start} -> Start
       [] written = {} -> None
Last(s) == s[Len(s)]

\* The rules of the default policy, in their order: go, wait or nogo for the run's own
\* nodes or another run's, run status, node status.
Rule(cmd, current, run, node) == [cmd |-> cmd, current |-> current, run |-> run, node |-> node]
Rules ==
  <<Rule("go",   TRUE,  {Start},       {Success}),
    Rule("wait", TRUE,  {Start, None}, {None}),
    Rule("wait", TRUE,  {Start, None}, {Start}),
    Rule("nogo", TRUE,  {Start},       {Fail}),
    Rule("go",   FALSE, {Start},       {Success}),
    Rule("wait", FALSE, {Start, None}, {None}),
    Rule("wait", FALSE, {Start, None}, {Start}),
    Rule("go",   FALSE, {Complete},    {Success}),
    Rule("nogo", FALSE, {Complete},    {Fail}),
    Rule("nogo", FALSE, {StopReceived}, {None, Start} \cup Final)>>

\* BuildDependencyNodeRunStatusMap: the runs that affect node d.
Candidates(d) == {r \in DOMAIN properties : d \in properties[r].affected}
Matches(rule, r, d, current) ==
  rule.current = (r = current) /\ RunStatus(r) \in rule.run /\ NodeStatus(r, d) \in rule.node

\* Faulty variant: the highest run number comes first, the current run or not.
Before_NewestFirst(r, q, current) == r > q

\* "run_is_current(desc), run_id(desc)".
Before(r, q, current) == r = current \/ (q # current /\ r > q)

\* CheckDependencyPolicyAgainstNodeEventList: the first rule that matches the first event
\* that any rule matches; if there is none, wait.
Verdict(d, current) ==
  LET matched == {r \in Candidates(d) : \E k \in DOMAIN Rules : Matches(Rules[k], r, d, current)}
      first(R) == CHOOSE r \in R : \A q \in R \ {r} : Before(r, q, current)
      rule(r) == CHOOSE k \in DOMAIN Rules :
                   /\ Matches(Rules[k], r, d, current)
                   /\ \A j \in 1..(k - 1) : ~Matches(Rules[j], r, d, current)
  IN IF matched = {} THEN [cmd |-> "wait", run |-> first(Candidates(d))]
     ELSE [cmd |-> Rules[rule(first(matched))].cmd, run |-> first(matched)]

Becomes(m, status, from) ==
  batches' = [batches EXCEPT ![m] = [status |-> status, from |-> from]]
Idle(m) == batches[m].status = "queued"
Daemon(m) == UNCHANGED <<script, lastRun, properties, history, op, faults>>

Started(r) == Start \in {history[r][k] : k \in DOMAIN history[r]}

\* checkRunStatus: the run was stopped.
StopBatch(m) ==
  /\ Idle(m) /\ Last(history[m.run]) = StopReceived
  /\ Becomes(m, StopReceived, <<>>)
  /\ Daemon(m)

\* checkDependencyNodesReady of a node with a dependency that no run ever affected fails,
\* and the message is acknowledged: nothing is written, nobody handles it again.
RefuseBatch(m) ==
  /\ Idle(m) /\ Started(m.run)
  /\ \E d \in script.reads[m.node] : Candidates(d) = {}
  /\ Becomes(m, "refused", <<>>)
  /\ Daemon(m)

Verdicts(m) == [d \in script.reads[m.node] |-> Verdict(d, m.run)]
Commands(m) == {Verdicts(m)[d].cmd : d \in script.reads[m.node]}
\* The worker read the run's status while it was RunStart; the run may have been stopped
\* since, or, by somebody who saw its properties, before it was marked started.
Ready(m) ==
  /\ Idle(m) /\ Started(m.run)
  /\ \A d \in script.reads[m.node] : Candidates(d) # {}

\* checkDependencyNogoOrWait: nogo.  To wait is to do nothing.
NogoBatch(m) ==
  /\ Ready(m) /\ "nogo" \in Commands(m)
  /\ Becomes(m, Fail, <<>>)
  /\ Daemon(m)

StartBatch(m) ==
  /\ Ready(m) /\ Commands(m) \subseteq {"go"}
  /\ Becomes(m, Start, [d \in script.reads[m.node] |-> Verdicts(m)[d].run])
  /\ Daemon(m)

EndBatch(m) ==
  /\ batches[m].status = Start
  /\ \E s \in {Success} \cup (IF m.node \in script.fallible THEN {Fail} ELSE {}) :
       Becomes(m, s, batches[m].from)
  /\ Daemon(m)

\* updateRunStatusFromNodes, by a worker whose batch ended, also if the run was stopped
\* meanwhile; a second row would say the same.
CompleteRun(r) ==
  /\ r \in DOMAIN properties /\ Complete \notin {history[r][k] : k \in DOMAIN history[r]}
  /\ \A n \in properties[r].affected : NodeStatus(r, n) \in {Success, Fail}
  /\ history' = WithStatus(r, Complete)
  /\ UNCHANGED <<script, lastRun, properties, batches, op, faults>>

-------------------------------------------------------------------------------
OperatorSteps(o) ==
  \/ ReadCounter(o) \/ IncrementCounter(o) \/ WriteRunProperties(o) \/ CreateTables(o)
  \/ SetRunStart(o) \/ SendMessages(o)
OperatorFails(o) ==
  \/ IncrementFails(o) \/ PropertiesFail(o) \/ CreateTableFails(o)
  \/ SetRunStartFails(o) \/ SendFails(o)
DaemonSteps(m) ==
  \/ StopBatch(m) \/ RefuseBatch(m) \/ NogoBatch(m) \/ StartBatch(m) \/ EndBatch(m)
Runs == 1..MaxInt16

\* Steps that happen by themselves, and steps that somebody takes or that befall.
Progress ==
  \/ \E o \in Operators : OperatorSteps(o)
  \/ \E m \in DOMAIN batches : DaemonSteps(m)
  \/ \E r \in Runs : CompleteRun(r)
Next ==
  \/ Progress
  \/ \E o \in Operators : CallStartRun(o) \/ OperatorFails(o)
  \/ \E r \in Runs : StopRun(r)

\* StartRun goes on when the database answers; a broker gives a message that waits to
\* some worker again and again, and workers end.  No step is ever undone, so it is
\* enough that the system as a whole does not stop while something can be done.
Spec == Init /\ [][Next]_vars /\ WF_vars(Progress)

-------------------------------------------------------------------------------
\* No two calls of StartRun get the same run, whose tables they would share
\* (run_counter.go:66), and no run number is beyond 16 bits.
RunIdsUnique ==
  \A o, q \in Operators :
    op[o].run # 0 => op[o].run <= lastRun /\ (op[q].run = op[o].run => q = o)

\* In the order of the runs' nodes, what StartRun starts is closed: a node that it does
\* not start by name but because of its inputs finds every input, if that can be
\* reached from the start nodes at all, in its own run: no node of a run is computed
\* from an old table while the new one is being made ("The tricky part",
\* script_def.go:343).
AffectedIsClosed ==
  \A r \in DOMAIN properties :
    LET p == properties[r]
    IN /\ p.start \subseteq p.affected
       /\ \A n \in p.affected \ p.start :
            /\ n \notin script.manual
            /\ script.reads[n] \cap Reached(script, p.start) \subseteq p.affected

\* A run that StartRun returned is the one that was asked for: its properties have the
\* start nodes, and its messages are those of its affected nodes, every token of the ring
\* and every file in exactly one of a node's messages.
StartedAsAsked ==
  \A o \in Operators : op[o].pc = "done" =>
    LET r == op[o].run
    IN /\ properties[r].start = op[o].start
       /\ {m.node : m \in {m \in DOMAIN batches : m.run = r}} = properties[r].affected
       /\ \A n \in properties[r].affected :
            \A t \in IF script.reads[n] = {} THEN 0..(script.batches[n] - 1)
                     ELSE MinToken..MaxToken :
              Cardinality({m \in Of(r, n) : m.tokens[1] <= t /\ t <= m.tokens[2]}) = 1

\* A batch that runs reads tables that are finished, complete and of the right run: its
\* own run's if that run makes the table at all, otherwise one whose batches all succeeded.
\* (A batch of a run that was just stopped may read an old table of its own run's node.)
ReadsFinishedData ==
  \A m \in DOMAIN batches : batches[m].from # <<>> /\ RunStatus(m.run) # StopReceived =>
    \A d \in script.reads[m.node] :
      LET r == batches[m].from[d]
      IN /\ d \in properties[m.run].affected => r = m.run
         /\ Cardinality({q \in Of(r, d) : batches[q].status = Success}) = script.batches[d]

Ended(r) == r \in DOMAIN properties /\ \A n \in properties[r].affected : NodeStatus(r, n) \in Final
RunEnds(o) == op[o].pc = "done" ~> Ended(op[o].run)

\* "Script execution should survive temporary DB failures without any need for operator
\* intervention" (doc/what.md:82): a run that was started ends, unless a run was started
\* on a node whose inputs were never made.
EveryRunEnds ==
  []("refused" \notin StatusOf(DOMAIN batches)) => \A o \in Operators : RunEnds(o)
===============================================================================
