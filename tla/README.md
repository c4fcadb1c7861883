# Capillaries: a verification project

TLA+ models of [Capillaries](../src/README.md), the TLC configurations that check them and
TLAPS proofs about them. Paths such as `pkg/api/run.go` are under `src/`.

* [1. The system](#1-the-system): its parts, their state, what is hard about them
* [2. What is modelled](#2-what-is-modelled): the modules and how they correspond to the code
* [3. The runs](#3-the-runs): what TLC checks, with which bounds and which fairness
* [4. The proofs](#4-the-proofs): what holds for every value of the constants
* [5. Where code and words differ](#5-where-code-and-words-differ)
* [6. Not modelled](#6-not-modelled)

`tlc -config X.cfg M` runs a configuration, `tlapm M.tla` checks the proofs of a module.

## 1. The system

A *script* is a graph of *nodes*; each reads a file or a table and writes a table or a file.
A *run* executes some start nodes and everything that depends on them. The work of a node is
cut into *batches*; StartRun sends one message per batch to a message broker, *daemons* take
the messages, wait until the nodes they depend on have ended, process the batch and write
data rows, index rows and history rows to Cassandra. No process knows the state of a run:
everything is derived from the three history tables, by whichever worker happens to look.

| component | code | state it keeps | operations | modules |
|---|---|---|---|---|
| CapiMQ broker | `pkg/capimq`, `pkg/exe/mq` | `Q` (sorted slice) and `Wip` (map), a mutex each; memory only | bulk insert, claim, ack, heartbeat, return with delay, sweep of dead leases, delete, count, filter | `CapimqBroker`, `LeaseQueue` |
| daemon, CapiMQ and AMQP consumers | `pkg/exe/daemon`, `pkg/mq` | channels, semaphore, counter of active processors; AMQP session, deliveries in handling | claim when a processor is free, acknowledge, heartbeat, reconnect, shut down | `DaemonConsumer` |
| message producers | `pkg/mq` | connection | send one message, or all | only as steps of `RunControl` |
| batch message handler | `pkg/api/message_handler.go` | none but a cache of node readiness | `ProcessDataBatchMsg` | `BatchWorkflow` |
| history tables | `pkg/wfdb`, `pkg/wfmodel` | `wf_run_history`, `wf_batch_history`, `wf_node_history` | insert a row; fold rows into a status | `BatchWorkflow`, `RunControl` |
| run control | `pkg/api/run.go`, `pkg/wfdb/run_counter.go` | `wf_run_counter`, `wf_run_properties` | start, stop a run | `RunControl` |
| dependency policy | `pkg/dpc`, `pkg/sc/dependency_policy_def.go` | none | go, wait or nogo from the history of a node in all runs | `RunControl` |
| table creators, table inserter | `pkg/proc/proc_table_creator*.go`, `table_inserter.go`, `data_util.go`, `pkg/custom` | page and cursor, channels of records and statuses, workers, sent records | read pages, insert data and index rows, retry, drain, close | `TableBatch`, `TokenPaging` |
| lookup creator | `pkg/proc/proc_table_creator_lookup.go` | pages of left rows, two levels of workers, aggregate contexts | join, filter, group, write | `LookupJoin`, `Aggregates` |
| distinct creator, batch clean-up | `pkg/proc/table_inserter.go`, `delete_data_for_batch.go` | unique index, page state | insert if the key is new; delete the rows of an abandoned batch | `DistinctTable` |
| file creator, file inserter | `pkg/proc/proc_file_creator.go`, `file_inserter*.go` | heap of the top rows, blocks, file | read, write blocks, close, upload | `FileBatch`, `TokenPaging` |
| script definitions, expressions | `pkg/sc`, `pkg/eval` | the parsed script | affected nodes, token intervals, keys; trial and evaluation of expressions | `RunControl`, `RecordWriter`, `Expressions`, `Aggregates`, `OrderKeys` |
| script loading, front ends, signatures, transfer, configuration | `pkg/exe/webapi`, `pkg/exe/toolbelt`, `pkg/msgsig`, `pkg/xfer`, `pkg/env` | none | | |

They interact like this: an operator's StartRun takes a run number, writes the run's
properties, tables and start row, and sends the messages; the broker leases a message to a
daemon's consumer, which hands it to a worker over a channel; the worker reads and writes the
tables, and answers *ack* or *retry* over another channel; the consumer sends the answer to the
broker. Meanwhile it sends heartbeats; a message without heartbeats goes back to `Q`. Inside a
batch a producer, insert workers and a drainer of their statuses talk over channels again.

What is hard: the two mutexes of the broker, between which a message is nowhere; leases that
run out under live workers; answers that are lost; workers of different daemons that derive
and write the same status from reads that are already stale; a crash between any two writes;
an access to the database that fails after it took effect; runs that read tables which another
run has made, or is making; goroutines that wait for each other when one of them has met an
error; messages that wait for each other by being returned and redelivered; time stamps that
tie. `PROJECT.json` lists each of these hazards at its line, with the property that covers it
or the reason why none does.

What makes each component correct:

* broker: an accepted message is in one place at any time, and given to a second consumer only
  after its lease ran out; the head of `Q` is the earliest message;
* daemon: it claims no more than it can work on, acknowledges only what was done, forgets
  nothing it has claimed, and shuts down with nobody left at work;
* history and handler: nothing is marked complete that is not; a batch's rows are there
  exactly once when its success is recorded, and never change afterwards; nobody reads the
  table of a node before it is complete; every run ends, every status catches up, every
  message is acknowledged in the end;
* run control: a run number is used once; a run that is started has its messages sent, each
  row of each table in exactly one of them, and reads only tables that are finished;
* creators and inserters: a batch that reports success has read each row of its interval once
  and written exactly the records it should; a batch that has returned leaves nobody at work;
  no goroutine waits forever;
* lookup: the result is the join, with the aggregates of all matching rows, however the work
  was shared;
* clean-up and distinct: a rerun leaves the rows of one processing, and one row per key;
* expressions: what the loader accepts does not fail but for the values of a row; keys sort
  as the records do.

## 2. What is modelled

| module | what it is |
|---|---|
| `LeaseQueue` | abstract specification: what a message broker with leases promises |
| `CapimqBroker` | the broker's operations, each cut where it changes mutexes; implements `LeaseQueue` |
| `DaemonConsumer` | a daemon between broker and batches: listener, main, workers, acknowledger, shutdown, for both brokers |
| `RunControl` | several runs of one script: StartRun access by access, affected nodes, token intervals, the dependency policy over the runs |
| `BatchWorkflow` | one run: messages, workers, history tables, faults; `ProcessDataBatchMsg` access by access |
| `TokenPaging` | how a batch reads the rows of its interval page by page (operators) |
| `TableBatch` | a batch that creates a table: readers and processors, insert workers, drainer |
| `FileBatch` | a batch that creates a file: top heap, blocks, CSV and Parquet workers, upload |
| `LookupJoin` | a batch that joins: feeder, key workers, rowid workers, epilogue |
| `DistinctTable` | data table and unique index of a distinct node: competing insert workers, clean-up before a rerun |
| `Lexical`, `Aggregates` | order of strings; the aggregate functions and their collectors (operators) |
| `Expressions` | evaluation of expressions over typed values (operators) |
| `OrderKeys` | `BuildKey`: records to strings that sort as they do (operators) |
| `RecordWriter` | a writer of a node, from the loader's trials to its records |
| `CapimqBrokerProofs`, `DaemonConsumerProofs`, `RunControlProofs`, `BatchWorkflowProofs`, `DistinctTableProofs`, `TableBatchProofs`, `LookupJoinProofs`, `FileBatchProofs` | theorems about the module of that name; `CapimqBrokerProofs` also has those about `LeaseQueue`, `LookupJoinProofs` those about `OrderKeys` and `RecordWriter` |
| `MC...` | values of the constants for TLC |

The modules compose by what one needs of the other: `BatchWorkflow` has the broker as
`LeaseQueue` describes it, which `CapimqBroker` is shown to implement; `DaemonConsumer` sees
the broker as claims, leases and answers, and a batch as an answer that comes in the end;
`RunControl` has `ProcessDataBatchMsg` in the few steps whose order `BatchWorkflow`
establishes; `TableBatch` and `FileBatch` are the processing step of `BatchWorkflow`, both
over `TokenPaging`; `LookupJoin` hands to the inserter of `TableBatch`; `RecordWriter`
evaluates with `Expressions` and `Aggregates` and builds keys with `OrderKeys`.

Definitions called `X_Something` next to a definition `X` are faulty variants of it. No
specification uses them; replacing `X` by one must break the property `PROJECT.json` names.

### CapimqBroker

`Q` is the slice as a sequence of messages, `Wip` the map as a set of ids; the fields of a
message that change are functions (`DeliverAfter`, `LastHeartbeat`), its group a constant.
`Claim`, `Return` and `ReturnDead` hold one mutex, release it and take the other; each is two
actions, with the message in `claiming`, `returning` or `dead` in between. `MaxLag` is how far
the clock reading of a request, which is taken before the mutex, may be behind when the mutex
is granted. `held[c]` is what consumer `c` believes it owns: the answer of a claim may be
lost (`ClaimPutWip` with `delivered = FALSE`), and a consumer may forget a message (`Forget`,
a crash or a lost answer). `Ack` and `Return` go by id and so may come from anybody who holds
the message, however old his claim. `sortQ` is any ordering of the elements that
`DeliverEarlierThan` allows. `expired`, `acked` and `purged` are history variables.

### BatchWorkflow

| TLA+ | code |
|---|---|
| `runRows`, `batchRows`, `nodeRows` | rows of the three tables by their primary key, each with its `ts`, 0 where there is none |
| `data[b]` | how much of batch b's rows is in its table, in halves |
| `queue`, `wip` | messages waiting and leased: the broker as `LeaseQueue` describes it |
| `phase[w]`, `task[w]`, `seen[w]` | where worker w is in `ProcessDataBatchMsg`, its message, and the status it has read or decided and carries to the next step |
| `cache[d][n]` | `NodeDependencyReadynessCache` of daemon d |

`ProcessDataBatchMsg` is cut at its database accesses, one action each, in the order of the
code; every early return is a `Goto` to `ack` or `retry`. `ts` is a number of milliseconds of
which only the order is kept: a write gets the latest `ts` among the rows it will ever be
compared with, or the next one, so ties are possible and time does not run back. The database
is one linearizable store with one clock (Cassandra with the consistency the code asks for;
clocks of several coordinators are not modelled). A write of a data row is not a step of its
own; a batch's rows come in two halves, so that a crash, an error and a concurrent worker can
find a half-written batch.

Faults, at most `MaxFaults` of the kinds in `FaultKinds`: `crash` (a daemon with all its
workers dies), `connection` (an error `IsDbConnError` recognises: retry), `timeout` (any other
database error: mostly ack), `answer` (the request of `acknowledgerWorker` fails), `lease` (the
lease of a message runs out while a worker is alive). Leases of dead workers run out
without counting as faults.

Abstractions to know of: the message's script is loaded without a step of its own
(`initCtxScript`: failure is the connection error or the other error of the step that follows);
the clean-up of an abandoned batch is one step (`DistinctTable` has its steps);
`max_batch_processing_time` is the operator's promise, so `RerunAbandoned` waits until no
worker is between the start row and the final row of the batch; a node's dependencies are nodes
of the same run and the policy is the default one (`RunControl` has several runs).

### DistinctTable

| TLA+ | code |
|---|---|
| `data`, `idx` | rows of the data table; `idx[k]`, the rowid in the one index record of key k |
| `writer[i]` | the insert worker that has item i: which statement of `insertDistinctIdxAndDataRecords` is next, its rowid, the one it has read from the index, the counters of both retry loops |
| `phase[b]` | what the handler of batch b does: a step of `DeleteDataAndUniqueIndexesByBatchIdx`, writing, ended |
| `passed`, `more`, `harvest`, `keyed` | the page state as the set of rows before it, and what is to be deleted of the page |
| `draws`, `robbed`, `disowned`, `faults` | bookkeeping of the model: rowids drawn, history, bound |

Each statement sent to the database is an action, with its answer: `INSERT ... IF NOT EXISTS`
is applied, or finds a record; or it *fails*, applied or not (`InsertIdxFails`,
`InsertDataFails`), and is repeated. A second attempt that meets its own index record takes it for
success. That it meets its own data row it finds out by comparing all fields (`FoundEqual`): a
`decimal.Decimal` is never equal to the `*inf.Dec` that gocql returns, nor a time to what is left
of it in milliseconds, so this works only for the records of the constant `Exact`. A row that is
not recognised is given up with its claim, and stays (`disowned`). An item is any row that a reader hands to a worker, so items of one batch run side
by side like items of two. The database is again one linearizable store.

Faults: `crash` (the handler and its workers are gone, or have given the message back; the next
handler cleans up first), `db` (a statement ends in an error), `collision` (a random rowid that
is in the table already; it comes alone, being so unlikely). A crash of one batch waits for no
other: `max_batch_processing_time` is taken to be long enough that the old workers of the *same*
batch are gone, which is what the documentation asks for.

In the clean-up, `DELETE FROM idx WHERE key = ... AND rowid = ...` is an assumption about the
database: in a unique index `rowid` is an ordinary column (`CreateIdxTableCql`), and Cassandra
rejects a condition on one in a DELETE without IF. So `DropIdx` has two outcomes: the statement
deletes the record if it has that rowid, or it is rejected, at any time and without counting as
a fault, and the clean-up fails. What is said of clean-ups holds for both.

Left out: the delays between attempts, indexes other than the unique one (written after the data
row, and deleted in the clean-up in the same way), `ErrMismatchedKey` (no record of a key has
another key here), reading the source table.

### DaemonConsumer

| TLA+ | code |
|---|---|
| `listener`, `main`, `acknowledger`, `slot[s]` | where the listener, `main`'s loop, the acknowledger and the goroutine in slot `s` of the semaphore are, and the message each has in hand |
| `incoming`, `outgoing` | `listenerChannel` (capacity 1) and `acknowledgerChannel` |
| `active` | `activeProcessors`, raised by the listener at the claim (CapiMQ) or after the push (AMQP), lowered before the answer is pushed |
| `broker`, `link`, `handling` | what the broker thinks of each message; the AMQP session; `amqpMessagesInHandling` |
| `stopping`, `closed` | the two flags that stop the loops; the channels that are closed |
| `done`, `dropped`, `faults` | batches completed; messages whose answer was lost; bound |

A claim, a push into a channel, a change of the counter and a request to the broker are steps
of their own; a request may fail before or after its effect (`claim`, `answer`, `retry`), the
AMQP link may die (`link`), and a lease may run out under a live worker (`slow`, CapiMQ only).
The shutdown is `main`'s from the signal on, one call at a time; its time-outs are hours
(milliseconds multiplied by seconds), so one only ends for a listener that can never go on.
The AMQP library is modelled as the consumer sees it: a delivery of a session that ended comes
again. A batch is only its result, and a message that cannot be read is one of `Doubtful`.

### RunControl

| TLA+ | code |
|---|---|
| `lastRun` | the row of `wf_run_counter` |
| `properties[r]`, `history[r]` | rows of `wf_run_properties` and `wf_run_history` |
| `op[o]` | where one call of `StartRun` is: run number, counter value read, retries, messages left to send |
| `batches[m]` | the messages sent, and what became of each: its status, the runs whose tables it reads |
| `script` | nodes with their inputs, manual nodes, batches, start nodes, and whether the broker takes messages in bulk |

Every access of `StartRun` is an action, and may fail, before or after it took effect: then the
call returns with an error and what it wrote stays. `GetNextRunCounter` reads the counter and
then updates it if it has not changed, up to `MaxRetries` times. `Affected` is
`GetAffectedNodes` with its two recursive functions as least fixpoints, `Interval` is
`GetTokenIntervalsByNumberOfBatches` with the division of Go. `Verdict` is the default policy:
its rules in their order on the events of all runs that affect a node, sorted by priority. A
batch is two steps, `StartBatch` with the choice of the runs it reads, and `EndBatch`; a batch
that waits does nothing. The rows of a node follow from those of its batches, which
`BatchWorkflow` is about.

### TokenPaging and TableBatch

A table is the sequence of its rows' tokens. `PageRows` and `NextCursor` are one select of
`selectBatchFromTableByToken`: it starts at the last token of the page before, as more rows may
have it, and skips the rows already read. A page is a set of rows, which `Ascending` puts in the
order the database returns them. `Wraps` says that rows which share a token, or
a page of one row, have outwitted it: the page has rows already read, or is empty with rows
behind it. The producer does with such a page what the code does. An empty one ends the batch
with success, one that comes round is written again; `wrapped` remembers that it happened, and
`MaxRead` stops a batch that would read for ever (`ReadsAgain`).

| TLA+ | code |
|---|---|
| `phase`, `cursor`, `page`, `pos` | the producer: the loop of the creator for this `source.reader` (`table`, `csv`, `parquet`, `pycalc`, `tag`) and its buffer |
| `recordsIn`, `statuses` | the channels `RecordsIn` and `RecordWrittenStatuses`, which hold `NumWorkers` items |
| `worker[w]` | an insert worker: which statement of its record comes next, the rowid drawn, both retry counters |
| `drainer`, `signals` | the drainer and its three channels: cancel, done, complete |
| `data`, `idx` | what the database has |
| `strays`, `wrapped`, `gaveUp` | history: rows left behind by an attempt and not recognised by the next, pages that wrapped, a drainer out of patience |

A record is a number, that of its row, or one of the numbers `TagRecords` gives a row: with
`tag_and_denormalize` a row makes a record for each tag whose criteria it meets, and none if it
meets none. A repeated insert compares rows as in `DistinctTable` (`Leftover`, `Exact`).
Statements may fail, applied or not (`db`), a rowid may be one that is taken (`collision`), a
read or an expression may fail (`read`, `eval`), the drainer may run out of patience before
the workers answer (`patience`). A custom processor reads like a table and sends records in
flushes. One index per table; the delays
between attempts have no length.

### FileBatch

The producer is `runCreateFile` and `readAndInsert`; the worker is `FileInserterWorker` for CSV
or Parquet, which answers each block with a status; the producer looks at the statuses there
are once per page, and waits for the rest at the end. `file` is what is on disk and `uploaded`
what the destination has, each with its rows, its size and whether it is whole (a Parquet file
without footer is not). A CSV worker writes a block to the file (`Wrote`). A Parquet worker adds
it to the row group it has in memory (`Grouped`), which goes to the file when the channel is
closed (`Finish`), followed by the footer (`WriteFooter`); an error of either is logged and
forgotten (`CloseFails`). The producer waits for neither: a local batch returns, and an upload
starts as soon as the file has any size. Writing a block, opening, closing and the upload
may fail. `FileAssumption` restricts the module to rows with tokens of their own and pages of
more than one row; what other pages do to a batch is the subject of `TableBatch`.

### LookupJoin and Aggregates

| TLA+ | code |
|---|---|
| `page`, `phase` | the page of left rows, and what the batch does with it |
| `keysCh`, `kw[w]` | the keys not yet taken by a key worker; a key worker: its key, how far the index page was read and fed |
| `rw[w][r]` | a rowid worker of `w`: its rowid, the left rows it has still to join, the copy of the counter |
| `selErr`, `hErr` | `firstSelectRightRowErr`, `firstHandleKeyErr` |
| `found`, `eCtx` | left rows with a match; the aggregate contexts of grouped rows |
| `out`, `written`, `total` | bag of the rows given to the inserter; `rowsWritten` of a page and of the batch |

The channels have no buffer, so a hand-over is one step of two goroutines. The counter of
rows is read and written in two steps, as the lock around them is that of the key.
`Aggregates` is `agg.go` with the collectors of `eval_ctx.go`: what each function does with one
more row, and what it answers. The separator of `string_agg` is part of the context; the
constant `Sep` of `LookupJoin` is the literal of its fields.

### RecordWriter, Expressions, OrderKeys

`RecordWriter` takes one writer through the loader, which evaluates its expression and its
condition on samples and compares types, and then through rows, of which any may come in any
order. An expression is the list of the nodes of its syntax tree with the operands of a node
before it, which it names by their places; the value of a node comes from the values of those
(`NodeValue`), as `Eval` returns from its recursive calls. `NodeTypes` is what a type checker,
which the code has none of, would find in the same way. `Expressions` is `eval_ctx.go`:
dynamically typed, with the casts of pairs of numbers, both sides of an operator always
evaluated, and the errors. The separator of `string_agg` has to be a literal (`HasSeparator`). A
float divided by zero is infinite without an error, and `decimal2` of it panics
(`PanicError`): only the decimal operators recover (`eval_ctx.go:236`, `:408`), so the process
dies, which counts as a refusal by the loader and as a failure of a row. `OrderKeys` is `key.go`, character by character, because the property
is about characters; it holds for values that the formats have room for (`RecordFits`). Numbers
are of small width, decimals and floats are hundredths; functions that only call the Go library
(strings, regular expressions, formats, arithmetic on times) are left out.

## 3. The runs

| run | expects | what it shows |
|---|---|---|
| `broker_delivery` | pass | two daemons, three messages of two nodes, an operator who deletes: typing, nothing lost or duplicated, `Q` sorted, owners find their messages, refinement of `LeaseQueue` |
| `daemon_answers` | pass | a daemon on either broker: claims fit the pool, what is acknowledged was done, no delivery is forgotten, every message is answered, a shutdown ends with nobody at work |
| `run_control` | pass | several calls of StartRun with one failed access or one stop: run numbers unique, affected nodes closed, every token in one message, batches read finished tables |
| `run_start_half` | violation | a StartRun that fails after it wrote its properties makes another run wait for ever |
| `workflow_safe` | pass | a node of two batches and its dependent, two daemons, one fault of any kind but a lost lease: the six safety properties |
| `workflow_live` | pass | the run ends and messages drain after one crash, lost connection or lost answer |
| `workflow_lease` | pass | a lost lease, a batch that fails, a stop at any moment: the node's status catches up with its batches |
| `table_batch` | pass | tables, files and custom processors, two insert workers, two faults: written exactly once if no page wrapped, quiet when returned, returns unless the drainer gave up or the pages go round |
| `file_batch` | pass | CSV and Parquet, local or uploaded, all rows or the top ones, two faults: the file is exact, a Parquet file once it was closed well; nobody sends on a closed channel; the batch ends unless producer and worker wait for each other in the middle of a page |
| `lookup_join` | pass | grouped and plain, inner and left outer: exactly the join, no error lost, ends or starves in one known way |
| `distinct_keys` | pass | two batches of a distinct node that share a key, two faults of any kind: no key lost, no second row but after a claim in use was deleted or a row was not recognised by its own worker, the index leads to the row, clean-ups end (Amazon Keyspaces) |
| `record_writer` | pass | trials find types, accepted writers fail on values only, keys follow the order of the records |

Bounds, and why they are enough.

* *Broker*: three messages for a `Q` in which order matters while another message is in `Wip`,
  two groups because Return postpones a whole group, and a clock of three instants for a delay
  and a timeout of one. Daemons are interchangeable: symmetry. `MaxLag` is 0; the proofs cover
  every value.
* *Daemon*: a pool of two, and two messages, one of which may be unreadable: one in work while
  the other is in a channel, and both answers in `outgoing`. Two faults are a link that dies
  twice, or a lost claim and a lost answer. That the pool is never overrun with more messages
  is left to the proof.
* *Run control*: four calls, two runs and one number more than 16 bits allow (here 3); a manual
  node, a node of two batches, a lookup, failing batches; a ring of eight tokens in three
  unequal parts; and, for the affected nodes, every script of three nodes. One failed access or
  one stop, anywhere. `Operators` are interchangeable: symmetry. The proof covers all scripts,
  rings and numbers of calls and faults.
* *Handler*: two workers are enough for every race, as each is between one reader and one writer
  of the same rows; a node of two batches separates "all batches that have rows" from "all
  batches", and its dependent gives a dependency and a node whose end is the end of the run.
  One fault per behaviour is what the code's comments promise to survive. `workflow_live` has no
  symmetry and one daemon with two workers; `workflow_lease` one batch, delivered twice.
* *Batches that create tables*: pages of three rows and channels of two items, so that a page
  and a channel may each be full, one short or empty; rows that share a token within a page,
  across its end and all over it, so that pages wrap in both ways, with `MaxRead` above
  the rows of a table, so that one that goes round has written a row again; records of which one
  does not come back as it was written; a row of two tags; two faults, so that a retry fails too,
  or an error meets a second one on its way out.
* *Batches that create files*: blocks of four rows and two blocks in the channel, against pages
  of two rows, which never fill a block and begin another, four, which do so only when an
  error sends the incomplete block, and six, which do so without one; tables long enough for
  each of the two to make producer and worker wait for each other, and tables of seven rows
  with a "top" of two, three, five and seven, as ties and the end of a block may fall on the
  limit.
* *Lookup*: two pages of left rows, the second without a match; two left rows of one key; four
  rowids in index pages of two, one an orphan, one that the filter refuses; two key workers with
  two rowid workers each, so that one is alone with an error while its fellow waits. There is a
  field for each aggregate function, some with a condition, over numbers whose sum wraps and
  strings of which one is empty.
* *Distinct*: two items with the same key are every race for a key, the third (a key of its own,
  in the batch of one of them) makes pages with rows of two batches; a page of two rows is both
  full and not; two attempts in each loop separate the first from a repeated one; two faults are
  a crash whose clean-up crashes, or an unanswered statement and a crash. The record of
  one batch has a decimal, those of the other have not.
* *Writers*: every operator and function over fields of all six types, each declared with every
  type; expressions of depth two where the kinds of error meet; conditions that compare, divide,
  aggregate or have no type; separators that are literals, fields, numbers, missing or put
  together; `decimal2` of quotients by zero, also by one that is zero only for some rows; four rows with
  negative, zero and smallest numbers, an empty text, and texts that differ in case and spaces;
  two records, as order is a matter of two.

The runs of the broker, the handler, run control, the distinct table and the writers do not
check for deadlock: a broker whose clock has reached `MaxTime`, runs that have ended, and a
writer without rows have nothing left to do. The others do, with a step `Stopped` or the like
where the batch has returned or the goroutines are known to wait for each other, which then
is named in a property (`Hung`, `Stuck`).

Fairness is what the program and its surroundings keep going.

* `BatchWorkflow`: weak fairness of each worker's next step and of the two halves of
  StartRun: goroutines that are never blocked for good, as every call has a timeout; strong
  fairness of claiming each message: the broker postpones a message that was returned, so every
  other one gets to the head of `Q`, and a daemon always has a worker free again; strong
  fairness of `RerunAbandoned`: at one of the deliveries the grace period is over; weak fairness
  of the expiry of dead leases (the broker's loop, `pkg/exe/mq/capimq.go:400`) and of cache
  entries (the TTL of the cache).
* `RunControl`: weak fairness of `Progress` as a whole. No step of it is ever undone, so every
  order of the steps comes to the same end, and all is done when nothing can be done.
* `DaemonConsumer`: weak fairness of the next step of listener, main, acknowledger and each
  worker, and of the expiry of a lease that nobody renews; strong fairness of claiming each
  message. A batch ends.
* `TableBatch`, `FileBatch`, `LookupJoin`: weak fairness of each goroutine; calls return.
* `DistinctTable`: weak fairness of the next step of each worker and each handler that are
  alive: their statements have time-outs.

No fault, no stop and no signal is fair.

## 4. The proofs

All theorems hold for every value of the constants under the named assumptions
(`WorkflowAssumption`, `BrokerAssumption`, `DistinctAssumption`, `ScriptsAssumption`,
`TokensAssumption`, `ConsumerAssumption`, `LookupAssumption`, `FieldsAssumption`,
`AggregatesAssumption`, `KeysAssumption`, `WritersAssumption`, `FileAssumption`,
`TableAssumption`): any number of messages, consumers, processors, batches, nodes, items, keys,
workers, rows, daemons, operators and faults, and expressions of any size. What they ask for is
what the code has: a node's batches are a finite list of intervals or files (`Batches` is a
finite set of numbers), the rows of a table come in the order of their tokens, sizes of pages
and numbers of attempts are positive, expressions are what a parser returns and the fields of a
row have the types of the reader's fields. Only `FileAssumption` asks for more, as said below.

Some theorems exclude a kind of fault. Without the first two hypotheses TLC finds each of the
properties violated (`MCBatchWorkflow_safe.cfg` with the fault, or the stop, added):

* `"lease" \notin FaultKinds` (`DataWrittenOnce`, `CompletedDataStays`, `TablesReadAreComplete`,
  `NodeStatusOnlyRises`): a lease that runs out under a live worker gives its message to a second
  one, and two workers then write the rows of one batch. Leases of workers that have died
  run out in any case, and crashes, lost connections, time-outs and lost answers remain.
* `StopTimes = {}` (`NodeStatusOnlyRises`): a batch that finds its run stopped never marks its
  node as started; the row of the end that it then writes for the node may come before the start
  row of another batch, if both fall into one millisecond, and so takes back the end.
* `"collision" \notin FaultKinds` (`KeysKept`, `SecondRowHasReasonHolds`,
  `IndexLeadsToRowHolds`): the argument rests on a rowid telling its item. TLC checks the three
  with one collision. `TableBatch`, where no other batch and no clean-up touch the table, needs
  no such condition.

Other theorems are restricted in what they are about, as the code keeps the promise only there:

* `AllExact` (`IndexLeadsToRowHolds`): all records come back as they were written. Otherwise
  a row that its worker gave up may be the only one a key has left.
* `SeparateTokens` and `RowsetSize > 1` (`PagesDoNotWrap`, `AllWrittenHolds`): no two rows of the
  table share a token, and a page has more than one row; `MCTableBatch_tokens.cfg` is a batch
  without the second. `FileAssumption` asks the same of `FileBatch`.

* `CapimqBrokerProofs!Typing`, `NothingLost`, `OwnerFinds`: the invariant is inductive once
  the gaps are places of their own. `Refinement`: each action of the broker is mapped to an
  action of `LeaseQueue` or to a stutter. `LeaseTyping` and `LeaseExclusive` are about
  `LeaseQueue` alone; what `LeaseExclusive` says is thereby true of the broker
  (`BrokerLeasesExclusively`). `SortedWhenGrouped`: `Q` is sorted if every message has a wait-retry group.
* `DaemonConsumerProofs!ClaimsFitPoolHolds`, `AckedMeansDoneHolds`, `OutIsHeldHolds`. The
  counter `active` is raised when a message was claimed (CapiMQ) or after it has gone into the
  channel (AMQP), and lowered before the answer does, so it is not the number of messages in
  the daemon at all times. `Counted` says what it is: the messages in the channel, with main
  and with workers, and for CapiMQ the one about to be pushed; for AMQP it is one less
  between the push and the count. It never exceeds the pool. `AnswersAreTrue` follows an
  answer from the worker through the channel to the acknowledger: an ack is of a batch that is
  done. For AMQP, `OutIsOfSession` says that a delivery which the broker waits for belongs to
  the session that is open, and its entry in the map says so, and `OutIsHandled` that somebody
  holds it; a token of an old session then finds an entry of another session or none.
* `RunControlProofs!RunIdsUniqueHolds`, `StartedAsAskedHolds`: `IInv` is `CallsTyped` (what a
  call has in hand at each of its steps), `RunIsMine` (a number taken belongs to one call,
  and the counter has passed it), `PropertiesWritten` and `MessagesSent` (how far the run is,
  for each place of its call). That each token is in one message is
  `TokenIsInOneInterval`, for every ring with `MinToken < 0 <= MaxToken` and every number of
  parts: Go divides towards zero, so the negative half is rounded the other way, and the last
  interval is longer. `AffectedIsClosedHolds` rests on `AffectedClosed`, which is about the
  operators alone: the fixpoint of a monotone step contains what a node needs.
* `RunControlProofs!ReadsFinishedDataHolds`. The policy counts nothing: it believes a row
  "complete". So `JInv` says what such a row means (`CompletesTrue`: all batches of all nodes of
  the run have ended), that messages are sent only after the run is marked as started
  (`CallsStarted`, `BatchesStarted`), so a run with messages cannot look as if it were not there,
  that nothing but StopRun stops a batch (`StopsWritten`), and `ReadsTrue`, which is the property
  for a batch from its start for ever. A node has at most as many messages as batches
  (`FewMessages`), so when as many have succeeded none is missing.
* `BatchWorkflowProofs!WorkflowTyping`: type correctness.
* `BatchWorkflowProofs!CompleteOnlyWhenDone`: `CompleteMeansDone` relates rows that one worker
  writes to rows that others write, from reads made earlier. It is not inductive: a worker
  about to write "node complete" knows so from a read that may be long past. The invariant
  `IInv` adds to typing and the property, for each worker, what it *knows* (`Knows(w)`): one in
  `writeNode` has seen every batch of its node done, one in `writeRun` has seen every node
  ended. These stay true because history rows are only ever added, which every action
  preserves, whatever fault strikes: nothing in the argument needs leases to hold, workers
  to be alone or clocks to be right.
* `BatchWorkflowProofs!DataWrittenOnce`, `CompletedDataStays`. A message is with one worker, and
  leased while he works on it (`Leased`), so what he has found of his batch stays true until
  he is done: `Works(w)` says for each step how much of the batch is written and that it is not
  done. `DataFollowsRows` is what the history tells of the data (success: all of it; not
  started: none), which the next worker of the message goes by, and `RowsInOrder` that the
  last row is the one that counts: no start row is later than the final one.
* `BatchWorkflowProofs!TablesReadAreComplete`. What was read of other nodes may be old, in a
  worker's hand (`Informed(w)`) or in the cache of a daemon (`CacheTrue`), but it is only ever
  about nodes that have ended, and `NodeRowsTrue` says that a node is marked as ended the way its
  batches have ended: success if all have succeeded, failure if one has failed.
* `BatchWorkflowProofs!NodeStatusOnlyRises`. `StartsTrue`: a node is marked as started before
  any of its batches, and no mark of a start is later than a mark of the end. A final mark has
  the latest time of the node, so no row that is written later can hide it; `StartsKnown(w)`
  carries this from the worker that makes the mark to his next writes.
* `DistinctTableProofs!TablesTyped`: type correctness. `TypeOK` is not inductive: a worker whose
  rowid is missing would write it, so the invariant adds `RowidDrawn`.
* `DistinctTableProofs!KeysKept`: `KeyKept`, if no rowid is drawn twice. A worker that finds a
  key in the index gives its item up only for a row it has seen in the data table, at a rowid
  read earlier; the row must be one of that key. So `IInv` says that a rowid tells its item, in
  data rows, claims, harvested rows and workers (`RowOfItem`, `ClaimOfKey`, `HarvestOfBatch`,
  `WriterOfItem`), and that a clean-up deletes rows of items no worker has begun
  (`CleanBeforeWrite`), which are therefore still pending. Each action of a worker is shown once
  to be a case of `Moves(i)`, from which the conjuncts follow.
* `DistinctTableProofs!SecondRowHasReasonHolds`, `IndexLeadsToRowHolds`. A row that stays is the
  one the index leads to (`RowsIndexed`), and the index leads to one. That needs: who is about
  to write a row holds the claim of its key (`ClaimsHeld`), a worker that gives up a rowid has
  written a row under it and not recognised it (`GivesUpOwn`; a rowid with no statement sent is
  new, `NotYetWritten`, as rowids in use were drawn before, `Drawn`), and a clean-up leaves no row of its batch behind (`PassedClean` for the pages it has
  seen, `HarvestWhole` for the page in hand). `robbed` is the step that breaks `ClaimsHeld`: a
  claim in use is deleted as an orphan (section 5, `MCDistinctTable_race.cfg`). `disowned` are
  the rows given up: the row stays and the claim goes, so they are outside of `RowsIndexed`
  (`MCDistinctTable_timeout.cfg`). If all records come back as they were written there are none
  (`NothingDisowned`), which is what the second theorem asks for.
* `TableBatchProofs!QuietWhenReturnedHolds`. `DrainerRests` and `WorkersRest`: which goroutine is
  alive in which phase of the producer, and that no worker leaves before the channel is empty.
* `TableBatchProofs!WrittenIsExactHolds`. What the tables hold is only known at the end, and only
  of a batch that succeeds, so the invariant has the form `Told \/ (Flow /\ PageRight /\ (Hurt
  \/ DataRight))`: either a page has wrapped, or somebody has heard of an error and the batch
  will fail (`Heard`); or
  the records are accounted for by number (`Flow`: sent is processed, and in the channels, and
  with workers), the rows read are a piece of the interval without a hole (`PageRight`, for all
  five readers), and, unless a record has failed whose status is still under way (`Hurt`), each
  record sent is in one place: the channel, a worker, or the tables with its index record
  (`DataRight`). `Writing(w)` says what each statement of a worker may have left behind when it
  is repeated; `StrayPlaces` that a row given up by its worker is of a record that does not come
  back as it was written, and has no index record. The drainer succeeds when the numbers agree; then nothing is under way, so
  neither alternative is left. Under it are lemmas on `TokenPaging`, for rows that share
  tokens in any way: a page that neither wraps nor is empty moves the cursor on and leaves out
  no row (`PageStep`), and an empty page that does not wrap is the end.
* `TableBatchProofs!PagesDoNotWrap`, `AllWrittenHolds`: when pages do not wrap. Where no two rows
  share a token and a page has more than one row, it reaches beyond the one row it may have in
  common with the page before (`PageGoesOn`); so a batch that succeeds has left nothing out.
* `LookupJoinProofs!ErrorNeverLostHolds`. An error wanders from the rowid worker to the
  variable of its key, from there to the variable of the page, and so to the result of the
  batch; a key worker that takes its next key forgets the variable of the last one.
  `ErrorIsKept` says that somebody has the error, `ErrorIsPassedOn` that a worker that waits
  for a key has none left and one that stopped because of an error has passed it on, and
  `WorkIsNested` that rowid workers work on a key, and key workers on a page, only while it
  lasts.
* `LookupJoinProofs!JoinIsExactHolds`. By the theorem before this one a batch that is done has met no
  error, so the invariant is about a batch without one: `JInv == IInv /\ (faults = 0 => Flow /\
  Results)`. `Flow` says where the work is. A key of the page waits in the channel, or one key
  worker has it, or it is done (`KeysShared`); of its index entries a part is read and a part of
  that is handed over (`IndexReadBy`), and a rowid that was handed over is with one rowid worker
  or done (`HandRight`). So at any time it is known which pairs of rows are still to come (`Pending`,
  `Owed`), and which right rows a left row has been joined with (`JoinedTo(l)`): none at the
  beginning of its page, all its matches at the end (`PageIsJoined`). `Results` is the property
  with `JoinedTo` for the matches: the pairs that were written (`PlainRight`), the rows found
  (`FoundRight`), what each aggregate context has collected (`ContextsRight`), the records of the
  pages that are done (`GroupsWritten`). A step of a rowid worker adds one row to `JoinedTo` of
  each left row of the key (`RowIsJoined`) and to their contexts; every other step leaves it
  as it was. What one more row makes of a context is one lemma for each function
  (`SumCollects`, `StringAggCollects` and so on): sums and counts do not depend on the order, a
  joined string is that of some order, a least string is least up to the last empty one.
  `FieldsAssumption` is what the loader has made sure of: an aggregate has the number and the
  types of arguments that it takes, and the same type in every row.
* `LookupJoinProofs!KeysCompareAsRecords`: for every list of components and any two records the
  keys compare as the records do. All keys of a component have one length (`Chars`), so one is
  less than another where they first differ (`LessAt`), and keys put together compare by the
  first component in which they differ (`LexConcat`, an induction over the components:
  `KeysAgreeUpTo`). The digits of a number are remainders of its quotients by ten
  (`WithoutLast`): the larger number has the larger digit where they first differ; flipped
  digits turn that round for numbers below zero. The smallest int64 has no magnitude, its key
  has a second sign in place of a digit and so comes first. A padded string compares as the
  string without its last spaces (`IsPadded`) as long as no character is below the space,
  and a descending component inverts every byte. What the theorem asks of the values
  (`ValueFits`) is that they fit: 20 places hold every int64 (`KeysAssumption`: as many negative
  numbers as others); floats and decimals of more digits do not sort.
* `LookupJoinProofs!WriterInvHolds`, and from it `TrialsFindTypesHolds`,
  `RowsFailOnValuesOnlyHolds` and `KeysFollowOrderHolds`. The heart of it is one statement about
  each node of an expression (`NodeAgrees`): its value has the type found for it, or is the
  error of a value (a division by zero, a text that is no number, an infinite float that is made
  a decimal) in an expression that can have one, or it is a type error and there is no type, or some node aggregates. It is proved
  for one operator or function after the other (`ArithmeticAgrees`, `ComparisonAgrees`,
  `FunctionAgrees`) and then, from the first node on, for all (`NodesAgree`). As an error of an
  operand is the error of the node, an operand that has failed cannot be hidden (`NoneFailed`):
  a trial that succeeds has seen every node succeed. The context of an aggregate keeps the type
  of its first row (`Prepared`), so every later row is added (`RootAgrees`). `WriterInv` follows
  the writer: fields known, then the types, then a group whose context has a value of the
  declared type, and records with the types of their fields and the keys of their values. The
  values of the trial do not matter but for their types, so the theorem holds for any samples.
  `KeysFollowOrder` then is `KeysCompareAsRecords` for two records of one writer.
* `FileBatchProofs!NoSendOnClosedHolds`. The producer does not see the worker; it counts the
  blocks it sent and the statuses it received, on the way and after an error. `Counted` says
  that this number is the blocks in the channel, the one in the worker's hand and the statuses
  in the other channel, so when it is zero the worker has nothing left to answer
  (`ClosedAtTheEnd`).
* `FileBatchProofs!FileIsExactHolds`. The property is about the end of a batch that succeeds. Before
  that, an error may have struck that the producer knows of (`GaveUp`), or that it will be told
  of: a block that failed is in the worker's hand, or its status is under way (`Hurt`, which no
  step undoes but by `GaveUp`). The invariant `FInv` is about the rest. `PageRight`: the rows
  read are those of the interval that the cursor has passed, and lie before the rows of the next
  page. `HeapRight`: the heap has the first of the rows that passed so far, as many as
  there are to be (`Firsts`); a row that is pushed out cannot come back, as the ones that stay
  are no greater (`HeapStep`). `PipeRight`: file, worker's block, channel and block to be filled
  are one line (`Line`; for Parquet the row group in memory is in the place of the file until it
  has become that, `Given`), which holds each record given to the inserter, in order. Every step
  of the way is one of four of the line: a record is put at its end (`LineAppend`), a place is
  begun (`LineLonger`), the line moves up (`LineShift`), the first two places become one
  (`LineMerge`). When all statuses are in, only the file, or the row group, is left of the line. The footer
  comes last, so a Parquet file that has one has its rows (`Grouping`), and a worker that has
  ended well has written it; more the theorem does not say of Parquet, as the batch does not
  wait (`MCFileBatch_early.cfg`, `MCFileBatch_close.cfg`). That a sequence is
  the rows of its set in ascending order, and the only such, is `OneOrder`. `FileAssumption` has the
  rows of a file batch with tokens of their own and pages of more than one; what else may be
  in a page is the matter of `TableBatchProofs`.

The theorems of the library that do induction over numbers or sets take an operator as a
parameter, which the provers here cannot instantiate. Most arguments that would need them go by
the smallest or the greatest number with a property (`LeastNumber`, `GreatestNumber`, from the
well-foundedness of the numbers) and by the cardinality of sets: the k-th row of a page is the one
with k - 1 rows before it. What a sum over a set and the text of a list of strings are, as
recursive functions, is shown with an induction whose property is given as a set: a set of
numbers that has 0 and each successor has all numbers (`AllNumbers`, also for the digits of a
number, the components of a key and the nodes of an expression), and so a family of finite sets
has all of them if it has each one whose smaller subsets it has (`BySize`). From these come that the
functions exist (`SumExists`, `ConcatExists`) and that one more row adds its value, whichever row
the function takes first (`SumOfOneMore`, `ConcatOfOneMore`).

What only TLC checks: the four properties of the handler that exclude lost leases, where leases
are lost; `KeyKept` and its fellows with rowid collisions; and all liveness properties, `EndsOrHangs`,
`EveryRunEnds` and the like, which TLAPS cannot reach.

## 5. Where code and words differ

`run_start_half` is a run that ends in a counterexample: `doc/what.md:82` promises that
"script execution should survive temporary DB failures without any need for operator
intervention", but a StartRun that fails after it wrote its properties, and before its messages
are sent, leaves a run that never ends; the policy makes every batch that reads a node of it
wait, also in later runs that do not make that node. Stopping the half-started run turns the
wait into a nogo. Without the fault (`MaxFaults = 0`) `EveryRunEnds` holds.

The other configurations that end in a counterexample are kept beside the models, to be run
with `tlc -config`:

| configuration | property violated | what the code does |
|---|---|---|
| `MCCapimqBroker_deleteAll.cfg` | `DeleteRemovesAll` | the loop of `Delete` skips the element after each one it removes |
| `MCBatchWorkflow_stopEarly.cfg` | `StoppedRunDrains` | `RunHistoryRowsToStatus` goes by the latest `ts` and `RunHistoryEventsToRunStatusMap` by priority: if the stop row is older than the start row, the handler takes the run for started and the dependency check for stopped; the message of a dependent node is retried for ever |
| `MCBatchWorkflow_timeout.cfg` | `RunEnds` | database errors other than a lost connection acknowledge the message without a status |
| `MCBatchWorkflow_leaseCrash.cfg` | `NodeStatusHeals` | a late worker rewrites the start row of a node after its success row, and the last event decides; if it dies then, nobody corrects the status |
| `MCDaemonConsumer_shutdown.cfg` | `ShutdownIsGraceful` | a listener that waits to push when the shutdown begins sends to a closed channel |
| `MCDistinctTable_race.cfg` | `RecordsUnique` | an index record without a data row is taken for an orphan of a crash and deleted; it may be the claim of a worker about to write its row |
| `MCDistinctTable_rerun.cfg` | `CleanUpEnds` | the clean-up ends on an empty page; behind the last page the page state is empty and reading starts over, so with Cassandra it ends only if the table has no rows of other batches or the last page was full |
| `MCDistinctTable_timeout.cfg` | `RecordsUnique` | a record with a decimal, whose insert was applied and reported as a time-out, gets a second row: a distinct table "makes sure the record is unique" (`doc/glossary.md:81`), but the repeated insert compares a `decimal.Decimal` with the `*inf.Dec` that gocql reads, takes its own row for another's, gives up the claim and claims the key again (`table_inserter.go:449`) |
| `MCTableBatch_timeout.cfg` | `WrittenOnce` | the same in a table that is not distinct: the row found "may be a leftover from a previous timeout write, and we got what we wanted" (`table_inserter.go:443`), but it never compares equal, is left behind and written once more |
| `MCTableBatch_tokens.cfg` | `AllWritten` | "the ONLY valid termination is an empty read", as another one "would silently drop all remaining source rows and still report the batch as successful" (`proc_table_creator_table_to_table.go:86`); an empty page does the same when it holds only rows that the page before ended with: with a `rowset_size` of 1, or as many rows as `rowset_size` with one token |
| `MCFileBatch_early.cfg` | `UploadedIsWhole` | "wait till inserter calls w.Close() to flush the file" (`proc_file_creator.go:245`) waits until the file is not empty, which it is before its footer is written: without any fault, a file that cannot be read is uploaded |
| `MCFileBatch_close.cfg` | `SuccessIsReadable` | an error of closing a Parquet file is logged only (`file_inserter_parquet.go:165`), after the last status was sent: the batch reports success, and the file has no footer |
| `MCLookupJoin_hang.cfg` | `LookupEnds` | after the error of a rowid worker each of its fellows takes one more rowid and exits, and the feeder waits for ever (`proc_table_creator_lookup.go:395`) |

More were met while modelling.

* *Broker.* `Return` appends a message without a wait-retry group to the end of `Q` and does not
  sort (`message_broker.go:250`): the assumption of `SortedWhenGrouped` is needed, and the
  producer in `pkg/mq` always gives a group.
* *Daemon.* SIGTERM is registered (`capidaemon.go:117`) but only an interrupt is acted on. The
  time-outs of the shutdown are numbers of milliseconds multiplied by `time.Second`.
  The CapiMQ acknowledger leaves what is in its channel unsent, and the AMQP one discards it,
  after the link was closed: those messages are processed again elsewhere. An answer that
  fails is not sent again. A message that cannot be read is claimed again and again from CapiMQ.
* *Runs.* A batch whose run is stopped between its two checks matches no rule for its own
  run, and falls back to the table of an older one; so does a reader of a node that failed in a
  run that is not over. Batches of one node may read different versions of a table, when a later
  run starts meanwhile. A dependency that no run has touched makes the message be acknowledged
  with nothing written (`message_handler.go:557`), and its run never ends. Batch numbers are
  16 bits (`run.go:128`), a script may ask for a million batches (`script_node_def.go:23`).
  Nothing looks for cycles when a script is loaded, and `addChildrenToManual` does not return
  from one (`script_def.go:317`).
* *History.* `FigureOutRunStatusAndAffectedNodesStatusesFromNodeEvents` lets the last event of a
  node decide, where its comment says the highest (`node_history.go:181`). A lease lost before
  the start row is written lets two workers process one batch, which the documentation of
  `max_batch_processing_time` does not cover (`scriptconfig.md:92`). `scriptconfig.md:70` says
  that a rerun does not clean up index tables, and `:88` that unique indexes are cleaned by key
  whatever the rowid; the code deletes the pairs of key and rowid from every index.
* *Pages.* Rows that share a token across the end of a page may also be read for ever
  (`data_util.go:304`); `EndsOrHangs` of `TableBatch` has the condition.
* *Clean-up.* The clean-up deletes from an index by key and rowid (`data_util.go:394`), which
  Cassandra does not take for a unique index: `rowid` is no part of its primary key
  (`table_inserter.go:218`).
* *Tables and files.* When the drainer gives up the batch fails, and the inserter may wait for
  ever for workers that nobody listens to (`table_inserter.go:242`). When a page has filled a block and begun
  another one, and more blocks are under way than the channels hold, producer and worker wait
  for each other if that one is full, too, or if a row cannot be evaluated and it is sent as it is
  (`file_inserter.go:43`, `:76`, `:129`); the temporary file is removed only after a success; no
  heartbeat is sent while a file batch reads.
* *Lookup.* The comment at `proc_table_creator_lookup.go:280` says that the counter of rows is
  serialised, but the lock around it at `:354` is one per key: `RowsWrittenCounted` does not
  hold, and the number reported may be too small. It is only reported.
* *Aggregates.* An empty string makes `min` forget the smaller ones before it, so the result depends on
  the order of the rows; `max` ignores empty strings. `max` of floats starts from the least float32
  (`eval_ctx.go:135`), so a row below that is lost. `string_agg` leaves the separator
  out as long as the result is empty; without a matching row the `_if` variants of `min` and
  `max` give the extreme values of the type; sums wrap; the order in `string_agg` is that of the
  workers.
* *Writers and keys.* A column of a file that aggregates passes the loader and fails on every
  row (`file_creator_def.go:193`); `write_null_if` is never tried.
  `decimal2` of an infinite float panics and takes the daemon with it (`convert.go:98`). `len` returns a Go `int`,
  which is the type of no field. A sample text of digits makes the loader refuse expressions
  that parse times. Trailing spaces and characters beyond its length do not count in a key, and strings with characters below the space, a tab or a
  new line, do not sort, as the padding comes after them;
  infinite floats, floats of 34 digits, and decimals beyond the precision of a float do not sort.

## 6. Not modelled

* *Message producers*: connections and encodings; `RunControl` has their failures.
* *Script loading and policies*: downloads, allow lists, a cache that expires; `BatchWorkflow`
  has their errors, at the access that follows. Of the definitions in `pkg/sc`, resolving names
  between nodes and the checks of JSON fields are functions of their input that change no state.
* *Conversions*: fields of CSV and Parquet files, formats of times and numbers, Go's functions
  on strings, times and floats. Each is a call of a library.
* *Message signatures, file transfer, Cassandra sessions and the text of queries*:
  cryptography, encoding and I/O; a failure of one is a fault at the step that needs it.
* *Web API and toolbelt*: front ends that call StartRun, StopRun and queries and keep no state.
* *Custom processors*: what the Python formulas compute; the flow of rows is in `TableBatch`.
* *Configuration, logging, contexts*: no behaviour of their own.
* *Clocks and consistency*: the database is one linearizable store with one clock in all modules.
  Clocks of several coordinators, and reads at a weaker consistency, are not modelled.
* *One index per table*: in `TableBatch` and `DistinctTable`; the others are written and cleaned
  up by the same code.
