----------------------------- MODULE DaemonConsumer -----------------------------
(***************************************************************************)
(* How a daemon takes messages from the broker and answers them: main of   *)
(* pkg/exe/daemon/capidaemon.go with CapimqAsyncConsumer or                *)
(* Amqp10AsyncConsumer of pkg/mq.                                          *)
(*                                                                         *)
(* The listener claims messages and puts them into the channel "incoming", *)
(* of capacity 1; main starts a worker for each, in one of Slots; a worker *)
(* puts its answer into the channel "outgoing", which has a place for each *)
(* slot; the acknowledger sends the answers.  At a signal main shuts the   *)
(* parts down one by one.                                                  *)
(*                                                                         *)
(* The brokers are here what the consumer sees of them: CapimqBroker has   *)
(* the whole of CapiMQ.                                                    *)
(***************************************************************************)
EXTENDS Integers, Sequences, FiniteSets

CONSTANTS
  Messages,
  Doubtful,     \* messages that may turn out to be invalid
  Pool,         \* DaemonConfig.ThreadPoolSize
  MqTypes,      \* subset of {"capimq", "amqp"}
  MayStop,      \* the daemon may get a signal
  None,
  FaultKinds,   \* subset of {"claim", "answer", "link", "slow", "retry"}
  MaxFaults     \* bound: number of faults in a behaviour

ASSUME ConsumerAssumption ==
  /\ Doubtful \subseteq Messages /\ Pool \in Nat \ {0}
  /\ MqTypes \subseteq {"capimq", "amqp"}
  /\ None \notin [msg : Messages, cmd : {"ack", "retry", "heartbeat"}]  \* not an answer

VARIABLES
  mq,
  invalid,       \* messages that cannot be unmarshaled, or fail verification
  broker,        \* broker[m]: "queued", "out" (claimed, or delivered and not settled), "acked"
  link,          \* [n, at]: AMQP session of the listener: the n-th one is "closed", "open" or
                 \* "dead", when the listener takes it for open
  handling,      \* amqpMessagesInHandling[m]: session that delivered m, 0 if there is no entry
  listener,      \* [at, msg]
  incoming,      \* listenerChannel
  active,        \* activeProcessors
  main,          \* [at, msg]
  slot,          \* slot[s]: the goroutine that holds slot s of the semaphore: [at, msg, cmd]
  outgoing,      \* acknowledgerChannel
  acknowledger,  \* [at, token]
  stopping,      \* subset of {"listener", "acknowledger"}
  closed,        \* the channels that are closed
  done,          \* history: messages whose batch was completed, or is not to be run
  dropped,       \* history: messages whose answer the broker never got
  faults

history == <<done, dropped>>
vars == <<mq, invalid, broker, link, handling, listener, incoming, active, main, slot, outgoing,
          acknowledger, stopping, closed, history, faults>>

Slots == 1..Pool
Free == [at |-> "free", msg |-> None, cmd |-> None]
Token(m, cmd) == [msg |-> m, cmd |-> cmd]

Fault(kind) ==
  /\ kind \in FaultKinds
  /\ faults < MaxFaults
  /\ faults' = faults + 1

\* Messages delivered by a session that has ended go back to the queue.
Requeued == [m \in Messages |-> IF broker[m] = "out" THEN "queued" ELSE broker[m]]

-------------------------------------------------------------------------------
\* The listener.

ListenerStatic == <<mq, invalid, main, slot, outgoing, acknowledger, stopping, closed, history>>
GoOn == listener' = [at |-> "loop", msg |-> None]

\* Faulty variant: one claim too many.
HasProcessor_OneMore == active <= Pool

\* "Do not claim until at least one processor is ready"
HasProcessor == active # Pool

ListenerLoop ==
  /\ listener.at = "loop"
  /\ IF "listener" \in stopping
     THEN listener' = [listener EXCEPT !.at = "done"] /\ UNCHANGED <<link, faults>>
     ELSE /\ HasProcessor
          /\ \/ /\ listener' = [listener EXCEPT !.at = "claim"]
                /\ link' = IF mq = "amqp" /\ link.at = "closed"
                           THEN [n |-> link.n + 1, at |-> "open"] ELSE link
                /\ UNCHANGED faults
             \/ /\ mq = "amqp" /\ link.at = "closed"
                /\ Fault("link")
                /\ UNCHANGED <<listener, link>>
  /\ UNCHANGED <<ListenerStatic, broker, handling, incoming, active>>

\* claim: the answer may be lost after the broker has claimed a message for this daemon, and a
\* message that cannot be unmarshaled is left to the broker.
Claim ==
  /\ mq = "capimq" /\ listener.at = "claim"
  /\ \/ (\A m \in Messages : broker[m] # "queued") /\ GoOn /\ UNCHANGED <<broker, active, faults>>
     \/ \E m \in Messages :
          /\ broker[m] = "queued"
          /\ broker' = [broker EXCEPT ![m] = "out"]
          /\ \/ /\ m \notin invalid
                /\ listener' = [at |-> "push", msg |-> m]
                /\ active' = active + 1
                /\ UNCHANGED faults
             \/ m \in invalid /\ GoOn /\ UNCHANGED <<active, faults>>
             \/ Fault("claim") /\ GoOn /\ UNCHANGED active
     \/ Fault("claim") /\ GoOn /\ UNCHANGED <<broker, active>>
  /\ UNCHANGED <<ListenerStatic, link, handling, incoming>>

\* Faulty variant: an entry is not replaced.
Register_Once(m) == handling' = [handling EXCEPT ![m] = IF @ = 0 THEN link.n ELSE @]

Register(m) == handling' = [handling EXCEPT ![m] = link.n]

\* listenerReceive: an invalid message is accepted and dropped.
Receive ==
  /\ mq = "amqp" /\ listener.at = "claim"
  /\ \/ /\ link.at = "dead"
        /\ GoOn
        /\ link' = [link EXCEPT !.at = "closed"]
        /\ UNCHANGED <<broker, handling, faults>>
     \/ /\ link.at = "open" /\ \A m \in Messages : broker[m] # "queued"
        /\ GoOn
        /\ UNCHANGED <<broker, handling, link, faults>>
     \/ /\ link.at = "open"
        /\ \E m \in Messages :
             /\ broker[m] = "queued"
             /\ \/ /\ m \notin invalid
                   /\ broker' = [broker EXCEPT ![m] = "out"]
                   /\ Register(m)
                   /\ listener' = [at |-> "push", msg |-> m]
                   /\ UNCHANGED faults
                \/ /\ m \in invalid
                   /\ \/ broker' = [broker EXCEPT ![m] = "acked"] /\ UNCHANGED faults
                      \/ broker' = [broker EXCEPT ![m] = "out"] /\ Fault("answer")
                   /\ GoOn /\ UNCHANGED handling
        /\ UNCHANGED link
  /\ UNCHANGED <<ListenerStatic, incoming, active>>

\* The message is put into the channel, which waits for room.  The AMQP listener counts the
\* processor afterwards.
Push ==
  /\ listener.at = "push"
  /\ Len(incoming) < 1
  /\ incoming' = Append(incoming, listener.msg)
  /\ IF mq = "amqp" THEN listener' = [listener EXCEPT !.at = "count"] ELSE GoOn
  /\ UNCHANGED <<ListenerStatic, broker, link, handling, active, faults>>

\* Faulty variant: nobody is counted.
CountProcessor_Not ==
  /\ listener.at = "count"
  /\ GoOn
  /\ UNCHANGED <<ListenerStatic, broker, link, handling, incoming, active, faults>>

CountProcessor ==
  /\ listener.at = "count"
  /\ active' = active + 1
  /\ GoOn
  /\ UNCHANGED <<ListenerStatic, broker, link, handling, incoming, faults>>

-------------------------------------------------------------------------------
\* main

CloseLink ==
  IF mq = "amqp" THEN link' = [link EXCEPT !.at = "closed"] /\ broker' = Requeued
                 ELSE UNCHANGED <<link, broker>>

MainStatic == <<mq, invalid, handling, listener, active, outgoing, acknowledger, history, faults>>

TakeMessage ==
  /\ main.at = "select" /\ incoming # <<>>
  /\ main' = [at |-> "slot", msg |-> Head(incoming)]
  /\ incoming' = Tail(incoming)
  /\ UNCHANGED <<MainStatic, broker, link, slot, stopping, closed>>

\* "Lock one slot in the semaphore", which waits for one.
StartWorker ==
  /\ main.at = "slot"
  /\ \E s \in Slots :
       /\ slot[s] = Free /\ \A t \in 1..s-1 : slot[t] # Free    \* slots are all alike
       /\ slot' = [slot EXCEPT ![s] = [at |-> "work", msg |-> main.msg, cmd |-> None]]
  /\ main' = [at |-> "select", msg |-> None]
  /\ UNCHANGED <<MainStatic, broker, link, incoming, stopping, closed>>

\* Faulty variant: the listener is not told.
Signal_Quiet ==
  /\ MayStop /\ main.at = "select"
  /\ main' = [main EXCEPT !.at = "stopListener"]
  /\ UNCHANGED <<MainStatic, broker, link, incoming, slot, stopping, closed>>

\* SIGINT.  If there is a message as well, select may prefer the signal.
Signal ==
  /\ MayStop /\ main.at = "select"
  /\ main' = [main EXCEPT !.at = "stopListener"]
  /\ stopping' = stopping \cup {"listener"}
  /\ UNCHANGED <<MainStatic, broker, link, incoming, slot, closed>>

\* stopListener, and the listener's channel is closed.  The wait ends after a time that only a
\* listener reaches which cannot put its message into the channel; a goroutine that sends to a
\* closed channel ends the daemon.
StopListener ==
  /\ main.at = "stopListener"
  /\ \/ /\ listener.at = "done"
        /\ main' = [main EXCEPT !.at = "waitWorkers"]
        /\ UNCHANGED <<link, broker>>
     \/ /\ listener.at = "push" /\ incoming # <<>>
        /\ main' = [main EXCEPT !.at = "panicked"]
        /\ CloseLink
  /\ closed' = closed \cup {"incoming"}
  /\ UNCHANGED <<MainStatic, incoming, slot, stopping>>

\* Faulty variant: the workers are not waited for.
WaitWorkers_Not ==
  /\ main.at = "waitWorkers"
  /\ stopping' = stopping \cup {"acknowledger"}
  /\ main' = [main EXCEPT !.at = "stopAcknowledger"]
  /\ CloseLink
  /\ UNCHANGED <<MainStatic, incoming, slot, closed>>

\* When all slots of the semaphore are free, the AMQP link is closed, and the acknowledger is told
\* to stop.
WaitWorkers ==
  /\ main.at = "waitWorkers"
  /\ \A s \in Slots : slot[s] = Free
  /\ stopping' = stopping \cup {"acknowledger"}
  /\ main' = [main EXCEPT !.at = "stopAcknowledger"]
  /\ CloseLink
  /\ UNCHANGED <<MainStatic, incoming, slot, closed>>

StopAcknowledger ==
  /\ main.at = "stopAcknowledger" /\ acknowledger.at = "done"
  /\ closed' = closed \cup {"outgoing"}
  /\ main' = [main EXCEPT !.at = "exited"]
  /\ UNCHANGED <<MainStatic, broker, link, incoming, slot, stopping>>

-------------------------------------------------------------------------------
\* The workers.

WorkerStatic == <<mq, invalid, broker, link, handling, listener, incoming, main, acknowledger,
                  stopping, closed, dropped>>

\* heartbeatCallback, once at most for a message.
Heartbeat(s) ==
  /\ mq = "capimq" /\ slot[s].at = "work" /\ slot[s].cmd = None
  /\ Len(outgoing) < Pool
  /\ outgoing' = Append(outgoing, Token(slot[s].msg, "heartbeat"))
  /\ slot' = [slot EXCEPT ![s].cmd = "heartbeat"]
  /\ UNCHANGED <<WorkerStatic, active, done, faults>>

\* Faulty variant: the processor is never ready again.
Finish_StaysBusy(s) ==
  /\ slot[s].at = "work"
  /\ slot' = [slot EXCEPT ![s].at = "answer", ![s].cmd = "ack"]
  /\ done' = done \cup {slot[s].msg}
  /\ UNCHANGED <<WorkerStatic, outgoing, active, faults>>

\* ProcessDataBatchMsg returns, and the processor is counted as ready.
Finish(s) ==
  /\ slot[s].at = "work"
  /\ \/ /\ slot' = [slot EXCEPT ![s].at = "answer", ![s].cmd = "ack"]
        /\ done' = done \cup {slot[s].msg}
        /\ UNCHANGED faults
     \/ /\ slot' = [slot EXCEPT ![s].at = "answer", ![s].cmd = "retry"]
        /\ Fault("retry")
        /\ UNCHANGED done
  /\ active' = active - 1
  /\ UNCHANGED <<WorkerStatic, outgoing>>

\* And then the slot is free again.
Answer(s) ==
  /\ slot[s].at = "answer"
  /\ Len(outgoing) < Pool
  /\ outgoing' = Append(outgoing, Token(slot[s].msg, slot[s].cmd))
  /\ slot' = [slot EXCEPT ![s] = Free]
  /\ UNCHANGED <<WorkerStatic, active, done, faults>>

-------------------------------------------------------------------------------
\* The acknowledger.

AckStatic == <<mq, invalid, link, listener, incoming, active, main, slot, stopping, closed, done>>
AckLoop == acknowledger' = [at |-> "loop", token |-> None]

TakeToken ==
  /\ acknowledger.at = "loop"
  /\ "acknowledger" \notin stopping
  /\ outgoing # <<>>
  /\ acknowledger' = [at |-> "token", token |-> Head(outgoing)]
  /\ outgoing' = Tail(outgoing)
  /\ UNCHANGED <<AckStatic, broker, handling, dropped, faults>>

\* What is left in the channel is never sent; the AMQP consumer takes it out.
LeaveTokens ==
  /\ acknowledger.at = "loop"
  /\ "acknowledger" \in stopping
  /\ acknowledger' = [at |-> "done", token |-> None]
  /\ dropped' = dropped \cup {outgoing[i].msg : i \in DOMAIN outgoing}
  /\ outgoing' = IF mq = "amqp" THEN <<>> ELSE outgoing
  /\ UNCHANGED <<AckStatic, broker, handling, faults>>

Effect(m, cmd) == IF cmd = "ack" THEN "acked" ELSE "queued"

\* Faulty variant: the broker takes a return for an ack.
Settled_AsAck(m, cmd) ==
  IF cmd = "heartbeat" \/ broker[m] # "out" THEN broker ELSE [broker EXCEPT ![m] = "acked"]

\* What an answer does to the message at the broker; a message that is not out is not found.
Settled(m, cmd) ==
  IF cmd = "heartbeat" \/ broker[m] # "out" THEN broker ELSE [broker EXCEPT ![m] = Effect(m, cmd)]

\* ack, retry or heartbeat: an answer that fails is logged and not sent again.
SendToken ==
  LET m == acknowledger.token.msg  cmd == acknowledger.token.cmd
  IN /\ mq = "capimq" /\ acknowledger.at = "token"
     /\ \/ broker' = Settled(m, cmd) /\ UNCHANGED <<dropped, faults>>
        \/ Fault("answer") /\ dropped' = dropped \cup {m} /\ UNCHANGED broker
     /\ AckLoop
     /\ UNCHANGED <<AckStatic, handling, outgoing>>

\* acknowledgerAckRetry: the answer goes out on the link that has delivered the message that the map
\* has now, and fails if that one is closed or dead.  A token that finds no connection leaves the
\* entry in the map.
SendDisposition ==
  LET m == acknowledger.token.msg  cmd == acknowledger.token.cmd
  IN /\ mq = "amqp" /\ acknowledger.at = "token"
     /\ \/ /\ handling[m] = 0
           /\ UNCHANGED <<broker, handling, dropped, faults>>
        \/ /\ handling[m] # 0
           /\ handling' = [handling EXCEPT ![m] = 0]
           /\ IF handling[m] = link.n /\ link.at = "open"
              THEN \/ broker' = Settled(m, cmd) /\ UNCHANGED <<dropped, faults>>
                   \/ Fault("answer") /\ dropped' = dropped \cup {m} /\ UNCHANGED broker
              ELSE UNCHANGED <<broker, dropped, faults>>
        \/ Fault("answer") /\ dropped' = dropped \cup {m} /\ UNCHANGED <<broker, handling>>
     /\ AckLoop
     /\ UNCHANGED <<AckStatic, outgoing>>

-------------------------------------------------------------------------------
\* The brokers.

InDaemon(m) ==
  /\ main.at \notin {"exited", "panicked"}
  /\ \/ m \in {listener.msg, main.msg} \cup {slot[s].msg : s \in Slots}
     \/ \E i \in DOMAIN incoming : incoming[i] = m
     \/ \E i \in DOMAIN outgoing : outgoing[i].msg = m
     \/ acknowledger.token # None /\ acknowledger.token.msg = m

\* CapiMQ returns a message that nobody sends heartbeats for, or whose heartbeats are late.
Expire(m) ==
  /\ mq = "capimq" /\ broker[m] = "out"
  /\ IF InDaemon(m) THEN Fault("slow") ELSE UNCHANGED faults
  /\ broker' = [broker EXCEPT ![m] = "queued"]
  /\ UNCHANGED <<mq, invalid, link, handling, listener, incoming, active, main, slot, outgoing,
                 acknowledger, stopping, closed, history>>

\* An AMQP connection ends; the listener notices when it receives next.
LinkDies ==
  /\ link.at = "open"
  /\ Fault("link")
  /\ link' = [link EXCEPT !.at = "dead"]
  /\ broker' = Requeued
  /\ UNCHANGED <<mq, invalid, handling, listener, incoming, active, main, slot, outgoing,
                 acknowledger, stopping, closed, history>>

-------------------------------------------------------------------------------
Init ==
  /\ mq \in MqTypes /\ invalid \in SUBSET Doubtful
  /\ broker = [m \in Messages |-> "queued"]
  /\ link = [n |-> 0, at |-> "closed"]
  /\ handling = [m \in Messages |-> 0]
  /\ listener = [at |-> "loop", msg |-> None]
  /\ incoming = <<>> /\ active = 0
  /\ main = [at |-> "select", msg |-> None]
  /\ slot = [s \in Slots |-> Free]
  /\ outgoing = <<>>
  /\ acknowledger = [at |-> "loop", token |-> None]
  /\ stopping = {} /\ closed = {}
  /\ done = {} /\ dropped = {} /\ faults = 0

Running == main.at \notin {"exited", "panicked"}
Listener == ListenerLoop \/ Claim \/ Receive \/ Push \/ CountProcessor
Main == TakeMessage \/ StartWorker \/ StopListener \/ WaitWorkers \/ StopAcknowledger
Worker(s) == Heartbeat(s) \/ Finish(s) \/ Answer(s)
Acknowledger == TakeToken \/ LeaveTokens \/ SendToken \/ SendDisposition

Next ==
  \/ Running /\ (Listener \/ Main \/ Signal \/ Acknowledger \/ \E s \in Slots : Worker(s))
  \/ LinkDies
  \/ \E m \in Messages : Expire(m)
  \/ ~Running /\ UNCHANGED vars    \* not a step of the program

Spec == Init /\ [][Next]_vars

\* Goroutines are scheduled, a receive on a link returns, every batch ends, CapiMQ looks at its
\* leases, and serves its queue in order.  Nothing says that a signal comes.
FairSpec ==
  /\ Spec
  /\ WF_vars(Running /\ Listener) /\ WF_vars(Running /\ Main) /\ WF_vars(Running /\ Acknowledger)
  /\ \A s \in Slots : WF_vars(Running /\ Worker(s))
  /\ \A m \in Messages : /\ WF_vars(~InDaemon(m) /\ Expire(m))
                          /\ SF_vars(Running /\ Claim /\ broker'[m] # broker[m])

-------------------------------------------------------------------------------
TypeOK ==
  /\ mq \in MqTypes /\ invalid \in SUBSET Doubtful
  /\ broker \in [Messages -> {"queued", "out", "acked"}]
  /\ link \in [n : Nat, at : {"closed", "open", "dead"}]
  /\ handling \in [Messages -> 0..link.n]
  /\ listener \in [at : {"loop", "claim", "push", "count", "done"}, msg : Messages \cup {None}]
  /\ Len(incoming) <= 1 /\ Len(outgoing) <= Pool
  /\ active \in -1..Pool
  /\ main.at \in {"select", "slot", "stopListener", "waitWorkers", "stopAcknowledger", "exited",
                  "panicked"}
  /\ slot \in [Slots -> [at : {"free", "work", "answer"}, msg : Messages \cup {None},
                         cmd : {None, "ack", "retry", "heartbeat"}]]
  /\ acknowledger.at \in {"loop", "token", "done"}
  /\ stopping \subseteq {"listener", "acknowledger"} /\ closed \subseteq {"incoming", "outgoing"}
  /\ done \subseteq Messages /\ dropped \subseteq Messages /\ faults \in 0..MaxFaults

Count(condition) == IF condition THEN 1 ELSE 0

\* "Do not claim until at least one processor is ready, otherwise we risk a msg sitting in the
\* channel without sending heartbeats" (listenerWorker): there are never more messages claimed
\* and not finished than processors; one that still waits for a slot waits for an answer to be
\* taken, and not for a batch.
ClaimsFitPool ==
  Running =>
    /\ Count(listener.at = "push") + Len(incoming) + Count(main.at = "slot")
         + Cardinality({s \in Slots : slot[s].at = "work"}) <= Pool
    /\ main.at = "slot" => \E s \in Slots : slot[s].at # "work"

\* A message is removed from the broker only when a worker has completed its batch, whichever of
\* its deliveries the answer was for (acknowledgerWorker, acknowledgerAckRetry).
AckedMeansDone ==
  \A m \in Messages : broker[m] = "acked" => m \in done \/ (mq = "amqp" /\ m \in invalid)

\* AMQP has no leases: a message that the broker counts as delivered, and that nobody in the
\* daemon has, stays away until the link is closed.  Only an answer that failed does that
\* (amqpMessagesInHandling).
OutIsHeld ==
  mq = "amqp" /\ Running =>
    \A m \in Messages : broker[m] = "out" => InDaemon(m) \/ m \in dropped \cup invalid

\* After a graceful shutdown nobody is left to work on a batch, or to send to a channel that is
\* closed (Shutdown): part of ShutdownEnds, below.
CleanExit ==
  main.at = "exited" =>
    /\ listener.at = "done" /\ acknowledger.at = "done"
    /\ \A s \in Slots : slot[s] = Free
    /\ active = Len(incoming)

\* "To work properly, and gracefully close async consumer, the caller should do this"
\* (amqp10_async_consumer.go), and main does it: the daemon does not panic.
ShutdownIsGraceful == main.at # "panicked"

\* Every message is answered for good in the end, unless the daemon is told to stop; AMQP keeps
\* one whose answer was lost, and CapiMQ one that cannot be read.
Settles ==
  <>(\/ stopping # {}
     \/ \A m \in Messages :
          \/ broker[m] = "acked"
          \/ mq = "capimq" /\ m \in invalid
          \/ mq = "amqp" /\ broker[m] = "out" /\ m \in dropped \cup invalid)

\* A daemon that got a signal ends, and leaves nobody behind.
ShutdownEnds ==
  (stopping # {} \/ main.at = "stopListener") ~> (~Running /\ CleanExit)
===============================================================================
