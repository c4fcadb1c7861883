------------------------------ MODULE CapimqBroker ------------------------------
(***************************************************************************)
(* The in-memory message broker of pkg/capimq/message_broker.go and the    *)
(* consumers that call it over HTTP (pkg/mq/capimq_async_consumer.go).     *)
(*                                                                         *)
(* The broker keeps the queue Q under QMutex and the work in progress Wip  *)
(* under WipMutex, and never holds both: Claim, Return and ReturnDead take *)
(* a message out of one collection, release that mutex and only then put   *)
(* it in the other.  Each of these operations is therefore two actions,    *)
(* and a message between its two halves is in neither collection, held by  *)
(* the goroutine that serves the request.                                  *)
(***************************************************************************)
EXTENDS Integers, Sequences, FiniteSets, Functions

CONSTANTS
  Msgs,          \* message ids; DeliverEarlierThan breaks ties by their order
  Consumers,     \* the daemons
  Group,         \* Group[m]: CapimqWaitRetryGroup of m
  NoGroup,       \* the empty CapimqWaitRetryGroup
  Prefixes,      \* Delete's prefixes, each as the set of groups it matches
  MaxMessages,   \* capacity of Q
  ReturnDelay,   \* ReturnedDeliveryDelay
  DeadTimeout,   \* DeadAfterNoHeartbeatTimeout
  MaxLag,        \* bound: longest wait for a mutex after reading the clock
  MaxTime        \* bound: the clock stops here

ASSUME BrokerAssumption ==
  /\ Msgs \subseteq Nat /\ IsFiniteSet(Msgs)
  /\ {MaxMessages, ReturnDelay, DeadTimeout, MaxLag, MaxTime} \subseteq Nat

VARIABLES
  now,           \* time.Now().UnixMilli()
  unsent,        \* ids no producer has used yet (they are fresh UUIDs)
  Q, Wip,        \* the two collections of MessageBroker
  DeliverAfter, LastHeartbeat,  \* fields of the messages
  claiming,      \* claiming[c]: popped from Q for c, not yet in Wip
  returning,     \* removed from Wip by Return, not yet in Q
  dead,          \* removed from Wip by ReturnDead, not yet in Q
  held,          \* held[c]: the messages consumer c believes it owns
  acked, purged, expired   \* history: acknowledged; deleted; declared dead

vars == <<now, unsent, Q, Wip, DeliverAfter, LastHeartbeat, claiming, returning,
          dead, held, acked, purged, expired>>

history == <<acked, purged, expired>>

\* A handler reads the clock, then waits for a mutex: it uses a time that may
\* be up to MaxLag old.
ReadClock == {t \in 0..now : now - t <= MaxLag}

\* DeliverEarlierThan, with the delivery times at.
DeliverEarlierThan(at, l, r) == at[l] < at[r] \/ (at[l] = at[r] /\ l < r)

\* The sequences with the elements of S, each exactly once.
Arrangements(S) == Injection(1..Cardinality(S), S)

Ordered(at, s) == \A i, j \in DOMAIN s : i < j => DeliverEarlierThan(at, s[i], s[j])

\* Faulty variant of SortInto: append, and forget sortQ.
SortInto_NoSort(S) == \E s \in Arrangements(S) : Q' = Q \o s

\* sortQ, after the messages S were appended and DeliverAfter' was set.
SortInto(S) ==
  \E s \in Arrangements(Range(Q) \cup S) : Ordered(DeliverAfter', s) /\ Q' = s

Init ==
  /\ now = 0 /\ unsent = Msgs
  /\ Q = <<>> /\ Wip = {}
  /\ DeliverAfter = [m \in Msgs |-> 0] /\ LastHeartbeat = [m \in Msgs |-> 0]
  /\ claiming = [c \in Consumers |-> {}] /\ returning = {} /\ dead = {}
  /\ held = [c \in Consumers |-> {}]
  /\ acked = {} /\ purged = {} /\ expired = {}

Tick ==
  /\ now < MaxTime
  /\ now' = now + 1
  /\ UNCHANGED <<unsent, Q, Wip, DeliverAfter, LastHeartbeat, claiming, returning,
                 dead, held, history>>

\* A producer's bulk is taken as a whole or refused as a whole; only Q counts
\* against MaxMessages.
QBulk(S) ==
  /\ S # {} /\ S \subseteq unsent
  /\ Cardinality(S) + Len(Q) <= MaxMessages
  /\ unsent' = unsent \ S
  /\ \E t \in ReadClock :
       /\ DeliverAfter' = [m \in Msgs |-> IF m \in S THEN t ELSE DeliverAfter[m]]
       /\ LastHeartbeat' = [m \in Msgs |-> IF m \in S THEN 0 ELSE LastHeartbeat[m]]
       /\ SortInto(S)
  /\ UNCHANGED <<now, Wip, claiming, returning, dead, held, history>>

-------------------------------------------------------------------------------
\* Faulty variant of ClaimPop: the head is overwritten with nil and not cut off.
ClaimPop_LeavesNil(c) ==
  /\ Q # <<>>
  /\ \E t \in ReadClock :
       /\ DeliverAfter[Head(Q)] <= t
       /\ LastHeartbeat' = [LastHeartbeat EXCEPT ![Head(Q)] = t]
  /\ Q' = [Q EXCEPT ![1] = NoGroup]
  /\ claiming' = [claiming EXCEPT ![c] = @ \cup {Head(Q)}]
  /\ UNCHANGED <<now, unsent, Wip, DeliverAfter, returning, dead, held, history>>

\* Faulty variant of ClaimPop: the consumer is answered before Wip is updated.
ClaimPop_AnswersEarly(c) ==
  /\ Q # <<>>
  /\ \E t \in ReadClock :
       /\ DeliverAfter[Head(Q)] <= t
       /\ LastHeartbeat' = [LastHeartbeat EXCEPT ![Head(Q)] = t]
  /\ Q' = Tail(Q)
  /\ claiming' = [claiming EXCEPT ![c] = @ \cup {Head(Q)}]
  /\ held' = [held EXCEPT ![c] = @ \cup {Head(Q)}]
  /\ UNCHANGED <<now, unsent, Wip, DeliverAfter, returning, dead, history>>

\* Claim, first half: pop the head of Q if its time has come.
ClaimPop(c) ==
  /\ Q # <<>>
  /\ \E t \in ReadClock :
       /\ DeliverAfter[Head(Q)] <= t
       /\ LastHeartbeat' = [LastHeartbeat EXCEPT ![Head(Q)] = t]
  /\ Q' = Tail(Q)
  /\ claiming' = [claiming EXCEPT ![c] = @ \cup {Head(Q)}]
  /\ UNCHANGED <<now, unsent, Wip, DeliverAfter, returning, dead, held, history>>

\* Claim, second half: register the message in Wip and answer.  The consumer
\* waits 500 ms for the answer; when it is late, delivered is FALSE.
ClaimPutWip(c, m, delivered) ==
  /\ m \in claiming[c]
  /\ claiming' = [claiming EXCEPT ![c] = @ \ {m}]
  /\ Wip' = Wip \cup {m}
  /\ held' = IF delivered THEN [held EXCEPT ![c] = @ \cup {m}] ELSE held
  /\ UNCHANGED <<now, unsent, Q, DeliverAfter, LastHeartbeat, returning, dead, history>>

\* The consumer drops its token without the broker knowing: the daemon died,
\* or the request failed and acknowledgerWorker only logged the error.
Forget(c, m) ==
  /\ m \in held[c]
  /\ held' = [held EXCEPT ![c] = @ \ {m}]
  /\ UNCHANGED <<now, unsent, Q, Wip, DeliverAfter, LastHeartbeat, claiming,
                 returning, dead, history>>

\* Ack, Heartbeat and Return know the message by its id only: whoever sends
\* the id acts on the claim that is in Wip now.  With no such claim they
\* answer an error, and the consumer is left with Forget.
Ack(c, m) ==
  /\ m \in held[c] /\ m \in Wip
  /\ held' = [held EXCEPT ![c] = @ \ {m}]
  /\ Wip' = Wip \ {m}
  /\ acked' = acked \cup {m}
  /\ UNCHANGED <<now, unsent, Q, DeliverAfter, LastHeartbeat, claiming, returning,
                 dead, purged, expired>>

Heartbeat(c, m) ==
  /\ m \in held[c] /\ m \in Wip
  /\ LastHeartbeat' = [LastHeartbeat EXCEPT ![m] = now]
  /\ UNCHANGED <<now, unsent, Q, Wip, DeliverAfter, claiming, returning, dead,
                 held, history>>

\* Faulty variants of ReturnTakeWip: the message stays in Wip; and the
\* consumer goes on working on the message it has returned.
ReturnTakeWip_KeepsWip(c, m) ==
  /\ m \in held[c] /\ m \in Wip
  /\ held' = [held EXCEPT ![c] = @ \ {m}]
  /\ returning' = returning \cup {m}
  /\ UNCHANGED <<now, unsent, Q, Wip, DeliverAfter, LastHeartbeat, claiming, dead, history>>
ReturnTakeWip_KeepsHeld(c, m) ==
  /\ m \in held[c] /\ m \in Wip
  /\ Wip' = Wip \ {m}
  /\ returning' = returning \cup {m}
  /\ UNCHANGED <<now, unsent, Q, DeliverAfter, LastHeartbeat, claiming, dead, held, history>>

ReturnTakeWip(c, m) ==
  /\ m \in held[c] /\ m \in Wip
  /\ held' = [held EXCEPT ![c] = @ \ {m}]
  /\ Wip' = Wip \ {m}
  /\ returning' = returning \cup {m}
  /\ UNCHANGED <<now, unsent, Q, DeliverAfter, LastHeartbeat, claiming, dead, history>>

\* Return, second half.  A returned message postpones every queued message of
\* its group; a message without a group is appended and Q is not sorted.
ReturnPutQ(m) ==
  /\ m \in returning
  /\ returning' = returning \ {m}
  /\ \E t \in ReadClock :
       IF Group[m] = NoGroup
       THEN /\ DeliverAfter' = [DeliverAfter EXCEPT ![m] = t + ReturnDelay]
            /\ Q' = Append(Q, m)
       ELSE /\ DeliverAfter' =
                 [n \in Msgs |-> IF n \in Range(Q) \cup {m} /\ Group[n] = Group[m]
                                 THEN t + ReturnDelay ELSE DeliverAfter[n]]
            /\ SortInto({m})
  /\ UNCHANGED <<now, unsent, Wip, LastHeartbeat, claiming, dead, held, history>>

\* ReturnDead runs in one goroutine, so at most one batch of dead messages is
\* between the collections.
ReturnDeadTakeWip ==
  /\ dead = {}
  /\ \E t \in ReadClock :
       dead' = {m \in Wip : LastHeartbeat[m] < t - DeadTimeout}
  /\ dead' # {}
  /\ Wip' = Wip \ dead'
  /\ expired' = expired \cup dead'
  /\ UNCHANGED <<now, unsent, Q, DeliverAfter, LastHeartbeat, claiming, returning,
                 held, acked, purged>>

ReturnDeadPutQ ==
  /\ dead # {}
  /\ dead' = {}
  /\ UNCHANGED <<now, unsent, Wip, DeliverAfter, LastHeartbeat, claiming, returning,
                 held, history>>
  /\ SortInto(dead)

-------------------------------------------------------------------------------
\* Delete(HeapTypeQ, prefix) removes element i in place and then advances i
\* past the element that moved into its position: that one is never looked at.
DeletedFromQ(prefix) ==
  LET hit[i \in 0..Len(Q)] == i > 0 /\ Group[Q[i]] \in prefix /\ ~hit[i - 1]
  IN  {Q[i] : i \in {j \in 1..Len(Q) : hit[j]}}

\* The queue keeps S, in the order it has.
QKeep(S) ==
  \E s \in Arrangements(S) :
    /\ \A i, j \in DOMAIN s : i < j =>
         \E k, l \in DOMAIN Q : k < l /\ Q[k] = s[i] /\ Q[l] = s[j]
    /\ Q' = s

DeleteQ(prefix) ==
  LET gone == DeletedFromQ(prefix)
  IN  /\ gone # {}
      /\ QKeep(Range(Q) \ gone)
      /\ purged' = purged \cup gone
      /\ UNCHANGED <<now, unsent, Wip, DeliverAfter, LastHeartbeat, claiming,
                     returning, dead, held, acked, expired>>

DeleteWip(prefix) ==
  LET gone == {m \in Wip : Group[m] \in prefix}
  IN  /\ gone # {}
      /\ Wip' = Wip \ gone
      /\ purged' = purged \cup gone
      /\ UNCHANGED <<now, unsent, Q, DeliverAfter, LastHeartbeat, claiming,
                     returning, dead, held, acked, expired>>

Next ==
  \/ Tick
  \/ \E S \in SUBSET Msgs : QBulk(S)
  \/ \E c \in Consumers : ClaimPop(c)
  \/ \E c \in Consumers, m \in Msgs, delivered \in BOOLEAN : ClaimPutWip(c, m, delivered)
  \/ \E c \in Consumers, m \in Msgs : Forget(c, m)
  \/ \E c \in Consumers, m \in Msgs : Ack(c, m)
  \/ \E c \in Consumers, m \in Msgs : Heartbeat(c, m)
  \/ \E c \in Consumers, m \in Msgs : ReturnTakeWip(c, m)
  \/ \E m \in Msgs : ReturnPutQ(m)
  \/ ReturnDeadTakeWip
  \/ ReturnDeadPutQ
  \/ \E prefix \in Prefixes : DeleteQ(prefix) \/ DeleteWip(prefix)

Spec == Init /\ [][Next]_vars

-------------------------------------------------------------------------------
\* The state of the broker has the shapes of MessageBroker's fields.
TypeOK ==
  /\ now \in Nat
  /\ Q \in Seq(Msgs)
  /\ unsent \subseteq Msgs /\ Wip \subseteq Msgs /\ returning \subseteq Msgs
  /\ dead \subseteq Msgs /\ acked \subseteq Msgs /\ purged \subseteq Msgs
  /\ expired \subseteq Msgs
  /\ DeliverAfter \in [Msgs -> Nat] /\ LastHeartbeat \in [Msgs -> Nat]
  /\ claiming \in [Consumers -> SUBSET Msgs] /\ held \in [Consumers -> SUBSET Msgs]

\* The places a message can be, the gaps between the two locks included.
Claiming == UNION {claiming[c] : c \in Consumers}
Places == <<unsent, Range(Q), Wip, Claiming, returning, dead, acked, purged>>

\* Claim, Return, ReturnDead, Ack and Delete, interleaved in any order and with
\* messages between the two mutexes, neither lose a message nor duplicate it:
\* it is in exactly one place, once in Q, and on its way for one claim only.
NothingLostOrDuplicated ==
  /\ \A m \in Msgs : \E i \in DOMAIN Places : m \in Places[i]
  /\ \A i, j \in DOMAIN Places : i # j => Places[i] \cap Places[j] = {}
  /\ IsInjective(Q)
  /\ \A c, d \in Consumers : c # d => claiming[c] \cap claiming[d] = {}

\* "The earliest item is at the head of the slice" (Claim, message_broker.go:184):
\* the claim's only look at Q[0] is right, so a deliverable message is never
\* hidden behind a postponed one.
QSorted == Ordered(DeliverAfter, Q)

\* A message that never missed its heartbeats is owned by one consumer at most,
\* and its owner finds it in Wip: the Ack or Return that ends the work is not
\* refused as "acked already by another client, or declared dead"
\* (message_broker.go:210), unless an operator deleted the message.
OwnerFindsItInWip ==
  \A m \in Msgs \ expired :
    /\ \A c, d \in Consumers : m \in held[c] /\ m \in held[d] => c = d
    /\ \A c \in Consumers : m \in held[c] => m \in Wip \cup purged

\* The broker implements the lease queue: the halves of Claim, Return and
\* ReturnDead never hand a message to a second consumer, nor bring one back,
\* unless its heartbeat timed out.
LQ == INSTANCE LeaseQueue WITH
        waiting <- Range(Q),
        leased <- Wip \cup Claiming \cup returning \cup dead,
        finished <- acked \cup purged,
        workers <- held,
        expired <- expired
ImplementsLeaseQueue == LQ!LeaseSpec

\* What the test of Delete counts on (message_broker_test.go:110-115, where
\* Delete removes as many messages as Filter and Count find for the prefix):
\* after a Delete no message with the prefix is left in Q.
DeleteRemovesAll ==
  [][\A prefix \in Prefixes :
       DeleteQ(prefix) => \A m \in Range(Q') : Group[m] \notin prefix]_vars
===============================================================================
