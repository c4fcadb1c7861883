------------------------------ MODULE LeaseQueue ------------------------------
(***************************************************************************)
(* What the CapiMQ broker promises to the programs around it, with none of *)
(* its locks, clocks or orders: a message that was accepted is waiting, or *)
(* leased to somebody, or finished, never two of them and never none; only *)
(* a consumer that was given the message can finish it; a finished message *)
(* never comes back; and as long as its lease has not expired, no second   *)
(* consumer is given it.  CapimqBroker is shown to implement this module.  *)
(***************************************************************************)
CONSTANTS
  Msgs,       \* the messages that may ever be sent
  Consumers   \* the daemons that claim them

VARIABLES
  waiting,    \* accepted, deliverable to anybody
  leased,     \* taken out of the queue on somebody's behalf
  finished,   \* acknowledged, or withdrawn by an operator
  workers,    \* workers[c]: the messages consumer c believes it owns
  expired     \* messages some lease of which has run out

leaseVars == <<waiting, leased, finished, workers, expired>>

LeaseInit ==
  /\ waiting = {} /\ leased = {} /\ finished = {} /\ expired = {}
  /\ workers = [c \in Consumers |-> {}]

\* Nobody works on m, or a lease of m ran out and anybody may.
Available(m) == m \in expired \/ \A c \in Consumers : m \notin workers[c]

-------------------------------------------------------------------------------
Accept(S) ==
  /\ S # {} /\ S \cap (waiting \cup leased \cup finished) = {}
  /\ waiting' = waiting \cup S
  /\ UNCHANGED <<leased, finished, workers, expired>>

Lease(m) ==
  /\ m \in waiting
  /\ waiting' = waiting \ {m}
  /\ leased' = leased \cup {m}
  /\ UNCHANGED <<finished, workers, expired>>

Deliver(c, m) ==
  /\ m \in leased /\ Available(m)
  /\ workers' = [workers EXCEPT ![c] = @ \cup {m}]
  /\ UNCHANGED <<waiting, leased, finished, expired>>

\* The consumer stops caring about m: it crashed, gave up, or handed m back.
Abandon(c, m) ==
  /\ m \in workers[c]
  /\ workers' = [workers EXCEPT ![c] = @ \ {m}]
  /\ UNCHANGED <<waiting, leased, finished, expired>>

PutBack(S) ==
  /\ S # {} /\ S \subseteq leased /\ \A m \in S : Available(m)
  /\ leased' = leased \ S
  /\ waiting' = waiting \cup S
  /\ UNCHANGED <<finished, workers, expired>>

Expire(S) ==
  /\ S # {} /\ S \subseteq leased
  /\ expired' = expired \cup S
  /\ UNCHANGED <<waiting, leased, finished, workers>>

Finish(c, m) ==
  /\ m \in leased /\ m \in workers[c]
  /\ leased' = leased \ {m}
  /\ finished' = finished \cup {m}
  /\ workers' = [workers EXCEPT ![c] = @ \ {m}]
  /\ UNCHANGED <<waiting, expired>>

\* An operator deletes messages from the queue or from the work in progress.
Withdraw(S) ==
  /\ S # {} /\ (S \subseteq waiting \/ S \subseteq leased)
  /\ waiting' = waiting \ S
  /\ leased' = leased \ S
  /\ finished' = finished \cup S
  /\ UNCHANGED <<workers, expired>>

LeaseNext ==
  \/ \E S \in SUBSET Msgs : Accept(S) \/ PutBack(S) \/ Expire(S) \/ Withdraw(S)
  \/ \E m \in Msgs : Lease(m)
  \/ \E c \in Consumers, m \in Msgs : Deliver(c, m) \/ Abandon(c, m) \/ Finish(c, m)

LeaseSpec == LeaseInit /\ [][LeaseNext]_leaseVars

-------------------------------------------------------------------------------
LeaseTypeOK ==
  /\ waiting \subseteq Msgs /\ leased \subseteq Msgs /\ finished \subseteq Msgs
  /\ expired \subseteq Msgs
  /\ workers \in [Consumers -> SUBSET Msgs]

\* Two consumers own the same message only after a lease of it ran out, and
\* short of that a message somebody owns is not waiting for another consumer,
\* it is leased or finished: the promise behind processing a batch on one
\* worker at a time.
ExclusiveLease ==
  \A m \in Msgs \ expired :
    /\ \A c, d \in Consumers : m \in workers[c] /\ m \in workers[d] => c = d
    /\ \A c \in Consumers : m \in workers[c] => m \in leased \cup finished
===============================================================================
