----------------------------- MODULE MCCapimqBroker -----------------------------
(* Values of CapimqBroker's constants for TLC. *)
EXTENDS CapimqBroker, TLC

CONSTANTS g1, g2, none   \* groups (FullNodeId), and the empty group

\* Two nodes of a run: the first two messages are of one node.
TwoNodes == [m \in Msgs |-> IF m <= 2 THEN g1 ELSE g2]
\* All messages are of one node.
OneNode == [m \in Msgs |-> g1]

\* Delete's prefixes: the keyspace of both nodes, and one of them.
NodePrefixes == {{none, g1, g2}, {g1}}
OnePrefix == {{g1}}

ConsumerSymmetry == Permutations(Consumers)
===============================================================================
