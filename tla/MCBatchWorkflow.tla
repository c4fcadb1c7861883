----------------------------- MODULE MCBatchWorkflow -----------------------------
(* Values of BatchWorkflow's constants for TLC. *)
EXTENDS BatchWorkflow, TLC

CONSTANTS A, B, w1, w2, d1, d2

\* Two nodes: B reads the table that A creates.
Chain == (A :> {} @@ B :> {A})
\* One batch per node.
OneEach == (1 :> A @@ 2 :> B)
\* Node A in two batches, node B in one.
TwoOfA == (1 :> A @@ 2 :> A @@ 3 :> B)
\* One node in one batch.
OneOfOne == (1 :> A)
Alone == (A :> {})

\* A daemon per worker; both workers in one daemon.
TwoDaemons == (w1 :> d1 @@ w2 :> d2)
OneDaemon == (w1 :> d1 @@ w2 :> d1)
\* Both daemons are alike, each with its worker.
Twins == {p \in Permutations({w1, w2, d1, d2}) :
            \A w \in Workers : p[w] \in Workers /\ p[DaemonOf[w]] = DaemonOf[p[w]]}
===============================================================================
