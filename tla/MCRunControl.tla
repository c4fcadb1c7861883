----------------------------- MODULE MCRunControl -----------------------------
EXTENDS RunControl, TLC

Lowest == -4
\* 2 reads 1, 3 reads 2 and looks up 1, 4 reads 1; 2 is manual and has two batches.
Main ==
  [nodes |-> 1..4, reads |-> <<{}, {1}, {1, 2}, {1}>>, manual |-> {2}, fallible |-> {1},
   batches |-> <<1, 2, 1, 1>>, starts |-> {{1}, {2}, {1, 2}}, bulk |-> TRUE, calls |-> 2]
\* Two files, and a ring of eight tokens in three parts.
Wide ==
  [nodes |-> 1..2, reads |-> <<{}, {1}>>, manual |-> {}, fallible |-> {1, 2},
   batches |-> <<2, 3>>, starts |-> {{1}, {2}}, bulk |-> FALSE, calls |-> 1]
\* More calls of StartRun than there are runs.
Crowded ==
  [nodes |-> 1..1, reads |-> <<{}>>, manual |-> {}, fallible |-> {},
   batches |-> <<1>>, starts |-> {{1}}, bulk |-> TRUE, calls |-> 4]

\* Every script of three nodes, every start of it, one run.
Small ==
  {[nodes |-> 1..3, reads |-> <<{}, r2, r3>>, manual |-> manual, fallible |-> {},
    batches |-> <<1, 1, 1>>, starts |-> SUBSET (1..3) \ {{}}, bulk |-> FALSE, calls |-> 1] :
     r2 \in SUBSET {1}, r3 \in SUBSET {1, 2}, manual \in SUBSET (1..3)}
AllScripts == {Main, Wide, Crowded} \cup Small
\* A table that a manual node reads, each started on its own.
Pair ==
  [nodes |-> 1..2, reads |-> <<{}, {1}>>, manual |-> {2}, fallible |-> {},
   batches |-> <<1, 1>>, starts |-> {{1}, {2}}, bulk |-> TRUE, calls |-> 2]
OnlyPair == {Pair}
Same == Permutations(Operators)
===============================================================================
