------------------------------ MODULE MCTableBatch -------------------------------
(* Values of TableBatch's constants for TLC. *)
EXTENDS TableBatch, TLC

CONSTANTS v1, v2

From(reader, tokens) == [reader |-> reader, tokens |-> tokens]

\* Tables with distinct tokens, with rows that share one within a page, across its end and
\* all over it, and with a row outside of the batch's interval 1..4; files; custom processors.
ManySources ==
  {From("table", <<1, 2, 3, 4>>), From("table", <<1, 1, 2, 5>>), From("table", <<1, 3, 4, 4>>),
   From("table", <<>>), From("table", <<2, 2, 2, 2>>),
   From("csv", <<0, 0, 0, 0>>), From("parquet", <<0, 0, 0>>),
   From("pycalc", <<1, 2, 3, 5>>), From("tag", <<1, 2, 4, 4>>)}

\* Records 1 and 2 have the same fields; records 2 and 4 share a key.
Contents == [i \in 1..4 |-> IF i = 2 THEN 1 ELSE i]
IndexKeys == [i \in 1..4 |-> IF i = 4 THEN 2 ELSE i]

\* Row 1 meets the criteria of two tags, row 2 of none.
Tagging == 1 :> {1, 2} @@ 3 :> {3} @@ 4 :> {4}

\* One row, and two rows with tokens of their own.
OneRow == {From("parquet", <<0>>)}
TwoRows == {From("table", <<1, 2>>)}
===============================================================================
