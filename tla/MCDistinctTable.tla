---------------------------- MODULE MCDistinctTable ----------------------------
(* Values of DistinctTable's constants for TLC. *)
EXTENDS DistinctTable, TLC

\* Batches 1 and 2 both read key "a"; batch 2 reads key "b" as well.
ThreeItems == 1..3
BatchOfThree == (1 :> 1 @@ 2 :> 2 @@ 3 :> 2)
KeyOfThree == (1 :> "a" @@ 2 :> "a" @@ 3 :> "b")
\* Batch 1 reads a record with a decimal, batch 2 only records that come back as they were.
RecordOfThree == (1 :> "decimal" @@ 2 :> "a" @@ 3 :> "b")
\* One item per batch, both with the same key.
TwoItems == 1..2
BatchOfTwo == (1 :> 1 @@ 2 :> 2)
KeyOfTwo == (1 :> "a" @@ 2 :> "a")
\* A single item, whose record has a decimal.
OneItem == {1}
BatchOfOne == (1 :> 1)
KeyOfOne == (1 :> "a")
RecordOfOne == (1 :> "decimal")
\* One item in batch 1, three in batch 2, all with keys of their own.
FourItems == 1..4
BatchOfFour == (1 :> 1 @@ 2 :> 2 @@ 3 :> 2 @@ 4 :> 2)
KeyOfFour == (1 :> "a" @@ 2 :> "b" @@ 3 :> "c" @@ 4 :> "d")
===============================================================================
