----------------------------- MODULE MCLookupJoin ------------------------------
(* Values of LookupJoin's constants for TLC. *)
EXTENDS LookupJoin, TLC

\* Left rows 1 and 2 have key "a", row 3 has key "b"; row 4, on the second page, has
\* a key that the index does not have.
TwoPages == <<{1, 2, 3}, {4}>>
OnePage == <<{1, 2, 3}>>
KeyOfLeft == (1 :> "a" @@ 2 :> "a" @@ 3 :> "b" @@ 4 :> "c")
\* Rowid 12 is an orphan of the index; the filter refuses 14.
FewRowids == [a |-> <<11, 12, 13, 16>>, b |-> <<>>, c |-> <<14>>]
ManyRowids == [a |-> <<11, 12, 13, 16>>, b |-> <<15>>, c |-> <<>>]
RightRows == {11, 13, 14, 15, 16}
PassingRows == {11, 13, 15, 16}

Min4 == -8
Max4 == 7
TopOf == [int |-> 7, string |-> <<>>]
BottomOf == [int |-> -8, string |-> <<>>]
Comma == <<0>>

FieldNames == {"n", "total", "mean", "least", "most", "names", "first", "last",
               "id"}
FunctionOf == [n |-> "count_if", total |-> "sum", mean |-> "avg_if", least |-> "min",
               most |-> "max_if", names |-> "string_agg", first |-> "min",
               last |-> "max_if", id |-> "plain"]
Num == (11 :> 5 @@ 13 :> -2 @@ 14 :> 7 @@ 15 :> 3 @@ 16 :> 6)
Cond == (11 :> TRUE @@ 13 :> FALSE @@ 14 :> TRUE @@ 15 :> FALSE @@ 16 :> TRUE)
Name == (11 :> <<2>> @@ 13 :> <<1>> @@ 14 :> <<3>> @@ 15 :> <<2, 1>> @@ 16 :> <<>>)
Arguments ==
  [f \in FieldNames |-> [r \in RightRows |->
     LET num == Value("int", Num[r])
         cond == Value("bool", Cond[r])
     IN CASE f = "n" -> <<cond>>
          [] f \in {"total", "least"} -> <<num>>
          [] f \in {"mean", "most"} -> <<num, cond>>
          [] f = "names" -> <<Value("string", Name[r]), Value("string", Comma)>>
          [] f = "first" -> <<Value("string", Name[r])>>
          [] f = "last" -> <<Value("string", Name[r]), cond>>
          [] f = "id" -> <<>>]]
Defaults ==
  [f \in FieldNames |->
     IF f \in {"names", "first", "last"} THEN Value("string", <<>>) ELSE Value("int", 0)]

AllModes == [group : BOOLEAN, join : {"inner", "left"}]
OneMode == {[group |-> FALSE, join |-> "inner"]}
===============================================================================
