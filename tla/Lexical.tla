-------------------------------- MODULE Lexical --------------------------------
(* Strings as sequences of numbered characters: Go's order of strings. *)
EXTENDS Integers, Sequences

\* s < t, byte by byte; a proper prefix comes first.
LexLess(s, t) ==
  \E n \in 1..Len(t) :
     /\ n <= Len(s) + 1
     /\ \A i \in 1..(n - 1) : s[i] = t[i]
     /\ n <= Len(s) => s[n] < t[n]

LexMin(S) == CHOOSE s \in S : \A t \in S \ {s} : LexLess(s, t)
LexMax(S) == CHOOSE s \in S : \A t \in S \ {s} : LexLess(t, s)
===============================================================================
