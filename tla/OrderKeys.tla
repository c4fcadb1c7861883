-------------------------------- MODULE OrderKeys --------------------------------
(***************************************************************************)
(* BuildKey (pkg/sc/key.go): an index key, the order of a file's top rows  *)
(* and the priority of dependency events are strings made of the           *)
(* components of a record, meant to be compared as strings.                *)
(*                                                                         *)
(* A string is a sequence of ASCII codes.  A component is                  *)
(* [name, desc, len, ignoreCase], the last two for strings.  The decimal   *)
(* point of floats and decimals, at the same place in all of them, and the *)
(* removal of accents are left out; so are the texts of infinite floats.   *)
(***************************************************************************)
EXTENDS Aggregates

CONSTANT Width    \* digits of a formatted integer

\* int64 is a two's complement.
ASSUME KeysAssumption == Width \in Nat \ {0} /\ MaxInt = -MinInt - 1

Zero == 48  Nine == 57  Minus == 45  Space == 32

\* n >= 0 in w digits, from the last to the first.
WithoutLast(n, k) == LET q[i \in 0..k] == IF i = 0 THEN n ELSE q[i - 1] \div 10 IN q[k]
Digits(n, w) == [k \in 1..w |-> Zero + (WithoutLast(n, w - k) % 10)]
\* fmt's %0wd: the sign takes one of the w places.
Padded(n, w) == IF n >= 0 THEN Digits(n, w) ELSE <<Minus>> \o Digits(-n, w - 1)
\* flipReplacer: larger magnitudes of negative numbers come first.
Flipped(s) == [k \in DOMAIN s |-> IF s[k] \in Zero..Nine THEN Zero + Nine - s[k] ELSE s[k]]

\* Faulty variant: negative numbers keep their digits.
SignedKey_NotFlipped(n, abs, w) ==
  IF n >= 0 THEN <<Zero>> \o Padded(abs, w) ELSE <<Minus>> \o Padded(abs, w)

\* getNumericValueSign and the formats of numbers, where abs is the value it negated.
SignedKey(n, abs, w) ==
  IF n >= 0 THEN <<Zero>> \o Padded(abs, w) ELSE Flipped(<<Minus>> \o Padded(abs, w))

Upper(c) == IF c \in 97..122 THEN c - 32 ELSE c

\* A string of exactly comp.len characters: padded with spaces, cut off, in upper case.
StringKey(s, comp) ==
  [k \in 1..comp.len |->
     IF k > Len(s) THEN Space ELSE IF comp.ignoreCase THEN Upper(s[k]) ELSE s[k]]

\* The part of the key that a component adds before it is turned round.
ValueKey(val, comp) ==
  CASE val.t = "int"    -> SignedKey(val.v, IF val.v >= 0 THEN val.v ELSE Wrap(-val.v), Width)
    [] val.t \in {"float", "dec"} ->
         SignedKey(val.v, IF val.v >= 0 THEN val.v ELSE -val.v, Width + 4)
    [] val.t = "time"   -> Padded(val.v, Width)
    [] val.t = "string" -> StringKey(val.v, comp)
    [] val.t = "bool"   -> IF val.v THEN <<84>> ELSE <<70>>

\* Descending: every byte from 255, written in hexadecimal, of which two digits keep the
\* order of the byte.
Inverted(s) == [k \in DOMAIN s |-> 255 - s[k]]

ComponentKey(rec, comp) ==
  LET key == ValueKey(rec[comp.name], comp) IN IF comp.desc THEN Inverted(key) ELSE key

\* The components one after the other.
BuildKey(rec, comps) ==
  LET key[k \in 0..Len(comps)] ==
        IF k = 0 THEN <<>> ELSE key[k - 1] \o ComponentKey(rec, comps[k])
  IN key[Len(comps)]

\* The formats have room for the value: a number has no more digits than places, and
\* blanks come before all characters (a string is padded with them).
Fits(n, w) == n \in Nat /\ WithoutLast(n, w) = 0
Absolute(n) == IF n >= 0 THEN n ELSE -n
Printable == Space..255
ValueFits(val, comp) ==
  CASE val.t = "int"              -> val.v \in MinInt..MaxInt /\ Fits(Absolute(val.v), Width - 1)
    [] val.t \in {"float", "dec"} -> val.v \in Int /\ Fits(Absolute(val.v), Width + 4)
    [] val.t = "time"             -> Fits(val.v, Width)
    [] val.t = "string"           -> val.v \in Seq(Printable) /\ comp.len \in Nat
    [] val.t = "bool"             -> val.v \in BOOLEAN
    [] OTHER                      -> FALSE
RecordFits(rec, comps) == \A k \in DOMAIN comps : ValueFits(rec[comps[k].name], comps[k])

-------------------------------------------------------------------------------
\* What an order expression means (doc/glossary.md): the order of the values,
\* component by component, of strings up to the length of the component, in one
\* case if it says so.  Spaces at the end of a string do not count.
Significant(s, comp) ==
  LET cut == SubSeq(s, 1, IF Len(s) < comp.len THEN Len(s) ELSE comp.len)
      last == {k \in DOMAIN cut : cut[k] # Space}
      n == IF last = {} THEN 0 ELSE CHOOSE k \in last : \A j \in last : j <= k
  IN [k \in 1..n |-> IF comp.ignoreCase THEN Upper(cut[k]) ELSE cut[k]]

ValueBefore(x, y, comp) ==
  CASE x.t = "string" -> LexLess(Significant(x.v, comp), Significant(y.v, comp))
    [] x.t = "bool"   -> ~x.v /\ y.v
    [] OTHER          -> x.v < y.v

RecordBefore(r, q, comps) ==
  \E k \in DOMAIN comps :
     LET before(x, y, c) == IF comps[c].desc THEN ValueBefore(y, x, comps[c])
                            ELSE ValueBefore(x, y, comps[c])
         x(c) == r[comps[c].name]
         y(c) == q[comps[c].name]
     IN /\ before(x(k), y(k), k)
        /\ \A c \in 1..(k - 1) : ~before(x(c), y(c), c) /\ ~before(y(c), x(c), c)
===============================================================================
