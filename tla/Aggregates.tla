------------------------------- MODULE Aggregates -------------------------------
(***************************************************************************)
(* The aggregate functions of pkg/eval: an evaluation context, made for    *)
(* one field of one left row of a grouped lookup, is fed the right rows    *)
(* one by one, in whatever order the lookup workers find them, and keeps   *)
(* what the function needs in its collectors (agg.go, eval_ctx.go).        *)
(*                                                                         *)
(* A value is [t |-> type, v |-> value].  Integers wrap around.  A         *)
(* decimal2 is a number of hundredths.  Floats are whole numbers (rounding *)
(* of their sums is left out), but a float average is kept as the pair of  *)
(* sum and count, not divided.  A string is a sequence of characters.      *)
(***************************************************************************)
EXTENDS Lexical

CONSTANTS
  MinInt, MaxInt,   \* smallest and largest int64
  Top, Bottom       \* Top[t], Bottom[t]: what min() and max() of type t start from

ASSUME AggregatesAssumption ==
  /\ MinInt \in Int /\ MaxInt \in Nat /\ MinInt < 0
  /\ Top["int"] = MaxInt /\ Bottom["int"] = MinInt
  /\ Top["string"] = <<>> /\ Bottom["string"] = <<>>

NumTypes == {"int", "float", "dec"}
IfFuncs == {"string_agg_if", "sum_if", "count_if", "avg_if", "min_if", "max_if"}
\* StringToAggFunc, and the function that the _if variant shares its collector with.
Base == [string_agg |-> "string_agg", string_agg_if |-> "string_agg", sum |-> "sum",
         sum_if |-> "sum", count |-> "count", count_if |-> "count", avg |-> "avg",
         avg_if |-> "avg", min |-> "min", min_if |-> "min", max |-> "max", max_if |-> "max"]
\* CheckArgs of each function.
Arity == [string_agg |-> 2, string_agg_if |-> 3, sum |-> 1, sum_if |-> 2, count |-> 0,
          count_if |-> 1, avg |-> 1, avg_if |-> 2, min |-> 1, min_if |-> 2, max |-> 1, max_if |-> 2]

Value(type, x) == [t |-> type, v |-> x]
Nil == Value("nil", 0)
Error == Value("error", 0)

\* int64 arithmetic; decimal.Round(2): half a hundredth away from zero.
Wrap(x) == MinInt + ((x - MinInt) % (MaxInt - MinInt + 1))
RoundDiv(x, n) == IF x >= 0 THEN (2 * x + n) \div (2 * n) ELSE -((n - 2 * x) \div (2 * n))

NoCall == "no call"
\* newPlainEvalCtxInternal, NewAggEvalCtx: sep is the separator of string_agg.
NewAggEvalCtx(fn, sep) ==
  [fn |-> fn, call |-> NoCall, value |-> Nil, sep |-> sep,
   type |-> IF Base[fn] = "string_agg" THEN "string" ELSE "unknown",
   count |-> 0, str |-> <<>>, sum |-> [t \in NumTypes |-> 0], avg |-> 0, avgCount |-> 0,
   min |-> Top, max |-> Bottom]

Failure(c) == [ctx |-> [c EXCEPT !.value = Nil], result |-> Error]
Success(c, val) == [ctx |-> [c EXCEPT !.value = val], result |-> val]
\* The aggregate has been of this type from its first row on.
Typed(c, t) == c.type \in {"unknown", t}

\* Faulty variant: a separator in front of every string.
StringAgg_SeparatorFirst(c, a, apply) ==
  LET s == IF apply THEN c.str \o c.sep \o a.v ELSE c.str
  IN IF a.t # "string" THEN Failure(c) ELSE Success([c EXCEPT !.str = s], Value("string", s))

\* callAggStringAggInternal: no separator while nothing has been written.
StringAgg(c, a, apply) ==
  LET s == IF apply THEN (IF c.str = <<>> THEN a.v ELSE c.str \o c.sep \o a.v) ELSE c.str
  IN IF a.t # "string" THEN Failure(c) ELSE Success([c EXCEPT !.str = s], Value("string", s))

\* callAggSumInternal.
SumAgg(c, a, apply) ==
  LET s == c.sum[a.t] + (IF apply THEN a.v ELSE 0)
      w == IF a.t = "int" THEN Wrap(s) ELSE s
  IN IF a.t \notin NumTypes \/ ~Typed(c, a.t) THEN Failure(c)
     ELSE Success([c EXCEPT !.type = a.t, !.sum[a.t] = w], Value(a.t, w))

\* What avg() answers for n rows that add up to s: big.Int.Div rounds down.
Average(t, s, n) ==
  CASE t = "int"   -> IF n = 0 THEN 0 ELSE s \div n
    [] t = "float" -> IF n = 0 THEN <<0, 1>> ELSE <<s, n>>
    [] t = "dec"   -> IF n = 0 THEN 0 ELSE RoundDiv(s, n)

\* Faulty variant: rows that the condition leaves out are counted.
Avg_CountsAll(c, a, apply) ==
  LET s == c.avg + (IF apply THEN a.v ELSE 0)
      n == c.avgCount + 1
  IN IF a.t \notin NumTypes \/ ~Typed(c, a.t) THEN Failure(c)
     ELSE Success([c EXCEPT !.type = a.t, !.avg = s, !.avgCount = n],
                  Value(a.t, Average(a.t, s, n)))

\* callAggAvgInternal; the sum of integers is a big.Int and does not wrap around.
Avg(c, a, apply) ==
  LET s == c.avg + (IF apply THEN a.v ELSE 0)
      n == c.avgCount + (IF apply THEN 1 ELSE 0)
  IN IF a.t \notin NumTypes \/ ~Typed(c, a.t) THEN Failure(c)
     ELSE Success([c EXCEPT !.type = a.t, !.avg = s, !.avgCount = n],
                  Value(a.t, Average(a.t, s, n)))

\* callAggCountInternal.
Count(c, apply) ==
  LET n == c.count + (IF apply THEN 1 ELSE 0)
  IN Success([c EXCEPT !.count = n], Value("int", n))

\* callAggMinInternal, callAggMaxInternal: the empty string stands for "no string yet".
Better(t, x, best, isMin) ==
  IF t = "string"
  THEN best = <<>> \/ (IF isMin THEN LexLess(x, best) ELSE LexLess(best, x))
  ELSE IF isMin THEN x < best ELSE x > best
Min(c, a, apply) ==
  LET m == IF apply /\ Better(a.t, a.v, c.min[a.t], TRUE) THEN a.v ELSE c.min[a.t]
  IN IF a.t \notin NumTypes \cup {"string"} \/ ~Typed(c, a.t) THEN Failure(c)
     ELSE Success([c EXCEPT !.type = a.t, !.min[a.t] = m], Value(a.t, m))
Max(c, a, apply) ==
  LET m == IF apply /\ Better(a.t, a.v, c.max[a.t], FALSE) THEN a.v ELSE c.max[a.t]
  IN IF a.t \notin NumTypes \cup {"string"} \/ ~Typed(c, a.t) THEN Failure(c)
     ELSE Success([c EXCEPT !.type = a.t, !.max[a.t] = m], Value(a.t, m))

\* checkAgg, CheckArgs, checkIf: one call expression per context, as many arguments as
\* the function has, a condition that is boolean and comes last.
CheckAgg(c, call, fn, args) ==
  /\ c.call \in {NoCall, call}
  /\ Len(args) = Arity[fn]
  /\ fn \in IfFuncs => args[Len(args)].t = "bool"
Applied(fn, args) == fn \in IfFuncs => args[Len(args)].v

\* EvalFunc of the call expression `call` with evaluated arguments.
EvalAgg(c, call, fn, args) ==
  LET d == [c EXCEPT !.call = call, !.fn = Base[fn]]
      apply == Applied(fn, args)
  IN IF ~CheckAgg(c, call, fn, args) THEN Failure(c)
     ELSE CASE Base[fn] = "string_agg" -> StringAgg(d, args[1], apply)
            [] Base[fn] = "sum"        -> SumAgg(d, args[1], apply)
            [] Base[fn] = "avg"        -> Avg(d, args[1], apply)
            [] Base[fn] = "count"      -> Count(d, apply)
            [] Base[fn] = "min"        -> Min(d, args[1], apply)
            [] Base[fn] = "max"        -> Max(d, args[1], apply)

\* GetValue, GetSafeValue: the value of a field whose context has seen all its rows.
GetSafeValue(c, default) ==
  IF c.value.t # "nil" THEN c.value
  ELSE IF Base[c.fn] \in {"count", "sum", "avg"} THEN Value("int", 0)
  ELSE default
===============================================================================
