------------------------------- MODULE Expressions -------------------------------
(***************************************************************************)
(* Go expressions of a script as pkg/eval evaluates them for one row:      *)
(* dynamically typed, numbers of a pair brought to a common type, both     *)
(* sides of a binary operator always evaluated.                            *)
(*                                                                         *)
(* An expression is the list of the nodes of its tree, each node after its *)
(* operands, which it names by their places (args); the root is the last.  *)
(* A node is a literal, a field, an operator or a call of a function.      *)
(* Decimals and floats are numbers of hundredths, rounded at every         *)
(* operation.  A float divided by zero is Infinity, and so is what a       *)
(* binary operator makes of an infinite float (NaN is not told apart).     *)
(* Escapes of quotes in compared strings are left out, and so is null,     *)
(* which no reader produces.                                               *)
(***************************************************************************)
EXTENDS Aggregates

\* Errors: of type, division by zero, a text that is not a number; and a panic that nobody
\* recovers, of which the whole process dies.
TypeError == Error
ZeroError == Value("error", 1)
ParseError == Value("error", 2)
PanicError == Value("error", 3)
Failed(val) == val.t = "error"

ArithOps == {"+", "-", "*", "/", "%"}
BoolOps == {"&&", "||"}
CompareOps == {">", "<", ">=", "<=", "==", "!="}

UnaryOps == {"!", "neg"}
BinaryOps == ArithOps \cup BoolOps \cup CompareOps

\* The functions of the same form, each with its type, and all functions.
IifType == [int_iif |-> "int", float_iif |-> "float", decimal2_iif |-> "dec",
            string_iif |-> "string", time_iif |-> "time"]
ConvertType == [int |-> "int", float |-> "float", decimal2 |-> "dec"]
FunctionNames == DOMAIN Arity \cup DOMAIN ConvertType \cup DOMAIN IifType \cup {"len", "string"}

Lit(val) == <<[op |-> "lit", args |-> <<>>, val |-> val]>>
Field(name) == <<[op |-> "field", args |-> <<>>, name |-> name]>>

\* The nodes of x after n other ones.
After(n, x) == [k \in DOMAIN x |-> [x[k] EXCEPT !.args = [j \in DOMAIN @ |-> n + @[j]]]]
\* An operator or a function of the expressions xs.
Call(op, xs) ==
  LET list[k \in 0..Len(xs)] ==
        IF k = 0 THEN <<>> ELSE list[k - 1] \o After(Len(list[k - 1]), xs[k])
  IN Append(list[Len(xs)], [op |-> op, args |-> [k \in DOMAIN xs |-> Len(list[k])]])

Root(e) == e[Len(e)]

\* What the parser returns of an expression whose operators and functions there are.
IsExpression(e) ==
  /\ Len(e) \in Nat \ {0} /\ DOMAIN e = 1..Len(e)
  /\ \A k \in DOMAIN e :
       LET n == Len(e[k].args)
       IN /\ n \in Nat /\ DOMAIN e[k].args = 1..n
          /\ \A j \in 1..n : e[k].args[j] \in 1..(k - 1)
          /\ \/ e[k].op = "lit" /\ n = 0 /\ e[k].val.t \in {"int", "float", "dec", "string", "bool"}
             \/ e[k].op = "field" /\ n = 0
             \/ e[k].op \in UnaryOps /\ n = 1
             \/ e[k].op \in BinaryOps /\ n = 2
             \/ e[k].op \in FunctionNames
  /\ \A k \in 1..(Len(e) - 1) : \E m \in DOMAIN e : \E j \in DOMAIN e[m].args : e[m].args[j] = k

\* DetectRootAggFunc.
IsAggregate(e) == Root(e).op \in DOMAIN Arity

-------------------------------------------------------------------------------
\* Go's int, which only len() returns, is a number but the type of no field.
Numbers == NumTypes \cup {"goint"}
Hundred == 100
Infinity == Hundred * Hundred * MaxInt
Magnitude(x) == IF x >= 0 THEN x ELSE -x
IsInfinite(x) == Magnitude(x) >= Infinity
\* Go's division cuts off towards zero, TLA+'s rounds down.
Quo(x, y) ==
  IF (x >= 0) = (y > 0) THEN Magnitude(x) \div Magnitude(y) ELSE -(Magnitude(x) \div Magnitude(y))
Rem(x, y) == x - y * Quo(x, y)
\* x / y in hundredths, half a hundredth away from zero.
DivHundredths(x, y) == IF y > 0 THEN RoundDiv(x * Hundred, y) ELSE RoundDiv(-x * Hundred, -y)

\* Faulty variant: a decimal next to a float stays one.
CommonType_DecimalWins(a, b) ==
  IF "dec" \in {a, b} THEN "dec" ELSE IF "float" \in {a, b} THEN "float" ELSE "int"

\* castNumberPairToCommonType.
CommonType(a, b) ==
  IF "float" \in {a, b} THEN "float" ELSE IF "dec" \in {a, b} THEN "dec" ELSE "int"

\* CastToInt64, CastToFloat64, CastToDecimal, as far as a pair needs them.
Cast(val, t) == IF val.t \in {"int", "goint"} /\ t # "int" THEN val.v * Hundred ELSE val.v

\* EvalBinaryInt: int64 wraps around, the panic of a division by zero is an error.
IntOp(x, op, y) ==
  CASE op = "+" -> Value("int", Wrap(x + y))
    [] op = "-" -> Value("int", Wrap(x - y))
    [] op = "*" -> Value("int", Wrap(x * y))
    [] op = "/" -> IF y = 0 THEN ZeroError ELSE Value("int", Wrap(Quo(x, y)))
    [] op = "%" -> IF y = 0 THEN ZeroError ELSE Value("int", Rem(x, y))

\* EvalBinaryFloat64: no remainder, and no error of zero.
FloatOp(x, op, y) ==
  IF op # "%" /\ (IsInfinite(x) \/ IsInfinite(y)) THEN Value("float", Infinity)
  ELSE CASE op = "+" -> Value("float", x + y)
         [] op = "-" -> Value("float", x - y)
         [] op = "*" -> Value("float", RoundDiv(x * y, Hundred))
         [] op = "/" -> Value("float", IF y = 0 THEN Infinity ELSE DivHundredths(x, y))
         [] op = "%" -> TypeError

\* EvalBinaryDecimal: no remainder; decimal.Div panics on zero.
DecimalOp(x, op, y) ==
  CASE op = "+" -> Value("dec", x + y)
    [] op = "-" -> Value("dec", x - y)
    [] op = "*" -> Value("dec", RoundDiv(x * y, Hundred))
    [] op = "/" -> IF y = 0 THEN ZeroError ELSE Value("dec", DivHundredths(x, y))
    [] op = "%" -> TypeError

\* evalBinaryArithmeticExp, EvalBinaryString.
Arithmetic(l, op, r) ==
  LET t == CommonType(l.t, r.t)
      x == Cast(l, t)
      y == Cast(r, t)
  IN IF l.t = "string"
     THEN IF r.t = "string" /\ op = "+" THEN Value("string", l.v \o r.v) ELSE TypeError
     ELSE IF {l.t, r.t} \subseteq Numbers
     THEN CASE t = "int"   -> IntOp(x, op, y)
            [] t = "float" -> FloatOp(x, op, y)
            [] t = "dec"   -> DecimalOp(x, op, y)
     ELSE TypeError

\* evalBinaryBoolToBoolExp, EvalBinaryBool.
Logic(l, op, r) ==
  IF l.t = "bool" /\ r.t = "bool"
  THEN Value("bool", IF op = "&&" THEN l.v /\ r.v ELSE l.v \/ r.v)
  ELSE TypeError

Ordered(less, equal, op) ==
  CASE op = ">"  -> ~less /\ ~equal
    [] op = "<"  -> less
    [] op = ">=" -> ~less
    [] op = "<=" -> less \/ equal
    [] op = "==" -> equal
    [] op = "!=" -> ~equal

\* EvalBinaryTimeToBool, EvalBinaryStringToBool, EvalBinaryBoolToBool (no order), and
\* EvalBinaryIntToBool, EvalBinaryFloat64ToBool, EvalBinaryDecimal2ToBool.
Comparison(l, op, r) ==
  LET t == CommonType(l.t, r.t)
      x == Cast(l, t)
      y == Cast(r, t)
  IN CASE l.t = "time" /\ r.t = "time"     -> Value("bool", Ordered(l.v < r.v, l.v = r.v, op))
       [] l.t = "string" /\ r.t = "string" ->
            Value("bool", Ordered(LexLess(l.v, r.v), l.v = r.v, op))
       [] l.t = "bool" /\ r.t = "bool" /\ op \in {"==", "!="} ->
            Value("bool", (l.v = r.v) = (op = "=="))
       [] {l.t, r.t} \subseteq Numbers     -> Value("bool", Ordered(x < y, x = y, op))
       [] OTHER                            -> TypeError

\* evalBinaryExp, of operands that have not failed.
EvalBinary(l, op, r) ==
  IF op \in ArithOps THEN Arithmetic(l, op, r)
  ELSE IF op \in BoolOps THEN Logic(l, op, r)
  ELSE Comparison(l, op, r)

\* EvalUnaryBoolNot, EvalUnaryMinus.
EvalUnary(op, val) ==
  CASE op = "!" /\ val.t = "bool"              -> Value("bool", ~val.v)
    [] op = "neg" /\ val.t \in {"int", "goint"} -> Value("int", Wrap(-val.v))
    [] op = "neg" /\ val.t \in {"float", "dec"} -> Value(val.t, -val.v)
    [] OTHER                                   -> TypeError

-------------------------------------------------------------------------------
\* The functions of pkg/evalcapi.

Digit(c) == c \in 48..57
\* strconv.ParseInt of digits; a sign or a decimal point is left out.
ParseInt(s) ==
  LET n[k \in 0..Len(s)] == IF k = 0 THEN 0 ELSE 10 * n[k - 1] + (s[k] - 48)
  IN IF s # <<>> /\ Len(s) <= 4 /\ \A k \in 1..Len(s) : Digit(s[k])
     THEN Value("int", n[Len(s)]) ELSE ParseError

\* callInt, callFloat, callDecimal2: of a text, a bool or a number; int() cuts fractions off,
\* and decimal.NewFromFloat panics on a float that is infinite or not a number.
Convert(val, t) ==
  LET scale == IF t = "int" THEN 1 ELSE Hundred
      parsed == ParseInt(val.v)
  IN CASE val.t = "string" -> IF Failed(parsed) THEN parsed ELSE Value(t, parsed.v * scale)
       [] val.t = "bool"   -> Value(t, IF val.v THEN scale ELSE 0)
       [] val.t \in {"int", "goint"} -> Value(t, val.v * scale)
       [] val.t \in {"float", "dec"} ->
            IF val.t = "float" /\ IsInfinite(val.v) /\ t = "dec" THEN PanicError
            ELSE Value(t, IF t = "int" THEN Wrap(Quo(val.v, Hundred)) ELSE val.v)
       [] OTHER            -> TypeError

\* callIntIif and its four sisters.
Iif(args, t) ==
  IF args[1].t = "bool" /\ args[2].t = t /\ args[3].t = t
  THEN (IF args[1].v THEN args[2] ELSE args[3]) ELSE TypeError

\* EvalFunc outside an aggregate context: the aggregate functions are not enabled.
CallFunction(fn, args) ==
  CASE fn \in DOMAIN Arity -> TypeError
    [] fn \in DOMAIN ConvertType ->
         IF Len(args) = 1 THEN Convert(args[1], ConvertType[fn]) ELSE TypeError
    [] fn \in DOMAIN IifType -> IF Len(args) = 3 THEN Iif(args, IifType[fn]) ELSE TypeError
    [] fn = "len" -> IF Len(args) = 1 /\ args[1].t = "string"
                     THEN Value("goint", Len(args[1].v)) ELSE TypeError
    [] fn = "string" -> IF Len(args) = 1 THEN Value("string", <<>>) ELSE TypeError

\* The error that is met first hides the others.
SomeFailed(vals) == \E k \in DOMAIN vals : Failed(vals[k])
FirstFailed(vals) ==
  vals[CHOOSE k \in DOMAIN vals : Failed(vals[k]) /\ \A j \in 1..(k - 1) : ~Failed(vals[j])]

Operation(op, vals) ==
  CASE op \in UnaryOps      -> EvalUnary(op, vals[1])
    [] op \in BinaryOps     -> EvalBinary(vals[1], op, vals[2])
    [] op \in FunctionNames -> CallFunction(op, vals)

\* A node whose operands have the values vals.
NodeValue(node, vals, row) ==
  CASE node.op = "lit"   -> node.val
    [] node.op = "field" -> IF node.name \in DOMAIN row THEN row[node.name] ELSE TypeError
    [] OTHER             -> IF SomeFailed(vals) THEN FirstFailed(vals) ELSE Operation(node.op, vals)

\* Eval of each node in a plain context, with the variables of a row.
NodeValues(e, row) ==
  LET val[k \in DOMAIN e] ==
        NodeValue(e[k], [j \in DOMAIN e[k].args |-> val[e[k].args[j]]], row)
  IN val
Eval(e, row) == NodeValues(e, row)[Len(e)]

\* castNumberToStandardType.
Standard(val) == IF val.t = "goint" THEN Value("int", val.v) ELSE val

\* getAggStringSeparator: the second argument of string_agg has to be a literal string.
StringAggs == {"string_agg", "string_agg_if"}
HasSeparator(e) ==
  Root(e).op \in StringAggs =>
    /\ Len(Root(e).args) = Arity[Root(e).op]
    /\ e[Root(e).args[2]].op = "lit" /\ e[Root(e).args[2]].val.t = "string"
\* What setupEvalCtxForGroup and the trial make for an expression whose root aggregates.
ContextOf(e) ==
  NewAggEvalCtx(Root(e).op,
                IF Root(e).op \in StringAggs THEN e[Root(e).args[2]].val.v ELSE <<>>)

\* Eval of the root in an aggregate context: [ctx, result], where the context goes on.
EvalRoot(ctx, e, row) ==
  LET vals == [j \in DOMAIN Root(e).args |-> Standard(NodeValues(e, row)[Root(e).args[j]])]
  IN IF SomeFailed(vals)
     THEN [ctx |-> ctx, result |-> FirstFailed(vals)]
     ELSE EvalAgg(ctx, "root", Root(e).op, vals)

\* harvestFieldRefsFromParsedExpression.
FieldsOf(e) == {e[k].name : k \in {j \in DOMAIN e : e[j].op = "field"}}

\* AggFinderVisitor.
HasAggregate(e) == \E k \in DOMAIN e : e[k].op \in DOMAIN Arity
===============================================================================
