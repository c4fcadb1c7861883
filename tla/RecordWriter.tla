------------------------------ MODULE RecordWriter -------------------------------
(***************************************************************************)
(* A writer of a script node, from the loader to its records: the field    *)
(* w with a declared type and an expression over reader fields, next to    *)
(* the reader's field s; a condition ("having") on w; an order of records. *)
(* The loader has no type checker: it tries expressions on sample values   *)
(* (field_ref.go) and takes the type of the first result for the type of   *)
(* all.  Then rows come, whose values are not the samples.                 *)
(***************************************************************************)
EXTENDS Expressions, OrderKeys

CONSTANTS
  Defs,        \* writers: [kind, exp, type, having, order]
  TypeOfField, \* TypeOfField[f]: type of reader field f
  Rows,        \* rows a reader may find
  Now,         \* time of the trial
  SampleText,  \* sample of a string, digits
  MaxRows,     \* bound: records of a writer
  MaxGroup     \* bound: right rows of a grouped lookup's left row

FieldTypes == {"int", "float", "dec", "bool", "string", "time"}
Kinds == {"table", "grouped", "file"}
Components == [name : {"w", "s"}, desc : BOOLEAN, len : Nat, ignoreCase : BOOLEAN]

\* Scripts are parsed; readers convert what they read to the types of their fields.
ASSUME WritersAssumption ==
  /\ "s" \in DOMAIN TypeOfField
  /\ \A f \in DOMAIN TypeOfField : TypeOfField[f] \in FieldTypes
  /\ \A row \in Rows :
       DOMAIN row = DOMAIN TypeOfField /\ \A f \in DOMAIN row : row[f].t = TypeOfField[f]
  /\ \A d \in Defs : /\ d.kind \in Kinds /\ d.type \in FieldTypes
                     /\ IsExpression(d.exp) /\ IsExpression(d.having)
                     /\ d.order \in Seq(Components)

VARIABLES def, stage, trial, ctx, group, rowsLeft, records, failure
writerVars == <<def, stage, trial, ctx, group, rowsLeft, records, failure>>

MaxTrials == 5

InitWriter ==
  /\ def \in Defs
  /\ stage = "usage" /\ trial = 0
  /\ ctx = NewAggEvalCtx("count", <<>>) /\ group = <<>>
  /\ rowsLeft = MaxRows /\ records = <<>> /\ failure = Nil

-------------------------------------------------------------------------------
\* checkFieldUsageInCreator: w reads reader fields, the condition reads w.
CheckUsage ==
  /\ stage = "usage"
  /\ stage' = IF FieldsOf(def.exp) \subseteq DOMAIN TypeOfField
                 /\ FieldsOf(def.having) \subseteq {"w"}
              THEN "field" ELSE "rejected"
  /\ UNCHANGED <<def, trial, ctx, group, rowsLeft, records, failure>>

\* The values of the k-th trial.
Sample(type, k) ==
  CASE type = "int"    -> Value("int", k)
    [] type = "float"  -> Value("float", 235 * k)
    [] type = "dec"    -> Value("dec", 345 * k)
    [] type = "bool"   -> Value("bool", FALSE)
    [] type = "string" -> Value("string", SampleText)
    [] type = "time"   -> Value("time", Now)

\* Where the node does not group, aggregate functions are refused; in files nobody looks.
AggMisplaced == def.kind = "table" /\ HasAggregate(def.exp)

TrialValue(e, sample) ==
  IF ~IsAggregate(e) THEN Eval(e, sample)
  ELSE IF HasSeparator(e) THEN EvalRoot(ContextOf(e), e, sample).result ELSE TypeError

\* Faulty variant: the type of a result is not looked at.
Verdict_AnyType(val, type, next) ==
  IF val = ZeroError /\ trial < MaxTrials - 1 THEN stage
  ELSE IF ~Failed(val) THEN next ELSE "rejected"

\* Faulty variant: a division by zero counts as a success.
Verdict_ZeroIsFine(val, type, next) ==
  IF val = ZeroError \/ val.t = type THEN next ELSE "rejected"

\* evalExpressionWithFieldRefsAndCheckType (a panic kills the process that loads the
\* script, which counts as a refusal): another trial while something is divided by
\* zero, otherwise CheckValueType of the result decides.
Verdict(val, type, next) ==
  IF val = ZeroError /\ trial < MaxTrials - 1 THEN stage
  ELSE IF val.t = type THEN next ELSE "rejected"

TestField ==
  /\ stage = "field"
  /\ LET sample == [f \in DOMAIN TypeOfField |-> Sample(TypeOfField[f], trial)]
         next == Verdict(TrialValue(def.exp, sample), def.type,
                         IF AggMisplaced THEN "rejected" ELSE "having")
     IN stage' = next /\ trial' = IF next = stage THEN trial + 1 ELSE 0
  /\ UNCHANGED <<def, ctx, group, rowsLeft, records, failure>>

TestHaving ==
  /\ stage = "having"
  /\ LET next == Verdict(TrialValue(def.having, [w |-> Sample(def.type, trial)]), "bool", "rows")
     IN stage' = next /\ trial' = IF next = stage THEN trial + 1 ELSE 0
  /\ UNCHANGED <<def, ctx, group, rowsLeft, records, failure>>

-------------------------------------------------------------------------------
\* CheckValueType of w, the condition on the record, BuildKey.
Write(val, row) ==
  LET rec == [w |-> val, s |-> row["s"]]
      keep == Eval(def.having, rec)
      bad == IF val.t # def.type THEN val ELSE keep
  IN IF val.t # def.type \/ keep.t # "bool"
     THEN /\ stage' = "failed" /\ failure' = bad
          /\ UNCHANGED <<rowsLeft, records>>
     ELSE /\ records' = IF keep.v THEN Append(records, [rec |-> rec, key |-> BuildKey(rec, def.order)])
                    ELSE records
          /\ rowsLeft' = rowsLeft - 1
          /\ UNCHANGED <<stage, failure>>

\* CalculateTableRecordFromSrcVars, CalculateFileRecordFromSrcVars: a plain context.
WriteRecord(row) ==
  /\ stage = "rows" /\ def.kind # "grouped" /\ rowsLeft > 0
  /\ Write(Eval(def.exp, row), row)
  /\ UNCHANGED <<def, trial, ctx, group>>

\* setupEvalCtxForGroup, evalRowGroupedFields: one more right row for the left row whose
\* context ctx is.  What is kept of a plain expression is the context's last value.
GroupRow(row) ==
  /\ stage = "rows" /\ def.kind = "grouped" /\ rowsLeft > 0 /\ Len(group) < MaxGroup
  /\ LET fresh == IF IsAggregate(def.exp) THEN ContextOf(def.exp) ELSE NewAggEvalCtx("min", <<>>)
         c == IF group = <<>> THEN fresh ELSE ctx
         r == IF IsAggregate(def.exp)
              THEN IF HasSeparator(def.exp) THEN EvalRoot(c, def.exp, row)
                   ELSE [ctx |-> c, result |-> TypeError]
              ELSE [ctx |-> [c EXCEPT !.value = Eval(def.exp, row)], result |-> Eval(def.exp, row)]
     IN IF Failed(r.result)
        THEN stage' = "failed" /\ failure' = r.result /\ UNCHANGED <<ctx, group>>
        ELSE ctx' = r.ctx /\ group' = Append(group, row) /\ UNCHANGED <<stage, failure>>
  /\ UNCHANGED <<def, trial, rowsLeft, records>>

\* produceGroupedTableRecord of a left row that has right rows.
WriteGroup ==
  /\ stage = "rows" /\ def.kind = "grouped" /\ group # <<>>
  /\ Write(GetSafeValue(ctx, Nil), Head(group))
  /\ group' = <<>> /\ ctx' = NewAggEvalCtx("count", <<>>)
  /\ UNCHANGED <<def, trial>>

NextWriter ==
  \/ CheckUsage \/ TestField \/ TestHaving
  \/ \E row \in Rows : WriteRecord(row) \/ GroupRow(row)
  \/ WriteGroup

WriterSpec == InitWriter /\ [][NextWriter]_writerVars

-------------------------------------------------------------------------------
\* The type of a number in a record, where Go's int has become an int64.
Recorded(t) == IF t = "goint" THEN "int" ELSE t

OperatorType(op, t) ==
  LET both(types) == t[1] \in types /\ t[2] \in types
      either(type) == t[1] = type \/ t[2] = type
      ordered == both(Numbers) \/ both({"string"}) \/ both({"time"})
  IN CASE op = "!"   -> IF t[1] = "bool" THEN "bool" ELSE "none"
       [] op = "neg" -> IF t[1] \in Numbers THEN Recorded(t[1]) ELSE "none"
       [] op \in BoolOps    -> IF both({"bool"}) THEN "bool" ELSE "none"
       [] op \in CompareOps ->
            IF ordered \/ (both({"bool"}) /\ op \in {"==", "!="}) THEN "bool" ELSE "none"
       [] op \in ArithOps   ->
            IF op = "+" /\ both({"string"}) THEN "string"
            ELSE IF ~both(Numbers) \/ (op = "%" /\ ~both({"int", "goint"})) THEN "none"
            ELSE IF either("float") THEN "float" ELSE IF either("dec") THEN "dec" ELSE "int"

AggregateType(fn, t) ==
  IF Len(t) # Arity[fn] \/ (fn \in IfFuncs /\ t[Len(t)] # "bool") THEN "none"
  ELSE CASE Base[fn] = "count" -> "int"
         [] Base[fn] = "string_agg" -> IF t[1] = "string" THEN "string" ELSE "none"
         [] Base[fn] \in {"sum", "avg"} -> IF t[1] \in Numbers THEN Recorded(t[1]) ELSE "none"
         [] Base[fn] \in {"min", "max"} ->
              IF t[1] \in Numbers \cup {"string"} THEN Recorded(t[1]) ELSE "none"

FunctionType(fn, t) ==
  CASE fn \in DOMAIN Arity -> AggregateType(fn, t)
    [] fn \in DOMAIN ConvertType ->
         IF Len(t) = 1 /\ t[1] # "time" THEN ConvertType[fn] ELSE "none"
    [] fn \in DOMAIN IifType ->
         IF Len(t) = 3 /\ t[1] = "bool" /\ t[2] = IifType[fn] /\ t[3] = IifType[fn]
         THEN IifType[fn] ELSE "none"
    [] fn = "len" -> IF Len(t) = 1 /\ t[1] = "string" THEN "goint" ELSE "none"
    [] fn = "string" -> IF Len(t) = 1 THEN "string" ELSE "none"

NodeType(node, t, types) ==
  CASE node.op = "lit"   -> node.val.t
    [] node.op = "field" -> IF node.name \in DOMAIN types THEN types[node.name] ELSE "none"
    [] OTHER -> IF \E k \in DOMAIN t : t[k] = "none" THEN "none"
                ELSE IF node.op \in FunctionNames THEN FunctionType(node.op, t)
                ELSE OperatorType(node.op, t)

\* The types of an expression and its parts, as a type checker would find them from the
\* types of the fields, without values; "none" where there is none.
NodeTypes(e, types) ==
  LET type[k \in DOMAIN e] ==
        NodeType(e[k], [j \in DOMAIN e[k].args |-> type[e[k].args[j]]], types)
  IN type
StaticType(e, types) == NodeTypes(e, types)[Len(e)]

\* The expression divides, or reads a number from a text.
DependsOnValue(e) == \E k \in DOMAIN e : e[k].op \in {"/", "%"} \cup DOMAIN ConvertType

\* An aggregate function that is not the root.
HasNestedAggregate(e) == \E k \in 1..(Len(e) - 1) : e[k].op \in DOMAIN Arity

WellTyped ==
  /\ StaticType(def.exp, TypeOfField) = def.type
  /\ StaticType(def.having, [w |-> def.type]) = "bool"

\* "Just eval with test values" (script_node_def.go:336) does what a type checker
\* would: a writer that is accepted has the declared types, and one that is refused
\* has not, or aggregates where it must not, or joins texts with a separator that is not
\* a literal, or can fail on values of the right type.
TrialsFindTypes ==
  /\ stage \in {"rows", "failed"} => WellTyped
  /\ stage = "rejected" /\ WellTyped =>
       \/ AggMisplaced \/ HasNestedAggregate(def.exp) \/ HasAggregate(def.having)
       \/ ~HasSeparator(def.exp)
       \/ DependsOnValue(def.exp) \/ DependsOnValue(def.having)

\* An accepted writer fails on a row for what no loader can know: a division by zero,
\* a text that is not a number, an infinite float made a decimal (which nobody recovers
\* from: the daemon dies).  Only a file column that aggregates passes the loader, which
\* gives it an aggregate context, and fails on every row, which does not.
RowsFailOnValuesOnly ==
  stage = "failed" =>
    \/ failure \in {ZeroError, ParseError, PanicError}
    \/ failure = TypeError /\ def.kind = "file" /\ IsAggregate(def.exp)

\* "All index, sorting and dependency policy event_priority_order logic [...] revolves
\* around string keys" (glossary.md:320): the keys of two records compare as the records
\* do, so they are equal only if the records do not differ in the order's components.
\* (Not those of infinite floats: "+Inf" comes before every number above zero.)
KeysFollowOrder ==
  \A p, q \in {records[k] : k \in {j \in DOMAIN records : records[j].rec.w # Value("float", Infinity)}} :
    RecordFits(p.rec, def.order) /\ RecordFits(q.rec, def.order) =>
      (LexLess(p.key, q.key) <=> RecordBefore(p.rec, q.rec, def.order))
===============================================================================
