----------------------------- MODULE MCRecordWriter -----------------------------
\* Writers of one operator or function over six fields, and a few deeper ones.
EXTENDS RecordWriter

Whole(n) == Value("int", n)
Dec(n) == Value("dec", n)
Flt(n) == Value("float", n)
Str(s) == Value("string", s)
LowestInt == -10000
TopValues == [int |-> 9999, float |-> 999999, dec |-> 999999, string |-> <<>>]
BottomValues == [int |-> -10000, float |-> -999999, dec |-> -999999, string |-> <<>>]
Comma == Lit(Str(<<44>>))
Twelve == <<49, 50>>

TypesOfFields == [i |-> "int", f |-> "float", d |-> "dec", s |-> "string", b |-> "bool", t |-> "time"]
Row(i, f, d, s, b, t) ==
  [i |-> Whole(i), f |-> Flt(f), d |-> Dec(d), s |-> Str(s), b |-> Value("bool", b),
   t |-> Value("time", t)]
\* Zeros and an empty text; negative numbers and "aB"; the smallest integer and "ab ",
\* which is "aB" to a component that ignores case; digits.
SomeRows ==
  {Row(0, 0, 0, <<>>, FALSE, 0), Row(-3, -250, -305, <<97, 66>>, TRUE, 7),
   Row(-10000, 101, -1, <<97, 98, 32>>, FALSE, 12), Row(12, 1, 99, <<51, 97>>, TRUE, 3)}

Unary(op, x) == Call(op, <<x>>)
Binary(op, x, y) == Call(op, <<x, y>>)
Fld == {Field(n) : n \in DOMAIN TypesOfFields}
Leaves == Fld \cup {Lit(Whole(2)), Lit(Str(<<97>>)), Lit(Value("bool", TRUE)), Field("z")}
Ops == {"+", "*", "/", "%", "&&", "<", "=="}
Ones ==
  {Binary(op, x, y) : op \in Ops, x \in Leaves, y \in Leaves}
    \cup {Unary(op, x) : op \in {"!", "neg"}, x \in Leaves}
    \cup {Call(fn, <<x>>) : fn \in {"int", "float", "decimal2", "len", "string"}, x \in Leaves}
\* avg() of floats is kept out: Aggregates keeps its value as a pair.
Aggs ==
  {Call(fn, <<x>>) : fn \in {"sum", "min", "max"}, x \in Fld}
    \cup {Call("avg", <<Field(n)>>) : n \in {"i", "d", "s"}}
    \cup {Call("count", <<>>), Call("count", <<Field("i")>>), Call("avg", <<>>)}
    \cup {Call("sum_if", <<Field("d"), y>>) : y \in Fld}
    \cup {Call("string_agg", <<x, Comma>>) : x \in Fld}
    \cup {Call("string_agg_if", <<Field("s"), Comma, y>>) : y \in Fld}
    \cup {Call("string_agg", <<Field("s"), y>>) : y \in {Field("s"), Lit(Whole(2)), Lit(Str(<<>>))}}
    \cup {Call("string_agg", <<Field("s")>>),
          Call("string_agg", <<Field("s"), Binary("+", Comma, Comma)>>)}
Len1 == Call("len", <<Field("s")>>)
Deeper ==
  {Binary(op, Binary("/", Field("i"), Field("i")), y) : op \in {"+", "/"}, y \in Leaves}
    \cup {Binary("+", Len1, y) : y \in Fld}
    \cup {Binary("/", Lit(Whole(2)), Binary("-", Field("i"), Field("i")))}
    \cup {Binary("+", Call("sum", <<Field("i")>>), Lit(Whole(2))), Call("sum", <<Len1>>)}
    \cup {Call(fn, <<Binary("<", Field("i"), Lit(Whole(2))), x, y>>) :
            fn \in {"int_iif", "decimal2_iif"}, x \in {Field("i"), Field("d"), Len1},
            y \in {Field("i"), Field("d")}}
    \cup {Binary("/", Field("i"), Call("int", <<Field("d")>>))}
    \cup {Call("decimal2", <<Binary("/", Lit(Whole(2)), x)>>) :
            x \in {Field("f"), Binary("-", Field("f"), Lit(Flt(101)))}}

TypesToDeclare == {"int", "float", "dec", "string", "bool"}
Always == Lit(Value("bool", TRUE))
W == Field("w")
Component(name, desc) == [name |-> name, desc |-> desc, len |-> 2, ignoreCase |-> TRUE]
Orders == {<<Component("w", FALSE), Component("s", TRUE)>>,
           <<Component("s", FALSE), Component("w", TRUE)>>}
Def(kind, e, type, having, order) ==
  [kind |-> kind, exp |-> e, type |-> type, having |-> having, order |-> order]

Up == <<Component("w", FALSE), Component("s", TRUE)>>
SomeDefs ==
  {Def("table", e, type, Always, Up) : e \in Ones \cup Deeper, type \in TypesToDeclare}
    \cup {Def(kind, e, type, Always, Up) :
            kind \in Kinds, e \in Aggs, type \in {"int", "dec", "string"}}
    \cup {Def("grouped", e, TypesOfFields[e[1].name], Always, Up) : e \in Fld}
    \cup {Def("file", e, TypesOfFields[e[1].name], having, order) :
            e \in Fld, order \in Orders,
            having \in {Always, Binary("<", W, W), Binary("!=", W, Lit(Whole(0))),
                        Binary("<", Binary("/", Lit(Whole(2)), W), Lit(Whole(2))),
                        Binary("==", Call("len", <<W>>), Lit(Whole(2))),
                        Binary("<", Call("count", <<>>), Lit(Whole(2))), W, Field("s")}}
===============================================================================
