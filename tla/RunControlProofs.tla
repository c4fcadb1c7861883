--------------------------- MODULE RunControlProofs ----------------------------
(***************************************************************************)
(* Theorems about RunControl, for every set of scripts, of any size, any   *)
(* number of operators, and every access that may fail.                    *)
(*                                                                         *)
(* The first part is about the operators on scripts and rings of tokens,   *)
(* the second about the calls of StartRun (IInv), the third about what the *)
(* rows of a run say of its batches, and so of the tables read (JInv).     *)
(***************************************************************************)
EXTENDS RunControl, FiniteSetTheorems, WellFoundedInduction, TLAPS

-------------------------------------------------------------------------------
\* The nodes of a run.

\* What is reached is closed: what reads a reached node is reached.
LEMMA ReachedIsClosed ==
  ASSUME NEW s, NEW start \in SUBSET s.nodes
  PROVE  /\ Reached(s, start) \subseteq s.nodes
         /\ start \subseteq Reached(s, start)
         /\ Children(s, Reached(s, start)) \subseteq Reached(s, start)
BY DEF Reached, Least, Children

\* The manual set holds the manual nodes below what is reached, and what is below it.
LEMMA ManualSetIsClosed ==
  ASSUME NEW s, NEW start \in SUBSET s.nodes
  PROVE  LET reached == Reached(s, start)
             M == ManualSet(s, start)
         IN /\ s.manual \cap Children(s, reached) \subseteq M
            /\ \A n \in reached : s.reads[n] \cap (M \ start) # {} => n \in M
<1> DEFINE reached == Reached(s, start)
           M == ManualSet(s, start)
<1>0. reached \subseteq s.nodes /\ Children(s, reached) \subseteq reached
  BY ReachedIsClosed
<1> HIDE DEF reached
<1>1. s.manual \cap Children(s, reached) \subseteq M
  BY <1>0 DEF ManualSet, Least, reached
<1>2. ASSUME NEW n \in reached, s.reads[n] \cap (M \ start) # {}
      PROVE  n \in M
  <2>1. PICK d \in s.reads[n] : d \in M /\ d \notin start
    BY <1>2
  <2>2. SUFFICES ASSUME NEW T \in SUBSET reached,
                        (s.manual \cap Children(s, reached))
                          \cup {x \in reached : s.reads[x] \cap (T \ start) # {}} \subseteq T
                 PROVE  n \in T
    BY DEF ManualSet, Least, reached
  <2>3. d \in T
    BY <2>1, <2>2 DEF ManualSet, Least, reached
  <2>4. QED
    BY <2>1, <2>2, <2>3
<1>3. QED
  BY <1>1, <1>2 DEF reached

\* What is affected is closed, up to the manual set.
LEMMA AffectedHasChildren ==
  ASSUME NEW s, NEW start \in SUBSET s.nodes
  PROVE  /\ Affected(s, start) \subseteq s.nodes
         /\ start \subseteq Affected(s, start)
         /\ Children(s, Affected(s, start)) \ ManualSet(s, start) \subseteq Affected(s, start)
<1>1. Affected(s, start) \subseteq s.nodes /\ start \subseteq Affected(s, start)
  BY DEF Affected, Least
<1>2. ASSUME NEW n \in Children(s, Affected(s, start)), n \notin ManualSet(s, start)
      PROVE  n \in Affected(s, start)
  <2>1. SUFFICES ASSUME NEW T \in SUBSET s.nodes,
                        start \cup (Children(s, T) \ ManualSet(s, start)) \subseteq T
                 PROVE  n \in T
    BY DEF Affected, Least, Children
  <2>2. Affected(s, start) \subseteq T
    BY <2>1 DEF Affected, Least
  <2>3. QED
    BY <1>2, <2>1, <2>2 DEF Children
<1>3. QED
  BY <1>1, <1>2

\* What is affected is started, or is below something affected and not in the manual set.
LEMMA AffectedIsLeast ==
  ASSUME NEW s, NEW start \in SUBSET s.nodes, NEW n \in Affected(s, start), n \notin start
  PROVE  n \in Children(s, Affected(s, start)) /\ n \notin ManualSet(s, start)
<1> DEFINE A == Affected(s, start)
<1>0. /\ A \subseteq s.nodes /\ start \subseteq A
      /\ Children(s, A) \ ManualSet(s, start) \subseteq A
  BY AffectedHasChildren
<1>1. SUFFICES ASSUME n \notin Children(s, A) \ ManualSet(s, start) PROVE FALSE
  OBVIOUS
<1>2. start \cup (Children(s, A \ {n}) \ ManualSet(s, start)) \subseteq A \ {n}
  BY <1>0, <1>1 DEF Children
<1>3. A \subseteq A \ {n}
  BY <1>0, <1>2 DEF Affected, Least
<1>4. QED
  BY <1>3

\* What GetAffectedNodes returns is the start nodes and nodes that are not manual, each
\* with all of its inputs that a start node leads to.
LEMMA AffectedClosed ==
  ASSUME NEW s, NEW start \in SUBSET s.nodes
  PROVE  LET A == Affected(s, start)
         IN /\ start \subseteq A
            /\ \A n \in A \ start : /\ n \notin s.manual
                                    /\ s.reads[n] \cap Reached(s, start) \subseteq A
<1> DEFINE A == Affected(s, start)
           R == Reached(s, start)
           M == ManualSet(s, start)
<1>1. A \subseteq s.nodes /\ start \subseteq A /\ Children(s, A) \ M \subseteq A
  BY AffectedHasChildren
<1>2. R \subseteq s.nodes /\ start \subseteq R /\ Children(s, R) \subseteq R
  BY ReachedIsClosed
<1>3. /\ s.manual \cap Children(s, R) \subseteq M
      /\ \A n \in R : s.reads[n] \cap (M \ start) # {} => n \in M
  BY ManualSetIsClosed
<1>4. \A n \in A \ start : n \in Children(s, A) /\ n \notin M
  BY AffectedIsLeast
<1>5. A \subseteq R
  <2>1. R \in {S \in SUBSET s.nodes : start \cup (Children(s, S) \ M) \subseteq S}
    BY <1>2
  <2>2. QED
    BY <2>1 DEF Affected, Least
<1> HIDE DEF A, R, M
<1>6. R \subseteq A \cup M
  <2>1. start \cup Children(s, R \cap (A \cup M)) \subseteq R \cap (A \cup M)
    BY <1>1, <1>2, <1>3, <1>5 DEF Children
  <2>2. R \cap (A \cup M) \in {S \in SUBSET s.nodes : start \cup Children(s, S) \subseteq S}
    BY <1>2, <2>1
  <2>3. R \subseteq R \cap (A \cup M)
    BY <2>2 DEF R, Reached, Least
  <2>4. QED
    BY <2>3
<1>7. ASSUME NEW n \in A \ start
      PROVE  n \notin s.manual /\ s.reads[n] \cap R \subseteq A
  BY <1>1, <1>3, <1>4, <1>5, <1>6, <1>7 DEF Children
<1>8. QED
  BY <1>1, <1>7 DEF A, R

-------------------------------------------------------------------------------
\* The parts of the ring.

LEMMA ProductIsMonotone ==
  ASSUME NEW a \in Nat, NEW b \in Nat, NEW c \in Nat, a <= b
  PROVE  a * c \in Nat /\ b * c \in Nat /\ a * c <= b * c
<1>1. PICK d \in Nat : b = a + d
  <2>1. b - a \in Nat /\ b = a + (b - a)
    OBVIOUS
  <2>2. QED
    BY <2>1
<1>2. a * c \in Nat /\ d * c \in Nat
  BY SMTT(30)
<1>3. (a + d) * c = a * c + d * c
  BY SMTT(30)
<1>4. QED
  BY <1>1, <1>2, <1>3

LEMMA DivisionBounds ==
  ASSUME NEW x \in Nat, NEW l \in Nat, l > 0
  PROVE  x \div l \in Nat /\ (x \div l) * l <= x /\ x < (x \div l + 1) * l
BY SMTT(30)

\* Go's division keeps the sign.
LEMMA QuoBounds ==
  ASSUME NEW x \in Int, NEW n \in Nat, n > 0
  PROVE  Quo(x, n) \in Int /\ (x >= 0 => Quo(x, n) >= 0) /\ (x < 0 => Quo(x, n) <= 0)
<1>1. CASE x >= 0
  BY <1>1, SMTT(30) DEF Quo
<1>2. CASE x < 0
  <2>1. (-x) \in Nat /\ (-x) \div n \in Nat
    BY <1>2, DivisionBounds
  <2>2. QED
    BY <1>2, <2>1 DEF Quo
<1>3. QED
  BY <1>1, <1>2

LEMMA BatchesArePositive ==
  ASSUME script \in Scripts, NEW n \in script.nodes
  PROVE  script.batches[n] \in Nat /\ script.batches[n] > 0
<1>1. script.batches \in [script.nodes -> 1..MaxInt16]
  BY ScriptsAssumption DEF ScriptsAssumption
<1>2. script.batches[n] \in 1..MaxInt16
  BY <1>1
<1>3. QED
  BY <1>2, TokensAssumption DEF TokensAssumption

Holds(n, k, t) == Interval(n, k)[1] <= t /\ t <= Interval(n, k)[2]

\* GetTokenIntervalsByNumberOfBatches cuts the ring into parts that do not overlap and
\* leave nothing out, whatever its ends and the number of parts.
LEMMA TokenIsInOneInterval ==
  ASSUME script \in Scripts, NEW n \in script.nodes,
         NEW t \in IF script.reads[n] = {} THEN 0..(script.batches[n] - 1)
                   ELSE MinToken..MaxToken
  PROVE  \E k \in 0..(script.batches[n] - 1) :
           \A j \in 0..(script.batches[n] - 1) : Holds(n, j, t) <=> j = k
<1> DEFINE total == script.batches[n]
           length == Quo(MaxToken, total) - Quo(MinToken, total)
<1>1. total \in Nat /\ total > 0
  BY BatchesArePositive
<1>2. length \in Nat
  <2>1. Quo(MaxToken, total) \in Int /\ Quo(MaxToken, total) >= 0
    BY <1>1, QuoBounds, TokensAssumption DEF TokensAssumption
  <2>2. Quo(MinToken, total) \in Int /\ Quo(MinToken, total) <= 0
    BY <1>1, QuoBounds, TokensAssumption DEF TokensAssumption
  <2>3. QED
    BY <2>1, <2>2
<1>3. CASE script.reads[n] = {}
  <2>1. \A j \in 0..(total - 1) : Holds(n, j, t) <=> j = t
    BY <1>1, <1>3 DEF Holds, Interval
  <2>2. QED
    BY <1>3, <2>1
<1>4. CASE script.reads[n] # {} /\ total = 1
  <2>1. t \in MinToken..MaxToken
    BY <1>4
  <2>2. Holds(n, 0, t)
    BY <1>4, <2>1, TokensAssumption DEF Holds, Interval, TokensAssumption
  <2>3. QED
    BY <1>4, <2>2
<1>5. CASE script.reads[n] # {} /\ total # 1
  <2> DEFINE x == t - MinToken
  <2>0. t \in Int /\ MinToken \in Int /\ MinToken <= t /\ t <= MaxToken /\ MaxToken \in Int
        /\ x \in Nat
    BY <1>5, TokensAssumption DEF TokensAssumption
  <2>1. \A j \in 0..(total - 1) :
          Holds(n, j, t) <=> j * length <= x /\ (j # total - 1 => x < (j + 1) * length)
    <3>1. TAKE j \in 0..(total - 1)
    <3>2. j * length \in Nat /\ (j + 1) * length \in Nat
      BY <1>1, <1>2, ProductIsMonotone
    <3>3. Holds(n, j, t) <=>
            /\ MinToken + j * length <= t
            /\ t <= IF j = total - 1 THEN MaxToken ELSE MinToken + (j + 1) * length - 1
      BY <1>5 DEF Holds, Interval
    <3> HIDE DEF length
    <3>4. QED
      BY <2>0, <3>2, <3>3
  <2> HIDE DEF length, x
  <2>2. \A i, j \in 0..(total - 1) : Holds(n, i, t) /\ Holds(n, j, t) /\ i < j => FALSE
    <3>1. SUFFICES ASSUME NEW i \in 0..(total - 1), NEW j \in 0..(total - 1),
                          Holds(n, i, t), Holds(n, j, t), i < j
                   PROVE  FALSE
      OBVIOUS
    <3>2. x < (i + 1) * length /\ j * length <= x
      BY <1>1, <2>1, <3>1
    <3>3. (i + 1) * length \in Nat /\ j * length \in Nat /\ (i + 1) * length <= j * length
      BY <1>1, <1>2, <3>1, ProductIsMonotone
    <3>4. QED
      BY <2>0, <3>2, <3>3
  <2>3. \E k \in 0..(total - 1) : Holds(n, k, t)
    <3>1. CASE (total - 1) * length <= x
      BY <1>1, <2>1, <3>1
    <3>2. CASE ~((total - 1) * length <= x)
      <4>0. (total - 1) * length \in Nat
        BY <1>1, <1>2, ProductIsMonotone
      <4>1. length > 0
        <5>1. SUFFICES ASSUME length = 0 PROVE FALSE
          BY <1>2
        <5>2. (total - 1) * length = 0
          BY <1>1, <5>1
        <5>3. QED
          BY <2>0, <3>2, <5>2
      <4> DEFINE k == x \div length
      <4>2. k \in Nat /\ k * length <= x /\ x < (k + 1) * length
        BY <1>2, <2>0, <4>1, DivisionBounds
      <4> HIDE DEF k
      <4>3. k < total - 1
        <5>1. SUFFICES ASSUME total - 1 <= k PROVE FALSE
          BY <1>1, <4>2
        <5>2. (total - 1) * length <= k * length /\ k * length \in Nat
          BY <1>1, <1>2, <4>2, <5>1, ProductIsMonotone
        <5>3. QED
          BY <2>0, <3>2, <4>0, <4>2, <5>2
      <4>4. k \in 0..(total - 1)
        BY <1>1, <4>2, <4>3
      <4>5. Holds(n, k, t)
        BY <2>1, <4>2, <4>4
      <4>6. QED
        BY <4>4, <4>5
    <3>3. QED
      BY <3>1, <3>2
  <2>4. PICK k \in 0..(total - 1) : Holds(n, k, t)
    BY <2>3
  <2>5. \A j \in 0..(total - 1) : Holds(n, j, t) <=> j = k
    <3>1. \A j \in 0..(total - 1) : j < k \/ j = k \/ k < j
      BY <1>1
    <3>2. QED
      BY <2>2, <2>4, <3>1
  <2>6. QED
    BY <2>5
<1>6. QED
  BY <1>3, <1>4, <1>5

-------------------------------------------------------------------------------
\* The inductive invariant.

Pcs == {"idle", "counter", "increment", "properties", "tables", "status", "send", "done",
        "failed"}
HasRun == {"properties", "tables", "status", "send", "done"}
Nodes(o) == AffectedNodes[script][op[o].start]
OfRun(r) == {m \in DOMAIN batches : m.run = r}

CallsTyped ==
  /\ script \in Scripts
  /\ lastRun \in Nat
  /\ \E Start0, Todo0 :
       op \in [Operators -> [pc : Pcs, start : Start0, run : Nat, read : Nat, tries : Nat,
                             todo : Todo0]]
  /\ \A o \in Operators : op[o].pc # "idle" => op[o].start \in script.starts

\* A call has a run number once it has written the counter, and nobody else has it.
RunIsMine ==
  /\ \A o \in Operators :
       /\ op[o].pc \in {"idle", "counter", "increment"} => op[o].run = 0
       /\ op[o].pc \in HasRun => op[o].run # 0
       /\ op[o].run <= lastRun
  /\ \A o, q \in Operators : op[o].run # 0 /\ op[q].run = op[o].run => q = o

\* The properties of a run are those of the call that has its number.
PropertiesWritten ==
  /\ \A r \in DOMAIN properties :
       /\ r \in 1..lastRun
       /\ \E start \in script.starts :
            properties[r] = [start |-> start, affected |-> AffectedNodes[script][start]]
  /\ \A o \in Operators :
       /\ op[o].pc = "properties" => op[o].run \notin DOMAIN properties
       /\ op[o].pc \in HasRun \ {"properties"} =>
            /\ op[o].run \in DOMAIN properties
            /\ properties[op[o].run] = [start |-> op[o].start, affected |-> Nodes(o)]

\* The messages of a run are those that its call has sent.
MessagesSent ==
  /\ \A m \in DOMAIN batches : m.run \in 1..lastRun
  /\ \A o \in Operators :
       /\ op[o].pc \in {"properties", "tables", "status"} => OfRun(op[o].run) = {}
       /\ op[o].pc \in {"send", "done"} =>
            /\ op[o].todo \subseteq Messages(op[o].run, Nodes(o))
            /\ OfRun(op[o].run) = Messages(op[o].run, Nodes(o)) \ op[o].todo
       /\ op[o].pc = "done" => op[o].todo = {}

IInv == CallsTyped /\ RunIsMine /\ PropertiesWritten /\ MessagesSent

LEMMA MessagesHaveRun ==
  ASSUME NEW r, NEW nodes, NEW m \in Messages(r, nodes)
  PROVE  m.run = r
BY DEF Messages

LEMMA InitIInv == Init => IInv
<1> SUFFICES ASSUME Init PROVE IInv
  OBVIOUS
<1>1. op \in [Operators -> [pc : Pcs, start : {{}}, run : Nat, read : Nat, tries : Nat,
                            todo : {{}}]]
  BY DEF Init, Pcs
<1>2. CallsTyped
  BY <1>1 DEF Init, CallsTyped
<1>3. RunIsMine
  BY DEF Init, RunIsMine, HasRun
<1>4. PropertiesWritten
  BY DEF Init, PropertiesWritten, HasRun
<1>5. MessagesSent
  BY DEF Init, MessagesSent
<1>6. QED
  BY <1>2, <1>3, <1>4, <1>5 DEF IInv

\* A step of a daemon leaves everything of StartRun alone.
LEMMA DaemonKeepsIInv ==
  ASSUME IInv, UNCHANGED <<script, lastRun, properties, op>>,
         DOMAIN batches' = DOMAIN batches
  PROVE  IInv'
<1>1. CallsTyped' /\ RunIsMine'
  BY DEF IInv, CallsTyped, RunIsMine
<1>2. PropertiesWritten'
  BY DEF IInv, PropertiesWritten, Nodes
<1>3. MessagesSent'
  <2>1. script' = script /\ \A r, nodes : Messages(r, nodes)' = Messages(r, nodes)
    BY DEF Messages, Interval
  <2>2. QED
    BY <2>1 DEF IInv, MessagesSent, Nodes, OfRun
<1>4. QED
  BY <1>1, <1>2, <1>3 DEF IInv

-------------------------------------------------------------------------------
\* The steps of StartRun.

\* A call goes on or fails: it keeps its number.
LEMMA GoKeepsCalls ==
  ASSUME IInv, NEW o \in Operators, NEW pc \in HasRun \cup {"failed"}, Go(o, pc),
         op[o].pc # "idle", pc \in HasRun => op[o].pc \in HasRun,
         script' = script, lastRun' \in Nat, lastRun' >= lastRun
  PROVE  /\ CallsTyped' /\ RunIsMine'
         /\ op'[o] = [op[o] EXCEPT !.pc = pc]
         /\ \A q \in Operators : /\ q # o => op'[q] = op[q]
                                 /\ op'[q].start = op[q].start
                                 /\ op'[q].run = op[q].run
                                 /\ op'[q].todo = op[q].todo
         /\ op'[o].pc = pc
<1> PICK Start0, Todo0 :
       op \in [Operators -> [pc : Pcs, start : Start0, run : Nat, read : Nat, tries : Nat,
                             todo : Todo0]]
  BY DEF IInv, CallsTyped
<1>1. op' \in [Operators -> [pc : Pcs, start : Start0, run : Nat, read : Nat, tries : Nat,
                             todo : Todo0]]
  BY DEF Go, Pcs, HasRun
<1>2. /\ op'[o] = [op[o] EXCEPT !.pc = pc]
      /\ op'[o].pc = pc /\ op'[o].run = op[o].run /\ op'[o].start = op[o].start
      /\ op'[o].todo = op[o].todo
      /\ \A q \in Operators : q # o => op'[q] = op[q]
  BY DEF Go
<1>3. CallsTyped'
  <2>1. \A q \in Operators : op'[q].pc # "idle" => op'[q].start \in script.starts
    BY <1>2 DEF IInv, CallsTyped
  <2>2. QED
    BY <1>1, <2>1 DEF IInv, CallsTyped
<1>4. RunIsMine'
  BY <1>1, <1>2 DEF IInv, CallsTyped, RunIsMine, HasRun
<1>5. QED
  BY <1>2, <1>3, <1>4

\* A call that fails has no obligations any more.
LEMMA FailKeepsRest ==
  ASSUME IInv, NEW o \in Operators, NEW kind, Fails(o, kind), op[o].pc # "idle",
         script' = script, lastRun' \in Nat, lastRun' >= lastRun
  PROVE  /\ CallsTyped' /\ RunIsMine'
         /\ properties' = properties => PropertiesWritten'
         /\ DOMAIN batches' = DOMAIN batches => MessagesSent'
<1>1. /\ CallsTyped' /\ RunIsMine'
      /\ \A q \in Operators : /\ q # o => op'[q] = op[q]
                              /\ op'[q].start = op[q].start
                              /\ op'[q].run = op[q].run
      /\ op'[o].pc = "failed"
  BY GoKeepsCalls DEF Fails, HasRun
<1>2. ASSUME properties' = properties
      PROVE  PropertiesWritten'
  <2>1. \A r \in DOMAIN properties : r \in 1..lastRun'
    BY DEF IInv, CallsTyped, PropertiesWritten
  <2>2. QED
    BY <1>1, <1>2, <2>1 DEF IInv, PropertiesWritten, Nodes, HasRun
<1>3. ASSUME DOMAIN batches' = DOMAIN batches
      PROVE  MessagesSent'
  <2>1. \A m \in DOMAIN batches : m.run \in 1..lastRun'
    BY DEF IInv, CallsTyped, MessagesSent
  <2>2. \A r, nodes : Messages(r, nodes)' = Messages(r, nodes)
    BY DEF Messages, Interval
  <2>3. QED
    BY <1>1, <1>3, <2>1, <2>2 DEF IInv, MessagesSent, Nodes, OfRun
<1>4. QED
  BY <1>1, <1>2, <1>3

LEMMA CallStartRunKeepsIInv ==
  ASSUME IInv, NEW o \in Operators, CallStartRun(o)
  PROVE  IInv'
<1> PICK Start0, Todo0 :
       op \in [Operators -> [pc : Pcs, start : Start0, run : Nat, read : Nat, tries : Nat,
                             todo : Todo0]]
  BY DEF IInv, CallsTyped
<1> PICK start \in script.starts : op' = [op EXCEPT ![o].pc = "counter", ![o].start = start]
  BY DEF CallStartRun
<1>1. op' \in [Operators -> [pc : Pcs, start : Start0 \cup {start}, run : Nat, read : Nat,
                             tries : Nat, todo : Todo0]]
  BY DEF Pcs
<1>2. /\ op'[o].pc = "counter" /\ op'[o].run = op[o].run /\ op'[o].start = start
      /\ \A q \in Operators : q # o => op'[q] = op[q]
  OBVIOUS
<1>3. CallsTyped'
  <2>1. \A q \in Operators : op'[q].pc # "idle" => op'[q].start \in script.starts
    BY <1>2 DEF IInv, CallsTyped
  <2>2. QED
    BY <1>1, <2>1 DEF IInv, CallsTyped, CallStartRun
<1>4. RunIsMine'
  BY <1>1, <1>2 DEF IInv, CallsTyped, RunIsMine, HasRun, CallStartRun
<1>5. PropertiesWritten'
  BY <1>2 DEF IInv, PropertiesWritten, HasRun, CallStartRun, Nodes
<1>6. MessagesSent'
  <2>1. \A r, nodes : Messages(r, nodes)' = Messages(r, nodes)
    BY DEF Messages, Interval, CallStartRun
  <2>2. QED
    BY <1>2, <2>1 DEF IInv, MessagesSent, Nodes, OfRun, CallStartRun
<1>7. QED
  BY <1>3, <1>4, <1>5, <1>6 DEF IInv

\* To read the counter, or to lose the race for it, changes nothing that is known.
LEMMA CounterKeepsIInv ==
  ASSUME IInv, NEW o \in Operators, NEW pc \in {"counter", "increment", "failed"},
         NEW read \in Nat, NEW tries \in Nat,
         op' = [op EXCEPT ![o].pc = pc, ![o].read = read, ![o].tries = tries],
         op[o].pc \in {"counter", "increment"},
         UNCHANGED <<script, lastRun, properties, batches>>
  PROVE  IInv'
<1> PICK Start0, Todo0 :
       op \in [Operators -> [pc : Pcs, start : Start0, run : Nat, read : Nat, tries : Nat,
                             todo : Todo0]]
  BY DEF IInv, CallsTyped
<1>1. op' \in [Operators -> [pc : Pcs, start : Start0, run : Nat, read : Nat,
                             tries : Nat, todo : Todo0]]
  <2> DEFINE Calls == [pc : Pcs, start : Start0, run : Nat, read : Nat, tries : Nat,
                       todo : Todo0]
  <2>1. op[o] \in Calls /\ pc \in Pcs
    BY DEF Pcs
  <2>2. [op[o] EXCEPT !.pc = pc, !.read = read, !.tries = tries] \in Calls
    BY <2>1
  <2>3. op' = [op EXCEPT ![o] = [op[o] EXCEPT !.pc = pc, !.read = read, !.tries = tries]]
    BY Zenon
  <2> HIDE DEF Calls
  <2>4. QED
    BY <2>2, <2>3 DEF Calls
<1>2. /\ op'[o].pc = pc /\ op'[o].run = op[o].run /\ op'[o].start = op[o].start
      /\ \A q \in Operators : q # o => op'[q] = op[q]
  OBVIOUS
<1>3. CallsTyped'
  <2>1. \A q \in Operators : op'[q].pc # "idle" => op'[q].start \in script.starts
    BY <1>2 DEF IInv, CallsTyped
  <2>2. QED
    BY <1>1, <2>1 DEF IInv, CallsTyped
<1>4. RunIsMine'
  BY <1>1, <1>2 DEF IInv, CallsTyped, RunIsMine, HasRun
<1>5. PropertiesWritten'
  BY <1>2 DEF IInv, PropertiesWritten, HasRun, Nodes
<1>6. MessagesSent'
  <2>1. \A r, nodes : Messages(r, nodes)' = Messages(r, nodes)
    BY DEF Messages, Interval
  <2>2. QED
    BY <1>2, <2>1 DEF IInv, MessagesSent, Nodes, OfRun
<1>7. QED
  BY <1>3, <1>4, <1>5, <1>6 DEF IInv

\* The counter gives a number that nobody had: no row and no message is of it.
LEMMA IncrementKeepsIInv ==
  ASSUME IInv, NEW o \in Operators, IncrementCounter(o)
  PROVE  IInv'
<1> PICK Start0, Todo0 :
       op \in [Operators -> [pc : Pcs, start : Start0, run : Nat, read : Nat, tries : Nat,
                             todo : Todo0]]
  BY DEF IInv, CallsTyped
<1>1. CASE Increments(o) /\ lastRun' = op[o].read + 1
           /\ op' = [op EXCEPT ![o].pc = "properties", ![o].run = op[o].read + 1,
                               ![o].read = 0, ![o].tries = 0]
  <2>1. lastRun \in Nat /\ lastRun' = lastRun + 1 /\ op[o].read = lastRun
        /\ op[o].pc # "idle" /\ UNCHANGED <<script, properties, batches>>
    BY <1>1 DEF Increments, IInv, CallsTyped, IncrementCounter
  <2> DEFINE next == lastRun + 1
  <2>2. op' = [op EXCEPT ![o].pc = "properties", ![o].run = next, ![o].read = 0,
                         ![o].tries = 0]
        /\ next \in Nat
    BY <1>1, <2>1
  <2> HIDE DEF next
  <2>3. op' \in [Operators -> [pc : Pcs, start : Start0, run : Nat, read : Nat,
                               tries : Nat, todo : Todo0]]
    <3> DEFINE Calls == [pc : Pcs, start : Start0, run : Nat, read : Nat, tries : Nat,
                         todo : Todo0]
    <3>1. "properties" \in Pcs /\ 0 \in Nat
      BY DEF Pcs
    <3>2. op[o] \in Calls
      OBVIOUS
    <3>3. [op[o] EXCEPT !.pc = "properties", !.run = next, !.read = 0, !.tries = 0] \in Calls
      BY <2>2, <3>1, <3>2
    <3>4. op' = [op EXCEPT ![o] = [op[o] EXCEPT !.pc = "properties", !.run = next,
                                               !.read = 0, !.tries = 0]]
      BY <2>2, Zenon
    <3> HIDE DEF Calls
    <3>5. QED
      BY <3>3, <3>4 DEF Calls
  <2>4. /\ op'[o].pc = "properties" /\ op'[o].run = lastRun' /\ op'[o].start = op[o].start
        /\ \A q \in Operators : q # o => op'[q] = op[q]
    BY <2>1, <2>2 DEF next
  <2>5. CallsTyped'
    <3>1. \A q \in Operators : op'[q].pc # "idle" => op'[q].start \in script.starts
      BY <2>1, <2>4 DEF IInv, CallsTyped
    <3>2. \E Start1, Todo1 :
             op' \in [Operators -> [pc : Pcs, start : Start1, run : Nat, read : Nat,
                                    tries : Nat, todo : Todo1]]
      BY <2>3
    <3>3. script' = script /\ lastRun' \in Nat /\ script \in Scripts
      BY <2>1 DEF IInv, CallsTyped
    <3>4. QED
      BY <3>1, <3>2, <3>3 DEF CallsTyped
  <2>6. RunIsMine'
    BY <2>1, <2>3, <2>4 DEF IInv, CallsTyped, RunIsMine, HasRun
  <2>7. PropertiesWritten'
    <3>1. \A r \in DOMAIN properties : r \in 1..lastRun' /\ r # lastRun'
      BY <2>1 DEF IInv, PropertiesWritten
    <3>2. QED
      BY <2>1, <2>4, <3>1 DEF IInv, PropertiesWritten, HasRun, Nodes
  <2>8. MessagesSent'
    <3>1. \A m \in DOMAIN batches : m.run \in 1..lastRun' /\ m.run # lastRun'
      BY <2>1 DEF IInv, MessagesSent
    <3>2. \A r, nodes : Messages(r, nodes)' = Messages(r, nodes)
      BY <2>1 DEF Messages, Interval
    <3>3. QED
      BY <2>1, <2>4, <3>1, <3>2 DEF IInv, MessagesSent, Nodes, OfRun
  <2>9. QED
    BY <2>5, <2>6, <2>7, <2>8 DEF IInv
<1>2. CASE lastRun' = lastRun
           /\ op' = [op EXCEPT ![o].tries = @ + 1,
                               ![o].pc = IF op[o].tries + 1 = MaxRetries THEN "failed"
                                         ELSE "counter"]
  <2> DEFINE pc == IF op[o].tries + 1 = MaxRetries THEN "failed" ELSE "counter"
  <2>1. op' = [op EXCEPT ![o].pc = pc, ![o].read = op[o].read, ![o].tries = op[o].tries + 1]
    BY <1>2
  <2>2. op[o].read \in Nat /\ op[o].tries + 1 \in Nat
        /\ pc \in {"counter", "increment", "failed"}
    OBVIOUS
  <2>3. op[o].pc \in {"counter", "increment"}
        /\ UNCHANGED <<script, lastRun, properties, batches>>
    BY <1>2 DEF IncrementCounter
  <2> HIDE DEF pc
  <2>4. QED
    BY <2>1, <2>2, <2>3, CounterKeepsIInv
<1>3. QED
  BY <1>1, <1>2 DEF IncrementCounter

\* The number of a call that is about to write its properties has none yet.
LEMMA RunIsNew ==
  ASSUME IInv, NEW o \in Operators, op[o].pc = "properties"
  PROVE  /\ lastRun \in Nat /\ op[o].run \in 1..lastRun /\ op[o].run \notin DOMAIN properties
         /\ op[o].start \in script.starts
<1>1. op[o].run # 0 /\ op[o].run <= lastRun /\ op[o].run \notin DOMAIN properties
  BY DEF IInv, RunIsMine, PropertiesWritten, HasRun
<1>2. lastRun \in Nat /\ op[o].run \in Nat /\ op[o].start \in script.starts
  BY DEF IInv, CallsTyped
<1>3. QED
  BY <1>1, <1>2

LEMMA WriteRunPropertiesKeepsIInv ==
  ASSUME IInv, NEW o \in Operators, WriteRunProperties(o)
  PROVE  IInv'
<1>1. /\ lastRun \in Nat /\ op[o].run \in 1..lastRun /\ op[o].run \notin DOMAIN properties
      /\ op[o].start \in script.starts
  BY RunIsNew DEF WriteRunProperties
<1>2. /\ CallsTyped' /\ RunIsMine'
      /\ \A q \in Operators : /\ q # o => op'[q] = op[q]
                              /\ op'[q].start = op[q].start
                              /\ op'[q].run = op[q].run
      /\ op'[o].pc = "tables"
  <2>1. /\ Go(o, "tables") /\ op[o].pc = "properties"
        /\ script' = script /\ lastRun' \in Nat /\ lastRun' >= lastRun
    BY <1>1 DEF WriteRunProperties
  <2>2. QED
    BY <2>1, GoKeepsCalls DEF HasRun
<1>3. /\ DOMAIN properties' = DOMAIN properties \cup {op[o].run}
      /\ properties'[op[o].run] = [start |-> op[o].start, affected |-> Nodes(o)]
      /\ \A r \in DOMAIN properties : properties'[r] = properties[r]
  BY <1>1 DEF WriteRunProperties, WithProperties, Nodes
<1>4. PropertiesWritten'
  BY <1>1, <1>2, <1>3 DEF IInv, RunIsMine, PropertiesWritten, WriteRunProperties, HasRun, Nodes
<1>5. MessagesSent'
  <2>1. \A r, nodes : Messages(r, nodes)' = Messages(r, nodes)
    BY DEF Messages, Interval, WriteRunProperties
  <2>2. QED
    BY <1>2, <2>1 DEF IInv, MessagesSent, Nodes, OfRun, WriteRunProperties
<1>6. QED
  BY <1>2, <1>4, <1>5 DEF IInv

LEMMA CreateTablesKeepsIInv ==
  ASSUME IInv, NEW o \in Operators, CreateTables(o)
  PROVE  IInv'
<1>1. /\ CallsTyped' /\ RunIsMine'
      /\ \A q \in Operators : /\ q # o => op'[q] = op[q]
                              /\ op'[q].start = op[q].start
                              /\ op'[q].run = op[q].run
      /\ op'[o].pc = "status"
  <2>1. /\ Go(o, "status") /\ op[o].pc = "tables"
        /\ script' = script /\ lastRun' \in Nat /\ lastRun' >= lastRun
    BY DEF CreateTables, IInv, CallsTyped
  <2>2. QED
    BY <2>1, GoKeepsCalls DEF HasRun
<1>2. PropertiesWritten'
  BY <1>1 DEF IInv, PropertiesWritten, HasRun, Nodes, CreateTables
<1>3. MessagesSent'
  <2>1. \A r, nodes : Messages(r, nodes)' = Messages(r, nodes)
    BY DEF Messages, Interval, CreateTables
  <2>2. QED
    BY <1>1, <2>1 DEF IInv, MessagesSent, Nodes, OfRun, CreateTables
<1>4. QED
  BY <1>1, <1>2, <1>3 DEF IInv

\* What is left to send is all the messages of the run: none is there yet.
LEMMA SetRunStartKeepsIInv ==
  ASSUME IInv, NEW o \in Operators, SetRunStart(o)
  PROVE  IInv'
<1> DEFINE all == Messages(op[o].run, Nodes(o))
<1> PICK Start0, Todo0 :
       op \in [Operators -> [pc : Pcs, start : Start0, run : Nat, read : Nat, tries : Nat,
                             todo : Todo0]]
  BY DEF IInv, CallsTyped
<1>1. op' = [op EXCEPT ![o].pc = "send", ![o].todo = all]
  BY DEF SetRunStart, Nodes
<1> HIDE DEF all
<1>2. op' \in [Operators -> [pc : Pcs, start : Start0, run : Nat, read : Nat,
                             tries : Nat, todo : Todo0 \cup {all}]]
  BY <1>1 DEF Pcs
<1>3. /\ op'[o].pc = "send" /\ op'[o].run = op[o].run /\ op'[o].start = op[o].start
      /\ op'[o].todo = all
      /\ \A q \in Operators : q # o => op'[q] = op[q]
  BY <1>1
<1>4. CallsTyped'
  <2>1. \A q \in Operators : op'[q].pc # "idle" => op'[q].start \in script.starts
    BY <1>3 DEF IInv, CallsTyped, SetRunStart
  <2>2. QED
    BY <1>2, <2>1 DEF IInv, CallsTyped, SetRunStart
<1>5. RunIsMine'
  BY <1>2, <1>3 DEF IInv, CallsTyped, RunIsMine, HasRun, SetRunStart
<1>6. PropertiesWritten'
  BY <1>3 DEF IInv, PropertiesWritten, HasRun, Nodes, SetRunStart
<1>7. MessagesSent'
  <2>1. \A r, nodes : Messages(r, nodes)' = Messages(r, nodes)
    BY DEF Messages, Interval, SetRunStart
  <2>2. OfRun(op[o].run) = {}
    BY DEF IInv, MessagesSent, SetRunStart
  <2>3. \A q \in Operators : Nodes(q)' = Nodes(q)
    BY <1>3 DEF Nodes, SetRunStart
  <2>4. QED
    BY <1>3, <2>1, <2>2, <2>3 DEF all, IInv, MessagesSent, OfRun, SetRunStart
<1>8. QED
  BY <1>4, <1>5, <1>6, <1>7 DEF IInv

\* What is sent is of the call's own run, and no longer to be sent.
LEMMA RequestsAreMine ==
  ASSUME IInv, NEW o \in Operators, op[o].pc = "send", NEW M \in Requests(o)
  PROVE  /\ M \subseteq op[o].todo
         /\ \A m \in M : m.run = op[o].run /\ m.run \in 1..lastRun
         /\ DOMAIN With(M) = DOMAIN batches \cup M
<1>1. M \subseteq op[o].todo
  BY DEF Requests
<1>2. op[o].todo \subseteq Messages(op[o].run, Nodes(o))
  BY DEF IInv, MessagesSent
<1>3. op[o].run \in 1..lastRun
  BY DEF IInv, CallsTyped, RunIsMine, HasRun
<1>4. QED
  BY <1>1, <1>2, <1>3, MessagesHaveRun DEF With

LEMMA SendMessagesKeepsIInv ==
  ASSUME IInv, NEW o \in Operators, SendMessages(o)
  PROVE  IInv'
<1> PICK Start0, Todo0 :
       op \in [Operators -> [pc : Pcs, start : Start0, run : Nat, read : Nat, tries : Nat,
                             todo : Todo0]]
  BY DEF IInv, CallsTyped
<1> PICK M \in Requests(o) :
       /\ batches' = With(M)
       /\ op' = [op EXCEPT ![o].todo = @ \ M, ![o].pc = IF M = op[o].todo THEN "done" ELSE @]
  BY DEF SendMessages
<1>0. /\ op[o].pc = "send"
      /\ M \subseteq op[o].todo
      /\ \A m \in M : m.run = op[o].run /\ m.run \in 1..lastRun
      /\ DOMAIN batches' = DOMAIN batches \cup M
  BY RequestsAreMine DEF SendMessages
<1>1. op' \in [Operators -> [pc : Pcs, start : Start0, run : Nat, read : Nat,
                             tries : Nat, todo : Todo0 \cup {op[o].todo \ M}]]
  <2> DEFINE Call == [pc : Pcs, start : Start0, run : Nat, read : Nat, tries : Nat,
                      todo : Todo0 \cup {op[o].todo \ M}]
  <2>1. \A q \in Operators : op[q] \in Call
    OBVIOUS
  <2>2. [op[o] EXCEPT !.todo = @ \ M, !.pc = IF M = op[o].todo THEN "done" ELSE @] \in Call
    BY <2>1 DEF Pcs
  <2> HIDE DEF Call
  <2>3. op' \in [Operators -> Call]
    BY <2>1, <2>2
  <2>4. QED
    BY <2>3 DEF Call
<1>2. /\ op'[o].pc \in {"send", "done"} /\ op'[o].run = op[o].run
      /\ op'[o].start = op[o].start /\ op'[o].todo = op[o].todo \ M
      /\ op'[o].pc = "done" => op'[o].todo = {}
      /\ \A q \in Operators : q # o => op'[q] = op[q]
  BY <1>0
<1>3. CallsTyped'
  <2>1. \A q \in Operators : op'[q].pc # "idle" => op'[q].start \in script.starts
    BY <1>2 DEF IInv, CallsTyped, SendMessages
  <2>2. QED
    BY <1>1, <2>1 DEF IInv, CallsTyped, SendMessages
<1>4. RunIsMine'
  BY <1>0, <1>1, <1>2 DEF IInv, CallsTyped, RunIsMine, HasRun, SendMessages
<1>5. PropertiesWritten'
  BY <1>0, <1>2 DEF IInv, PropertiesWritten, HasRun, Nodes, SendMessages
<1>6. MessagesSent'
  <2>1. \A r, nodes : Messages(r, nodes)' = Messages(r, nodes)
    BY DEF Messages, Interval, SendMessages
  <2>2. \A q \in Operators : Nodes(q)' = Nodes(q)
    BY <1>2 DEF Nodes, SendMessages
  <2>3. \A m \in DOMAIN batches' : m.run \in 1..lastRun'
    BY <1>0 DEF IInv, MessagesSent, SendMessages
  <2>4. OfRun(op[o].run)' = OfRun(op[o].run) \cup M
    BY <1>0, <1>2 DEF OfRun
  <2>5. \A q \in Operators : q # o /\ op[q].pc \in HasRun =>
           OfRun(op[q].run)' = OfRun(op[q].run)
    BY <1>0, <1>2 DEF OfRun, IInv, RunIsMine
  <2>6. /\ op'[o].todo \subseteq Messages(op[o].run, Nodes(o))
        /\ OfRun(op[o].run) \cup M = Messages(op[o].run, Nodes(o)) \ op'[o].todo
    BY <1>0, <1>2 DEF IInv, MessagesSent
  <2>7. ASSUME NEW q \in Operators
        PROVE  /\ op'[q].pc \in {"properties", "tables", "status"} => OfRun(op[q].run)' = {}
               /\ op'[q].pc \in {"send", "done"} =>
                    /\ op'[q].todo \subseteq Messages(op[q].run, Nodes(q))'
                    /\ OfRun(op[q].run)' = Messages(op[q].run, Nodes(q))' \ op'[q].todo
               /\ op'[q].pc = "done" => op'[q].todo = {}
    <3>1. CASE q = o
      BY <1>2, <2>1, <2>2, <2>4, <2>6, <3>1
    <3>2. CASE q # o
      BY <1>2, <2>1, <2>2, <2>5, <3>2 DEF IInv, MessagesSent, HasRun
    <3>3. QED
      BY <3>1, <3>2
  <2>8. QED
    BY <2>3, <2>7 DEF MessagesSent
<1>7. QED
  BY <1>3, <1>4, <1>5, <1>6 DEF IInv

\* An access that fails, whether it took effect or not.
LEMMA OperatorFailsKeepsIInv ==
  ASSUME IInv, NEW o \in Operators, OperatorFails(o)
  PROVE  IInv'
<1>0. lastRun \in Nat
  BY DEF IInv, CallsTyped
<1>1. CASE IncrementFails(o)
  <2>1. op[o].read \in Nat
    BY DEF IInv, CallsTyped
  <2>2. /\ Fails(o, "db") /\ op[o].pc # "idle" /\ UNCHANGED <<script, properties, batches>>
        /\ lastRun' \in Nat /\ lastRun' >= lastRun
    BY <1>0, <1>1, <2>1 DEF IncrementFails, Increments
  <2>3. QED
    BY <2>2, FailKeepsRest DEF IInv
<1>2. CASE CreateTableFails(o) \/ SetRunStartFails(o)
  <2>1. /\ Fails(o, "db") /\ op[o].pc # "idle" /\ UNCHANGED <<script, properties, batches>>
        /\ lastRun' \in Nat /\ lastRun' >= lastRun
    BY <1>0, <1>2 DEF CreateTableFails, SetRunStartFails
  <2>2. QED
    BY <2>1, FailKeepsRest DEF IInv
<1>3. CASE PropertiesFail(o)
  <2>1. /\ Fails(o, "db") /\ op[o].pc = "properties" /\ UNCHANGED <<script, lastRun, batches>>
        /\ lastRun' \in Nat /\ lastRun' >= lastRun
        /\ properties' \in {properties, WithProperties(o)}
    BY <1>0, <1>3 DEF PropertiesFail
  <2>2. CallsTyped' /\ RunIsMine' /\ MessagesSent'
        /\ (properties' = properties => PropertiesWritten')
    BY <2>1, FailKeepsRest
  <2>3. CASE properties' = WithProperties(o)
    <3>1. /\ op[o].run \in 1..lastRun /\ op[o].run \notin DOMAIN properties
          /\ op[o].start \in script.starts
      BY <2>1, RunIsNew
    <3>2. /\ DOMAIN properties' = DOMAIN properties \cup {op[o].run}
          /\ properties'[op[o].run] = [start |-> op[o].start, affected |-> Nodes(o)]
          /\ \A r \in DOMAIN properties : properties'[r] = properties[r]
      BY <2>3, <3>1 DEF WithProperties, Nodes
    <3>3. /\ \A q \in Operators : /\ q # o => op'[q] = op[q]
                                  /\ op'[q].start = op[q].start
                                  /\ op'[q].run = op[q].run
          /\ op'[o].pc = "failed"
      BY <2>1, GoKeepsCalls DEF Fails, HasRun
    <3>4. PropertiesWritten'
      BY <2>1, <3>1, <3>2, <3>3 DEF IInv, RunIsMine, PropertiesWritten, HasRun, Nodes
    <3>5. QED
      BY <2>2, <3>4 DEF IInv
  <2>4. QED
    BY <2>1, <2>2, <2>3 DEF IInv
<1>4. CASE SendFails(o)
  <2>1. PICK M \in Requests(o) : batches' \in {batches, With(M)}
    BY <1>4 DEF SendFails
  <2>2. /\ Fails(o, "broker") /\ op[o].pc = "send" /\ UNCHANGED <<script, lastRun, properties>>
        /\ lastRun' \in Nat /\ lastRun' >= lastRun
    BY <1>0, <1>4 DEF SendFails
  <2>3. CallsTyped' /\ RunIsMine' /\ PropertiesWritten'
        /\ (DOMAIN batches' = DOMAIN batches => MessagesSent')
    BY <2>2, FailKeepsRest
  <2>4. CASE batches' = With(M)
    <3>1. /\ \A m \in M : m.run = op[o].run /\ m.run \in 1..lastRun
          /\ DOMAIN batches' = DOMAIN batches \cup M
      BY <2>2, <2>4, RequestsAreMine
    <3>2. /\ \A q \in Operators : /\ q # o => op'[q] = op[q]
                                  /\ op'[q].start = op[q].start
                                  /\ op'[q].run = op[q].run
                                  /\ op'[q].todo = op[q].todo
          /\ op'[o].pc = "failed"
      BY <2>2, GoKeepsCalls DEF Fails, HasRun
    <3>3. \A q \in Operators : q # o /\ op[q].pc \in HasRun =>
             OfRun(op[q].run)' = OfRun(op[q].run)
      BY <2>2, <3>1, <3>2 DEF OfRun, IInv, RunIsMine, HasRun
    <3>4. \A m \in DOMAIN batches' : m.run \in 1..lastRun'
      BY <2>2, <3>1 DEF IInv, MessagesSent
    <3>5. \A r, nodes : Messages(r, nodes)' = Messages(r, nodes)
      BY <2>2 DEF Messages, Interval
    <3>6. \A q \in Operators : Nodes(q)' = Nodes(q)
      BY <2>2, <3>2 DEF Nodes
    <3>7. MessagesSent'
      BY <3>2, <3>3, <3>4, <3>5, <3>6 DEF IInv, MessagesSent, HasRun
    <3>8. QED
      BY <2>3, <3>7 DEF IInv
  <2>5. QED
    BY <2>1, <2>3, <2>4 DEF IInv
<1>5. QED
  BY <1>1, <1>2, <1>3, <1>4 DEF OperatorFails

\* Every step of StartRun, of a failing access, of StopRun and of the daemons keeps the
\* invariant.
THEOREM StepKeepsIInv == IInv /\ [Next]_vars => IInv'
<1> SUFFICES ASSUME IInv, [Next]_vars PROVE IInv'
  OBVIOUS
<1>1. ASSUME NEW o \in Operators, OperatorSteps(o)
      PROVE  IInv'
  <2>1. CASE ReadCounter(o)
    <3>1. /\ op[o].pc = "counter" /\ UNCHANGED <<script, lastRun, properties, batches>>
          /\ lastRun \in Nat /\ op[o].tries \in Nat /\ op[o].read \in Nat
      BY <2>1 DEF ReadCounter, IInv, CallsTyped
    <3>2. CASE op' = [op EXCEPT ![o].pc = "failed"]
      <4>1. op' = [op EXCEPT ![o].pc = "failed", ![o].read = op[o].read,
                             ![o].tries = op[o].tries]
        BY <3>2 DEF IInv, CallsTyped
      <4>2. QED
        BY <3>1, <4>1, CounterKeepsIInv
    <3>3. CASE op' = [op EXCEPT ![o].pc = "increment", ![o].read = lastRun]
      <4>1. op' = [op EXCEPT ![o].pc = "increment", ![o].read = lastRun,
                             ![o].tries = op[o].tries]
        BY <3>3 DEF IInv, CallsTyped
      <4>2. QED
        BY <3>1, <4>1, CounterKeepsIInv
    <3>4. QED
      BY <2>1, <3>2, <3>3 DEF ReadCounter
  <2>2. CASE IncrementCounter(o)
    BY <2>2, IncrementKeepsIInv
  <2>3. CASE WriteRunProperties(o)
    BY <2>3, WriteRunPropertiesKeepsIInv
  <2>4. CASE CreateTables(o)
    BY <2>4, CreateTablesKeepsIInv
  <2>5. CASE SetRunStart(o)
    BY <2>5, SetRunStartKeepsIInv
  <2>6. CASE SendMessages(o)
    BY <2>6, SendMessagesKeepsIInv
  <2>7. QED
    BY <1>1, <2>1, <2>2, <2>3, <2>4, <2>5, <2>6 DEF OperatorSteps
<1>2. ASSUME NEW m \in DOMAIN batches, DaemonSteps(m)
      PROVE  IInv'
  <2>1. UNCHANGED <<script, lastRun, properties, op>> /\ DOMAIN batches' = DOMAIN batches
    BY <1>2 DEF DaemonSteps, StopBatch, RefuseBatch, NogoBatch, StartBatch, EndBatch, Becomes,
                Daemon
  <2>2. QED
    BY <2>1, DaemonKeepsIInv
<1>3. ASSUME NEW r \in Runs, CompleteRun(r) \/ StopRun(r)
      PROVE  IInv'
  BY <1>3, DaemonKeepsIInv DEF CompleteRun, StopRun
<1>4. ASSUME NEW o \in Operators, CallStartRun(o) \/ OperatorFails(o)
      PROVE  IInv'
  BY <1>4, CallStartRunKeepsIInv, OperatorFailsKeepsIInv
<1>5. CASE UNCHANGED vars
  BY <1>5, DaemonKeepsIInv DEF vars
<1>6. QED
  BY <1>1, <1>2, <1>3, <1>4, <1>5 DEF Next, Progress

\* In every reachable state the calls of StartRun, the properties and the messages of the
\* runs agree.
THEOREM IInvHolds == Spec => []IInv
<1>1. Init => IInv
  BY InitIInv
<1>2. IInv /\ [Next]_vars => IInv'
  BY StepKeepsIInv
<1>3. QED
  BY <1>1, <1>2, PTL DEF Spec

-------------------------------------------------------------------------------
\* The properties.

\* No two calls of StartRun get the same run (GetNextRunCounter), however many there are
\* and whichever of their writes fail.
THEOREM RunIdsUniqueHolds == Spec => []RunIdsUnique
<1>1. IInv => RunIdsUnique
  BY DEF IInv, RunIsMine, RunIdsUnique
<1>2. QED
  BY <1>1, IInvHolds, PTL

\* What a run's properties list (GetAffectedNodes) is closed, for every script.
THEOREM AffectedIsClosedHolds == Spec => []AffectedIsClosed
<1>1. IInv => AffectedIsClosed
  <2>1. SUFFICES ASSUME IInv, NEW r \in DOMAIN properties
                 PROVE  LET p == properties[r]
                        IN /\ p.start \subseteq p.affected
                           /\ \A n \in p.affected \ p.start :
                                /\ n \notin script.manual
                                /\ script.reads[n] \cap Reached(script, p.start)
                                     \subseteq p.affected
    BY DEF AffectedIsClosed
  <2>2. PICK start \in script.starts :
          properties[r] = [start |-> start, affected |-> AffectedNodes[script][start]]
    BY <2>1 DEF IInv, PropertiesWritten
  <2>3. script \in Scripts
    BY <2>1 DEF IInv, CallsTyped
  <2>4. start \in SUBSET script.nodes
    BY <2>3, ScriptsAssumption DEF ScriptsAssumption
  <2>5. properties[r].start = start /\ properties[r].affected = Affected(script, start)
    BY <2>2, <2>3 DEF AffectedNodes
  <2>6. QED
    BY <2>4, <2>5, AffectedClosed
<1>2. QED
  BY <1>1, IInvHolds, PTL

Message(r, n, k) == [run |-> r, node |-> n, idx |-> k, total |-> script.batches[n],
                     tokens |-> Interval(n, k)]

LEMMA MessagesAre ==
  ASSUME NEW r, NEW nodes, NEW m
  PROVE  m \in Messages(r, nodes) <=>
           \E n \in nodes : \E k \in 0..(script.batches[n] - 1) : m = Message(r, n, k)
BY DEF Messages, Message

\* A run that StartRun returned has the messages of its affected nodes; those of a node
\* share out the ring or the files.
THEOREM StartedAsAskedHolds == Spec => []StartedAsAsked
<1>1. IInv => StartedAsAsked
  <2> SUFFICES ASSUME IInv, NEW o \in Operators, op[o].pc = "done"
               PROVE  LET r == op[o].run
                      IN /\ properties[r].start = op[o].start
                         /\ {m.node : m \in {m \in DOMAIN batches : m.run = r}}
                              = properties[r].affected
                         /\ \A n \in properties[r].affected :
                              \A t \in IF script.reads[n] = {} THEN 0..(script.batches[n] - 1)
                                       ELSE MinToken..MaxToken :
                                Cardinality({m \in Of(r, n) :
                                               m.tokens[1] <= t /\ t <= m.tokens[2]}) = 1
    BY DEF StartedAsAsked
  <2> DEFINE r == op[o].run
             nodes == Nodes(o)
  <2>1. /\ properties[r].start = op[o].start
        /\ properties[r].affected = nodes
    <3>1. op[o].pc \in HasRun \ {"properties"}
      BY DEF HasRun
    <3>2. properties[r] = [start |-> op[o].start, affected |-> nodes]
      BY <3>1 DEF IInv, PropertiesWritten
    <3>3. QED
      BY <3>2
  <2>2. OfRun(r) = Messages(r, nodes)
    BY DEF IInv, MessagesSent
  <2>3. script \in Scripts /\ op[o].start \in script.starts
    BY DEF IInv, CallsTyped
  <2>4. nodes \subseteq script.nodes
    <3>1. op[o].start \in SUBSET script.nodes
      BY <2>3, ScriptsAssumption DEF ScriptsAssumption
    <3>2. nodes = Affected(script, op[o].start)
      BY <2>3 DEF Nodes, AffectedNodes
    <3>3. QED
      BY <3>1, <3>2, AffectedHasChildren
  <2> HIDE DEF r, nodes
  <2>5. {m.node : m \in OfRun(r)} = nodes
    <3>1. ASSUME NEW m \in OfRun(r)
          PROVE  m.node \in nodes
      <4>1. PICK n \in nodes : \E k \in 0..(script.batches[n] - 1) : m = Message(r, n, k)
        BY <2>2, <3>1, MessagesAre
      <4>2. QED
        BY <4>1 DEF Message
    <3>2. ASSUME NEW n \in nodes
          PROVE  \E m \in OfRun(r) : m.node = n
      <4>1. 0 \in 0..(script.batches[n] - 1)
        BY <2>3, <2>4, BatchesArePositive
      <4>2. Message(r, n, 0) \in OfRun(r)
        BY <2>2, <4>1, MessagesAre
      <4>3. Message(r, n, 0).node = n
        BY DEF Message
      <4>4. QED
        BY <4>2, <4>3
    <3>3. QED
      BY <3>1, <3>2
  <2>6. ASSUME NEW n \in nodes,
               NEW t \in IF script.reads[n] = {} THEN 0..(script.batches[n] - 1)
                         ELSE MinToken..MaxToken
        PROVE  Cardinality({m \in Of(r, n) : m.tokens[1] <= t /\ t <= m.tokens[2]}) = 1
    <3>1. PICK k \in 0..(script.batches[n] - 1) :
            \A j \in 0..(script.batches[n] - 1) : Holds(n, j, t) <=> j = k
      BY <2>3, <2>4, <2>6, TokenIsInOneInterval
    <3>2. \A m : m \in Of(r, n) <=>
                   \E j \in 0..(script.batches[n] - 1) : m = Message(r, n, j)
      <4>1. \A m : m \in Of(r, n) <=> m \in Messages(r, nodes) /\ m.node = n
        BY <2>2 DEF Of, OfRun
      <4>2. \A d, j : Message(r, d, j).node = d
        BY DEF Message
      <4>3. QED
        BY <2>6, <4>1, <4>2, MessagesAre
    <3>3. \A j : Message(r, n, j).tokens = Interval(n, j)
      BY DEF Message
    <3>4. {m \in Of(r, n) : m.tokens[1] <= t /\ t <= m.tokens[2]} = {Message(r, n, k)}
      BY <3>1, <3>2, <3>3 DEF Holds
    <3>5. QED
      BY <3>4, FS_Singleton
  <2>7. QED
    BY <2>1, <2>5, <2>6 DEF r, OfRun
<1>2. QED
  BY <1>1, IInvHolds, PTL

-------------------------------------------------------------------------------
\* Numbers.

\* Of numbers one is the least.
LEMMA LeastNumber ==
  ASSUME NEW S \in SUBSET Nat, S # {}
  PROVE  \E n \in S : \A m \in S : n <= m
<1> DEFINE Less == OpToRel(<, Nat)
<1>1. \A n \in Nat, m \in Nat : m < n => <<m, n>> \in Less
  BY DEF OpToRel
<1>2. IsWellFoundedOn(Less, Nat)
  BY NatLessThanWellFounded
<1> HIDE DEF Less
<1>3. PICK n \in S : \A m \in S : ~ (<<m, n>> \in Less)
  BY <1>2, WFMin
<1>4. \A m \in S : ~(m < n) /\ m \in Nat /\ n \in Nat
  BY <1>1, <1>3
<1>5. QED
  BY <1>4

\* Of numbers that do not exceed a bound one is the greatest.
LEMMA GreatestBounded ==
  ASSUME NEW bound \in Nat, NEW S \in SUBSET (1..bound), S # {}
  PROVE  \E n \in S : \A m \in S : m <= n
<1> DEFINE T == {bound - m : m \in S}
<1>0. \A m \in S : m \in Nat /\ m <= bound
  OBVIOUS
<1>1. T \in SUBSET Nat /\ T # {}
  <2>1. \A m \in S : bound - m \in Nat
    BY <1>0
  <2>2. QED
    BY <2>1
<1>2. PICK t \in T : \A u \in T : t <= u
  <2> HIDE DEF T
  <2>1. QED
    BY <1>1, LeastNumber
<1>3. PICK n \in S : t = bound - n
  OBVIOUS
<1>4. ASSUME NEW m \in S
      PROVE  m <= n
  <2>1. bound - n <= bound - m
    BY <1>2, <1>3
  <2>2. QED
    BY <1>0, <2>1
<1>5. QED
  BY <1>4

-------------------------------------------------------------------------------
\* What the batches of a run say of its nodes.

Statuses == {"queued", "refused", Start} \cup Final
Written(r) == {history[r][k] : k \in DOMAIN history[r]}
\* The messages of a node that ended in one of the statuses.
Having(r, n, K) == {m \in Of(r, n) : batches[m].status \in K}

\* The history of every run holds statuses, and the runs are those that it has room for.
HistoryTyped ==
  /\ history \in [Runs -> Seq({Start, StopReceived, Complete})]
  /\ lastRun <= MaxInt16
  /\ \A o \in Operators : op[o].pc = "increment" => op[o].read < MaxInt16

\* A message is one of those that StartRun makes for a run whose properties it wrote.
MessagesKnown ==
  \A m \in DOMAIN batches :
    /\ m.run \in DOMAIN properties /\ m.node \in properties[m.run].affected
    /\ m.node \in script.nodes
    /\ \E k \in 0..(script.batches[m.node] - 1) : m = Message(m.run, m.node, k)
    /\ batches[m].status \in Statuses
    /\ batches[m].status \in {"queued", "refused"} => batches[m].from = <<>>

\* No message is sent before its run is marked started.
CallsStarted == \A o \in Operators : op[o].pc \in {"send", "done"} => Started(op[o].run)
BatchesStarted == \A m \in DOMAIN batches : Started(m.run)

\* A batch that was stopped is of a run that was stopped.
StopsWritten ==
  \A m \in DOMAIN batches :
    batches[m].status = StopReceived => StopReceived \in Written(m.run)

\* When a run is marked complete, all batches of all its nodes have ended.
CompletesTrue ==
  \A r \in Runs : Complete \in Written(r) =>
    /\ r \in DOMAIN properties
    /\ \A n \in properties[r].affected : Cardinality(Having(r, n, Final)) = script.batches[n]

\* ReadsFinishedData, of the whole life of a batch.
ReadsRight(m, d, r) ==
  /\ d \in properties[m.run].affected /\ StopReceived \notin Written(m.run) => r = m.run
  /\ Cardinality(Having(r, d, {Success})) = script.batches[d]
ReadsTrue ==
  \A m \in DOMAIN batches : batches[m].from # <<>> =>
    \A d \in script.reads[m.node] : ReadsRight(m, d, batches[m].from[d])

TablesInv == MessagesKnown /\ BatchesStarted /\ StopsWritten /\ CompletesTrue /\ ReadsTrue
JInv == HistoryTyped /\ CallsStarted /\ TablesInv

\* A node has at most as many messages as it has batches.
LEMMA FewMessages ==
  ASSUME MessagesKnown, script \in Scripts, NEW n \in script.nodes, NEW r
  PROVE  IsFiniteSet(Of(r, n)) /\ Cardinality(Of(r, n)) <= script.batches[n]
<1> DEFINE all == 0..(script.batches[n] - 1)
           F == [k \in all |-> Message(r, n, k)]
           images == {F[k] : k \in all}
<1>1. script.batches[n] \in Nat /\ script.batches[n] > 0
  BY BatchesArePositive
<1>2. IsFiniteSet(all) /\ Cardinality(all) = script.batches[n]
  <2>1. 0 \in Int /\ script.batches[n] - 1 \in Int /\ ~(0 > script.batches[n] - 1)
    BY <1>1
  <2>2. IsFiniteSet(all) /\ Cardinality(all) = (script.batches[n] - 1) - 0 + 1
    BY <2>1, FS_Interval
  <2>3. QED
    BY <1>1, <2>2
<1>3. IsFiniteSet(images) /\ Cardinality(images) <= Cardinality(all)
  <2> HIDE DEF all
  <2>1. F \in Surjection(all, images)
    BY DEF Surjection
  <2> HIDE DEF F, images
  <2>2. QED
    BY <1>2, <2>1, FS_Surjection
<1>4. Of(r, n) \in SUBSET images
  <2>1. \A m \in Of(r, n) : m.run = r /\ m.node = n
                            /\ \E k \in 0..(script.batches[m.node] - 1) :
                                  m = Message(m.run, m.node, k)
    BY DEF MessagesKnown, Of
  <2>2. QED
    BY <2>1
<1> HIDE DEF images, all
<1>5. IsFiniteSet(Of(r, n)) /\ Cardinality(Of(r, n)) <= Cardinality(images)
  BY <1>3, <1>4, FS_Subset
<1>6. Cardinality(Of(r, n)) \in Nat /\ Cardinality(images) \in Nat
  BY <1>3, <1>5, FS_CardinalityType
<1>7. QED
  BY <1>1, <1>2, <1>3, <1>5, <1>6

\* Nor have more of them ended in some way; if all did, they are all there is of the node.
LEMMA FewHaving ==
  ASSUME MessagesKnown, script \in Scripts, NEW n \in script.nodes, NEW r, NEW K
  PROVE  /\ IsFiniteSet(Having(r, n, K)) /\ Cardinality(Having(r, n, K)) \in Nat
         /\ Cardinality(Having(r, n, K)) <= script.batches[n]
         /\ Cardinality(Having(r, n, K)) = script.batches[n] => Having(r, n, K) = Of(r, n)
<1>1. IsFiniteSet(Of(r, n)) /\ Cardinality(Of(r, n)) <= script.batches[n]
      /\ script.batches[n] \in Nat
  BY FewMessages, BatchesArePositive
<1>2. Having(r, n, K) \in SUBSET Of(r, n)
  BY DEF Having
<1>3. /\ IsFiniteSet(Having(r, n, K)) /\ Cardinality(Having(r, n, K)) <= Cardinality(Of(r, n))
      /\ Cardinality(Of(r, n)) = Cardinality(Having(r, n, K)) => Of(r, n) = Having(r, n, K)
  BY <1>1, <1>2, FS_Subset
<1>4. Cardinality(Having(r, n, K)) \in Nat /\ Cardinality(Of(r, n)) \in Nat
  BY <1>1, <1>3, FS_CardinalityType
<1>5. QED
  BY <1>1, <1>3, <1>4

\* When all batches of a node have one of the statuses and never lose it, they keep it:
\* no message of the node is still to come.
LEMMA AllHavingStay ==
  ASSUME MessagesKnown, MessagesKnown', script \in Scripts, script' = script,
         NEW n \in script.nodes, NEW r, NEW K,
         Cardinality(Having(r, n, K)) = script.batches[n],
         \A m \in DOMAIN batches :
           m \in DOMAIN batches' /\ (batches[m].status \in K => batches'[m].status \in K)
  PROVE  Cardinality(Having(r, n, K)') = script.batches[n]
<1> DEFINE new == {m \in Of(r, n)' : batches'[m].status \in K}
<1>1. new = Having(r, n, K)'
  BY DEF Having
<1>2. Having(r, n, K) \in SUBSET new
  BY DEF Having, Of
<1>3. script'.batches[n] = script.batches[n] /\ n \in script'.nodes /\ script' \in Scripts
  OBVIOUS
<1>4. /\ IsFiniteSet(Having(r, n, K)') /\ Cardinality(Having(r, n, K)') \in Nat
      /\ Cardinality(Having(r, n, K)') <= script'.batches[n]
  <2>1. (MessagesKnown /\ script \in Scripts /\ n \in script.nodes =>
           /\ IsFiniteSet(Having(r, n, K)) /\ Cardinality(Having(r, n, K)) \in Nat
           /\ Cardinality(Having(r, n, K)) <= script.batches[n])'
    BY FewHaving, PTL
  <2>2. QED
    BY <1>3, <2>1
<1> HIDE DEF new
<1>5. Cardinality(Having(r, n, K)) <= Cardinality(new)
  BY <1>1, <1>2, <1>4, FS_Subset
<1>6. script.batches[n] \in Nat
  BY BatchesArePositive
<1>7. QED
  BY <1>1, <1>3, <1>4, <1>5, <1>6

\* What a node's status says of its batches.
LEMMA StatusOfNode ==
  ASSUME MessagesKnown, script \in Scripts, NEW n \in script.nodes, NEW r
  PROVE  /\ NodeStatus(r, n) \in {None, Start} \cup Final
         /\ NodeStatus(r, n) \in Final =>
              Cardinality(Having(r, n, Final)) = script.batches[n]
         /\ NodeStatus(r, n) = Success =>
              Cardinality(Having(r, n, {Success})) = script.batches[n]
         /\ NodeStatus(r, n) = StopReceived =>
              \E m \in Of(r, n) : batches[m].status = StopReceived
<1> DEFINE ended == {m \in Of(r, n) : batches[m].status \in Final}
           statuses == StatusOf(Of(r, n))
           A == statuses \subseteq {"queued", "refused"}
           B == statuses \cap (Final \cup {Start}) # {} /\ Cardinality(ended) < script.batches[n]
           C == Cardinality(ended) = script.batches[n]
<1>1. /\ Cardinality(ended) \in Nat /\ Cardinality(ended) <= script.batches[n]
      /\ C => ended = Of(r, n)
  <2>1. ended = Having(r, n, Final)
    BY DEF Having
  <2>2. /\ Cardinality(Having(r, n, Final)) \in Nat
        /\ Cardinality(Having(r, n, Final)) <= script.batches[n]
        /\ Cardinality(Having(r, n, Final)) = script.batches[n]
             => Having(r, n, Final) = Of(r, n)
    BY FewHaving
  <2> HIDE DEF ended
  <2>3. QED
    BY <2>1, <2>2
<1>2. script.batches[n] \in Nat /\ script.batches[n] > 0
  BY BatchesArePositive
<1>3. \A m \in Of(r, n) : batches[m].status \in Statuses
  BY DEF MessagesKnown, Of
<1>4. ended = Having(r, n, Final)
  BY DEF Having
<1>5. A => ended = {}
  BY DEF StatusOf, Final, Success, Fail, StopReceived
<1>6. A => ~B /\ ~C
  <2>1. ended = {} => Cardinality(ended) = 0
    BY FS_EmptySet
  <2>2. A => statuses \cap (Final \cup {Start}) = {}
    BY DEF Final, Success, Fail, StopReceived, Start
  <2> HIDE DEF A, ended, statuses
  <2>3. QED
    BY <1>2, <1>5, <2>1, <2>2
<1>7. A \/ B \/ C
  <2>1. ~A => statuses \cap (Final \cup {Start}) # {}
    BY <1>3 DEF StatusOf, Statuses
  <2> HIDE DEF A, ended, statuses
  <2>2. QED
    BY <1>1, <1>2, <2>1
<1>8. B => ~C
  <2> HIDE DEF ended, statuses
  <2>1. QED
    BY <1>1, <1>2
<1>9. NodeStatus(r, n) = CASE A -> None [] B -> Start
                         [] C -> IF Fail \in statuses THEN Fail
                                 ELSE IF StopReceived \in statuses THEN StopReceived
                                 ELSE Success
  BY DEF NodeStatus
<1>10. /\ A => NodeStatus(r, n) = None
       /\ B => NodeStatus(r, n) = Start
       /\ C => NodeStatus(r, n) = IF Fail \in statuses THEN Fail
                                  ELSE IF StopReceived \in statuses THEN StopReceived
                                  ELSE Success
  <2> HIDE DEF A, B, C, statuses, ended
  <2>1. QED
    BY <1>6, <1>7, <1>8, <1>9
<1>11. C /\ Fail \notin statuses /\ StopReceived \notin statuses =>
         Having(r, n, {Success}) = ended
  <2>1. C => \A m \in Of(r, n) : batches[m].status \in Final
    BY <1>1
  <2>2. (\A m \in Of(r, n) : batches[m].status \in Final) /\ Fail \notin statuses
          /\ StopReceived \notin statuses =>
          \A m \in Of(r, n) : batches[m].status = Success
    BY DEF StatusOf, Final
  <2>3. (\A m \in Of(r, n) : batches[m].status = Success) =>
          Having(r, n, {Success}) = ended
    BY DEF Having, Final
  <2> HIDE DEF ended, C, statuses
  <2>4. QED
    BY <2>1, <2>2, <2>3
<1>12. StopReceived \in statuses => \E m \in Of(r, n) : batches[m].status = StopReceived
  BY DEF StatusOf
<1> HIDE DEF A, B, statuses, ended
<1>13. QED
  BY <1>4, <1>7, <1>10, <1>11, <1>12 DEF Final, Success, Fail, StopReceived, None, Start

-------------------------------------------------------------------------------
\* The dependency policy.

\* The policy's rules: what says "go" asks for a node that succeeded, and a run that goes
\* on decides about its own nodes whatever became of them.
LEMMA RulesSay ==
  /\ DOMAIN Rules \subseteq Nat
  /\ \A k \in DOMAIN Rules : Rules[k].cmd = "go" => Rules[k].node = {Success}
  /\ \A s \in {None, Start, Success, Fail} :
       \E k \in DOMAIN Rules : Rules[k].current = TRUE /\ Start \in Rules[k].run
                               /\ s \in Rules[k].node
<1>1. DOMAIN Rules = 1..10
  BY DEF Rules
<1>2. /\ Rules[1] = Rule("go", TRUE, {Start}, {Success})
      /\ Rules[2] = Rule("wait", TRUE, {Start, None}, {None})
      /\ Rules[3] = Rule("wait", TRUE, {Start, None}, {Start})
      /\ Rules[4] = Rule("nogo", TRUE, {Start}, {Fail})
      /\ Rules[5] = Rule("go", FALSE, {Start}, {Success})
      /\ Rules[6] = Rule("wait", FALSE, {Start, None}, {None})
      /\ Rules[7] = Rule("wait", FALSE, {Start, None}, {Start})
      /\ Rules[8] = Rule("go", FALSE, {Complete}, {Success})
      /\ Rules[9] = Rule("nogo", FALSE, {Complete}, {Fail})
      /\ Rules[10] = Rule("nogo", FALSE, {StopReceived}, {None, Start} \cup Final)
  BY DEF Rules
<1>3. \A k \in DOMAIN Rules : k \in {1, 2, 3, 4, 5, 6, 7, 8, 9, 10}
  BY <1>1
<1>4. \A k \in DOMAIN Rules : Rules[k].cmd = "go" => Rules[k].node = {Success}
  BY <1>2, <1>3 DEF Rule
<1>5. ASSUME NEW s \in {None, Start, Success, Fail}
      PROVE  \E k \in DOMAIN Rules : Rules[k].current = TRUE /\ Start \in Rules[k].run
                                     /\ s \in Rules[k].node
  <2>1. /\ Rules[1].current = TRUE /\ Start \in Rules[1].run /\ Success \in Rules[1].node
        /\ Rules[2].current = TRUE /\ Start \in Rules[2].run /\ None \in Rules[2].node
        /\ Rules[3].current = TRUE /\ Start \in Rules[3].run /\ Start \in Rules[3].node
        /\ Rules[4].current = TRUE /\ Start \in Rules[4].run /\ Fail \in Rules[4].node
    BY <1>2 DEF Rule
  <2>2. 1 \in DOMAIN Rules /\ 2 \in DOMAIN Rules /\ 3 \in DOMAIN Rules /\ 4 \in DOMAIN Rules
    BY <1>1
  <2>3. QED
    BY <2>1, <2>2
<1>6. DOMAIN Rules \subseteq Nat
  BY <1>1
<1>7. QED
  BY <1>4, <1>5, <1>6, Zenon

\* A verdict of "go" names a run whose batches of the node all succeeded: the current one,
\* if that makes the node, goes on, and the node was not stopped.
LEMMA GoMeansSuccess ==
  ASSUME IInv, MessagesKnown, NEW d \in script.nodes, NEW current,
         Verdict(d, current).cmd = "go"
  PROVE  LET r == Verdict(d, current).run
         IN /\ Cardinality(Having(r, d, {Success})) = script.batches[d]
            /\ current \in Candidates(d) /\ RunStatus(current) = Start
                 /\ NodeStatus(current, d) # StopReceived => r = current
<1> DEFINE matched == {r \in Candidates(d) :
                         \E k \in DOMAIN Rules : Matches(Rules[k], r, d, current)}
           IsFirst(f) == f \in matched /\ \A q \in matched \ {f} : Before(f, q, current)
           first(R) == CHOOSE r \in R : \A q \in R \ {r} : Before(r, q, current)
           rule(r) == CHOOSE k \in DOMAIN Rules :
                        /\ Matches(Rules[k], r, d, current)
                        /\ \A j \in 1..(k - 1) : ~Matches(Rules[j], r, d, current)
           f == first(matched)
<1>1. Verdict(d, current) =
        IF matched = {} THEN [cmd |-> "wait", run |-> first(Candidates(d))]
        ELSE [cmd |-> Rules[rule(f)].cmd, run |-> f]
  BY DEF Verdict
<1>2. /\ matched # {} /\ Rules[rule(f)].cmd = "go"
      /\ Verdict(d, current).run = f
  <2> HIDE DEF matched, first, rule, f
  <2>1. QED
    BY <1>1
<1>3. lastRun \in Nat /\ matched \in SUBSET (1..lastRun)
  BY DEF IInv, CallsTyped, PropertiesWritten, Candidates
<1>4. IsFirst(f)
  <2>1. \E r \in matched : \A q \in matched \ {r} : Before(r, q, current)
    <3>1. CASE current \in matched
      BY <3>1 DEF Before
    <3>2. CASE current \notin matched
      <4>1. PICK r \in matched : \A q \in matched : q <= r
        <5> HIDE DEF matched
        <5>1. QED
          BY <1>2, <1>3, GreatestBounded
      <4>2. \A q \in matched \ {r} : r > q /\ q # current
        <5>1. \A q \in matched : q \in Nat
          BY <1>3
        <5> HIDE DEF matched
        <5>2. QED
          BY <3>2, <4>1, <5>1
      <4> HIDE DEF matched
      <4>3. QED
        BY <4>2 DEF Before
    <3>3. QED
      BY <3>1, <3>2
  <2> HIDE DEF matched
  <2>2. QED
    BY <2>1
<1>5. rule(f) \in DOMAIN Rules /\ Matches(Rules[rule(f)], f, d, current)
  <2> DEFINE K == {k \in DOMAIN Rules : Matches(Rules[k], f, d, current)}
  <2>1. K # {} /\ K \in SUBSET Nat
    <3>1. f \in matched
      BY <1>4
    <3> HIDE DEF f
    <3>2. \E k \in DOMAIN Rules : Matches(Rules[k], f, d, current)
      BY <3>1
    <3>3. QED
      BY <3>2, RulesSay
  <2>2. PICK k \in K : \A j \in K : k <= j
    <3> HIDE DEF K
    <3>1. QED
      BY <2>1, LeastNumber
  <2>3. \A j \in 1..(k - 1) : ~Matches(Rules[j], f, d, current)
    <3>1. DOMAIN Rules = 1..10
      BY DEF Rules
    <3>2. k \in 1..10 /\ \A j \in 1..(k - 1) : j \in 1..10 /\ ~(k <= j)
      BY <3>1
    <3> HIDE DEF f
    <3>3. QED
      BY <2>2, <3>1, <3>2
  <2> HIDE DEF f
  <2>4. \E n \in DOMAIN Rules : /\ Matches(Rules[n], f, d, current)
                                /\ \A j \in 1..(n - 1) : ~Matches(Rules[j], f, d, current)
    BY <2>2, <2>3
  <2>5. QED
    BY <2>4
<1> HIDE DEF f, rule
<1>6. NodeStatus(f, d) = Success
  <2>1. NodeStatus(f, d) \in Rules[rule(f)].node
    BY <1>5 DEF Matches
  <2>2. Rules[rule(f)].node = {Success}
    BY <1>2, <1>5, RulesSay
  <2>3. QED
    BY <2>1, <2>2
<1>7. script \in Scripts
  BY DEF IInv, CallsTyped
<1>8. Cardinality(Having(f, d, {Success})) = script.batches[d]
  BY <1>6, <1>7, StatusOfNode
<1>9. ASSUME current \in Candidates(d), RunStatus(current) = Start,
             NodeStatus(current, d) # StopReceived
      PROVE  f = current
  <2>1. NodeStatus(current, d) \in {None, Start, Success, Fail}
    <3>1. NodeStatus(current, d) \in {None, Start} \cup Final
      BY <1>7, StatusOfNode
    <3>2. QED
      BY <1>9, <3>1 DEF Final
  <2>2. current \in matched
    <3>1. PICK k \in DOMAIN Rules : Rules[k].current = TRUE /\ Start \in Rules[k].run
                                    /\ NodeStatus(current, d) \in Rules[k].node
      BY <2>1, RulesSay
    <3>2. Matches(Rules[k], current, d, current)
      BY <1>9, <3>1 DEF Matches
    <3>3. QED
      BY <1>9, <3>2
  <2>3. QED
    BY <1>4, <2>2 DEF Before
<1>10. QED
  BY <1>2, <1>8, <1>9

-------------------------------------------------------------------------------
\* What a node reads is a node of the script.
LEMMA ReadsAreNodes ==
  ASSUME script \in Scripts, NEW n \in script.nodes, NEW d \in script.reads[n]
  PROVE  d \in script.nodes
<1>1. script.reads \in [script.nodes -> SUBSET script.nodes]
  BY ScriptsAssumption DEF ScriptsAssumption
<1>2. QED
  BY <1>1

\* What a step may change.

\* A row more says one thing more, about its run.
LEMMA WrittenGrows ==
  ASSUME HistoryTyped, NEW r \in Runs, NEW s \in {Start, StopReceived, Complete},
         history' = WithStatus(r, s)
  PROVE  /\ history' \in [Runs -> Seq({Start, StopReceived, Complete})]
         /\ \A q \in Runs : Written(q)' = IF q = r THEN Written(r) \cup {s} ELSE Written(q)
<1> DEFINE S == {Start, StopReceived, Complete}
<1> HIDE DEF S
<1>1. history \in [Runs -> Seq(S)] /\ s \in S
  BY DEF HistoryTyped, S
<1>2. Append(history[r], s) \in Seq(S)
  BY <1>1
<1>3. history' \in [Runs -> Seq(S)]
  BY <1>1, <1>2 DEF WithStatus
<1>4. history'[r] = Append(history[r], s) /\ \A q \in Runs : q # r => history'[q] = history[q]
  BY <1>1 DEF WithStatus
<1>5. {history'[r][k] : k \in DOMAIN history'[r]} = Written(r) \cup {s}
  <2> DEFINE h == history[r]
  <2>1. h \in Seq(S)
    BY <1>1
  <2>2. Written(r) = {h[k] : k \in DOMAIN h}
    BY DEF Written
  <2> HIDE DEF h
  <2>3. DOMAIN h = 1..Len(h) /\ Len(h) \in Nat
    BY <2>1
  <2>4. /\ DOMAIN Append(h, s) = 1..(Len(h) + 1)
        /\ \A k \in 1..Len(h) : Append(h, s)[k] = h[k]
        /\ Append(h, s)[Len(h) + 1] = s
    BY <2>1
  <2>5. 1..(Len(h) + 1) = (1..Len(h)) \cup {Len(h) + 1}
    BY <2>3
  <2>6. {Append(h, s)[k] : k \in 1..(Len(h) + 1)} = {h[k] : k \in 1..Len(h)} \cup {s}
    <3>1. \A k \in 1..(Len(h) + 1) : k \in 1..Len(h) \/ k = Len(h) + 1
      BY <2>5
    <3>2. \A k \in 1..Len(h) : k \in 1..(Len(h) + 1)
      BY <2>5
    <3>3. Len(h) + 1 \in 1..(Len(h) + 1)
      BY <2>5
    <3>4. QED
      BY <2>4, <3>1, <3>2, <3>3
  <2>7. QED
    BY <1>4, <2>2, <2>3, <2>4, <2>6 DEF h
<1>6. \A q \in Runs : q # r => Written(q)' = Written(q)
  BY <1>4 DEF Written
<1>7. QED
  BY <1>3, <1>5, <1>6 DEF S, Written

\* What is written of a run decides its status.
LEMMA StatusOfRun ==
  ASSUME NEW r
  PROVE  /\ StopReceived \in Written(r) => RunStatus(r) = StopReceived
         /\ Start \in Written(r) /\ Written(r) \subseteq {Start} => RunStatus(r) = Start
<1> DEFINE W == Written(r)
           A == StopReceived \in W
           B == StopReceived \notin W /\ Complete \in W
           C == W = {Start}
           D == W = {}
<1>1. RunStatus(r) = CASE A -> StopReceived [] B -> Complete [] C -> Start [] D -> None
  BY DEF RunStatus, Written
<1>2. A => ~B /\ ~C /\ ~D
  BY DEF Start, StopReceived
<1>3. C => ~A /\ ~B /\ ~D
  BY DEF Start, StopReceived, Complete
<1>4. Start \in W /\ W \subseteq {Start} => C
  OBVIOUS
<1> HIDE DEF A, B, C, D
<1>5. (A => RunStatus(r) = StopReceived) /\ (C => RunStatus(r) = Start)
  BY <1>1, <1>2, <1>3
<1>6. QED
  BY <1>4, <1>5 DEF A

\* A message's run is one that the history has room for.
LEMMA RunsOfMessages ==
  ASSUME IInv, HistoryTyped
  PROVE  /\ DOMAIN properties \subseteq Runs
         /\ MessagesKnown => \A m \in DOMAIN batches : m.run \in Runs
<1>1. lastRun \in Nat /\ lastRun <= MaxInt16 /\ MaxInt16 \in Nat
  BY TokensAssumption DEF TokensAssumption, IInv, CallsTyped, HistoryTyped
<1>2. \A r \in DOMAIN properties : r \in 1..lastRun
  BY DEF IInv, PropertiesWritten
<1>3. DOMAIN properties \subseteq Runs
  BY <1>1, <1>2 DEF Runs
<1>4. QED
  BY <1>3 DEF MessagesKnown

\* A run is of nodes of the script.
LEMMA AffectedAreNodes ==
  ASSUME IInv
  PROVE  \A r \in DOMAIN properties : properties[r].affected \subseteq script.nodes
<1>1. script \in Scripts
  BY DEF IInv, CallsTyped
<1>2. ASSUME NEW r \in DOMAIN properties
      PROVE  properties[r].affected \subseteq script.nodes
  <2>1. PICK start \in script.starts :
          properties[r] = [start |-> start, affected |-> AffectedNodes[script][start]]
    BY DEF IInv, PropertiesWritten
  <2>2. start \in SUBSET script.nodes
    BY <1>1, ScriptsAssumption DEF ScriptsAssumption
  <2>3. properties[r].affected = Affected(script, start)
    BY <1>1, <2>1 DEF AffectedNodes
  <2>4. QED
    BY <2>2, <2>3, AffectedHasChildren
<1>3. QED
  BY <1>2

\* The properties of one more run.
LEMMA PropertiesGrow ==
  ASSUME TablesInv, UNCHANGED <<script, history, batches>>,
         \A r \in DOMAIN properties : r \in DOMAIN properties' /\ properties'[r] = properties[r]
  PROVE  TablesInv'
<1>1. MessagesKnown'
  <2>1. \A r, n, k : Message(r, n, k)' = Message(r, n, k)
    BY DEF Message, Interval
  <2>2. QED
    BY <2>1 DEF TablesInv, MessagesKnown
<1>2. BatchesStarted' /\ StopsWritten'
  BY DEF TablesInv, BatchesStarted, StopsWritten, Started, Written
<1>3. CompletesTrue'
  BY DEF TablesInv, CompletesTrue, Having, Of, Written
<1>4. ReadsTrue'
  <2>1. \A m \in DOMAIN batches : \A d, q : ReadsRight(m, d, q) => ReadsRight(m, d, q)'
    BY DEF TablesInv, MessagesKnown, ReadsRight, Having, Of, Written
  <2>2. QED
    BY <2>1 DEF TablesInv, ReadsTrue
<1>5. QED
  BY <1>1, <1>2, <1>3, <1>4 DEF TablesInv

\* One more row of a run; that it is complete is only written when it is.
LEMMA HistoryGrows ==
  ASSUME IInv, HistoryTyped, TablesInv, UNCHANGED <<script, properties, batches>>,
         NEW r \in Runs, NEW s \in {Start, StopReceived, Complete},
         history' = WithStatus(r, s),
         s = Complete =>
           /\ r \in DOMAIN properties
           /\ \A n \in properties[r].affected :
                Cardinality(Having(r, n, Final)) = script.batches[n]
  PROVE  TablesInv'
<1>0. \A q \in Runs : Written(q)' = IF q = r THEN Written(r) \cup {s} ELSE Written(q)
  BY WrittenGrows
<1>1. MessagesKnown /\ \A m \in DOMAIN batches : m.run \in Runs
  BY RunsOfMessages DEF TablesInv
<1>2. MessagesKnown'
  <2>1. \A q, n, k : Message(q, n, k)' = Message(q, n, k)
    BY DEF Message, Interval
  <2>2. QED
    BY <1>1, <2>1 DEF MessagesKnown
<1>3. \A q, n, K : Having(q, n, K)' = Having(q, n, K)
  BY DEF Having, Of
<1>4. \A q : Started(q) <=> Start \in Written(q)
  BY DEF Started, Written
<1>5. \A q : Started(q)' <=> Start \in Written(q)'
  BY DEF Started, Written
<1>6. BatchesStarted' /\ StopsWritten'
  BY <1>0, <1>1, <1>4, <1>5 DEF TablesInv, BatchesStarted, StopsWritten
<1>7. CompletesTrue'
  BY <1>0, <1>3, Zenon DEF TablesInv, CompletesTrue
<1>8. ReadsTrue'
  <2>1. \A m \in DOMAIN batches : \A d, q : ReadsRight(m, d, q) => ReadsRight(m, d, q)'
    BY <1>0, <1>1, <1>3 DEF ReadsRight
  <2>2. QED
    BY <2>1 DEF TablesInv, ReadsTrue
<1>9. QED
  BY <1>2, <1>6, <1>7, <1>8 DEF TablesInv

\* What is true of nodes whose batches are all in stays true when batches come or go on.
LEMMA BatchesGrow ==
  ASSUME script \in Scripts, TablesInv, MessagesKnown', UNCHANGED <<script, properties, history>>,
         \A r \in DOMAIN properties : properties[r].affected \subseteq script.nodes,
         \A m \in DOMAIN batches :
           /\ m \in DOMAIN batches'
           /\ batches[m].status \in Final => batches'[m].status = batches[m].status
  PROVE  /\ CompletesTrue'
         /\ \A d \in script.nodes : \A r :
              Cardinality(Having(r, d, {Success})) = script.batches[d] =>
                Cardinality(Having(r, d, {Success})') = script.batches[d]
<1>1. ASSUME NEW d \in script.nodes, NEW r, NEW K \in SUBSET Final,
             Cardinality(Having(r, d, K)) = script.batches[d]
      PROVE  Cardinality(Having(r, d, K)') = script.batches[d]
  <2>1. \A m \in DOMAIN batches :
           m \in DOMAIN batches' /\ (batches[m].status \in K => batches'[m].status \in K)
    OBVIOUS
  <2>2. MessagesKnown
    BY DEF TablesInv
  <2>3. QED
    BY <1>1, <2>1, <2>2, AllHavingStay
<1>2. Final \in SUBSET Final /\ {Success} \in SUBSET Final
  BY DEF Final
<1>3. CompletesTrue'
  <2>1. SUFFICES ASSUME NEW r \in Runs, Complete \in Written(r)'
                 PROVE  /\ r \in DOMAIN properties
                        /\ \A n \in properties[r].affected :
                             Cardinality(Having(r, n, Final)') = script.batches[n]
    BY DEF CompletesTrue
  <2>2. Complete \in Written(r)
    BY <2>1 DEF Written
  <2>3. /\ r \in DOMAIN properties
        /\ \A n \in properties[r].affected :
             Cardinality(Having(r, n, Final)) = script.batches[n]
    BY <2>2 DEF TablesInv, CompletesTrue
  <2>4. QED
    BY <1>1, <1>2, <2>3
<1>4. QED
  BY <1>1, <1>2, <1>3

\* What a batch reads stays right if its table stays finished.
LEMMA ReadsStayRight ==
  ASSUME UNCHANGED <<script, properties, history>>, NEW m, NEW d,
         NEW r, r = batches'[m].from[d], ReadsRight(m, d, r),
         Cardinality(Having(r, d, {Success})) = script.batches[d] =>
           Cardinality(Having(r, d, {Success})') = script.batches[d]
  PROVE  ReadsRight(m, d, batches[m].from[d])'
BY DEF ReadsRight, Written

\* New messages of a run that is marked started.
LEMMA BatchesAreSent ==
  ASSUME script \in Scripts, TablesInv, UNCHANGED <<script, properties, history>>,
         \A r \in DOMAIN properties : properties[r].affected \subseteq script.nodes,
         NEW M, M \cap DOMAIN batches = {}, batches' = With(M),
         \A m \in M :
           /\ m.run \in DOMAIN properties /\ m.node \in properties[m.run].affected
           /\ \E k \in 0..(script.batches[m.node] - 1) : m = Message(m.run, m.node, k)
           /\ Started(m.run)
  PROVE  TablesInv'
<1>1. /\ DOMAIN batches' = DOMAIN batches \cup M
      /\ \A m \in DOMAIN batches : m \notin M /\ batches'[m] = batches[m]
      /\ \A m \in M : batches'[m] = Queued
  BY DEF With
<1>2. MessagesKnown'
  <2>1. \A q, n, k : Message(q, n, k)' = Message(q, n, k)
    BY DEF Message, Interval
  <2>2. Queued.status = "queued" /\ Queued.from = <<>>
    BY DEF Queued
  <2>3. ASSUME NEW m \in DOMAIN batches'
        PROVE  /\ m.run \in DOMAIN properties /\ m.node \in properties[m.run].affected
               /\ m.node \in script.nodes
               /\ \E k \in 0..(script.batches[m.node] - 1) : m = Message(m.run, m.node, k)
               /\ batches'[m].status \in Statuses
               /\ batches'[m].status \in {"queued", "refused"} => batches'[m].from = <<>>
    <3>1. CASE m \in M
      BY <1>1, <2>2, <3>1 DEF Statuses
    <3>2. CASE m \notin M
      BY <1>1, <2>3, <3>2 DEF TablesInv, MessagesKnown
    <3>3. QED
      BY <3>1, <3>2
  <2>4. QED
    BY <2>1, <2>3 DEF MessagesKnown
<1>3. CompletesTrue' /\ \A d \in script.nodes : \A r :
              Cardinality(Having(r, d, {Success})) = script.batches[d] =>
                Cardinality(Having(r, d, {Success})') = script.batches[d]
  BY <1>1, <1>2, BatchesGrow
<1>4. BatchesStarted' /\ StopsWritten'
  BY <1>1 DEF TablesInv, BatchesStarted, StopsWritten, Started, Written, Queued, StopReceived
<1>5. ReadsTrue'
  <2>1. SUFFICES ASSUME NEW q \in DOMAIN batches', batches'[q].from # <<>>,
                        NEW d \in script.reads[q.node]
                 PROVE  ReadsRight(q, d, batches[q].from[d])'
    BY DEF ReadsTrue
  <2>2. q \in DOMAIN batches /\ batches'[q] = batches[q]
    BY <1>1, <2>1 DEF Queued
  <2>3. d \in script.nodes
    BY <2>2, ReadsAreNodes DEF TablesInv, MessagesKnown
  <2>4. ReadsRight(q, d, batches[q].from[d])
    BY <2>1, <2>2 DEF TablesInv, ReadsTrue
  <2>5. QED
    BY <1>3, <2>2, <2>3, <2>4, ReadsStayRight
<1>6. QED
  BY <1>2, <1>3, <1>4, <1>5 DEF TablesInv

\* A batch goes on, or ends.
LEMMA BatchGoesOn ==
  ASSUME script \in Scripts, TablesInv, UNCHANGED <<script, properties, history>>,
         \A r \in DOMAIN properties : properties[r].affected \subseteq script.nodes,
         NEW m \in DOMAIN batches, NEW s \in Statuses, NEW from, Becomes(m, s, from),
         batches[m].status \notin Final,
         s \in {"queued", "refused"} => from = <<>>,
         s = StopReceived => StopReceived \in Written(m.run),
         from # <<>> => \A d \in script.reads[m.node] : ReadsRight(m, d, from[d])
  PROVE  TablesInv'
<1>1. /\ DOMAIN batches' = DOMAIN batches
      /\ batches'[m] = [status |-> s, from |-> from]
      /\ \A q \in DOMAIN batches : q # m => batches'[q] = batches[q]
  BY DEF Becomes
<1>2. MessagesKnown'
  <2>1. \A q, n, k : Message(q, n, k)' = Message(q, n, k)
    BY DEF Message, Interval
  <2>2. ASSUME NEW q \in DOMAIN batches
        PROVE  /\ batches'[q].status \in Statuses
               /\ batches'[q].status \in {"queued", "refused"} => batches'[q].from = <<>>
    BY <1>1 DEF TablesInv, MessagesKnown
  <2>3. QED
    BY <1>1, <2>1, <2>2 DEF TablesInv, MessagesKnown
<1>3. CompletesTrue' /\ \A d \in script.nodes : \A r :
              Cardinality(Having(r, d, {Success})) = script.batches[d] =>
                Cardinality(Having(r, d, {Success})') = script.batches[d]
  <2>1. \A q \in DOMAIN batches :
          /\ q \in DOMAIN batches'
          /\ batches[q].status \in Final => batches'[q].status = batches[q].status
    BY <1>1
  <2>2. QED
    BY <1>2, <2>1, BatchesGrow
<1>4. BatchesStarted'
  BY <1>1 DEF TablesInv, BatchesStarted, Started
<1>5. StopsWritten'
  BY <1>1 DEF TablesInv, StopsWritten, Written
<1>6. ReadsTrue'
  <2>1. SUFFICES ASSUME NEW q \in DOMAIN batches', batches'[q].from # <<>>,
                        NEW d \in script.reads[q.node]
                 PROVE  ReadsRight(q, d, batches[q].from[d])'
    BY DEF ReadsTrue
  <2>2. q \in DOMAIN batches
    BY <1>1
  <2>3. d \in script.nodes
    BY <2>2, ReadsAreNodes DEF TablesInv, MessagesKnown
  <2>4. ReadsRight(q, d, batches'[q].from[d])
    <3>1. CASE q = m
      BY <1>1, <2>1, <3>1
    <3>2. CASE q # m
      BY <1>1, <2>1, <2>2, <3>2 DEF TablesInv, ReadsTrue
    <3>3. QED
      BY <3>1, <3>2
  <2>5. QED
    BY <1>3, <2>3, <2>4, ReadsStayRight
<1>7. QED
  BY <1>2, <1>3, <1>4, <1>5, <1>6 DEF TablesInv

-------------------------------------------------------------------------------
\* The steps.

\* The calls that hold on to their numbers, and those that may start to.
LEMMA CallsGoOn ==
  ASSUME IInv, HistoryTyped, CallsStarted,
         \A r \in Runs : Started(r) => Started(r)',
         history' \in [Runs -> Seq({Start, StopReceived, Complete})], lastRun' <= MaxInt16,
         \A o \in Operators :
           /\ op'[o].pc \in {"send", "done"} =>
                /\ op'[o].run = op[o].run
                /\ op[o].pc = "send" \/ op'[o] = op[o] \/ Started(op[o].run)'
           /\ op'[o].pc = "increment" => op'[o] = op[o] \/ op'[o].read < MaxInt16
  PROVE  HistoryTyped' /\ CallsStarted'
<1>1. HistoryTyped'
  BY DEF HistoryTyped
<1>2. \A o \in Operators : op[o].pc \in {"send", "done"} => op[o].run \in Runs
  BY RunsOfMessages DEF IInv, PropertiesWritten, HasRun
<1>3. \A o \in Operators : op'[o].pc \in {"send", "done"} => Started(op[o].run)'
  BY <1>2 DEF CallsStarted
<1>4. \A r, q : r = q => (Started(r)' <=> Started(q)')
  OBVIOUS
<1>5. CallsStarted'
  BY <1>3, <1>4 DEF CallsStarted
<1>6. QED
  BY <1>1, <1>5

\* StartRun, whichever of its accesses fail.
LEMMA OperatorKeepsJInv ==
  ASSUME IInv, JInv, NEW o \in Operators,
         CallStartRun(o) \/ OperatorSteps(o) \/ OperatorFails(o)
  PROVE  JInv'
<1>0. /\ lastRun \in Nat /\ lastRun <= MaxInt16 /\ MaxInt16 \in Nat
      /\ HistoryTyped /\ CallsStarted /\ TablesInv /\ MessagesKnown
      /\ script \in Scripts
  BY TokensAssumption DEF TokensAssumption, JInv, IInv, CallsTyped, HistoryTyped, TablesInv
<1>1. PICK Start0, Todo0 :
       op \in [Operators -> [pc : Pcs, start : Start0, run : Nat, read : Nat, tries : Nat,
                             todo : Todo0]]
  BY DEF IInv, CallsTyped
<1>2. \A r \in DOMAIN properties : properties[r].affected \subseteq script.nodes
  BY <1>0, AffectedAreNodes
<1>3. CASE CallStartRun(o) \/ ReadCounter(o) \/ IncrementCounter(o) \/ CreateTables(o)
             \/ IncrementFails(o) \/ CreateTableFails(o)
  <2>1. UNCHANGED <<script, properties, history, batches>>
    BY <1>3 DEF CallStartRun, ReadCounter, IncrementCounter, CreateTables, IncrementFails,
                CreateTableFails
  <2>2. lastRun' <= MaxInt16
    BY <1>0, <1>3 DEF CallStartRun, ReadCounter, IncrementCounter, CreateTables, IncrementFails,
                CreateTableFails, Increments, HistoryTyped
  <2>3. \A q \in Operators :
           /\ op'[q].pc \in {"send", "done"} => op'[q] = op[q]
           /\ op'[q].pc = "increment" => op'[q] = op[q] \/ op'[q].read < MaxInt16
    <3>1. CASE CallStartRun(o)
      BY <1>1, <3>1 DEF CallStartRun
    <3>2. CASE ReadCounter(o)
      BY <1>0, <1>1, <3>2 DEF ReadCounter
    <3>3. CASE IncrementCounter(o)
      BY <1>1, <3>3 DEF IncrementCounter
    <3>4. CASE CreateTables(o)
      BY <1>1, <3>4 DEF CreateTables, Go
    <3>5. CASE IncrementFails(o) \/ CreateTableFails(o)
      BY <1>1, <3>5 DEF IncrementFails, CreateTableFails, Fails, Go
    <3>6. QED
      BY <1>3, <3>1, <3>2, <3>3, <3>4, <3>5
  <2>4. TablesInv'
    BY <1>0, <2>1, PropertiesGrow
  <2>5. \A r \in Runs : Started(r) => Started(r)'
    BY <2>1 DEF Started
  <2>6. HistoryTyped' /\ CallsStarted'
    BY <1>0, <2>1, <2>2, <2>3, <2>5, CallsGoOn DEF HistoryTyped
  <2>7. QED
    BY <2>4, <2>6 DEF JInv
<1>4. CASE WriteRunProperties(o) \/ PropertiesFail(o)
  <2>1. UNCHANGED <<script, lastRun, history, batches>>
        /\ properties' \in {properties, WithProperties(o)}
    BY <1>4 DEF WriteRunProperties, PropertiesFail
  <2>2. \A r \in DOMAIN properties : r \in DOMAIN properties' /\ properties'[r] = properties[r]
    <3>1. CASE op[o].run \in DOMAIN properties
      BY <2>1, <3>1 DEF WithProperties
    <3>2. CASE op[o].run \notin DOMAIN properties
      BY <2>1, <3>2 DEF WithProperties
    <3>3. QED
      BY <3>1, <3>2
  <2>3. \A q \in Operators : op'[q].pc \in {"send", "done", "increment"} => op'[q] = op[q]
    BY <1>1, <1>4 DEF WriteRunProperties, PropertiesFail, Fails, Go
  <2>4. TablesInv'
    BY <1>0, <2>1, <2>2, PropertiesGrow
  <2>5. \A r \in Runs : Started(r) => Started(r)'
    BY <2>1 DEF Started
  <2>6. HistoryTyped' /\ CallsStarted'
    BY <1>0, <2>1, <2>3, <2>5, CallsGoOn DEF HistoryTyped
  <2>7. QED
    BY <2>4, <2>6 DEF JInv
<1>5. CASE SetRunStart(o) \/ SetRunStartFails(o)
  <2>1. UNCHANGED <<script, lastRun, properties, batches>> /\ op[o].pc = "status"
        /\ history' \in {history, WithStatus(op[o].run, Start)}
    BY <1>5 DEF SetRunStart, SetRunStartFails
  <2>2. PICK r \in Runs : r = op[o].run
    BY <1>0, <2>1, RunsOfMessages DEF IInv, PropertiesWritten, HasRun
  <2>3. TablesInv'
    <3>1. CASE history' = history
      BY <1>0, <2>1, <3>1, PropertiesGrow
    <3>2. CASE history' = WithStatus(r, Start)
      <4>1. Start # Complete /\ Start \in {Start, StopReceived, Complete}
        BY DEF Start, Complete
      <4>2. QED
        BY <1>0, <2>1, <3>2, <4>1, HistoryGrows
    <3>3. QED
      BY <2>1, <2>2, <3>1, <3>2
  <2>4. history' = WithStatus(r, Start) =>
          /\ history' \in [Runs -> Seq({Start, StopReceived, Complete})]
          /\ \A q \in Runs : Written(q)' = IF q = r THEN Written(r) \cup {Start} ELSE Written(q)
    BY <1>0, WrittenGrows
  <2>5. \A q : (Started(q) <=> Start \in Written(q)) /\ (Started(q)' <=> Start \in Written(q)')
    BY DEF Started, Written
  <2>6. /\ history' \in [Runs -> Seq({Start, StopReceived, Complete})]
        /\ \A q \in Runs : Started(q) => Started(q)'
    <3>1. CASE history' = history
      BY <1>0, <3>1 DEF HistoryTyped, Started
    <3>2. CASE history' = WithStatus(r, Start)
      BY <2>4, <2>5, <3>2
    <3>3. QED
      BY <2>1, <2>2, <3>1, <3>2
  <2>7. \A q \in Operators :
           /\ op'[q].pc \in {"send", "done"} =>
                /\ op'[q].run = op[q].run
                /\ op[q].pc = "send" \/ op'[q] = op[q] \/ Started(op[q].run)'
           /\ op'[q].pc = "increment" => op'[q] = op[q]
    <3>1. CASE SetRunStart(o)
      <4>1. history' = WithStatus(op[o].run, Start)
        BY <3>1 DEF SetRunStart
      <4>2. /\ op'[o].run = op[o].run /\ op'[o].pc = "send"
            /\ \A q \in Operators : q # o => op'[q] = op[q]
        <5> DEFINE all == Messages(op[o].run, AffectedNodes[script][op[o].start])
        <5>1. op' = [op EXCEPT ![o].pc = "send", ![o].todo = all]
          BY <3>1 DEF SetRunStart
        <5> HIDE DEF all
        <5>2. QED
          BY <1>1, <5>1
      <4>3. \A q \in Operators : q = o \/ op'[q] = op[q]
        BY <4>2
      <4>4. QED
        <5>1. Started(r)'
          BY <2>2, <2>4, <2>5, <4>1
        <5>2. op'[o].run = r
          BY <2>2, <4>2
        <5>3. Started(op[o].run)'
          BY <5>1, <5>2 DEF Started
        <5>4. QED
          BY <4>2, <4>3, <5>3
    <3>2. CASE SetRunStartFails(o)
      BY <1>1, <3>2 DEF SetRunStartFails, Fails, Go
    <3>3. QED
      BY <1>5, <3>1, <3>2
  <2>8. HistoryTyped' /\ CallsStarted'
    BY <1>0, <2>1, <2>6, <2>7, CallsGoOn
  <2>9. QED
    BY <2>3, <2>8 DEF JInv
<1>6. CASE SendMessages(o) \/ SendFails(o)
  <2>1. UNCHANGED <<script, lastRun, properties, history>> /\ op[o].pc = "send"
    BY <1>6 DEF SendMessages, SendFails
  <2>2. PICK M \in Requests(o) : batches' \in {batches, With(M)}
    BY <1>6 DEF SendMessages, SendFails
  <2>3. TablesInv'
    <3>1. CASE batches' = batches
      BY <1>0, <2>1, <3>1, PropertiesGrow
    <3>2. CASE batches' = With(M)
      <4>1. M \subseteq op[o].todo /\ \A m \in M : m.run = op[o].run
        BY <2>1, RequestsAreMine
      <4>2. /\ op[o].todo \subseteq Messages(op[o].run, Nodes(o))
            /\ OfRun(op[o].run) = Messages(op[o].run, Nodes(o)) \ op[o].todo
        BY <2>1 DEF IInv, MessagesSent
      <4>3. M \cap DOMAIN batches = {}
        BY <4>1, <4>2 DEF OfRun
      <4>4. /\ op[o].run \in DOMAIN properties /\ properties[op[o].run].affected = Nodes(o)
        <5>1. op[o].pc \in HasRun \ {"properties"}
          BY <2>1 DEF HasRun
        <5>2. /\ op[o].run \in DOMAIN properties
              /\ properties[op[o].run] = [start |-> op[o].start, affected |-> Nodes(o)]
          BY <5>1 DEF IInv, PropertiesWritten
        <5>3. QED
          BY <5>2
      <4>5. Started(op[o].run)
        BY <1>0, <2>1 DEF CallsStarted
      <4>6. ASSUME NEW m \in M
            PROVE  /\ m.run \in DOMAIN properties /\ m.node \in properties[m.run].affected
                   /\ \E k \in 0..(script.batches[m.node] - 1) : m = Message(m.run, m.node, k)
                   /\ Started(m.run)
        <5>1. PICK n \in Nodes(o) : \E k \in 0..(script.batches[n] - 1) :
                                       m = Message(op[o].run, n, k)
          BY <4>1, <4>2, MessagesAre
        <5>2. m.node = n /\ m.run = op[o].run
          BY <5>1 DEF Message
        <5>3. QED
          BY <4>4, <4>5, <5>1, <5>2
      <4>7. QED
        BY <1>0, <1>2, <2>1, <3>2, <4>3, <4>6, BatchesAreSent
    <3>3. QED
      BY <2>2, <3>1, <3>2
  <2>4. \A q \in Operators :
           /\ op'[q].pc \in {"send", "done"} =>
                op'[q].run = op[q].run /\ (op[q].pc = "send" \/ op'[q] = op[q])
           /\ op'[q].pc = "increment" => op'[q] = op[q]
    <3>1. CASE SendMessages(o)
      BY <1>1, <2>1, <3>1 DEF SendMessages
    <3>2. CASE SendFails(o)
      BY <1>1, <3>2 DEF SendFails, Fails, Go
    <3>3. QED
      BY <1>6, <3>1, <3>2
  <2>5. \A r \in Runs : Started(r) => Started(r)'
    BY <2>1 DEF Started
  <2>6. HistoryTyped' /\ CallsStarted'
    BY <1>0, <2>1, <2>4, <2>5, CallsGoOn DEF HistoryTyped
  <2>7. QED
    BY <2>3, <2>6 DEF JInv
<1>7. QED
  BY <1>3, <1>4, <1>5, <1>6 DEF OperatorSteps, OperatorFails

\* A run whose batch is still queued, and that was not stopped, goes on: it is not complete.
LEMMA RunGoesOn ==
  ASSUME IInv, JInv, NEW m \in DOMAIN batches, Idle(m), StopReceived \notin Written(m.run)
  PROVE  RunStatus(m.run) = Start
<1> DEFINE r == m.run
           n == m.node
<1>1. HistoryTyped /\ MessagesKnown /\ BatchesStarted /\ CompletesTrue /\ script \in Scripts
  BY DEF JInv, TablesInv, IInv, CallsTyped
<1>2. r \in Runs /\ r \in DOMAIN properties /\ n \in properties[r].affected
      /\ n \in script.nodes
  BY <1>1, RunsOfMessages DEF MessagesKnown
<1>3. Start \in Written(r)
  BY <1>1 DEF BatchesStarted, Started, Written
<1>4. Written(r) \subseteq {Start, StopReceived, Complete}
  <2>1. history[r] \in Seq({Start, StopReceived, Complete})
    BY <1>1, <1>2 DEF HistoryTyped
  <2>2. \A k \in DOMAIN history[r] : history[r][k] \in {Start, StopReceived, Complete}
    BY <2>1
  <2>3. QED
    BY <2>2 DEF Written
<1>5. Complete \notin Written(r)
  <2>1. SUFFICES ASSUME Complete \in Written(r) PROVE FALSE
    OBVIOUS
  <2>2. Cardinality(Having(r, n, Final)) = script.batches[n]
    BY <1>1, <1>2, <2>1 DEF CompletesTrue
  <2>3. Having(r, n, Final) = Of(r, n)
    BY <1>1, <1>2, <2>2, FewHaving
  <2>4. m \in Having(r, n, Final)
    BY <2>3 DEF Of
  <2>5. QED
    BY <2>4 DEF Having, Idle, Final, Success, Fail, StopReceived
<1>6. Written(r) \subseteq {Start}
  BY <1>4, <1>5
<1>7. QED
  BY <1>3, <1>6, StatusOfRun

\* What becomes of a batch: only one that starts chooses what it reads.
LEMMA DaemonKeepsJInv ==
  ASSUME IInv, JInv, NEW m \in DOMAIN batches, DaemonSteps(m)
  PROVE  JInv'
<1>0. /\ HistoryTyped /\ CallsStarted /\ TablesInv /\ MessagesKnown
      /\ script \in Scripts
      /\ \A r \in DOMAIN properties : properties[r].affected \subseteq script.nodes
  BY AffectedAreNodes DEF JInv, IInv, CallsTyped, TablesInv
<1>1. UNCHANGED <<script, lastRun, properties, history, op>>
  BY DEF DaemonSteps, StopBatch, RefuseBatch, NogoBatch, StartBatch, EndBatch, Daemon
<1>2. m.run \in Runs /\ m.node \in script.nodes
  BY <1>0, RunsOfMessages DEF MessagesKnown
<1>3. Idle(m) => batches[m].status \notin Final
  BY DEF Idle, Final, Success, Fail, StopReceived
<1>4. HistoryTyped' /\ CallsStarted'
  BY <1>0, <1>1 DEF HistoryTyped, CallsStarted, Started
<1>5. CASE StopBatch(m)
  <2>1. StopReceived \in Written(m.run)
    <3>1. history[m.run] \in Seq({Start, StopReceived, Complete})
      BY <1>0, <1>2 DEF HistoryTyped
    <3>2. PICK k \in DOMAIN history[m.run] : history[m.run][k] = Start
      BY <1>0 DEF TablesInv, BatchesStarted, Started
    <3>3. Len(history[m.run]) \in DOMAIN history[m.run]
      BY <3>1, <3>2
    <3>4. QED
      BY <1>5, <3>3 DEF StopBatch, Last, Written
  <2>2. Becomes(m, StopReceived, <<>>) /\ Idle(m)
    BY <1>5 DEF StopBatch
  <2>3. StopReceived \in Statuses /\ StopReceived \notin {"queued", "refused"}
    BY DEF Statuses, Final, StopReceived
  <2>4. TablesInv'
    BY <1>0, <1>1, <1>3, <2>1, <2>2, <2>3, BatchGoesOn
  <2>5. QED
    BY <1>4, <2>4 DEF JInv
<1>6. CASE RefuseBatch(m)
  <2>1. Becomes(m, "refused", <<>>) /\ Idle(m)
    BY <1>6 DEF RefuseBatch
  <2>2. "refused" \in Statuses /\ "refused" # StopReceived
    BY DEF Statuses, StopReceived
  <2>3. TablesInv'
    BY <1>0, <1>1, <1>3, <2>1, <2>2, BatchGoesOn
  <2>4. QED
    BY <1>4, <2>3 DEF JInv
<1>7. CASE NogoBatch(m)
  <2>1. Becomes(m, Fail, <<>>) /\ Idle(m)
    BY <1>7 DEF NogoBatch, Ready
  <2>2. Fail \in Statuses /\ Fail \notin {"queued", "refused", StopReceived}
    BY DEF Statuses, Final, Fail, StopReceived
  <2>3. TablesInv'
    BY <1>0, <1>1, <1>3, <2>1, <2>2, BatchGoesOn
  <2>4. QED
    BY <1>4, <2>3 DEF JInv
<1>8. CASE StartBatch(m)
  <2> DEFINE from == [d \in script.reads[m.node] |-> Verdicts(m)[d].run]
  <2>1. Becomes(m, Start, from) /\ Idle(m) /\ Commands(m) \subseteq {"go"}
    BY <1>8 DEF StartBatch, Ready
  <2>2. Start \in Statuses /\ Start \notin {"queued", "refused", StopReceived}
    BY DEF Statuses, Start, StopReceived
  <2>3. ASSUME NEW d \in script.reads[m.node]
        PROVE  ReadsRight(m, d, from[d])
    <3>1. Verdicts(m)[d] = Verdict(d, m.run) /\ from[d] = Verdict(d, m.run).run
      BY DEF Verdicts
    <3>2. Verdict(d, m.run).cmd = "go"
      BY <2>1, <3>1 DEF Commands
    <3>3. d \in script.nodes
      BY <1>0, <1>2, ReadsAreNodes
    <3>4. /\ Cardinality(Having(from[d], d, {Success})) = script.batches[d]
          /\ m.run \in Candidates(d) /\ RunStatus(m.run) = Start
               /\ NodeStatus(m.run, d) # StopReceived => from[d] = m.run
      BY <1>0, <3>1, <3>2, <3>3, GoMeansSuccess
    <3>5. ASSUME d \in properties[m.run].affected, StopReceived \notin Written(m.run)
          PROVE  from[d] = m.run
      <4>1. m.run \in Candidates(d)
        BY <1>0, <3>5 DEF MessagesKnown, Candidates
      <4>2. RunStatus(m.run) = Start
        BY <2>1, <3>5, RunGoesOn
      <4>3. NodeStatus(m.run, d) # StopReceived
        <5>1. SUFFICES ASSUME NodeStatus(m.run, d) = StopReceived PROVE FALSE
          OBVIOUS
        <5>2. PICK q \in Of(m.run, d) : batches[q].status = StopReceived
          BY <1>0, <3>3, <5>1, StatusOfNode
        <5>3. q \in DOMAIN batches /\ q.run = m.run
          BY DEF Of
        <5>4. StopReceived \in Written(m.run)
          BY <1>0, <5>2, <5>3 DEF TablesInv, StopsWritten
        <5>5. QED
          BY <3>5, <5>4
      <4>4. QED
        BY <3>4, <4>1, <4>2, <4>3
    <3> HIDE DEF from
    <3>6. QED
      BY <3>4, <3>5 DEF ReadsRight
  <2> HIDE DEF from
  <2>4. TablesInv'
    BY <1>0, <1>1, <1>3, <2>1, <2>2, <2>3, BatchGoesOn
  <2>5. QED
    BY <1>4, <2>4 DEF JInv
<1>9. CASE EndBatch(m)
  <2>1. PICK s \in {Success, Fail} : Becomes(m, s, batches[m].from)
    BY <1>9 DEF EndBatch
  <2>2. batches[m].status = Start /\ Start \notin Final
    BY <1>9 DEF EndBatch, Start, Final, Success, Fail, StopReceived
  <2>3. s \in Statuses /\ s \notin {"queued", "refused", StopReceived}
    BY DEF Statuses, Final, Success, Fail, StopReceived
  <2>4. batches[m].from # <<>> =>
          \A d \in script.reads[m.node] : ReadsRight(m, d, batches[m].from[d])
    BY <1>0 DEF TablesInv, ReadsTrue
  <2>5. TablesInv'
    BY <1>0, <1>1, <2>1, <2>2, <2>3, <2>4, BatchGoesOn
  <2>6. QED
    BY <1>4, <2>5 DEF JInv
<1>10. QED
  BY <1>5, <1>6, <1>7, <1>8, <1>9 DEF DaemonSteps

\* A run is stopped, or marked complete.
LEMMA RowKeepsJInv ==
  ASSUME IInv, JInv, NEW r \in Runs, StopRun(r) \/ CompleteRun(r)
  PROVE  JInv'
<1>0. /\ HistoryTyped /\ CallsStarted /\ TablesInv /\ MessagesKnown
      /\ script \in Scripts
      /\ \A q \in DOMAIN properties : properties[q].affected \subseteq script.nodes
  BY AffectedAreNodes DEF JInv, IInv, CallsTyped, TablesInv
<1>1. UNCHANGED <<script, lastRun, properties, batches, op>>
  BY DEF StopRun, CompleteRun
<1>2. PICK s \in {StopReceived, Complete} :
        /\ history' = WithStatus(r, s)
        /\ s = Complete =>
             /\ r \in DOMAIN properties
             /\ \A n \in properties[r].affected :
                  Cardinality(Having(r, n, Final)) = script.batches[n]
  <2>1. CASE StopRun(r)
    <3>1. history' = WithStatus(r, StopReceived)
      BY <2>1 DEF StopRun
    <3>2. StopReceived # Complete
      BY DEF StopReceived, Complete
    <3>3. QED
      BY <3>1, <3>2
  <2>2. CASE CompleteRun(r)
    <3>1. /\ history' = WithStatus(r, Complete) /\ r \in DOMAIN properties
          /\ \A n \in properties[r].affected : NodeStatus(r, n) \in {Success, Fail}
      BY <2>2 DEF CompleteRun
    <3>2. ASSUME NEW n \in properties[r].affected
          PROVE  Cardinality(Having(r, n, Final)) = script.batches[n]
      <4>1. NodeStatus(r, n) \in Final /\ n \in script.nodes
        BY <1>0, <3>1 DEF Final
      <4>2. QED
        BY <1>0, <4>1, StatusOfNode
    <3>3. QED
      BY <3>1, <3>2
  <2>3. QED
    BY <2>1, <2>2
<1>3. s \in {Start, StopReceived, Complete}
  OBVIOUS
<1>4. TablesInv'
  BY <1>0, <1>1, <1>2, <1>3, HistoryGrows
<1>5. /\ history' \in [Runs -> Seq({Start, StopReceived, Complete})]
      /\ \A q \in Runs : Written(q)' = IF q = r THEN Written(r) \cup {s} ELSE Written(q)
  BY <1>0, <1>2, <1>3, WrittenGrows
<1>6. \A q : (Started(q) <=> Start \in Written(q)) /\ (Started(q)' <=> Start \in Written(q)')
  BY DEF Started, Written
<1>7. \A q \in Runs : Started(q) => Started(q)'
  BY <1>5, <1>6
<1>8. HistoryTyped' /\ CallsStarted'
  BY <1>0, <1>1, <1>5, <1>7, CallsGoOn DEF HistoryTyped
<1>9. QED
  BY <1>4, <1>8 DEF JInv

\* At first there are no rows and no messages.
LEMMA InitJInv == Init => JInv
<1> SUFFICES ASSUME Init PROVE JInv
  OBVIOUS
<1>1. history = [r \in Runs |-> <<>>] /\ DOMAIN batches = {} /\ properties = <<>>
  BY DEF Init, Runs
<1>2. MaxInt16 \in Nat
  BY TokensAssumption DEF TokensAssumption
<1>3. HistoryTyped
  <2>1. <<>> \in Seq({Start, StopReceived, Complete})
    OBVIOUS
  <2>2. history \in [Runs -> Seq({Start, StopReceived, Complete})]
    BY <1>1, <2>1
  <2>3. lastRun <= MaxInt16
    BY <1>2 DEF Init
  <2>4. \A o \in Operators : op[o].pc # "increment"
    BY DEF Init
  <2>5. QED
    BY <2>2, <2>3, <2>4 DEF HistoryTyped
<1>4. CallsStarted
  BY DEF Init, CallsStarted
<1>5. \A r \in Runs : Written(r) = {}
  BY <1>1 DEF Written
<1>6. TablesInv
  BY <1>1, <1>5 DEF TablesInv, MessagesKnown, BatchesStarted, StopsWritten, CompletesTrue,
                    ReadsTrue
<1>7. QED
  BY <1>3, <1>4, <1>6 DEF JInv

\* In every reachable state the rows, the messages and what the batches read agree.
THEOREM JInvHolds == Spec => []JInv
<1>1. IInv /\ JInv /\ [Next]_vars => JInv'
  <2> SUFFICES ASSUME IInv, JInv, [Next]_vars PROVE JInv'
    OBVIOUS
  <2>1. ASSUME NEW o \in Operators,
               CallStartRun(o) \/ OperatorSteps(o) \/ OperatorFails(o)
        PROVE  JInv'
    BY <2>1, OperatorKeepsJInv
  <2>2. ASSUME NEW m \in DOMAIN batches, DaemonSteps(m)
        PROVE  JInv'
    BY <2>2, DaemonKeepsJInv
  <2>3. ASSUME NEW r \in Runs, StopRun(r) \/ CompleteRun(r)
        PROVE  JInv'
    BY <2>3, RowKeepsJInv
  <2>4. CASE UNCHANGED vars
    <3>1. TablesInv'
      BY <2>4, PropertiesGrow DEF vars, JInv
    <3>2. HistoryTyped' /\ CallsStarted'
      BY <2>4 DEF vars, JInv, HistoryTyped, CallsStarted, Started
    <3>3. QED
      BY <3>1, <3>2 DEF JInv
  <2>5. QED
    BY <2>1, <2>2, <2>3, <2>4 DEF Next, Progress
<1>2. QED
  BY <1>1, InitJInv, IInvHolds, PTL DEF Spec

\* A batch that runs reads tables that are finished and of the right run, for every script
\* and whichever runs are started, fail half-way, are stopped or overlap
\* (CheckDependencyPolicyAgainstNodeEventList, BuildDependencyNodeRunStatusMap).
THEOREM ReadsFinishedDataHolds == Spec => []ReadsFinishedData
<1>1. IInv /\ JInv => ReadsFinishedData
  <2>1. SUFFICES ASSUME IInv, JInv, NEW m \in DOMAIN batches, batches[m].from # <<>>,
                        RunStatus(m.run) # StopReceived, NEW d \in script.reads[m.node],
                        NEW r, r = batches[m].from[d]
                 PROVE  /\ d \in properties[m.run].affected => r = m.run
                        /\ Cardinality({q \in Of(r, d) : batches[q].status = Success})
                             = script.batches[d]
    BY Zenon DEF ReadsFinishedData
  <2>2. StopReceived \notin Written(m.run)
    BY <2>1, StatusOfRun
  <2>3. ReadsRight(m, d, r)
    BY <2>1 DEF JInv, TablesInv, ReadsTrue
  <2>4. Having(r, d, {Success}) = {q \in Of(r, d) : batches[q].status = Success}
    BY DEF Having
  <2>5. QED
    BY <2>2, <2>3, <2>4 DEF ReadsRight
<1>2. QED
  BY <1>1, IInvHolds, JInvHolds, PTL
===============================================================================
