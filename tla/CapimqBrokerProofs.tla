--------------------------- MODULE CapimqBrokerProofs ---------------------------
(***************************************************************************)
(* Theorems about CapimqBroker, for any messages, groups, daemons, delays  *)
(* and timeouts.                                                           *)
(***************************************************************************)
EXTENDS CapimqBroker, FiniteSetTheorems, SequenceTheorems, TLAPS

\* Re-arranging a finite set of messages gives a queue with exactly these
\* messages, none of them twice.
LEMMA ArrangementIsQueue ==
  ASSUME NEW S, S \subseteq Msgs, NEW s \in Arrangements(S)
  PROVE  s \in Seq(Msgs) /\ Range(s) = S /\ IsInjective(s)
<1>1. IsFiniteSet(S) /\ Cardinality(S) \in Nat
  BY BrokerAssumption, FS_Subset, FS_CardinalityType
<1>2. IsFiniteSet(1..Cardinality(S)) /\ Cardinality(1..Cardinality(S)) = Cardinality(S)
  BY <1>1, FS_Interval
<1>3. s \in Injection(1..Cardinality(S), S)
  BY DEF Arrangements
<1>4. s \in Surjection(1..Cardinality(S), S)
  BY <1>1, <1>2, <1>3, FS_Injection
<1>5. s \in [1..Cardinality(S) -> S] /\ IsInjective(s)
  BY <1>3 DEF Injection
<1>6. s \in Seq(Msgs)
  BY <1>1, <1>5, SeqDef
<1>7. Range(s) = S
  BY <1>4, <1>5 DEF Surjection, Range
<1>8. QED
  BY <1>5, <1>6, <1>7

\* Popping the head of a queue without duplicates removes exactly the head.
LEMMA PopRemovesHead ==
  ASSUME NEW s \in Seq(Msgs), s # <<>>, IsInjective(s)
  PROVE  /\ Head(s) \in Range(s) /\ Tail(s) \in Seq(Msgs)
         /\ Range(Tail(s)) = Range(s) \ {Head(s)} /\ IsInjective(Tail(s))
<1>1. /\ Tail(s) \in Seq(Msgs) /\ Len(Tail(s)) = Len(s) - 1
      /\ \A i \in 1..Len(Tail(s)) : Tail(s)[i] = s[i + 1]
  BY HeadTailProperties
<1>2. Len(s) \in Nat /\ Len(s) >= 1 /\ Head(s) = s[1] /\ DOMAIN s = 1..Len(s)
  OBVIOUS
<1>3. DOMAIN Tail(s) = 1..(Len(s) - 1)
  BY <1>1, <1>2
<1>4. IsInjective(Tail(s))
  BY <1>1, <1>2, <1>3 DEF IsInjective
<1>5. Range(Tail(s)) = {s[i] : i \in 2..Len(s)}
  <2>1. \A i \in 1..(Len(s) - 1) : Tail(s)[i] = s[i + 1] /\ i + 1 \in 2..Len(s)
    BY <1>1, <1>2
  <2>2. \A i \in 2..Len(s) : i - 1 \in 1..(Len(s) - 1) /\ Tail(s)[i - 1] = s[i]
    BY <1>1, <1>2
  <2>3. Range(Tail(s)) = {Tail(s)[i] : i \in 1..(Len(s) - 1)}
    BY <1>3 DEF Range
  <2>4. {Tail(s)[i] : i \in 1..(Len(s) - 1)} \subseteq {s[i] : i \in 2..Len(s)}
    BY <2>1
  <2>5. {s[i] : i \in 2..Len(s)} \subseteq {Tail(s)[i] : i \in 1..(Len(s) - 1)}
    BY <2>2
  <2>6. QED
    BY <2>3, <2>4, <2>5
<1>6. Range(s) = {s[i] : i \in 2..Len(s)} \cup {s[1]}
  BY <1>2 DEF Range
<1>7. s[1] \notin {s[i] : i \in 2..Len(s)}
  BY <1>2 DEF IsInjective
<1>8. QED
  BY <1>1, <1>2, <1>4, <1>5, <1>6, <1>7

\* Appending a message that is not in the queue keeps it without duplicates.
LEMMA AppendAddsOne ==
  ASSUME NEW s \in Seq(Msgs), NEW m \in Msgs, m \notin Range(s), IsInjective(s)
  PROVE  Range(Append(s, m)) = Range(s) \cup {m} /\ IsInjective(Append(s, m))
<1> DEFINE t == Append(s, m)
<1>1. /\ Len(s) \in Nat /\ DOMAIN s = 1..Len(s) /\ DOMAIN t = 1..(Len(s) + 1)
      /\ \A i \in 1..Len(s) : t[i] = s[i]
      /\ t[Len(s) + 1] = m
  BY AppendProperties, LenProperties
<1>2. \A i \in 1..Len(s) : s[i] # m
  BY <1>1 DEF Range
<1>3. IsInjective(t)
  BY <1>1, <1>2 DEF IsInjective
<1>4. Range(t) = Range(s) \cup {m}
  BY <1>1 DEF Range
<1>5. QED
  BY <1>3, <1>4

\* What is deleted from the queue was in it.
LEMMA DeletedWasQueued ==
  ASSUME NEW prefix, Q \in Seq(Msgs)
  PROVE  DeletedFromQ(prefix) \subseteq Range(Q)
<1>1. DOMAIN Q = 1..Len(Q)
  OBVIOUS
<1>2. QED
  BY <1>1 DEF DeletedFromQ, Range

-------------------------------------------------------------------------------
\* Every operation keeps the shapes of the state.
LEMMA TypingStep == TypeOK /\ [Next]_vars => TypeOK'
<1> SUFFICES ASSUME TypeOK, [Next]_vars PROVE TypeOK'
  OBVIOUS
<1> USE BrokerAssumption DEF TypeOK, history
<1>0. \A t \in ReadClock : t \in Nat
  BY DEF ReadClock
<1>1. CASE Tick
  BY <1>1 DEF Tick
<1>2. ASSUME NEW S \in SUBSET Msgs, QBulk(S) PROVE TypeOK'
  <2>1. PICK t \in ReadClock :
          /\ DeliverAfter' = [m \in Msgs |-> IF m \in S THEN t ELSE DeliverAfter[m]]
          /\ LastHeartbeat' = [m \in Msgs |-> IF m \in S THEN 0 ELSE LastHeartbeat[m]]
          /\ SortInto(S)
    BY <1>2 DEF QBulk
  <2>2. Q' \in Seq(Msgs)
    BY <2>1, ArrangementIsQueue, RangeOfSeq DEF SortInto
  <2>3. DeliverAfter' \in [Msgs -> Nat] /\ LastHeartbeat' \in [Msgs -> Nat]
    BY <1>0, <2>1
  <2>4. QED
    BY <1>2, <2>2, <2>3 DEF QBulk
<1>3. ASSUME NEW c \in Consumers, ClaimPop(c) PROVE TypeOK'
  <2>1. Head(Q) \in Msgs /\ Tail(Q) \in Seq(Msgs)
    BY <1>3, HeadTailProperties DEF ClaimPop
  <2>2. LastHeartbeat' \in [Msgs -> Nat]
    BY <1>0, <1>3, <2>1 DEF ClaimPop
  <2>3. QED
    BY <1>3, <2>1, <2>2 DEF ClaimPop
<1>4. ASSUME NEW c \in Consumers, NEW m \in Msgs, NEW delivered \in BOOLEAN,
             ClaimPutWip(c, m, delivered)
      PROVE TypeOK'
  BY <1>4 DEF ClaimPutWip
<1>5. ASSUME NEW c \in Consumers, NEW m \in Msgs, Forget(c, m) PROVE TypeOK'
  BY <1>5 DEF Forget
<1>6. ASSUME NEW c \in Consumers, NEW m \in Msgs, Ack(c, m) PROVE TypeOK'
  BY <1>6 DEF Ack
<1>7. ASSUME NEW c \in Consumers, NEW m \in Msgs, Heartbeat(c, m) PROVE TypeOK'
  BY <1>7 DEF Heartbeat
<1>8. ASSUME NEW c \in Consumers, NEW m \in Msgs, ReturnTakeWip(c, m) PROVE TypeOK'
  BY <1>8 DEF ReturnTakeWip
<1>9. ASSUME NEW m \in Msgs, ReturnPutQ(m) PROVE TypeOK'
  <2>1. PICK t \in ReadClock :
          \/ /\ DeliverAfter' = [DeliverAfter EXCEPT ![m] = t + ReturnDelay]
             /\ Q' = Append(Q, m)
          \/ /\ DeliverAfter' =
                   [n \in Msgs |-> IF n \in Range(Q) \cup {m} /\ Group[n] = Group[m]
                                   THEN t + ReturnDelay ELSE DeliverAfter[n]]
             /\ SortInto({m})
    BY <1>9 DEF ReturnPutQ
  <2>2. t + ReturnDelay \in Nat
    BY <1>0, <2>1
  <2>3. DeliverAfter' \in [Msgs -> Nat]
    BY <2>1, <2>2
  <2>4. Q' \in Seq(Msgs)
    <3>1. CASE Q' = Append(Q, m)
      BY <3>1, AppendProperties
    <3>2. CASE SortInto({m})
      BY <3>2, ArrangementIsQueue, RangeOfSeq DEF SortInto
    <3>3. QED
      BY <2>1, <3>1, <3>2
  <2>5. QED
    BY <1>9, <2>3, <2>4 DEF ReturnPutQ
<1>10. CASE ReturnDeadTakeWip
  BY <1>10 DEF ReturnDeadTakeWip
<1>11. CASE ReturnDeadPutQ
  <2>1. Q' \in Seq(Msgs)
    BY <1>11, ArrangementIsQueue, RangeOfSeq DEF ReturnDeadPutQ, SortInto
  <2>2. QED
    BY <1>11, <2>1 DEF ReturnDeadPutQ
<1>12. ASSUME NEW prefix \in Prefixes, DeleteQ(prefix) PROVE TypeOK'
  <2>1. DeletedFromQ(prefix) \subseteq Msgs
    BY DeletedWasQueued, RangeOfSeq
  <2>2. Q' \in Seq(Msgs)
    BY <1>12, ArrangementIsQueue, RangeOfSeq DEF DeleteQ, QKeep
  <2>3. QED
    BY <1>12, <2>1, <2>2 DEF DeleteQ
<1>13. ASSUME NEW prefix \in Prefixes, DeleteWip(prefix) PROVE TypeOK'
  BY <1>13 DEF DeleteWip
<1>14. CASE UNCHANGED vars
  BY <1>14 DEF vars
<1>15. QED
  BY <1>1, <1>2, <1>3, <1>4, <1>5, <1>6, <1>7, <1>8, <1>9, <1>10, <1>11, <1>12, <1>13,
     <1>14 DEF Next

\* The broker's state always has the shapes of MessageBroker's fields.
THEOREM Typing == Spec => []TypeOK
<1>1. Init => TypeOK
  BY BrokerAssumption DEF Init, TypeOK
<1>2. QED
  BY <1>1, TypingStep, PTL DEF Spec

-------------------------------------------------------------------------------
\* Places taken apart: m is somewhere, and in one place only.
InOnePlace(m) ==
  /\ m \in unsent \/ m \in Range(Q) \/ m \in Wip \/ m \in Claiming
     \/ m \in returning \/ m \in dead \/ m \in acked \/ m \in purged
  /\ m \in unsent => m \notin Range(Q) \cup Wip \cup Claiming \cup returning \cup dead
                                \cup acked \cup purged
  /\ m \in Range(Q) => m \notin Wip \cup Claiming \cup returning \cup dead \cup acked
                                  \cup purged
  /\ m \in Wip => m \notin Claiming \cup returning \cup dead \cup acked \cup purged
  /\ m \in Claiming => m \notin returning \cup dead \cup acked \cup purged
  /\ m \in returning => m \notin dead \cup acked \cup purged
  /\ m \in dead => m \notin acked \cup purged
  /\ m \in acked => m \notin purged

LEMMA PlacesApart ==
  ASSUME TypeOK
  PROVE  NothingLostOrDuplicated <=>
           /\ \A m \in Msgs : InOnePlace(m)
           /\ IsInjective(Q)
           /\ \A c, d \in Consumers : c # d => claiming[c] \cap claiming[d] = {}
<1>1. DOMAIN Places = 1..8
  BY DEF Places
<1>2. \A m \in Msgs :
        (\E i \in DOMAIN Places : m \in Places[i]) <=>
          \/ m \in unsent \/ m \in Range(Q) \/ m \in Wip \/ m \in Claiming
          \/ m \in returning \/ m \in dead \/ m \in acked \/ m \in purged
  BY <1>1 DEF Places
<1>3. \A i \in DOMAIN Places : Places[i] \subseteq Msgs
  <2>1. Range(Q) \subseteq Msgs /\ Claiming \subseteq Msgs
    BY RangeOfSeq DEF TypeOK, Claiming
  <2>2. /\ Places[1] = unsent /\ Places[2] = Range(Q) /\ Places[3] = Wip
        /\ Places[4] = Claiming /\ Places[5] = returning /\ Places[6] = dead
        /\ Places[7] = acked /\ Places[8] = purged
    BY DEF Places
  <2>3. QED
    BY <1>1, <2>1, <2>2 DEF TypeOK
<1>4. (\A i, j \in DOMAIN Places : i # j => Places[i] \cap Places[j] = {}) <=>
        \A m \in Msgs : \A i, j \in DOMAIN Places : i # j => ~(m \in Places[i] /\ m \in Places[j])
  BY <1>3
<1>5. ASSUME NEW m \in Msgs
      PROVE  (\A i, j \in DOMAIN Places : i # j => ~(m \in Places[i] /\ m \in Places[j])) <=>
               (InOnePlace(m) \/ ~\E i \in DOMAIN Places : m \in Places[i])
  BY <1>1, <1>2 DEF Places, InOnePlace
<1>6. \A m \in Msgs : InOnePlace(m) => \E i \in DOMAIN Places : m \in Places[i]
  BY <1>2 DEF InOnePlace
<1>7. QED
  BY <1>4, <1>5, <1>6 DEF NothingLostOrDuplicated

\* The inductive invariant: the state's shapes, and every message in one place.
IInv == TypeOK /\ NothingLostOrDuplicated

LEMMA OnePlaceStep == IInv /\ [Next]_vars => NothingLostOrDuplicated'
<1> SUFFICES ASSUME IInv, [Next]_vars PROVE NothingLostOrDuplicated'
  OBVIOUS
<1> DEFINE OneClaim == \A c, d \in Consumers : c # d => claiming[c] \cap claiming[d] = {}
<1>a. TypeOK /\ TypeOK'
  BY TypingStep DEF IInv
<1>b. (\A m \in Msgs : InOnePlace(m)) /\ IsInjective(Q) /\ OneClaim
  BY <1>a, PlacesApart DEF IInv
<1>c. SUFFICES (\A m \in Msgs : InOnePlace(m)') /\ IsInjective(Q') /\ OneClaim'
  <2>1. (TypeOK => (NothingLostOrDuplicated <=>
           /\ \A m \in Msgs : InOnePlace(m)
           /\ IsInjective(Q)
           /\ OneClaim))'
    BY PlacesApart, PTL
  <2>2. QED
    BY <1>a, <2>1
<1>d. Range(Q) \subseteq Msgs /\ Q \in Seq(Msgs)
  BY <1>a, RangeOfSeq DEF TypeOK
<1>e. ASSUME NEW S, S \subseteq Msgs, SortInto(S)
      PROVE  Range(Q') = Range(Q) \cup S /\ IsInjective(Q')
  BY <1>d, <1>e, ArrangementIsQueue DEF SortInto
<1> USE DEF history
<1>1. CASE Tick
  BY <1>1, <1>b DEF Tick, InOnePlace, Claiming
<1>2. ASSUME NEW S \in SUBSET Msgs, QBulk(S)
      PROVE  (\A m \in Msgs : InOnePlace(m)') /\ IsInjective(Q') /\ OneClaim'
  <2>1. Range(Q') = Range(Q) \cup S /\ IsInjective(Q')
    BY <1>2, <1>e DEF QBulk
  <2>2. Claiming' = Claiming /\ OneClaim'
    BY <1>2, <1>b DEF QBulk, Claiming
  <2>3. QED
    BY <1>2, <1>b, <2>1, <2>2 DEF QBulk, InOnePlace
<1>3. ASSUME NEW c \in Consumers, ClaimPop(c)
      PROVE  (\A m \in Msgs : InOnePlace(m)') /\ IsInjective(Q') /\ OneClaim'
  <2> DEFINE h == Head(Q)
  <2>1. h \in Range(Q) /\ Range(Q') = Range(Q) \ {h} /\ IsInjective(Q')
    BY <1>3, <1>b, <1>d, PopRemovesHead DEF ClaimPop
  <2>2. claiming' = [claiming EXCEPT ![c] = @ \cup {h}]
    BY <1>3 DEF ClaimPop
  <2>3. Claiming' = Claiming \cup {h}
    BY <2>2, <1>a DEF Claiming, TypeOK
  <2>4. h \in Msgs /\ h \notin Claiming
    BY <2>1, <1>b, <1>d DEF InOnePlace
  <2>5. OneClaim'
    BY <2>2, <2>4, <1>a, <1>b DEF Claiming, TypeOK
  <2>6. QED
    BY <1>3, <1>b, <2>1, <2>3, <2>4, <2>5 DEF ClaimPop, InOnePlace
<1>4. ASSUME NEW c \in Consumers, NEW n \in Msgs, NEW delivered \in BOOLEAN,
             ClaimPutWip(c, n, delivered)
      PROVE  (\A m \in Msgs : InOnePlace(m)') /\ IsInjective(Q') /\ OneClaim'
  <2>1. claiming' = [claiming EXCEPT ![c] = @ \ {n}] /\ n \in claiming[c]
    BY <1>4 DEF ClaimPutWip
  <2>2. Claiming' = Claiming \ {n} /\ n \in Claiming
    BY <2>1, <1>a, <1>b DEF Claiming, TypeOK
  <2>3. OneClaim'
    BY <2>1, <1>a, <1>b DEF TypeOK
  <2>4. QED
    BY <1>4, <1>b, <2>2, <2>3 DEF ClaimPutWip, InOnePlace
<1>5. ASSUME NEW c \in Consumers, NEW n \in Msgs, Forget(c, n) \/ Heartbeat(c, n)
      PROVE  (\A m \in Msgs : InOnePlace(m)') /\ IsInjective(Q') /\ OneClaim'
  BY <1>5, <1>b DEF Forget, Heartbeat, InOnePlace, Claiming
<1>6. ASSUME NEW c \in Consumers, NEW n \in Msgs, Ack(c, n)
      PROVE  (\A m \in Msgs : InOnePlace(m)') /\ IsInjective(Q') /\ OneClaim'
  <2>1. Claiming' = Claiming /\ OneClaim'
    BY <1>6, <1>b DEF Ack, Claiming
  <2>2. QED
    BY <1>6, <1>b, <2>1 DEF Ack, InOnePlace
<1>7. ASSUME NEW c \in Consumers, NEW n \in Msgs, ReturnTakeWip(c, n)
      PROVE  (\A m \in Msgs : InOnePlace(m)') /\ IsInjective(Q') /\ OneClaim'
  <2>1. Claiming' = Claiming /\ OneClaim'
    BY <1>7, <1>b DEF ReturnTakeWip, Claiming
  <2>2. QED
    BY <1>7, <1>b, <2>1 DEF ReturnTakeWip, InOnePlace
<1>8. ASSUME NEW n \in Msgs, ReturnPutQ(n)
      PROVE  (\A m \in Msgs : InOnePlace(m)') /\ IsInjective(Q') /\ OneClaim'
  <2>1. Claiming' = Claiming /\ OneClaim'
    BY <1>8, <1>b DEF ReturnPutQ, Claiming
  <2>2. n \notin Range(Q)
    BY <1>8, <1>b DEF ReturnPutQ, InOnePlace
  <2>3. Range(Q') = Range(Q) \cup {n} /\ IsInjective(Q')
    <3>1. CASE SortInto({n})
      BY <3>1, <1>e
    <3>2. CASE Q' = Append(Q, n)
      BY <3>2, <2>2, <1>b, <1>d, AppendAddsOne
    <3>3. QED
      BY <1>8, <3>1, <3>2 DEF ReturnPutQ
  <2>4. QED
    BY <1>8, <1>b, <2>1, <2>3 DEF ReturnPutQ, InOnePlace
<1>9. CASE ReturnDeadTakeWip
  <2>1. Claiming' = Claiming /\ OneClaim'
    BY <1>9, <1>b DEF ReturnDeadTakeWip, Claiming
  <2>2. dead' \subseteq Wip
    BY <1>9 DEF ReturnDeadTakeWip
  <2>3. QED
    BY <1>9, <1>b, <2>1, <2>2 DEF ReturnDeadTakeWip, InOnePlace
<1>10. CASE ReturnDeadPutQ
  <2>1. Claiming' = Claiming /\ OneClaim'
    BY <1>10, <1>b DEF ReturnDeadPutQ, Claiming
  <2>2. Range(Q') = Range(Q) \cup dead /\ IsInjective(Q')
    BY <1>10, <1>a, <1>e DEF ReturnDeadPutQ, TypeOK
  <2>3. QED
    BY <1>10, <1>b, <2>1, <2>2 DEF ReturnDeadPutQ, InOnePlace
<1>11. ASSUME NEW prefix \in Prefixes, DeleteQ(prefix)
       PROVE  (\A m \in Msgs : InOnePlace(m)') /\ IsInjective(Q') /\ OneClaim'
  <2> DEFINE gone == DeletedFromQ(prefix)
  <2>1. Claiming' = Claiming /\ OneClaim'
    BY <1>11, <1>b DEF DeleteQ, Claiming
  <2>2. gone \subseteq Range(Q)
    BY <1>d, DeletedWasQueued
  <2>3. Range(Q') = Range(Q) \ gone /\ IsInjective(Q')
    BY <1>11, <1>d, ArrangementIsQueue DEF DeleteQ, QKeep
  <2>4. QED
    BY <1>11, <1>b, <2>1, <2>2, <2>3 DEF DeleteQ, InOnePlace
<1>12. ASSUME NEW prefix \in Prefixes, DeleteWip(prefix)
       PROVE  (\A m \in Msgs : InOnePlace(m)') /\ IsInjective(Q') /\ OneClaim'
  <2>1. Claiming' = Claiming /\ OneClaim'
    BY <1>12, <1>b DEF DeleteWip, Claiming
  <2>2. QED
    BY <1>12, <1>b, <2>1 DEF DeleteWip, InOnePlace
<1>13. CASE UNCHANGED vars
  BY <1>13, <1>b DEF vars, InOnePlace, Claiming
<1>14. QED
  BY <1>1, <1>2, <1>3, <1>4, <1>5, <1>6, <1>7, <1>8, <1>9, <1>10, <1>11, <1>12, <1>13
     DEF Next

\* Whatever the interleaving of the operations' halves, a message is in exactly
\* one place: the broker neither loses nor duplicates it.
THEOREM NothingLost == Spec => []NothingLostOrDuplicated
<1>1. Init => TypeOK /\ NothingLostOrDuplicated
  <2> SUFFICES ASSUME Init PROVE TypeOK /\ NothingLostOrDuplicated
    OBVIOUS
  <2>1. TypeOK
    BY BrokerAssumption DEF Init, TypeOK
  <2>2. Claiming = {} /\ Range(Q) = {} /\ IsInjective(Q)
    BY DEF Init, Claiming, Range, IsInjective
  <2>3. \A m \in Msgs : InOnePlace(m)
    BY <2>2 DEF Init, InOnePlace
  <2>4. QED
    BY <2>1, <2>2, <2>3, PlacesApart DEF Init
<1>2. IInv /\ [Next]_vars => IInv'
  BY TypingStep, OnePlaceStep DEF IInv
<1>3. QED
  BY <1>1, <1>2, PTL DEF Spec, IInv

-------------------------------------------------------------------------------
\* Claim hands a message out only after it is in Wip, and Ack and Return end the
\* ownership when they take it from there.
LEMMA OwnerStep ==
  IInv /\ OwnerFindsItInWip /\ [Next]_vars => OwnerFindsItInWip'
<1> SUFFICES ASSUME IInv, OwnerFindsItInWip, [Next]_vars PROVE OwnerFindsItInWip'
  OBVIOUS
<1> USE DEF OwnerFindsItInWip, history
<1>a. TypeOK /\ \A m \in Msgs : InOnePlace(m)
  BY PlacesApart DEF IInv
<1>1. CASE Tick
  BY <1>1 DEF Tick
<1>2. ASSUME NEW S \in SUBSET Msgs, QBulk(S) PROVE OwnerFindsItInWip'
  BY <1>2 DEF QBulk
<1>3. ASSUME NEW c \in Consumers, ClaimPop(c) PROVE OwnerFindsItInWip'
  BY <1>3 DEF ClaimPop
<1>4. ASSUME NEW c \in Consumers, NEW m \in Msgs, NEW delivered \in BOOLEAN,
             ClaimPutWip(c, m, delivered)
      PROVE OwnerFindsItInWip'
  <2>1. m \in Claiming
    BY <1>4 DEF ClaimPutWip, Claiming
  <2>2. m \notin Wip \cup purged
    BY <2>1, <1>a DEF InOnePlace
  <2>3. QED
    BY <1>4, <1>a, <2>2 DEF ClaimPutWip, TypeOK
<1>5. ASSUME NEW c \in Consumers, NEW m \in Msgs, Forget(c, m) PROVE OwnerFindsItInWip'
  BY <1>5, <1>a DEF Forget, TypeOK
<1>6. ASSUME NEW c \in Consumers, NEW m \in Msgs, Ack(c, m) PROVE OwnerFindsItInWip'
  BY <1>6, <1>a DEF Ack, TypeOK
<1>7. ASSUME NEW c \in Consumers, NEW m \in Msgs, Heartbeat(c, m) PROVE OwnerFindsItInWip'
  BY <1>7 DEF Heartbeat
<1>8. ASSUME NEW c \in Consumers, NEW m \in Msgs, ReturnTakeWip(c, m)
      PROVE OwnerFindsItInWip'
  BY <1>8, <1>a DEF ReturnTakeWip, TypeOK
<1>9. ASSUME NEW m \in Msgs, ReturnPutQ(m) PROVE OwnerFindsItInWip'
  BY <1>9 DEF ReturnPutQ
<1>10. CASE ReturnDeadTakeWip
  BY <1>10 DEF ReturnDeadTakeWip
<1>11. CASE ReturnDeadPutQ
  BY <1>11 DEF ReturnDeadPutQ
<1>12. ASSUME NEW prefix \in Prefixes, DeleteQ(prefix) \/ DeleteWip(prefix)
       PROVE OwnerFindsItInWip'
  BY <1>12 DEF DeleteQ, DeleteWip
<1>13. CASE UNCHANGED vars
  BY <1>13 DEF vars
<1>14. QED
  BY <1>1, <1>2, <1>3, <1>4, <1>5, <1>6, <1>7, <1>8, <1>9, <1>10, <1>11, <1>12, <1>13
     DEF Next

\* IInv and the ownership, as one inductive invariant.
LEMMA Inductive == Spec => [](IInv /\ OwnerFindsItInWip)
<1>1. Init => OwnerFindsItInWip
  BY DEF Init, OwnerFindsItInWip
<1>2. QED
  BY <1>1, OwnerStep, Typing, NothingLost, PTL DEF Spec, IInv

\* Short of a missed heartbeat, a message has one owner, who finds it in Wip.
THEOREM OwnerFinds == Spec => []OwnerFindsItInWip
BY Inductive, PTL

\* Every step of the broker is a step of the lease queue, or changes nothing
\* the lease queue knows of.
LEMMA LeaseStep ==
  IInv /\ OwnerFindsItInWip /\ [Next]_vars => [LQ!LeaseNext]_(LQ!leaseVars)
<1> SUFFICES ASSUME IInv, OwnerFindsItInWip, [Next]_vars
             PROVE  LQ!LeaseNext \/ UNCHANGED LQ!leaseVars
  OBVIOUS
<1> USE DEF history
<1>a. TypeOK /\ (\A m \in Msgs : InOnePlace(m)) /\ IsInjective(Q)
  BY PlacesApart DEF IInv
<1>d. Range(Q) \subseteq Msgs /\ Q \in Seq(Msgs)
  BY <1>a, RangeOfSeq DEF TypeOK
<1>e. ASSUME NEW S, S \subseteq Msgs, SortInto(S)
      PROVE  Range(Q') = Range(Q) \cup S
  BY <1>d, <1>e, ArrangementIsQueue DEF SortInto
<1>f. ASSUME NEW m \in Msgs, m \in Claiming \cup returning \cup dead
      PROVE  LQ!Available(m)
  BY <1>a, <1>f DEF OwnerFindsItInWip, InOnePlace, LQ!Available
<1>1. CASE Tick
  BY <1>1 DEF Tick, LQ!leaseVars, Claiming
<1>2. ASSUME NEW S \in SUBSET Msgs, QBulk(S) PROVE LQ!Accept(S)
  <2>1. Range(Q') = Range(Q) \cup S /\ Claiming' = Claiming
    BY <1>2, <1>e DEF QBulk, Claiming
  <2>2. QED
    BY <1>2, <1>a, <2>1 DEF QBulk, LQ!Accept, InOnePlace
<1>3. ASSUME NEW c \in Consumers, ClaimPop(c) PROVE LQ!Lease(Head(Q)) /\ Head(Q) \in Msgs
  <2>1. Head(Q) \in Range(Q) /\ Range(Q') = Range(Q) \ {Head(Q)}
    BY <1>3, <1>a, <1>d, PopRemovesHead DEF ClaimPop
  <2>2. Claiming' = Claiming \cup {Head(Q)}
    BY <1>3, <1>a DEF ClaimPop, Claiming, TypeOK
  <2>3. QED
    BY <1>3, <1>d, <2>1, <2>2 DEF ClaimPop, LQ!Lease
<1>4. ASSUME NEW c \in Consumers, NEW m \in Msgs, NEW delivered \in BOOLEAN,
             ClaimPutWip(c, m, delivered)
      PROVE LQ!Deliver(c, m) \/ UNCHANGED LQ!leaseVars
  <2>1. m \in Claiming /\ Claiming' \cup Wip' = Claiming \cup Wip
    BY <1>4, <1>a DEF ClaimPutWip, Claiming, TypeOK
  <2>2. CASE delivered
    BY <1>4, <1>f, <2>1, <2>2 DEF ClaimPutWip, LQ!Deliver
  <2>3. CASE ~delivered
    BY <1>4, <2>1, <2>3 DEF ClaimPutWip, LQ!leaseVars
  <2>4. QED
    BY <2>2, <2>3
<1>5. ASSUME NEW c \in Consumers, NEW m \in Msgs, Forget(c, m) PROVE LQ!Abandon(c, m)
  BY <1>5 DEF Forget, LQ!Abandon, Claiming
<1>6. ASSUME NEW c \in Consumers, NEW m \in Msgs, Ack(c, m) PROVE LQ!Finish(c, m)
  <2>1. Claiming' = Claiming
    BY <1>6 DEF Ack, Claiming
  <2>2. m \notin Claiming \cup returning \cup dead
    BY <1>6, <1>a DEF Ack, InOnePlace
  <2>3. QED
    BY <1>6, <2>1, <2>2 DEF Ack, LQ!Finish
<1>7. ASSUME NEW c \in Consumers, NEW m \in Msgs, Heartbeat(c, m)
      PROVE UNCHANGED LQ!leaseVars
  BY <1>7 DEF Heartbeat, LQ!leaseVars, Claiming
<1>8. ASSUME NEW c \in Consumers, NEW m \in Msgs, ReturnTakeWip(c, m)
      PROVE LQ!Abandon(c, m)
  <2>1. Claiming' = Claiming
    BY <1>8 DEF ReturnTakeWip, Claiming
  <2>2. QED
    BY <1>8, <2>1 DEF ReturnTakeWip, LQ!Abandon
<1>9. ASSUME NEW m \in Msgs, ReturnPutQ(m) PROVE LQ!PutBack({m})
  <2>1. Claiming' = Claiming
    BY <1>9 DEF ReturnPutQ, Claiming
  <2>2. m \notin Range(Q) \cup Wip \cup Claiming \cup dead
    BY <1>9, <1>a DEF ReturnPutQ, InOnePlace
  <2>3. Range(Q') = Range(Q) \cup {m}
    BY <1>9, <1>a, <1>d, <1>e, <2>2, AppendAddsOne DEF ReturnPutQ
  <2>4. LQ!Available(m)
    BY <1>9, <1>f DEF ReturnPutQ
  <2>5. QED
    BY <1>9, <2>1, <2>2, <2>3, <2>4 DEF ReturnPutQ, LQ!PutBack
<1>10. CASE ReturnDeadTakeWip
  <2>1. dead' \in SUBSET Msgs /\ dead' \subseteq Wip /\ dead = {}
    BY <1>10, <1>a DEF ReturnDeadTakeWip, TypeOK
  <2>2. LQ!Expire(dead')
    BY <1>10, <2>1 DEF ReturnDeadTakeWip, LQ!Expire, Claiming
  <2>3. QED
    BY <2>1, <2>2 DEF LQ!LeaseNext
<1>11. CASE ReturnDeadPutQ
  <2>1. dead \in SUBSET Msgs /\ Claiming' = Claiming
    BY <1>11, <1>a DEF ReturnDeadPutQ, TypeOK, Claiming
  <2>2. Range(Q') = Range(Q) \cup dead
    BY <1>11, <1>e, <2>1 DEF ReturnDeadPutQ
  <2>3. \A m \in dead : m \notin Wip \cup Claiming \cup returning
    BY <1>a, <2>1 DEF InOnePlace
  <2>4. LQ!PutBack(dead)
    BY <1>11, <1>f, <2>1, <2>2, <2>3 DEF ReturnDeadPutQ, LQ!PutBack
  <2>5. QED
    BY <2>1, <2>4 DEF LQ!LeaseNext
<1>12. ASSUME NEW prefix \in Prefixes, DeleteQ(prefix) PROVE LQ!LeaseNext
  <2> DEFINE gone == DeletedFromQ(prefix)
  <2>1. gone \subseteq Range(Q) /\ gone \in SUBSET Msgs
    BY <1>d, DeletedWasQueued
  <2>2. Range(Q') = Range(Q) \ gone /\ Claiming' = Claiming
    BY <1>12, <1>d, ArrangementIsQueue DEF DeleteQ, QKeep, Claiming
  <2>3. \A m \in gone : m \notin Wip \cup Claiming \cup returning \cup dead
    BY <1>a, <2>1 DEF InOnePlace
  <2>4. LQ!Withdraw(gone)
    BY <1>12, <2>1, <2>2, <2>3 DEF DeleteQ, LQ!Withdraw
  <2>5. QED
    BY <2>1, <2>4 DEF LQ!LeaseNext
<1>13. ASSUME NEW prefix \in Prefixes, DeleteWip(prefix) PROVE LQ!LeaseNext
  <2> DEFINE gone == {m \in Wip : Group[m] \in prefix}
  <2>1. gone \subseteq Wip /\ gone \in SUBSET Msgs /\ Claiming' = Claiming
    BY <1>13, <1>a DEF DeleteWip, TypeOK, Claiming
  <2>2. \A m \in gone : m \notin Range(Q) \cup Claiming \cup returning \cup dead
    BY <1>a, <2>1 DEF InOnePlace
  <2>3. LQ!Withdraw(gone)
    BY <1>13, <2>1, <2>2 DEF DeleteWip, LQ!Withdraw
  <2>4. QED
    BY <2>1, <2>3 DEF LQ!LeaseNext
<1>14. CASE UNCHANGED vars
  BY <1>14 DEF vars, LQ!leaseVars, Claiming
<1>15. QED
  BY <1>1, <1>2, <1>3, <1>4, <1>5, <1>6, <1>7, <1>8, <1>9, <1>10, <1>11, <1>12, <1>13,
     <1>14 DEF Next, LQ!LeaseNext

\* The broker keeps the promises of the lease queue.
THEOREM Refinement == Spec => ImplementsLeaseQueue
<1>1. Init => LQ!LeaseInit
  BY DEF Init, LQ!LeaseInit, Claiming, Range
<1>2. QED
  BY <1>1, LeaseStep, Inductive, PTL DEF Spec, ImplementsLeaseQueue, LQ!LeaseSpec

-------------------------------------------------------------------------------
(* The lease queue, and what the broker has of it. *)

\* The steps of the lease queue keep the shapes of its state.
THEOREM LeaseTyping == LQ!LeaseSpec => []LQ!LeaseTypeOK
<1>1. LQ!LeaseInit => LQ!LeaseTypeOK
  BY DEF LQ!LeaseInit, LQ!LeaseTypeOK
<1>2. LQ!LeaseTypeOK /\ [LQ!LeaseNext]_(LQ!leaseVars) => LQ!LeaseTypeOK'
  BY DEF LQ!LeaseTypeOK, LQ!LeaseNext, LQ!leaseVars, LQ!Accept, LQ!Lease, LQ!Deliver,
         LQ!Abandon, LQ!PutBack, LQ!Expire, LQ!Finish, LQ!Withdraw
<1>3. QED
  BY <1>1, <1>2, PTL DEF LQ!LeaseSpec

\* In the lease queue, a lease is exclusive until it expires.
THEOREM LeaseExclusive == LQ!LeaseSpec => []LQ!ExclusiveLease
<1>1. LQ!LeaseInit => LQ!ExclusiveLease
  BY DEF LQ!LeaseInit, LQ!ExclusiveLease
<1>2. LQ!LeaseTypeOK /\ LQ!ExclusiveLease /\ [LQ!LeaseNext]_(LQ!leaseVars) => LQ!ExclusiveLease'
  <2> SUFFICES ASSUME LQ!LeaseTypeOK, LQ!ExclusiveLease, [LQ!LeaseNext]_(LQ!leaseVars)
               PROVE  LQ!ExclusiveLease'
    OBVIOUS
  <2> USE DEF LQ!LeaseTypeOK, LQ!ExclusiveLease
  <2>1. ASSUME NEW S \in SUBSET Msgs, LQ!Accept(S) PROVE LQ!ExclusiveLease'
    BY <2>1 DEF LQ!Accept
  <2>2. ASSUME NEW m \in Msgs, LQ!Lease(m) PROVE LQ!ExclusiveLease'
    BY <2>2 DEF LQ!Lease
  <2>3. ASSUME NEW c \in Consumers, NEW m \in Msgs, LQ!Deliver(c, m) PROVE LQ!ExclusiveLease'
    BY <2>3 DEF LQ!Deliver, LQ!Available
  <2>4. ASSUME NEW c \in Consumers, NEW m \in Msgs, LQ!Abandon(c, m) PROVE LQ!ExclusiveLease'
    BY <2>4 DEF LQ!Abandon
  <2>5. ASSUME NEW S \in SUBSET Msgs, LQ!PutBack(S) PROVE LQ!ExclusiveLease'
    BY <2>5 DEF LQ!PutBack, LQ!Available
  <2>6. ASSUME NEW S \in SUBSET Msgs, LQ!Expire(S) PROVE LQ!ExclusiveLease'
    BY <2>6 DEF LQ!Expire
  <2>7. ASSUME NEW c \in Consumers, NEW m \in Msgs, LQ!Finish(c, m) PROVE LQ!ExclusiveLease'
    BY <2>7 DEF LQ!Finish
  <2>8. ASSUME NEW S \in SUBSET Msgs, LQ!Withdraw(S) PROVE LQ!ExclusiveLease'
    BY <2>8 DEF LQ!Withdraw
  <2>9. CASE UNCHANGED LQ!leaseVars
    BY <2>9 DEF LQ!leaseVars
  <2>10. QED
    BY <2>1, <2>2, <2>3, <2>4, <2>5, <2>6, <2>7, <2>8, <2>9 DEF LQ!LeaseNext
<1>3. QED
  BY <1>1, <1>2, LeaseTyping, PTL DEF LQ!LeaseSpec

\* So it is in the broker: no two daemons are given a message of which no lease has run out,
\* and a message that a daemon works on is not in Q for another one.
THEOREM BrokerLeasesExclusively == Spec => []LQ!ExclusiveLease
BY Refinement, LeaseExclusive, PTL DEF ImplementsLeaseQueue

-------------------------------------------------------------------------------
\* When every message has a wait-retry group, as the daemons' producer gives it
\* one, Return always sorts and the head of Q is the earliest message.
THEOREM SortedWhenGrouped ==
  ASSUME \A m \in Msgs : Group[m] # NoGroup
  PROVE  Spec => []QSorted
<1>1. Init => QSorted
  BY DEF Init, QSorted, Ordered
<1>2. TypeOK /\ QSorted /\ [Next]_vars => QSorted'
  <2> SUFFICES ASSUME TypeOK, QSorted, [Next]_vars PROVE QSorted'
    OBVIOUS
  <2> USE DEF QSorted, history
  <2>a. CASE UNCHANGED <<Q, DeliverAfter>>
    BY <2>a DEF Ordered, DeliverEarlierThan
  <2>b. ASSUME NEW S, SortInto(S) PROVE QSorted'
    BY <2>b DEF SortInto, Ordered, DeliverEarlierThan
  <2>1. CASE Tick \/ ReturnDeadTakeWip \/ UNCHANGED vars
    BY <2>1, <2>a DEF Tick, ReturnDeadTakeWip, vars
  <2>2. ASSUME NEW S \in SUBSET Msgs, QBulk(S) PROVE QSorted'
    BY <2>2, <2>b DEF QBulk
  <2>3. ASSUME NEW c \in Consumers, ClaimPop(c) PROVE QSorted'
    <3>1. /\ Len(Tail(Q)) = Len(Q) - 1 /\ Len(Q) \in Nat
          /\ DOMAIN Q = 1..Len(Q) /\ DOMAIN Tail(Q) = 1..Len(Tail(Q))
          /\ \A i \in 1..Len(Tail(Q)) : Tail(Q)[i] = Q[i + 1]
      BY <2>3, HeadTailProperties, LenProperties DEF TypeOK, ClaimPop
    <3>2. \A i, j \in DOMAIN Tail(Q) : i < j =>
            DeliverEarlierThan(DeliverAfter, Tail(Q)[i], Tail(Q)[j])
      BY <3>1 DEF Ordered
    <3>3. Q' = Tail(Q) /\ DeliverAfter' = DeliverAfter
      BY <2>3 DEF ClaimPop
    <3>4. QED
      BY <3>2, <3>3 DEF Ordered, DeliverEarlierThan
  <2>4. ASSUME NEW c \in Consumers, NEW m \in Msgs
        PROVE  /\ \A delivered \in BOOLEAN : ClaimPutWip(c, m, delivered) => QSorted'
               /\ (Forget(c, m) \/ Ack(c, m) \/ Heartbeat(c, m) \/ ReturnTakeWip(c, m)) => QSorted'
    BY <2>a DEF ClaimPutWip, Forget, Ack, Heartbeat, ReturnTakeWip
  <2>5. ASSUME NEW m \in Msgs, ReturnPutQ(m) PROVE QSorted'
    BY <2>5, <2>b DEF ReturnPutQ
  <2>6. CASE ReturnDeadPutQ
    BY <2>6, <2>b DEF ReturnDeadPutQ
  <2>7. ASSUME NEW prefix \in Prefixes, DeleteQ(prefix) PROVE QSorted'
    <3>1. /\ \A i, j \in DOMAIN Q' : i < j =>
               \E k, l \in DOMAIN Q : k < l /\ Q[k] = Q'[i] /\ Q[l] = Q'[j]
          /\ DeliverAfter' = DeliverAfter
      BY <2>7 DEF DeleteQ, QKeep
    <3>2. QED
      BY <3>1 DEF Ordered, DeliverEarlierThan
  <2>8. ASSUME NEW prefix \in Prefixes, DeleteWip(prefix) PROVE QSorted'
    BY <2>8, <2>a DEF DeleteWip
  <2>9. QED
    BY <2>1, <2>2, <2>3, <2>4, <2>5, <2>6, <2>7, <2>8 DEF Next
<1>3. QED
  BY <1>1, <1>2, Typing, PTL DEF Spec
===============================================================================
