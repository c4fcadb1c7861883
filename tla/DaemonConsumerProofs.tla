-------------------------- MODULE DaemonConsumerProofs --------------------------
(***************************************************************************)
(* Theorems about DaemonConsumer, for any number of messages, processors   *)
(* and faults, with either broker.                                         *)
(***************************************************************************)
EXTENDS DaemonConsumer, FiniteSetTheorems, TLAPS

Tokens == [msg : Messages, cmd : {"ack", "retry", "heartbeat"}]
OrNone == Messages \cup {None}

\* What every part of the daemon may hold; who works on a message, or answers one, has one.
BrokerTyped ==
  /\ mq \in {"capimq", "amqp"}
  /\ broker \in [Messages -> {"queued", "out", "acked"}]
  /\ link \in [n : Nat, at : {"closed", "open", "dead"}]
  /\ handling \in [Messages -> Nat]
ListenerTyped ==
  /\ listener \in [at : {"loop", "claim", "push", "count", "done"}, msg : OrNone]
  /\ listener.at = "push" => listener.msg \in Messages
  /\ incoming \in Seq(Messages)
  /\ active \in Int
MainTyped ==
  /\ main \in [at : {"select", "slot", "stopListener", "waitWorkers", "stopAcknowledger",
                     "exited", "panicked"}, msg : OrNone]
  /\ main.at = "slot" => main.msg \in Messages
SlotsTyped ==
  /\ slot \in [Slots -> [at : {"free", "work", "answer"}, msg : OrNone,
                         cmd : {None, "ack", "retry", "heartbeat"}]]
  /\ \A s \in Slots : slot[s].at # "free" => slot[s].msg \in Messages
  /\ \A s \in Slots : slot[s].at = "answer" => slot[s].cmd \in {"ack", "retry"}
AnswersTyped ==
  /\ outgoing \in Seq(Tokens)
  /\ acknowledger \in [at : {"loop", "token", "done"}, token : Tokens \cup {None}]
  /\ acknowledger.at = "token" => acknowledger.token \in Tokens
Typed == BrokerTyped /\ ListenerTyped /\ MainTyped /\ SlotsTyped /\ AnswersTyped

\* Who says that a message is done is right: a worker with its answer, the answer on its way,
\* the broker.
WorkersAreTrue ==
  \A s \in Slots : slot[s].at = "answer" /\ slot[s].cmd = "ack" => slot[s].msg \in done
TokensAreTrue ==
  \A i \in 1..Len(outgoing) : outgoing[i].cmd = "ack" => outgoing[i].msg \in done
SendingIsTrue ==
  acknowledger.at = "token" /\ acknowledger.token.cmd = "ack" => acknowledger.token.msg \in done
AnswersAreTrue == WorkersAreTrue /\ TokensAreTrue /\ SendingIsTrue /\ AckedMeansDone

\* Only CapiMQ gets heartbeats.
NoHeartbeats ==
  mq = "amqp" =>
    /\ \A i \in 1..Len(outgoing) : outgoing[i].cmd # "heartbeat"
    /\ acknowledger.at = "token" => acknowledger.token.cmd # "heartbeat"

Working == {s \in Slots : slot[s].at = "work"}

\* activeProcessors is the number of messages in the channel, with main or with a worker;
\* CapiMQ's listener counts its message before it puts it into the channel, the AMQP
\* listener afterwards.  Nobody claims, or is to be counted yet, when the pool is full.
Counted ==
  /\ active + Count(listener.at = "count") =
       Len(incoming) + Count(main.at = "slot") + Cardinality(Working)
         + Count(mq = "capimq" /\ listener.at = "push")
  /\ mq = "capimq" => listener.at # "count"
  /\ active <= Pool
  /\ listener.at = "claim" \/ (mq = "amqp" /\ listener.at \in {"push", "count"}) =>
       active < Pool

\* A message that an AMQP broker takes for delivered was delivered by the session that is
\* open, and the map has that delivery, unless its answer was lost.
OutIsOfSession ==
  mq = "amqp" =>
    /\ link.at = "open" => link.n > 0
    /\ \A m \in Messages \ (dropped \cup invalid) :
         broker[m] = "out" => link.at = "open" /\ handling[m] = link.n

\* Somebody has m and will hand it on.
HeldBy(m) ==
  \/ listener.at = "push" /\ listener.msg = m
  \/ main.at = "slot" /\ main.msg = m
  \/ \E i \in 1..Len(incoming) : incoming[i] = m
  \/ \E s \in Slots : slot[s].at # "free" /\ slot[s].msg = m
  \/ \E i \in 1..Len(outgoing) : outgoing[i].msg = m
  \/ acknowledger.at = "token" /\ acknowledger.token.msg = m
OutIsHandled ==
  mq = "amqp" /\ Running =>
    \A m \in Messages \ (dropped \cup invalid) : broker[m] = "out" => HeldBy(m)

IInv ==
  Typed /\ AnswersAreTrue /\ NoHeartbeats /\ Counted /\ OutIsOfSession /\ OutIsHandled

-------------------------------------------------------------------------------
\* Types.

LEMMA RequeuedTyped ==
  ASSUME BrokerTyped
  PROVE  /\ Requeued \in [Messages -> {"queued", "out", "acked"}]
         /\ \A m \in Messages : /\ Requeued[m] # "out"
                                /\ Requeued[m] = "acked" => broker[m] = "acked"
BY DEF BrokerTyped, Requeued

LEMMA SettledTyped ==
  ASSUME BrokerTyped, NEW m \in Messages, NEW cmd \in {"ack", "retry", "heartbeat"}
  PROVE  /\ Settled(m, cmd) \in [Messages -> {"queued", "out", "acked"}]
         /\ \A q \in Messages : Settled(m, cmd)[q] = "acked" =>
              broker[q] = "acked" \/ (q = m /\ cmd = "ack")
         /\ \A q \in Messages : Settled(m, cmd)[q] = "out" => broker[q] = "out"
         /\ cmd # "heartbeat" => Settled(m, cmd)[m] # "out"
BY DEF BrokerTyped, Settled, Effect

LEMMA LinkTyped ==
  ASSUME BrokerTyped, NEW at \in {"closed", "open", "dead"}
  PROVE  /\ [link EXCEPT !.at = at] \in [n : Nat, at : {"closed", "open", "dead"}]
         /\ [link EXCEPT !.at = at].at = at /\ [link EXCEPT !.at = at].n = link.n
BY DEF BrokerTyped

LEMMA CloseLinkTyped ==
  ASSUME BrokerTyped, CloseLink, UNCHANGED <<mq, handling>>
  PROVE  BrokerTyped'
BY RequeuedTyped, LinkTyped DEF BrokerTyped, CloseLink

LEMMA TypedKept ==
  ASSUME Typed, [Next]_vars
  PROVE  Typed'
<1> USE DEF Typed
<1>1. CASE ListenerLoop
  <2> DEFINE L == [at : {"loop", "claim", "push", "count", "done"}, msg : OrNone]
  <2>1. /\ [listener EXCEPT !.at = "done"] \in L /\ [listener EXCEPT !.at = "done"].at = "done"
        /\ [listener EXCEPT !.at = "claim"] \in L /\ [listener EXCEPT !.at = "claim"].at = "claim"
    BY DEF ListenerTyped
  <2>2. ListenerTyped'
    BY <1>1, <2>1 DEF ListenerTyped, ListenerLoop
  <2>3. BrokerTyped'
    BY <1>1 DEF BrokerTyped, ListenerLoop, ListenerStatic
  <2>4. QED
    BY <1>1, <2>2, <2>3 DEF ListenerLoop, ListenerStatic, MainTyped, SlotsTyped, AnswersTyped
<1>2. CASE Claim
  <2>1. BrokerTyped'
    BY <1>2 DEF BrokerTyped, Claim, ListenerStatic
  <2>2. ListenerTyped'
    BY <1>2 DEF ListenerTyped, Claim, GoOn, OrNone
  <2>3. QED
    BY <1>2, <2>1, <2>2 DEF Claim, ListenerStatic, MainTyped, SlotsTyped, AnswersTyped
<1>3. CASE Receive
  <2>1. link' \in [n : Nat, at : {"closed", "open", "dead"}]
    BY <1>3, LinkTyped DEF BrokerTyped, Receive
  <2>2. broker' \in [Messages -> {"queued", "out", "acked"}]
    BY <1>3 DEF BrokerTyped, Receive
  <2>3. handling' \in [Messages -> Nat]
    BY <1>3 DEF BrokerTyped, Receive, Register
  <2>4. ListenerTyped'
    BY <1>3 DEF ListenerTyped, Receive, GoOn, OrNone
  <2>5. QED
    BY <1>3, <2>1, <2>2, <2>3, <2>4
    DEF Receive, ListenerStatic, BrokerTyped, MainTyped, SlotsTyped, AnswersTyped
<1>4. CASE Push \/ CountProcessor
  <2> DEFINE L == [at : {"loop", "claim", "push", "count", "done"}, msg : OrNone]
  <2>1. [listener EXCEPT !.at = "count"] \in L /\ [listener EXCEPT !.at = "count"].at = "count"
    BY DEF ListenerTyped
  <2>2. ListenerTyped'
    BY <1>4, <2>1 DEF ListenerTyped, Push, CountProcessor, GoOn, OrNone
  <2>3. QED
    BY <1>4, <2>2 DEF Push, CountProcessor, ListenerStatic, BrokerTyped, MainTyped, SlotsTyped,
                      AnswersTyped
<1>5. CASE TakeMessage
  <2>1. Head(incoming) \in Messages /\ Tail(incoming) \in Seq(Messages)
    BY <1>5 DEF TakeMessage, ListenerTyped
  <2>2. QED
    BY <1>5, <2>1 DEF TakeMessage, MainStatic, BrokerTyped, ListenerTyped, MainTyped, SlotsTyped,
                      AnswersTyped, OrNone
<1>6. CASE StartWorker
  <2>1. SlotsTyped'
    BY <1>6 DEF StartWorker, SlotsTyped, MainTyped, OrNone
  <2>2. MainTyped'
    BY <1>6 DEF StartWorker, MainTyped, OrNone
  <2>3. QED
    BY <1>6, <2>1, <2>2 DEF StartWorker, MainStatic, BrokerTyped, ListenerTyped, AnswersTyped
<1>7. CASE Signal \/ StopListener \/ WaitWorkers \/ StopAcknowledger
  <2> DEFINE at == main'.at
  <2>1. MainTyped'
    BY <1>7 DEF Signal, StopListener, WaitWorkers, StopAcknowledger, MainTyped
  <2>2. CloseLink \/ UNCHANGED <<link, broker>>
    BY <1>7 DEF Signal, StopListener, WaitWorkers, StopAcknowledger
  <2>3. UNCHANGED <<mq, handling, listener, incoming, active, slot, outgoing, acknowledger>>
    BY <1>7 DEF Signal, StopListener, WaitWorkers, StopAcknowledger, MainStatic
  <2>4. BrokerTyped'
    BY <2>2, <2>3, CloseLinkTyped DEF BrokerTyped
  <2>5. QED
    BY <2>1, <2>3, <2>4 DEF ListenerTyped, SlotsTyped, AnswersTyped
<1>8. ASSUME NEW s \in Slots, Heartbeat(s) \/ Finish(s) \/ Answer(s)
      PROVE  Typed'
  <2>1. UNCHANGED <<mq, broker, link, handling, listener, incoming, main, acknowledger>>
    BY <1>8 DEF Heartbeat, Finish, Answer, WorkerStatic
  <2>2. active' \in Int
    BY <1>8 DEF Heartbeat, Finish, Answer, ListenerTyped
  <2>3. SlotsTyped'
    <3>1. CASE Heartbeat(s)
      BY <3>1 DEF Heartbeat, SlotsTyped, OrNone
    <3>2. CASE Finish(s)
      BY <3>2 DEF Finish, SlotsTyped, OrNone
    <3>3. CASE Answer(s)
      BY <3>3 DEF Answer, SlotsTyped, Free, OrNone
    <3>4. QED
      BY <1>8, <3>1, <3>2, <3>3
  <2>4. AnswersTyped'
    <3>1. CASE Finish(s)
      BY <2>1, <3>1 DEF Finish, AnswersTyped, WorkerStatic
    <3>2. CASE Heartbeat(s) \/ Answer(s)
      <4>1. PICK cmd \in {"ack", "retry", "heartbeat"} :
              outgoing' = Append(outgoing, Token(slot[s].msg, cmd))
        BY <3>2 DEF Heartbeat, Answer, SlotsTyped
      <4>2. Token(slot[s].msg, cmd) \in Tokens
        BY <3>2 DEF Heartbeat, Answer, SlotsTyped, Token, Tokens
      <4>3. QED
        BY <2>1, <4>1, <4>2 DEF AnswersTyped
    <3>3. QED
      BY <1>8, <3>1, <3>2
  <2>5. QED
    BY <2>1, <2>2, <2>3, <2>4 DEF BrokerTyped, ListenerTyped, MainTyped
<1>9. CASE TakeToken \/ LeaveTokens \/ SendToken \/ SendDisposition
  <2>1. UNCHANGED <<mq, link, listener, incoming, active, main, slot>>
    BY <1>9 DEF TakeToken, LeaveTokens, SendToken, SendDisposition, AckStatic
  <2>2. AnswersTyped'
    <3>1. CASE TakeToken
      <4>1. Head(outgoing) \in Tokens /\ Tail(outgoing) \in Seq(Tokens)
        BY <3>1 DEF TakeToken, AnswersTyped
      <4>2. QED
        BY <3>1, <4>1 DEF TakeToken, AnswersTyped
    <3>2. CASE LeaveTokens
      BY <3>2 DEF LeaveTokens, AnswersTyped
    <3>3. CASE SendToken \/ SendDisposition
      BY <3>3 DEF SendToken, SendDisposition, AckLoop, AnswersTyped
    <3>4. QED
      BY <1>9, <3>1, <3>2, <3>3
  <2>3. BrokerTyped'
    <3>1. CASE TakeToken \/ LeaveTokens
      BY <2>1, <3>1 DEF TakeToken, LeaveTokens, BrokerTyped
    <3>2. CASE SendToken \/ SendDisposition
      <4>1. /\ acknowledger.token.msg \in Messages
            /\ acknowledger.token.cmd \in {"ack", "retry", "heartbeat"}
        BY <3>2 DEF SendToken, SendDisposition, AnswersTyped, Tokens
      <4>2. \/ UNCHANGED broker
            \/ broker' = Settled(acknowledger.token.msg, acknowledger.token.cmd)
        BY <3>2 DEF SendToken, SendDisposition
      <4>3. handling' \in {handling, [handling EXCEPT ![acknowledger.token.msg] = 0]}
        BY <3>2 DEF SendToken, SendDisposition
      <4>4. QED
        BY <2>1, <4>1, <4>2, <4>3, SettledTyped DEF BrokerTyped
    <3>3. QED
      BY <1>9, <3>1, <3>2
  <2>4. QED
    BY <2>1, <2>2, <2>3 DEF ListenerTyped, MainTyped, SlotsTyped
<1>10. CASE LinkDies \/ \E m \in Messages : Expire(m)
  <2>1. UNCHANGED <<mq, handling, listener, incoming, active, main, slot, outgoing, acknowledger>>
    BY <1>10 DEF LinkDies, Expire
  <2>2. link' \in {link, [link EXCEPT !.at = "dead"]}
    BY <1>10 DEF LinkDies, Expire
  <2>3. broker' \in [Messages -> {"queued", "out", "acked"}]
    BY <1>10, RequeuedTyped DEF LinkDies, Expire, BrokerTyped
  <2>4. BrokerTyped'
    BY <2>1, <2>2, <2>3, LinkTyped DEF BrokerTyped
  <2>5. QED
    BY <2>1, <2>4 DEF ListenerTyped, MainTyped, SlotsTyped, AnswersTyped
<1>11. CASE UNCHANGED vars
  BY <1>11 DEF vars, BrokerTyped, ListenerTyped, MainTyped, SlotsTyped, AnswersTyped
<1>12. QED
  BY <1>1, <1>2, <1>3, <1>4, <1>5, <1>6, <1>7, <1>8, <1>9, <1>10, <1>11
  DEF Next, Listener, Main, Worker, Acknowledger

-------------------------------------------------------------------------------
\* Answers.

\* A slot that becomes free takes its answer to the channel.
LEMMA AnswerIsTrue ==
  ASSUME Typed, WorkersAreTrue, TokensAreTrue, NEW s \in Slots, Heartbeat(s) \/ Answer(s)
  PROVE  TokensAreTrue'
<1>1. PICK cmd : /\ outgoing' = Append(outgoing, Token(slot[s].msg, cmd))
                 /\ cmd = "ack" => slot[s].msg \in done
  BY DEF Heartbeat, Answer, WorkersAreTrue
<1>2. done' = done
  BY DEF Heartbeat, Answer, WorkerStatic
<1>3. outgoing \in Seq(Tokens)
  BY DEF Typed, AnswersTyped
<1>4. ASSUME NEW i \in 1..Len(outgoing'), outgoing'[i].cmd = "ack"
      PROVE  outgoing'[i].msg \in done
  <2>1. CASE i = Len(outgoing) + 1
    BY <1>1, <1>3, <1>4, <2>1 DEF Token
  <2>2. CASE i # Len(outgoing) + 1
    <3>1. i \in 1..Len(outgoing) /\ outgoing'[i] = outgoing[i]
      BY <1>1, <1>3, <1>4, <2>2
    <3>2. QED
      BY <1>4, <3>1 DEF TokensAreTrue
  <2>3. QED
    BY <2>1, <2>2
<1>5. QED
  BY <1>2, <1>4 DEF TokensAreTrue

\* An answer goes to the acknowledger.
LEMMA TakenIsTrue ==
  ASSUME Typed, TokensAreTrue, TakeToken
  PROVE  TokensAreTrue' /\ SendingIsTrue'
<1>1. outgoing \in Seq(Tokens) /\ outgoing # <<>>
  BY DEF Typed, AnswersTyped, TakeToken
<1>2. /\ \A i \in 1..Len(Tail(outgoing)) :
           i + 1 \in 1..Len(outgoing) /\ Tail(outgoing)[i] = outgoing[i + 1]
      /\ Head(outgoing) = outgoing[1] /\ 1 \in 1..Len(outgoing)
  BY <1>1
<1>3. done' = done /\ outgoing' = Tail(outgoing) /\ acknowledger'.token = Head(outgoing)
  BY DEF TakeToken, AckStatic
<1>4. QED
  BY <1>2, <1>3 DEF TokensAreTrue, SendingIsTrue

LEMMA AnswersAreTrueKept ==
  ASSUME Typed, AnswersAreTrue, [Next]_vars
  PROVE  AnswersAreTrue'
<1> USE DEF AnswersAreTrue
<1>1. CASE Listener
  <2>1. UNCHANGED <<mq, invalid, slot, outgoing, acknowledger, done>>
    BY <1>1 DEF Listener, ListenerLoop, Claim, Receive, Push, CountProcessor, ListenerStatic,
           history
  <2>2. \A m \in Messages : broker'[m] = "acked" =>
         broker[m] = "acked" \/ (mq = "amqp" /\ m \in invalid)
    BY <1>1 DEF Listener, ListenerLoop, Claim, Receive, Push, CountProcessor, Typed, BrokerTyped
  <2>3. QED
    BY <2>1, <2>2 DEF WorkersAreTrue, TokensAreTrue, SendingIsTrue, AckedMeansDone
<1>2. CASE Main \/ Signal \/ LinkDies \/ \E m \in Messages : Expire(m)
  <2>1. UNCHANGED <<mq, invalid, outgoing, acknowledger, done>>
    BY <1>2 DEF Main, TakeMessage, StartWorker, Signal, StopListener, WaitWorkers, StopAcknowledger,
                MainStatic, LinkDies, Expire, history
  <2>2. \A m \in Messages : broker'[m] = "acked" => broker[m] = "acked"
    BY <1>2, RequeuedTyped DEF Main, TakeMessage, StartWorker, Signal, StopListener, WaitWorkers,
                StopAcknowledger, CloseLink, LinkDies, Expire, Typed, BrokerTyped
  <2>3. WorkersAreTrue'
    <3>1. CASE StartWorker
      BY <2>1, <3>1 DEF StartWorker, WorkersAreTrue, Typed, SlotsTyped
    <3>2. CASE ~StartWorker
      BY <1>2, <2>1, <3>2 DEF Main, TakeMessage, Signal, StopListener, WaitWorkers,
                StopAcknowledger, LinkDies, Expire, WorkersAreTrue
    <3>3. QED
      BY <3>1, <3>2
  <2>4. QED
    BY <2>1, <2>2, <2>3 DEF TokensAreTrue, SendingIsTrue, AckedMeansDone
<1>3. ASSUME NEW s \in Slots, Heartbeat(s) \/ Answer(s)
      PROVE  AnswersAreTrue'
  <2>1. UNCHANGED <<mq, invalid, broker, acknowledger, done>>
    BY <1>3 DEF Heartbeat, Answer, WorkerStatic
  <2>2. TokensAreTrue'
    BY <1>3, AnswerIsTrue
  <2>3. WorkersAreTrue'
    BY <1>3, <2>1 DEF Heartbeat, Answer, Free, WorkersAreTrue, Typed, SlotsTyped
  <2>4. QED
    BY <2>1, <2>2, <2>3 DEF SendingIsTrue, AckedMeansDone
<1>4. ASSUME NEW s \in Slots, Finish(s)
      PROVE  AnswersAreTrue'
  <2>1. UNCHANGED <<mq, invalid, broker, acknowledger, outgoing>> /\ done \subseteq done'
    BY <1>4 DEF Finish, WorkerStatic
  <2>2. WorkersAreTrue'
    BY <1>4, <2>1 DEF Finish, WorkersAreTrue, Typed, SlotsTyped
  <2>3. QED
    BY <2>1, <2>2 DEF TokensAreTrue, SendingIsTrue, AckedMeansDone
<1>5. CASE TakeToken
  BY <1>5, TakenIsTrue DEF TakeToken, AckStatic, WorkersAreTrue, AckedMeansDone
<1>6. CASE LeaveTokens
  BY <1>6 DEF LeaveTokens, AckStatic, WorkersAreTrue, TokensAreTrue, SendingIsTrue, AckedMeansDone
<1>7. CASE SendToken \/ SendDisposition
  <2>1. /\ UNCHANGED <<mq, invalid, slot, outgoing, done>>
        /\ acknowledger.at = "token" /\ acknowledger'.at = "loop"
    BY <1>7 DEF SendToken, SendDisposition, AckStatic, AckLoop
  <2>2. acknowledger.token \in Tokens
    BY <2>1 DEF Typed, AnswersTyped
  <2>3. broker' = broker \/ broker' = Settled(acknowledger.token.msg, acknowledger.token.cmd)
    BY <1>7 DEF SendToken, SendDisposition
  <2>4. AckedMeansDone'
    BY <2>1, <2>2, <2>3, SettledTyped DEF Typed, Tokens, SendingIsTrue, AckedMeansDone
  <2>5. QED
    BY <2>1, <2>4 DEF WorkersAreTrue, TokensAreTrue, SendingIsTrue
<1>8. CASE UNCHANGED vars
  BY <1>8 DEF vars, history, WorkersAreTrue, TokensAreTrue, SendingIsTrue, AckedMeansDone
<1>9. QED
  BY <1>1, <1>2, <1>3, <1>4, <1>5, <1>6, <1>7, <1>8 DEF Next, Worker, Acknowledger

-------------------------------------------------------------------------------
\* The counter of active processors.

LEMMA WorkingCounts ==
  /\ IsFiniteSet(Slots) /\ Cardinality(Slots) = Pool /\ Pool \in Nat
  /\ IsFiniteSet(Working) /\ Cardinality(Working) \in 0..Pool
  /\ Cardinality(Working) = Pool => Working = Slots
<1>1. Pool \in Nat /\ IsFiniteSet(Slots) /\ Cardinality(Slots) = Pool
  BY ConsumerAssumption, FS_Interval DEF Slots
<1>2. Working \subseteq Slots
  BY DEF Working
<1>3. QED
  BY <1>1, <1>2, FS_Subset, FS_CardinalityType

\* Counting is done when nobody starts or ends a batch and no message moves.
LEMMA CountedStays ==
  ASSUME Typed, Counted, UNCHANGED <<mq, active, listener, incoming, main, Working>>
  PROVE  Counted'
BY DEF Counted, Count

LEMMA CountedKept ==
  ASSUME Typed, Counted, [Next]_vars
  PROVE  Counted'
<1>0. /\ Pool \in Nat /\ Cardinality(Working) \in 0..Pool /\ Len(incoming) \in Nat
      /\ active \in Int /\ mq \in {"capimq", "amqp"}
  BY WorkingCounts DEF Typed, BrokerTyped, ListenerTyped
<1>1. CASE ListenerLoop
  <2>1. UNCHANGED <<mq, active, incoming, main, Working>>
    BY <1>1 DEF ListenerLoop, ListenerStatic, Working
  <2>2. /\ listener.at = "loop"
        /\ \/ listener' = listener
           \/ listener'.at = "done"
           \/ listener'.at = "claim" /\ active # Pool
    BY <1>1 DEF ListenerLoop, HasProcessor, Typed, ListenerTyped
  <2>3. QED
    BY <1>0, <2>1, <2>2 DEF Counted, Count
<1>2. CASE Claim
  <2>1. UNCHANGED <<mq, incoming, main, Working>>
    BY <1>2 DEF Claim, ListenerStatic, Working
  <2>2. /\ mq = "capimq" /\ listener.at = "claim"
        /\ \/ listener'.at = "push" /\ active' = active + 1
           \/ listener'.at = "loop" /\ active' = active
    BY <1>2 DEF Claim, GoOn
  <2>3. QED
    BY <1>0, <2>1, <2>2 DEF Counted, Count
<1>3. CASE Receive
  <2>1. UNCHANGED <<mq, active, incoming, main, Working>>
    BY <1>3 DEF Receive, ListenerStatic, Working
  <2>2. mq = "amqp" /\ listener.at = "claim" /\ listener'.at \in {"loop", "push"}
    BY <1>3 DEF Receive, GoOn
  <2>3. QED
    BY <1>0, <2>1, <2>2 DEF Counted, Count
<1>4. CASE Push
  <2>1. UNCHANGED <<mq, active, main, Working>>
    BY <1>4 DEF Push, ListenerStatic, Working
  <2>2. listener.at = "push" /\ listener'.at = IF mq = "amqp" THEN "count" ELSE "loop"
    BY <1>4 DEF Push, GoOn, Typed, ListenerTyped
  <2>3. Len(incoming') = Len(incoming) + 1
    BY <1>4, <2>2 DEF Push, Typed, ListenerTyped
  <2>4. QED
    BY <1>0, <2>1, <2>2, <2>3 DEF Counted, Count
<1>5. CASE CountProcessor
  <2>1. UNCHANGED <<mq, incoming, main, Working>>
    BY <1>5 DEF CountProcessor, ListenerStatic, Working
  <2>2. listener.at = "count" /\ listener'.at = "loop" /\ active' = active + 1
    BY <1>5 DEF CountProcessor, GoOn
  <2>3. QED
    BY <1>0, <2>1, <2>2 DEF Counted, Count
<1>6. CASE TakeMessage
  <2>1. UNCHANGED <<mq, active, listener, Working>>
    BY <1>6 DEF TakeMessage, MainStatic, Working
  <2>2. main.at = "select" /\ main'.at = "slot" /\ Len(incoming') = Len(incoming) - 1
    BY <1>6 DEF TakeMessage, Typed, ListenerTyped
  <2>3. QED
    BY <1>0, <2>1, <2>2 DEF Counted, Count
<1>7. CASE StartWorker
  <2>1. UNCHANGED <<mq, active, listener, incoming>>
    BY <1>7 DEF StartWorker, MainStatic
  <2>2. main.at = "slot" /\ main'.at = "select"
    BY <1>7 DEF StartWorker
  <2>3. PICK s \in Slots :
          /\ slot[s] = Free
          /\ slot' = [slot EXCEPT ![s] = [at |-> "work", msg |-> main.msg, cmd |-> None]]
    BY <1>7 DEF StartWorker
  <2>4. Working' = Working \cup {s} /\ s \notin Working
    BY <2>3 DEF Working, Free, Typed, SlotsTyped
  <2>5. Cardinality(Working') = Cardinality(Working) + 1
    BY <2>4, WorkingCounts, FS_AddElement
  <2>6. QED
    BY <1>0, <2>1, <2>2, <2>5 DEF Counted, Count
<1>8. CASE Signal \/ StopListener \/ WaitWorkers \/ StopAcknowledger
  <2>1. UNCHANGED <<mq, active, listener, incoming, Working>>
    BY <1>8 DEF Signal, StopListener, WaitWorkers, StopAcknowledger, MainStatic, Working
  <2>2. main.at # "slot" /\ main'.at # "slot"
    BY <1>8 DEF Signal, StopListener, WaitWorkers, StopAcknowledger, Typed, MainTyped
  <2>3. QED
    BY <1>0, <2>1, <2>2 DEF Counted, Count
<1>9. ASSUME NEW s \in Slots, Heartbeat(s) \/ Answer(s)
      PROVE  Counted'
  <2>1. Working' = Working
    BY <1>9 DEF Heartbeat, Answer, Working, Free, Typed, SlotsTyped
  <2>2. QED
    BY <1>9, <2>1, CountedStays DEF Heartbeat, Answer, WorkerStatic
<1>10. ASSUME NEW s \in Slots, Finish(s)
       PROVE  Counted'
  <2>1. UNCHANGED <<mq, listener, incoming, main>> /\ active' = active - 1
    BY <1>10 DEF Finish, WorkerStatic
  <2>2. Working' = Working \ {s} /\ s \in Working
    BY <1>10 DEF Finish, Working, Typed, SlotsTyped
  <2>3. Cardinality(Working') = Cardinality(Working) - 1
    BY <2>2, WorkingCounts, FS_RemoveElement
  <2>4. QED
    BY <1>0, <2>1, <2>3 DEF Counted, Count
<1>11. CASE Acknowledger \/ LinkDies \/ (\E m \in Messages : Expire(m)) \/ UNCHANGED vars
  <2>1. UNCHANGED <<mq, active, listener, incoming, main, slot>>
    BY <1>11 DEF Acknowledger, TakeToken, LeaveTokens, SendToken, SendDisposition, AckStatic,
                 LinkDies, Expire, vars
  <2>2. QED
    BY <2>1, CountedStays DEF Working
<1>12. QED
  BY <1>1, <1>2, <1>3, <1>4, <1>5, <1>6, <1>7, <1>8, <1>9, <1>10, <1>11
  DEF Next, Listener, Main, Worker

-------------------------------------------------------------------------------
\* What an AMQP broker takes for delivered.

LEMMA NoHeartbeatsKept ==
  ASSUME Typed, NoHeartbeats, [Next]_vars
  PROVE  NoHeartbeats'
<1> SUFFICES ASSUME mq = "amqp"
             PROVE  NoHeartbeats'
  <2>1. mq' = mq
    BY DEF Next, Listener, ListenerLoop, Claim, Receive, Push, CountProcessor, ListenerStatic, Main,
           Signal, TakeMessage, StartWorker, StopListener, WaitWorkers,
           StopAcknowledger, MainStatic,
           Worker, Heartbeat, Finish, Answer, WorkerStatic, Acknowledger, TakeToken, LeaveTokens,
           SendToken, SendDisposition, AckStatic, LinkDies, Expire, vars
  <2>2. QED
    BY <2>1 DEF NoHeartbeats
<1>0. outgoing \in Seq(Tokens)
  BY DEF Typed, AnswersTyped
<1>1. CASE UNCHANGED <<outgoing, acknowledger>>
  BY <1>1 DEF NoHeartbeats
<1>2. ASSUME NEW s \in Slots, Answer(s)
      PROVE  NoHeartbeats'
  <2>1. /\ outgoing' = Append(outgoing, Token(slot[s].msg, slot[s].cmd))
        /\ slot[s].cmd # "heartbeat" /\ acknowledger' = acknowledger
    BY <1>2 DEF Answer, WorkerStatic, Typed, SlotsTyped
  <2>2. ASSUME NEW i \in 1..Len(outgoing') PROVE outgoing'[i].cmd # "heartbeat"
    <3>1. CASE i = Len(outgoing) + 1
      BY <1>0, <2>1, <3>1 DEF Token
    <3>2. CASE i # Len(outgoing) + 1
      <4>1. i \in 1..Len(outgoing) /\ outgoing'[i] = outgoing[i]
        BY <1>0, <2>1, <2>2, <3>2
      <4>2. QED
        BY <4>1 DEF NoHeartbeats
    <3>3. QED
      BY <3>1, <3>2
  <2>3. QED
    BY <2>1, <2>2 DEF NoHeartbeats
<1>3. CASE TakeToken
  <2>1. /\ outgoing # <<>> /\ outgoing' = Tail(outgoing)
        /\ acknowledger'.token = Head(outgoing)
    BY <1>3 DEF TakeToken
  <2>2. /\ \A i \in 1..Len(Tail(outgoing)) :
             i + 1 \in 1..Len(outgoing) /\ Tail(outgoing)[i] = outgoing[i + 1]
        /\ Head(outgoing) = outgoing[1] /\ 1 \in 1..Len(outgoing)
    BY <1>0, <2>1
  <2>3. QED
    BY <2>1, <2>2 DEF NoHeartbeats
<1>4. CASE LeaveTokens \/ SendToken \/ SendDisposition
  <2>1. acknowledger'.at # "token" /\ outgoing' \in {outgoing, <<>>}
    BY <1>4 DEF LeaveTokens, SendToken, SendDisposition, AckStatic, AckLoop
  <2>2. QED
    BY <2>1 DEF NoHeartbeats
<1>5. QED
  <2>1. ASSUME NEW s \in Slots, Worker(s)
        PROVE  Answer(s) \/ UNCHANGED <<outgoing, acknowledger>>
    BY <2>1 DEF Worker, Heartbeat, Finish, WorkerStatic
  <2>2. ASSUME Listener \/ Main \/ Signal \/ LinkDies \/ (\E m \in Messages : Expire(m))
                 \/ UNCHANGED vars
        PROVE  UNCHANGED <<outgoing, acknowledger>>
    BY <2>2 DEF Listener, ListenerLoop, Claim, Receive, Push, CountProcessor, ListenerStatic, Main,
           Signal, TakeMessage, StartWorker, StopListener, WaitWorkers,
           StopAcknowledger, MainStatic,
           LinkDies, Expire, vars
  <2>3. QED
    BY <1>1, <1>2, <1>3, <1>4, <2>1, <2>2 DEF Next, Acknowledger

LEMMA OutIsOfSessionKept ==
  ASSUME Typed, NoHeartbeats, OutIsOfSession, [Next]_vars
  PROVE  OutIsOfSession'
<1>0. mq' = mq /\ invalid' = invalid /\ dropped \subseteq dropped'
  BY DEF Next, Listener, ListenerLoop, Claim, Receive, Push, CountProcessor, ListenerStatic, Main,
         Signal, TakeMessage, StartWorker, StopListener, WaitWorkers, StopAcknowledger, MainStatic,
         Worker, Heartbeat, Finish, Answer, WorkerStatic, Acknowledger, TakeToken, LeaveTokens,
         SendToken, SendDisposition, AckStatic, LinkDies, Expire, vars, history
<1> SUFFICES ASSUME mq = "amqp"
             PROVE  /\ link'.at = "open" => link'.n > 0
                    /\ \A m \in Messages \ (dropped' \cup invalid) :
                         broker'[m] = "out" => link'.at = "open" /\ handling'[m] = link'.n
  BY <1>0 DEF OutIsOfSession
<1> DEFINE Good == Messages \ (dropped \cup invalid)
<1>a. /\ link.at = "open" => link.n > 0
      /\ \A m \in Good : broker[m] = "out" => link.at = "open" /\ handling[m] = link.n
  BY DEF OutIsOfSession
<1>b. Messages \ (dropped' \cup invalid) \subseteq Good
  BY <1>0
<1> HIDE DEF Good
<1>1. CASE UNCHANGED <<broker, link, handling>>
  BY <1>1, <1>a, <1>b
<1>2. CASE \A m \in Messages : broker'[m] # "out"
  <2>1. link'.at = "open" => link'.n > 0
    <3>1. CASE ListenerLoop
      BY <1>a, <3>1 DEF ListenerLoop, Typed, BrokerTyped
    <3>2. CASE ~ListenerLoop
      <4>1. link' = link \/ \E at \in {"closed", "dead"} : link' = [link EXCEPT !.at = at]
        BY <3>2 DEF Next, Listener, Claim, Receive, Push, CountProcessor, ListenerStatic,
             Main, Signal, TakeMessage, StartWorker, StopListener, WaitWorkers, StopAcknowledger,
             MainStatic, CloseLink, Worker, Heartbeat, Finish, Answer, WorkerStatic, Acknowledger,
             TakeToken, LeaveTokens, SendToken, SendDisposition, AckStatic, LinkDies, Expire, vars
      <4>2. QED
        BY <1>a, <4>1, LinkTyped DEF Typed
    <3>3. QED
      BY <3>1, <3>2
  <2>2. QED
    BY <1>2, <2>1
<1>3. CASE ListenerLoop
  <2>1. UNCHANGED <<broker, handling>>
    BY <1>3 DEF ListenerLoop
  <2>2. CASE link.at = "closed"
    <3>1. link'.at = "open" => link'.n > 0
      BY <1>3, <2>2 DEF ListenerLoop, Typed, BrokerTyped
    <3>2. QED
      BY <1>a, <1>b, <2>1, <2>2, <3>1
  <2>3. CASE link.at # "closed"
    BY <1>1, <1>3, <2>1, <2>3 DEF ListenerLoop
  <2>4. QED
    BY <2>2, <2>3
<1>4. CASE Receive
  <2>1. CASE link.at = "dead"
    <3>1. broker' = broker /\ link' = [link EXCEPT !.at = "closed"]
      BY <1>4, <2>1 DEF Receive
    <3>2. link'.at = "closed"
      BY <3>1, LinkTyped DEF Typed
    <3>3. QED
      BY <1>a, <1>b, <2>1, <3>1, <3>2
  <2>2. CASE link.at = "open"
    <3>1. link' = link
      BY <1>4, <2>2 DEF Receive
    <3>2. ASSUME NEW m \in Good, broker'[m] = "out"
          PROVE  handling'[m] = link.n
      <4>1. CASE UNCHANGED <<broker, handling>>
        BY <1>a, <3>2, <4>1
      <4>2. CASE \E q \in Messages : /\ broker' = [broker EXCEPT ![q] = "out"]
                                     /\ Register(q)
        BY <1>a, <3>2, <4>2 DEF Register, Typed, BrokerTyped, Good
      <4>3. CASE \E q \in Messages : /\ q \in invalid /\ handling' = handling
                                     /\ \E v \in {"acked", "out"} :
                                             broker' = [broker EXCEPT ![q] = v]
        BY <1>a, <3>2, <4>3 DEF Typed, BrokerTyped, Good
      <4>4. QED
        BY <1>4, <2>2, <4>1, <4>2, <4>3 DEF Receive
    <3>3. QED
      BY <1>a, <1>b, <2>2, <3>1, <3>2
  <2>3. QED
    BY <1>4, <2>1, <2>2 DEF Receive
<1>5. CASE SendDisposition
  <2> DEFINE q == acknowledger.token.msg
  <2>1. q \in Messages /\ acknowledger.token.cmd \in {"ack", "retry", "heartbeat"}
    BY <1>5 DEF SendDisposition, Typed, AnswersTyped, Tokens
  <2>2. acknowledger.token.cmd # "heartbeat"
    BY <1>5 DEF SendDisposition, NoHeartbeats
  <2>3. link' = link
    BY <1>5 DEF SendDisposition, AckStatic
  <2>4. \A m \in Messages : broker'[m] = "out" => broker[m] = "out"
    BY <1>5, <2>1, SettledTyped DEF SendDisposition, Typed
  <2>5. \A m \in Messages \ {q} : handling'[m] = handling[m]
    BY <1>5 DEF SendDisposition, Typed, BrokerTyped
  <2>6. ASSUME q \notin dropped', q \notin invalid, broker'[q] = "out"
        PROVE  handling'[q] = handling[q]
    BY <1>5, <1>a, <1>0, <2>1, <2>2, <2>6, SettledTyped DEF SendDisposition, Good, Typed
  <2>7. QED
    BY <1>a, <1>b, <2>1, <2>3, <2>4, <2>5, <2>6 DEF Good
<1>6. CASE CloseLink \/ LinkDies
  BY <1>2, <1>6, RequeuedTyped DEF CloseLink, LinkDies, Typed
<1>7. QED
  <2>1. CASE Listener
    BY <1>1, <1>3, <1>4, <2>1 DEF Listener, Claim, Push, CountProcessor
  <2>2. CASE Main \/ Signal
    BY <1>1, <1>6, <2>2 DEF Main, Signal, TakeMessage, StartWorker, StopListener, WaitWorkers,
                            StopAcknowledger, MainStatic
  <2>3. ASSUME NEW s \in Slots, Worker(s) PROVE UNCHANGED <<broker, link, handling>>
    BY <2>3 DEF Worker, Heartbeat, Finish, Answer, WorkerStatic
  <2>4. CASE Acknowledger
    BY <1>1, <1>5, <2>4 DEF Acknowledger, TakeToken, LeaveTokens, SendToken, AckStatic
  <2>5. CASE UNCHANGED vars
    BY <1>1, <2>5 DEF vars
  <2>6. QED
    BY <1>1, <1>6, <2>1, <2>2, <2>3, <2>4, <2>5 DEF Next, Expire

\* A message that an AMQP broker takes for delivered moves from one hand to the next.
LEMMA HandedOn ==
  ASSUME Typed, NoHeartbeats, OutIsOfSession, [Next]_vars, mq = "amqp", Running',
         NEW m \in Messages, m \notin dropped' \cup invalid, broker[m] = "out",
         broker'[m] = "out", HeldBy(m)
  PROVE  HeldBy(m)'
<1>0. incoming \in Seq(Messages) /\ outgoing \in Seq(Tokens)
  BY DEF Typed, ListenerTyped, AnswersTyped
<1>1. CASE UNCHANGED <<listener, main, incoming, slot, outgoing, acknowledger>>
  BY <1>1 DEF HeldBy
<1>2. CASE Listener
  <2>1. UNCHANGED <<main, slot, outgoing, acknowledger>>
    BY <1>2 DEF Listener, ListenerLoop, Claim, Receive, Push, CountProcessor, ListenerStatic
  <2>2. CASE Push
    <3>1. /\ incoming' = Append(incoming, listener.msg)
          /\ listener.at = "push"
          /\ listener.msg \in Messages
      BY <2>2 DEF Push, Typed, ListenerTyped
    <3>2. /\ Len(incoming') = Len(incoming) + 1 /\ incoming'[Len(incoming) + 1] = listener.msg
          /\ \A i \in 1..Len(incoming) : incoming'[i] = incoming[i]
          /\ Len(incoming) \in Nat
      BY <1>0, <3>1
    <3>3. CASE listener.at = "push" /\ listener.msg = m
      BY <3>2, <3>3 DEF HeldBy
    <3>4. CASE \E i \in 1..Len(incoming) : incoming[i] = m
      BY <3>2, <3>4 DEF HeldBy
    <3>5. QED
      BY <2>1, <3>3, <3>4 DEF HeldBy
  <2>3. CASE ~Push
    <3>1. listener.at # "push" /\ incoming' = incoming
      BY <1>2, <2>3 DEF Listener, ListenerLoop, Claim, Receive, CountProcessor, ListenerStatic
    <3>2. QED
      BY <2>1, <3>1 DEF HeldBy
  <2>4. QED
    BY <2>2, <2>3
<1>3. CASE TakeMessage
  <2>1. UNCHANGED <<listener, slot, outgoing, acknowledger>>
    BY <1>3 DEF TakeMessage, MainStatic
  <2>2. /\ main.at = "select" /\ incoming # <<>> /\ incoming' = Tail(incoming)
        /\ main'.at = "slot" /\ main'.msg = Head(incoming)
    BY <1>3 DEF TakeMessage
  <2>3. ASSUME NEW i \in 1..Len(incoming), incoming[i] = m
        PROVE  HeldBy(m)'
    <3>1. CASE i = 1
      BY <1>0, <2>2, <2>3, <3>1 DEF HeldBy
    <3>2. CASE i # 1
      <4>1. i - 1 \in 1..Len(incoming') /\ incoming'[i - 1] = m
        BY <1>0, <2>2, <2>3, <3>2
      <4>2. QED
        BY <4>1 DEF HeldBy
    <3>3. QED
      BY <3>1, <3>2
  <2>4. QED
    BY <2>1, <2>2, <2>3 DEF HeldBy
<1>4. CASE StartWorker
  <2>1. UNCHANGED <<listener, incoming, outgoing, acknowledger>>
    BY <1>4 DEF StartWorker, MainStatic
  <2>2. PICK s \in Slots :
          /\ slot[s] = Free
          /\ slot' = [slot EXCEPT ![s] = [at |-> "work", msg |-> main.msg, cmd |-> None]]
    BY <1>4 DEF StartWorker
  <2>3. /\ slot'[s].at = "work" /\ slot'[s].msg = main.msg
        /\ \A t \in Slots : slot[t].at # "free" => slot'[t] = slot[t]
    BY <2>2 DEF Free, Typed, SlotsTyped
  <2>4. QED
    BY <2>1, <2>3 DEF HeldBy
<1>5. CASE Signal \/ StopListener \/ WaitWorkers \/ StopAcknowledger
  <2>1. main.at # "slot" /\ UNCHANGED <<listener, incoming, slot, outgoing, acknowledger>>
    BY <1>5 DEF Signal, StopListener, WaitWorkers, StopAcknowledger, MainStatic
  <2>2. QED
    BY <2>1 DEF HeldBy
<1>6. ASSUME NEW s \in Slots, Worker(s)
      PROVE  HeldBy(m)'
  <2>1. UNCHANGED <<listener, main, incoming, acknowledger>>
    BY <1>6 DEF Worker, Heartbeat, Finish, Answer, WorkerStatic
  <2>2. CASE Finish(s)
    <3>1. /\ outgoing' = outgoing
          /\ \A t \in Slots : slot[t].at # "free" =>
               slot'[t].at # "free" /\ slot'[t].msg = slot[t].msg
      BY <2>2 DEF Finish, WorkerStatic, Typed, SlotsTyped
    <3>2. QED
      BY <2>1, <3>1 DEF HeldBy
  <2>3. CASE Answer(s)
    <3>1. /\ outgoing' = Append(outgoing, Token(slot[s].msg, slot[s].cmd))
          /\ \A t \in Slots \ {s} : slot'[t] = slot[t]
      BY <2>3 DEF Answer, Typed, SlotsTyped
    <3>2. /\ Len(outgoing) \in Nat /\ Len(outgoing') = Len(outgoing) + 1
          /\ outgoing'[Len(outgoing) + 1].msg = slot[s].msg
          /\ \A i \in 1..Len(outgoing) : outgoing'[i] = outgoing[i]
      BY <1>0, <3>1 DEF Token
    <3>3. QED
      BY <2>1, <3>1, <3>2 DEF HeldBy
  <2>4. QED
    BY <1>6, <2>2, <2>3 DEF Worker, Heartbeat
<1>7. CASE TakeToken
  <2>1. UNCHANGED <<listener, main, incoming, slot>>
    BY <1>7 DEF TakeToken, AckStatic
  <2>2. /\ acknowledger.at = "loop" /\ outgoing # <<>> /\ outgoing' = Tail(outgoing)
        /\ acknowledger'.at = "token" /\ acknowledger'.token = Head(outgoing)
    BY <1>7 DEF TakeToken
  <2>3. ASSUME NEW i \in 1..Len(outgoing), outgoing[i].msg = m
        PROVE  HeldBy(m)'
    <3>1. CASE i = 1
      BY <1>0, <2>2, <2>3, <3>1 DEF HeldBy
    <3>2. CASE i # 1
      <4>1. i - 1 \in 1..Len(outgoing') /\ outgoing'[i - 1].msg = m
        BY <1>0, <2>2, <2>3, <3>2
      <4>2. QED
        BY <4>1 DEF HeldBy
    <3>3. QED
      BY <3>1, <3>2
  <2>4. QED
    BY <2>1, <2>2, <2>3 DEF HeldBy
<1>8. CASE LeaveTokens
  <2>1. /\ UNCHANGED <<listener, main, incoming, slot>> /\ acknowledger.at = "loop"
        /\ dropped' = dropped \cup {outgoing[i].msg : i \in DOMAIN outgoing}
    BY <1>8 DEF LeaveTokens, AckStatic
  <2>2. \A i \in 1..Len(outgoing) : outgoing[i].msg # m
    BY <1>0, <2>1
  <2>3. QED
    BY <2>1, <2>2 DEF HeldBy
<1>9. CASE SendDisposition
  <2>1. UNCHANGED <<listener, main, incoming, slot, outgoing>>
    BY <1>9 DEF SendDisposition, AckStatic
  <2>2. acknowledger.token.msg # m
    <3>1. SUFFICES ASSUME acknowledger.token.msg = m
                   PROVE  FALSE
      OBVIOUS
    <3>2. acknowledger.token.cmd \in {"ack", "retry"}
      BY <1>9 DEF SendDisposition, NoHeartbeats, Typed, AnswersTyped, Tokens
    <3>3. m \notin dropped
      BY <1>9 DEF SendDisposition
    <3>4. link.at = "open" /\ handling[m] = link.n /\ link.n > 0
      BY <3>3 DEF OutIsOfSession
    <3>5. broker' = Settled(m, acknowledger.token.cmd)
      BY <1>9, <3>1, <3>4 DEF SendDisposition, Typed, BrokerTyped
    <3>6. QED
      BY <3>2, <3>5, SettledTyped DEF Typed
  <2>3. QED
    BY <2>1, <2>2 DEF HeldBy
<1>10. QED
  BY <1>1, <1>2, <1>3, <1>4, <1>5, <1>6, <1>7, <1>8, <1>9
  DEF Next, Main, Acknowledger, SendToken, LinkDies, Expire, vars

LEMMA OutIsHandledKept ==
  ASSUME Typed, NoHeartbeats, OutIsOfSession, OutIsHandled, [Next]_vars
  PROVE  OutIsHandled'
<1>0. mq' = mq /\ invalid' = invalid /\ dropped \subseteq dropped'
  BY DEF Next, Listener, ListenerLoop, Claim, Receive, Push, CountProcessor, ListenerStatic, Main,
         Signal, TakeMessage, StartWorker, StopListener, WaitWorkers, StopAcknowledger, MainStatic,
         Worker, Heartbeat, Finish, Answer, WorkerStatic, Acknowledger, TakeToken, LeaveTokens,
         SendToken, SendDisposition, AckStatic, LinkDies, Expire, vars, history
<1> SUFFICES ASSUME mq = "amqp", Running',
                    NEW m \in Messages, m \notin dropped' \cup invalid, broker'[m] = "out"
             PROVE  HeldBy(m)'
  BY <1>0 DEF OutIsHandled
<1>1. Running
  BY DEF Running, Next, LinkDies, Expire, vars
<1>2. CASE broker[m] = "out"
  <2>1. HeldBy(m)
    BY <1>0, <1>1, <1>2 DEF OutIsHandled
  <2>2. QED
    BY <1>2, <2>1, HandedOn
<1>3. CASE broker[m] # "out"
  <2>1. Receive
    <3>1. CASE Listener
      BY <1>3, <3>1 DEF Listener, ListenerLoop, Claim, Push, CountProcessor, ListenerStatic
    <3>2. CASE Main \/ Signal \/ LinkDies \/ UNCHANGED vars
      BY <1>3, <3>2, RequeuedTyped DEF Main, Signal, TakeMessage, StartWorker, StopListener,
         WaitWorkers, StopAcknowledger, MainStatic, CloseLink, LinkDies, vars, Typed
    <3>3. ASSUME NEW s \in Slots, Worker(s) PROVE broker' = broker
      BY <3>3 DEF Worker, Heartbeat, Finish, Answer, WorkerStatic
    <3>4. CASE Acknowledger
      <4>1. CASE SendDisposition
        <5>1. acknowledger.token \in Tokens
          BY <4>1 DEF SendDisposition, Typed, AnswersTyped
        <5>2. \A q \in Messages : broker'[q] = "out" => broker[q] = "out"
          BY <4>1, <5>1, SettledTyped DEF SendDisposition, Typed, Tokens
        <5>3. QED
          BY <1>3, <5>2
      <4>2. QED
        BY <1>3, <3>4, <4>1 DEF Acknowledger, TakeToken, LeaveTokens, SendToken, AckStatic
    <3>5. QED
      BY <1>3, <3>1, <3>2, <3>3, <3>4 DEF Next, Expire
  <2>2. broker' = [broker EXCEPT ![m] = "out"] /\ listener' = [at |-> "push", msg |-> m]
    BY <1>3, <2>1 DEF Receive, Typed, BrokerTyped
  <2>3. QED
    BY <2>2 DEF HeldBy
<1>4. QED
  BY <1>2, <1>3

-------------------------------------------------------------------------------
LEMMA InitIInv == Init => IInv
<1> SUFFICES ASSUME Init PROVE IInv
  OBVIOUS
<1>1. Typed
  BY ConsumerAssumption DEF Init, Typed, BrokerTyped, ListenerTyped, MainTyped, SlotsTyped,
     AnswersTyped, Free, OrNone
<1>2. AnswersAreTrue /\ NoHeartbeats
  BY DEF Init, AnswersAreTrue, WorkersAreTrue, TokensAreTrue, SendingIsTrue, AckedMeansDone,
         NoHeartbeats, Free
<1>3. Counted
  <2>1. Working = {}
    BY DEF Init, Working, Free
  <2>2. Cardinality(Working) = 0 /\ Pool \in Nat \ {0}
    BY <2>1, FS_EmptySet, ConsumerAssumption
  <2>3. QED
    <3>1. /\ listener.at = "loop" /\ main.at = "select" /\ Len(incoming) = 0 /\ active = 0
      BY DEF Init
    <3>2. QED
      BY <2>2, <3>1 DEF Counted, Count
<1>4. OutIsOfSession /\ OutIsHandled
  BY DEF Init, OutIsOfSession, OutIsHandled
<1>5. QED
  BY <1>1, <1>2, <1>3, <1>4 DEF IInv

\* In every reachable state, of a daemon with either broker, with or without faults, the
\* counter, the channels and the answers agree.
THEOREM IInvHolds == Spec => []IInv
<1>1. Init => IInv
  BY InitIInv
<1>2. IInv /\ [Next]_vars => IInv'
  BY TypedKept, AnswersAreTrueKept, NoHeartbeatsKept, CountedKept, OutIsOfSessionKept,
     OutIsHandledKept DEF IInv
<1>3. QED
  BY <1>1, <1>2, PTL DEF Spec

\* The daemon never claims a message that no processor is ready for, however claims, pushes,
\* the counter and the ends of batches interleave (listenerWorker, DecrementActiveProcessors).
THEOREM ClaimsFitPoolHolds == Spec => []ClaimsFitPool
<1>1. IInv => ClaimsFitPool
  <2> SUFFICES ASSUME IInv PROVE ClaimsFitPool
    OBVIOUS
  <2>1. /\ Pool \in Nat /\ Cardinality(Working) \in 0..Pool /\ Len(incoming) \in Nat
        /\ mq \in {"capimq", "amqp"} /\ active \in Int
    BY WorkingCounts DEF IInv, Typed, BrokerTyped, ListenerTyped
  <2>2. Count(listener.at = "push") + Len(incoming) + Count(main.at = "slot")
          + Cardinality(Working) <= Pool
    <3>1. /\ {Count(listener.at = "push"), Count(main.at = "slot")} \subseteq {0, 1}
          /\ Count(listener.at = "push") = 1 => listener.at = "push"
      BY DEF Count
    <3>2. CASE mq = "capimq"
      <4>1. /\ Count(listener.at = "count") = 0
            /\ Count(mq = "capimq" /\ listener.at = "push") = Count(listener.at = "push")
        BY <3>2 DEF IInv, Counted, Count
      <4>2. QED
        BY <2>1, <3>1, <4>1 DEF IInv, Counted
    <3>3. CASE mq = "amqp"
      <4>1. /\ Count(listener.at = "count") \in {0, 1}
            /\ Count(mq = "capimq" /\ listener.at = "push") = 0
            /\ Count(listener.at = "count") = 1 => Count(listener.at = "push") = 0
        BY <3>3 DEF Count
      <4>2. listener.at \in {"push", "count"} => active < Pool
        BY <3>3 DEF IInv, Counted
      <4>3. Count(listener.at = "count") = 1 => listener.at = "count"
        BY DEF Count
      <4>4. QED
        BY <2>1, <3>1, <4>1, <4>2, <4>3 DEF IInv, Counted
    <3>4. QED
      BY <2>1, <3>2, <3>3
  <2>3. main.at = "slot" => \E s \in Slots : slot[s].at # "work"
    <3>1. main.at = "slot" => Cardinality(Working) < Pool
      BY <2>1, <2>2 DEF Count
    <3>2. Cardinality(Slots) = Pool
      BY WorkingCounts
    <3>3. main.at = "slot" => Working # Slots
      BY <2>1, <3>1, <3>2
    <3>4. QED
      BY <3>3 DEF Working
  <2>4. QED
    BY <2>2, <2>3 DEF ClaimsFitPool, Working
<1>2. QED
  BY <1>1, IInvHolds, PTL

\* A message leaves the broker only when its batch was completed, whichever of its
\* deliveries, sessions and late answers the acknowledgement belongs to.
THEOREM AckedMeansDoneHolds == Spec => []AckedMeansDone
<1>1. IInv => AckedMeansDone
  BY DEF IInv, AnswersAreTrue
<1>2. QED
  BY <1>1, IInvHolds, PTL

\* No AMQP delivery is forgotten: over any number of reconnects, a message that the broker
\* takes for delivered is in somebody's hands, unless its answer was lost.
THEOREM OutIsHeldHolds == Spec => []OutIsHeld
<1>1. IInv => OutIsHeld
  <2> SUFFICES ASSUME IInv, mq = "amqp", Running,
                      NEW m \in Messages \ (dropped \cup invalid), broker[m] = "out"
               PROVE  InDaemon(m)
    BY DEF OutIsHeld
  <2>1. HeldBy(m)
    BY DEF IInv, OutIsHandled
  <2>2. DOMAIN incoming = 1..Len(incoming) /\ DOMAIN outgoing = 1..Len(outgoing)
    BY DEF IInv, Typed, ListenerTyped, AnswersTyped
  <2>3. acknowledger.at = "token" => acknowledger.token # None
    BY ConsumerAssumption DEF IInv, Typed, AnswersTyped, Tokens
  <2>4. QED
    BY <2>1, <2>2, <2>3 DEF HeldBy, InDaemon, Running
<1>2. QED
  BY <1>1, IInvHolds, PTL

===============================================================================
