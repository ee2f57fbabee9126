-------------------------- MODULE ConsumersProofs ---------------------------
(***************************************************************************)
(* Proofs about module Consumers, for any number of messages, losses and   *)
(* slots.  ConsumersInv is the inductive invariant.  Its common part says  *)
(* what a goroutine has done at each stage; the other three say where a    *)
(* message can be: on a Kafka partition, in a RabbitMQ queue, or in a      *)
(* process that listens on a transport that keeps nothing.                 *)
(***************************************************************************)
EXTENDS Consumers, FiniteSetTheorems, SequenceTheorems, TLAPS

\* "DefaultConcurrency is 1, because concurrency and per-partition ordering
\* are mutually exclusive" (kafkamq.go:80-81); so are concurrency and this
\* bookkeeping of the offsets.
KafkaSequential == "kafka" \in Transports => Concurrency = 1

Stages == {"none", "slot", "dispatch", "reply", "ack", "requeue", "drop"}

Shape ==
    /\ sent \in 0..MaxMessages
    /\ loop \in {"off", "up", "draining", "returned"}
    /\ buffer \in Seq(Messages)
    /\ taken \in Messages \cup {0}
    /\ stage \in [Messages -> Stages]
    /\ losses \in Nat
    /\ runs \in [Messages -> Nat]
    /\ refused \in SUBSET Messages /\ replied \in SUBSET Messages /\ dropped \in SUBSET Messages
    /\ committed \in Nat \ {0} /\ position \in Nat \ {0}
    /\ ready \in SUBSET Messages /\ unsettled \in SUBSET Messages
    /\ deliveries \in SUBSET Messages

\* A transport may forget these: what they stand for has been done.  Once a
\* message is here it stays.
Settleable ==
    Malformed \cup TurnedAway \cup dropped \cup (Handled \ Requests) \cup (Handled \cap replied)

StageInv ==
    \A m \in Messages :
        /\ stage[m] = "reply" => m \in Handled \cup TurnedAway
        /\ stage[m] \in {"ack", "drop"} => m \in Settleable
        /\ stage[m] = "requeue" => transport = "rabbit"

\* Kafka, with one slot: everything before the message in work is done, and
\* everything before a message that waits for the slot is done or in work.
KafkaInv ==
    /\ \A k \in Messages : k < committed => k \in Settleable
    /\ \A m \in Active : m < position /\ \A k \in Messages : k < m => k \in Settleable
    /\ loop = "up" =>
         \A k \in Messages : k < position => k \in Settleable \cup Active \cup {taken}
    /\ taken # 0 => loop = "up" /\ taken = position - 1 /\ taken \notin Active
    /\ loop = "off" => Active = {}
    /\ \A m \in Messages : stage[m] # "slot"
    /\ loop # "returned"

KafkaRunsInv ==
    \A m \in Messages :
        /\ runs[m] <= losses + 1
        /\ m >= position \/ m = taken \/ stage[m] = "dispatch" \/ loop = "off" =>
             runs[m] <= losses

\* RabbitMQ: what is on its way in the consumer has not been settled, and is
\* on its way once; what it can still be given ran once per loss at most.
OnItsWay(m) == m \in deliveries \/ taken = m \/ m \in Active

RabbitInv ==
    /\ Gone \subseteq Settleable
    /\ ready \cap unsettled = {}
    /\ ~channel => unsettled = {}
    /\ \A m \in Messages : OnItsWay(m) => IF channel THEN m \in unsettled ELSE m \in ready
    /\ deliveries \cap Active = {} /\ taken \notin deliveries \cup Active
    /\ loop = "off" => ~channel /\ deliveries = {} /\ Active = {}
    /\ taken # 0 => loop = "up"
    /\ \A m \in Messages : stage[m] # "slot"
    /\ loop # "returned"

RabbitRunsInv ==
    \A m \in Messages :
        /\ runs[m] <= losses + 1
        /\ m \in ready => runs[m] <= losses
        /\ m \in unsettled /\ stage[m] \notin {"reply", "ack"} => runs[m] <= losses
        /\ ~channel /\ OnItsWay(m) /\ stage[m] \in {"none", "dispatch"} => runs[m] < losses

\* The transports that keep nothing: a message is in one place, and has run
\* once at most.
DirectInv ==
    /\ \A m \in 1..sent : m \in Settleable \cup InBuffer \cup {taken} \/ stage[m] # "none"
    /\ \A i, j \in DOMAIN buffer : buffer[i] = buffer[j] => i = j
    /\ \A m \in Messages : m \in InBuffer \cup {taken} \/ m > sent =>
         runs[m] = 0 /\ stage[m] = "none"
    /\ \A m \in InBuffer \cup {taken} : m <= sent
    /\ taken \notin InBuffer
    /\ \A m \in Messages : runs[m] <= 1 /\ (stage[m] \in {"slot", "dispatch"} => runs[m] = 0)

\* Where a handler can still be started.
DirectLoopInv ==
    /\ transport # "grpc" => \A m \in Messages : stage[m] # "slot"
    /\ loop = "off" => sent = 0
    /\ loop \in {"draining", "returned"} /\ transport \in {"redis", "tcp"} =>
         taken = 0 /\ buffer = <<>>
    /\ loop = "returned" /\ ~forced /\ transport \in {"redis", "tcp"} => Active = {}
    /\ loop = "returned" /\ ~forced /\ transport = "grpc" =>
         taken = 0 /\ buffer = <<>> /\ \A m \in Messages : stage[m] = "none"

ConsumersInv ==
    /\ transport \in Transports
    /\ Shape
    /\ StageInv
    /\ transport = "kafka" => KafkaInv /\ KafkaRunsInv
    /\ transport = "rabbit" => RabbitInv /\ RabbitRunsInv
    /\ transport \notin {"kafka", "rabbit"} => DirectInv /\ DirectLoopInv

-----------------------------------------------------------------------------
(* A step that only adds to the history forgets nothing that was done. *)
LEMMA SettleableGrows ==
    ASSUME Shape, UNCHANGED <<transport, requeue>>,
           \A m \in Messages : runs[m] > 0 => runs'[m] > 0,
           refused \subseteq refused', replied \subseteq replied', dropped \subseteq dropped'
    PROVE  Settleable \subseteq Settleable' /\ Handled \subseteq Handled' /\ TurnedAway \subseteq TurnedAway'
  BY DEF Settleable, TurnedAway, Handled

(* At most Concurrency handlers are at work; with one slot, a free slot    *)
(* means that there is none.                                               *)
LEMMA OneSlot ==
    ASSUME Concurrency = 1, SlotFree
    PROVE  Active = {}
<1>1. Active \in SUBSET Messages /\ IsFiniteSet(Messages)
  BY FS_Interval, ConsumingAssumption DEF Active, Messages
<1>2. IsFiniteSet(Active) /\ Cardinality(Active) \in Nat
  BY <1>1, FS_Subset, FS_CardinalityType
<1>3. Cardinality(Active) = 0
  BY <1>2 DEF SlotFree
<1> QED
  BY <1>2, <1>3, FS_EmptySet

-----------------------------------------------------------------------------
(* The steps of the loop of Listen and of its supervisor. *)
LEMMA KafkaLoopKeeps ==
    ASSUME ConsumersInv, Concurrency = 1, Of("kafka"),
           KafkaListen \/ FetchMessage \/ AbandonFetched \/ FetchFails \/ KafkaListenReturns
             \/ Produce \/ KafkaCancel
    PROVE  ConsumersInv'
<1> USE ConsumingAssumption DEF ConsumersInv, Messages
<1>1. transport = "kafka" /\ UNCHANGED <<transport, rabbitVars>>
  BY DEF Of
<1>2. UNCHANGED <<stage, history>>
  BY DEF KafkaListen, FetchMessage, AbandonFetched, FetchFails, KafkaListenReturns, Produce,
         KafkaCancel, Cancel, loopVars, kafkaVars
<1>3. UNCHANGED <<Settleable, Handled, TurnedAway, Active>>
  BY <1>1, <1>2 DEF Settleable, Handled, TurnedAway, Active, history, rabbitVars
<1>4. Shape'
  <2>1. CASE KafkaListen
    BY <2>1, <1>1 DEF KafkaListen, Shape, kafkaVars, history, rabbitVars, brokerVars
  <2>2. CASE FetchMessage
    BY <2>2, <1>1 DEF FetchMessage, Shape, kafkaVars, history, rabbitVars, brokerVars
  <2>3. CASE AbandonFetched
    BY <2>3, <1>1 DEF AbandonFetched, Shape, kafkaVars, history, rabbitVars, brokerVars
  <2>4. CASE FetchFails
    BY <2>4, <1>1 DEF FetchFails, Shape, kafkaVars, history, rabbitVars, brokerVars
  <2>5. CASE KafkaListenReturns
    BY <2>5, <1>1 DEF KafkaListenReturns, Shape, kafkaVars, history, rabbitVars, brokerVars
  <2>6. CASE Produce
    BY <2>6, <1>1 DEF Produce, loopVars, Shape, kafkaVars, history, rabbitVars, brokerVars
  <2>7. CASE KafkaCancel
    BY <2>7, <1>1 DEF KafkaCancel, Cancel, Shape, kafkaVars, history, rabbitVars, brokerVars
  <2> QED
    BY <2>1, <2>2, <2>3, <2>4, <2>5, <2>6, <2>7
<1>5. StageInv'
  BY <1>1, <1>2, <1>3 DEF StageInv
<1>6. KafkaInv'
  <2>1. CASE KafkaListen
    BY <2>1, <1>1, <1>2, <1>3 DEF KafkaListen, Shape, KafkaInv, kafkaVars
  <2>2. CASE FetchMessage
    <3>1. /\ loop = "up" /\ UNCHANGED <<loop, committed>> /\ taken = 0
          /\ taken' = position /\ position' = position + 1 /\ position \in Nat /\ taken' # 0
      BY <2>2 DEF FetchMessage, Shape
    <3>2. \A m \in Active : m < position' /\ m # taken'
      BY <3>1, <1>1 DEF KafkaInv, Shape, Active
    <3>3. \A k \in Messages : k < position' => k \in Settleable \cup Active \cup {taken'}
      <4> SUFFICES ASSUME NEW k \in Messages, k < position'
                   PROVE  k \in Settleable \cup Active \cup {taken'}
        OBVIOUS
      <4>1. CASE k = position
        BY <4>1, <3>1
      <4>2. CASE k < position
        BY <4>2, <3>1, <1>1 DEF KafkaInv
      <4> QED
        BY <4>1, <4>2, <3>1
    <3> QED
      BY <3>1, <3>2, <3>3, <1>1, <1>2, <1>3 DEF KafkaInv
  <2>3. CASE AbandonFetched
    BY <2>3, <1>1, <1>2, <1>3 DEF AbandonFetched, Shape, KafkaInv, kafkaVars
  <2>4. CASE FetchFails
    BY <2>4, <1>1, <1>2, <1>3 DEF FetchFails, Shape, KafkaInv, kafkaVars
  <2>5. CASE KafkaListenReturns
    BY <2>5, <1>1, <1>2, <1>3 DEF KafkaListenReturns, Shape, KafkaInv, kafkaVars
  <2>6. CASE Produce
    BY <2>6, <1>1, <1>2, <1>3 DEF Produce, loopVars, Shape, KafkaInv, kafkaVars
  <2>7. CASE KafkaCancel
    BY <2>7, <1>1, <1>2, <1>3 DEF KafkaCancel, Cancel, Shape, KafkaInv, kafkaVars
  <2> QED
    BY <2>1, <2>2, <2>3, <2>4, <2>5, <2>6, <2>7
<1>7. KafkaRunsInv'
  BY <1>1, <1>2 DEF Shape, KafkaInv, KafkaRunsInv, KafkaListen, FetchMessage, AbandonFetched, FetchFails,
     KafkaListenReturns, Produce, KafkaCancel, Cancel, loopVars, kafkaVars, history
<1> QED
  BY <1>1, <1>4, <1>5, <1>6, <1>7

(* The slot is free and the message that waited for it is in work: with    *)
(* one slot it is the only one.                                            *)
LEMMA KafkaSpawnKeeps ==
    ASSUME ConsumersInv, Concurrency = 1, Of("kafka"), KafkaSpawn
    PROVE  ConsumersInv'
<1> USE ConsumingAssumption DEF ConsumersInv, Messages
<1>1. transport = "kafka" /\ UNCHANGED <<transport, rabbitVars>>
  BY DEF Of
<1>2. /\ UNCHANGED <<sent, loop, buffer, losses, history, kafkaVars>> /\ loop = "up"
      /\ taken \in Messages /\ taken' = 0
      /\ stage' = [stage EXCEPT ![taken] = IF taken \in Malformed THEN "ack" ELSE "dispatch"]
  BY DEF KafkaSpawn, Spawn, Advance, Shape
<1>3. UNCHANGED <<Settleable, Handled, TurnedAway>>
  BY <1>1, <1>2 DEF Settleable, Handled, TurnedAway, history, rabbitVars
<1>4. Active = {} /\ Active' = {taken}
  <2>1. Active = {}
    BY OneSlot DEF KafkaSpawn, Spawn
  <2> QED
    BY <2>1, <1>2 DEF Active, Shape
<1>5. Shape'
  BY <1>1, <1>2 DEF Shape, kafkaVars, history, rabbitVars, brokerVars, Stages
<1>6. StageInv'
  BY <1>1, <1>2, <1>3 DEF StageInv, Shape, Settleable
<1>7. KafkaInv'
  <2>1. \A k \in Messages : k < taken => k \in Settleable
    BY <1>1, <1>2, <1>4 DEF KafkaInv, Shape
  <2>2. taken < position
    BY <1>1, <1>2 DEF KafkaInv, Shape
  <2> QED
    BY <2>1, <2>2, <1>1, <1>2, <1>3, <1>4 DEF KafkaInv, kafkaVars, Shape
<1>8. KafkaRunsInv'
  BY <1>1, <1>2 DEF KafkaRunsInv, Shape, KafkaInv, kafkaVars, history
<1> QED
  BY <1>1, <1>5, <1>6, <1>7, <1>8

(* Decode, dispatch and reply, for any transport: what the goroutine of m  *)
(* has to have done at its next stage, it has done.                        *)
LEMMA HandlingKeepsStages ==
    ASSUME Shape, StageInv, NEW m \in Messages, UNCHANGED <<transport, rabbitVars>>,
           NEW to \in {"ack", "reply", "requeue", "drop"},
           to = "requeue" <=> transport = "rabbit" /\ requeue,
           UNCHANGED kafkaVars,
           HandlerRuns(m) \/ DispatchRefused(m, to) \/ Reply(m)
    PROVE  /\ Shape' /\ StageInv'
           /\ Settleable \subseteq Settleable'
           /\ UNCHANGED <<sent, loop, buffer, taken, losses, Active>>
           /\ stage' = [stage EXCEPT ![m] = stage'[m]] /\ stage'[m] \notin {"none", "slot", "dispatch"}
           /\ m \in Active
           /\ \/ runs' = runs
              \/ stage[m] = "dispatch" /\ runs' = [runs EXCEPT ![m] = @ + 1]
                   /\ stage'[m] \in {"reply", "ack"}
           /\ stage[m] = "reply" => stage'[m] = "ack"
           /\ stage'[m] \notin {"reply", "ack"} => runs' = runs
           /\ stage[m] \in {"dispatch", "reply"}
<1> USE ConsumingAssumption DEF Messages
<1>1. CASE HandlerRuns(m)
  <2>1. /\ UNCHANGED <<sent, loop, buffer, taken, losses, refused, replied, dropped>>
        /\ stage[m] = "dispatch"
        /\ runs' = [runs EXCEPT ![m] = @ + 1]
        /\ stage' = [stage EXCEPT ![m] = IF m \in Requests THEN "reply" ELSE "ack"]
    BY <1>1 DEF HandlerRuns, Advance, loopVars
  <2>2. Shape'
    <3>1. stage' \in [Messages -> Stages]
      BY <2>1 DEF Shape, Stages
    <3>2. runs' \in [Messages -> Nat]
      BY <2>1 DEF Shape
    <3> QED
      BY <2>1, <3>1, <3>2 DEF Shape, rabbitVars, brokerVars, kafkaVars
  <2>3. Settleable \subseteq Settleable' /\ Handled \subseteq Handled' /\ TurnedAway \subseteq TurnedAway'
    <3>1. \A k \in Messages : runs[k] > 0 => runs'[k] > 0
      BY <2>1 DEF Shape
    <3>2. UNCHANGED <<transport, requeue>>
      BY DEF rabbitVars
    <3> QED
      BY <2>1, <3>1, <3>2, SettleableGrows
  <2>4. m \in Handled'
    BY <2>1 DEF Handled, Shape
  <2>5. StageInv'
    BY <2>1, <2>3, <2>4 DEF StageInv, Settleable, Shape
  <2> QED
    BY <2>1, <2>2, <2>3, <2>5 DEF Active, Shape
<1>2. CASE DispatchRefused(m, to)
  <2>1. /\ UNCHANGED <<sent, loop, buffer, taken, losses, runs, replied, dropped>>
        /\ stage[m] = "dispatch"
        /\ refused' = refused \cup {m}
        /\ stage' = [stage EXCEPT ![m] = to]
    BY <1>2 DEF DispatchRefused, Advance, loopVars
  <2>2. Shape'
    BY <2>1 DEF Shape, Stages, rabbitVars, brokerVars, kafkaVars
  <2>3. Settleable \subseteq Settleable' /\ Handled \subseteq Handled' /\ TurnedAway \subseteq TurnedAway'
    BY <2>1, SettleableGrows DEF Shape, rabbitVars
  <2>4. to # "requeue" => m \in TurnedAway'
    BY <2>1 DEF TurnedAway, rabbitVars
  <2>5. StageInv'
    BY <2>1, <2>3, <2>4 DEF StageInv, Settleable, Shape
  <2> QED
    BY <2>1, <2>2, <2>3, <2>5 DEF Active, Shape
<1>3. CASE Reply(m)
  <2>1. /\ UNCHANGED <<sent, loop, buffer, taken, losses, runs, refused, dropped>>
        /\ stage[m] = "reply"
        /\ replied' = replied \cup {m}
        /\ stage' = [stage EXCEPT ![m] = "ack"]
    BY <1>3 DEF Reply, Advance, loopVars
  <2>2. Shape'
    BY <2>1 DEF Shape, Stages, rabbitVars, brokerVars, kafkaVars
  <2>3. Settleable \subseteq Settleable' /\ Handled \subseteq Handled' /\ TurnedAway \subseteq TurnedAway'
    BY <2>1, SettleableGrows DEF Shape, rabbitVars
  <2>4. m \in Settleable'
    BY <2>1, <2>3 DEF StageInv, Settleable, Shape
  <2>5. StageInv'
    BY <2>1, <2>3, <2>4 DEF StageInv, Shape
  <2> QED
    BY <2>1, <2>2, <2>3, <2>5 DEF Active, Shape
<1> QED
  BY <1>1, <1>2, <1>3

(* The rest of a message on Kafka, and the crash of the process. *)
LEMMA KafkaHandleKeeps ==
    ASSUME ConsumersInv, Concurrency = 1, Of("kafka"),
           NEW m \in Messages, KafkaHandle(m)
    PROVE  ConsumersInv'
<1> USE ConsumingAssumption DEF ConsumersInv, Messages
<1>1. transport = "kafka" /\ UNCHANGED <<transport, rabbitVars>>
  BY DEF Of
<1>2. CASE ~Commit(m)
  <2>1. UNCHANGED kafkaVars /\ (HandlerRuns(m) \/ DispatchRefused(m, "ack") \/ Reply(m))
    BY <1>2 DEF KafkaHandle
  <2>2. /\ Shape' /\ StageInv'
        /\ Settleable \subseteq Settleable'
        /\ UNCHANGED <<loop, taken, losses, Active>>
        /\ stage' = [stage EXCEPT ![m] = stage'[m]] /\ stage'[m] \notin {"none", "slot", "dispatch"}
        /\ m \in Active
        /\ \/ runs' = runs
           \/ stage[m] = "dispatch" /\ runs' = [runs EXCEPT ![m] = @ + 1]
    BY <1>1, <2>1, HandlingKeepsStages
  <2>3. KafkaInv'
    <3>1. UNCHANGED <<committed, position>> /\ KafkaInv /\ stage \in [Messages -> Stages]
      BY <1>1, <2>1 DEF kafkaVars, Shape
    <3>2. \A k \in Messages : stage'[k] # "slot"
      BY <3>1, <2>2 DEF KafkaInv
    <3>3. /\ \A k \in Messages : k < committed => k \in Settleable'
          /\ \A n \in Active : n < position /\ \A k \in Messages : k < n => k \in Settleable'
      BY <3>1, <2>2 DEF KafkaInv
    <3>4. loop = "up" => \A k \in Messages : k < position => k \in Settleable' \cup Active \cup {taken}
      BY <3>1, <2>2 DEF KafkaInv
    <3> QED
      BY <3>1, <3>2, <3>3, <3>4, <2>2 DEF KafkaInv
  <2>4. KafkaRunsInv'
    <3>1. UNCHANGED <<committed, position>> /\ KafkaInv /\ KafkaRunsInv
      BY <1>1, <2>1 DEF kafkaVars
    <3>2. m < position /\ m # taken /\ loop # "off"
      BY <3>1, <2>2 DEF KafkaInv
    <3>3. /\ runs'[m] <= losses + 1 /\ stage'[m] # "dispatch"
          /\ \A k \in Messages \ {m} : runs'[k] = runs[k] /\ stage'[k] = stage[k]
      BY <3>1, <2>2 DEF KafkaRunsInv, Shape
    <3>4. losses \in Nat /\ position \in Nat
      BY DEF Shape
    <3> QED
      BY <3>1, <3>2, <3>3, <3>4, <2>2 DEF KafkaRunsInv
  <2> QED
    BY <1>1, <2>2, <2>3, <2>4
<1>3. CASE Commit(m)
  <2>1. /\ UNCHANGED <<sent, loop, buffer, taken, losses, history, position>>
        /\ stage[m] = "ack" /\ m \in Active
        /\ stage' = [stage EXCEPT ![m] = "none"]
        /\ committed' = m + 1 \/ committed' = committed
    BY <1>3 DEF Commit, Advance, loopVars, Active
  <2>2. UNCHANGED <<Settleable, Handled, TurnedAway>> /\ Active' = Active \ {m}
    BY <1>1, <2>1 DEF Settleable, Handled, TurnedAway, history, rabbitVars, Active, Shape
  <2>3. Shape'
    <3>1. stage' \in [Messages -> Stages]
      BY <2>1 DEF Shape, Stages
    <3>2. committed' \in Nat \ {0}
      BY <2>1 DEF Shape
    <3> QED
      BY <1>1, <2>1, <3>1, <3>2 DEF Shape, history, rabbitVars, brokerVars
  <2>4. StageInv'
    BY <1>1, <2>1, <2>2 DEF StageInv, Shape
  <2>5. KafkaInv'
    <3>1. m \in Settleable /\ \A k \in Messages : k < m => k \in Settleable
      BY <1>1, <2>1 DEF StageInv, KafkaInv
    <3>2. \A k \in Messages : k < committed' => k \in Settleable
      <4> SUFFICES ASSUME NEW k \in Messages, k < committed' PROVE k \in Settleable
        OBVIOUS
      <4>1. k < committed \/ k < m \/ k = m
        BY <2>1 DEF Shape
      <4> QED
        BY <4>1, <3>1, <1>1 DEF KafkaInv
    <3>3. KafkaInv /\ stage \in [Messages -> Stages]
      BY <1>1 DEF Shape
    <3>4. \A k \in Messages : stage'[k] # "slot"
      BY <3>3, <2>1 DEF KafkaInv
    <3> QED
      BY <3>1, <3>2, <3>3, <3>4, <2>1, <2>2 DEF KafkaInv
  <2>6. KafkaRunsInv'
    BY <1>1, <2>1 DEF KafkaRunsInv, KafkaInv, history, Shape
  <2> QED
    BY <1>1, <2>3, <2>4, <2>5, <2>6
<1> QED
  BY <1>2, <1>3

LEMMA KafkaCrashKeeps ==
    ASSUME ConsumersInv, Of("kafka"), KafkaCrash
    PROVE  ConsumersInv'
<1> USE ConsumingAssumption DEF ConsumersInv, Messages
<1>1. transport = "kafka" /\ UNCHANGED <<transport, rabbitVars>>
  BY DEF Of
<1>2. /\ UNCHANGED <<sent, buffer, history, kafkaVars>>
      /\ loop' = "off" /\ losses' = losses + 1 /\ taken' = 0
      /\ stage' = [k \in Messages |-> "none"]
  BY DEF KafkaCrash
<1>3. UNCHANGED <<Settleable, Handled, TurnedAway>> /\ Active' = {}
  BY <1>1, <1>2 DEF Settleable, Handled, TurnedAway, history, rabbitVars, Active
<1>4. Shape'
  BY <1>1, <1>2 DEF Shape, Stages, history, rabbitVars, brokerVars, kafkaVars
<1>5. StageInv'
  BY <1>1, <1>2, <1>3 DEF StageInv
<1>6. KafkaInv'
  BY <1>1, <1>2, <1>3 DEF KafkaInv, kafkaVars
<1>7. KafkaRunsInv'
  BY <1>1, <1>2 DEF KafkaRunsInv, history, Shape, kafkaVars
<1> QED
  BY <1>1, <1>4, <1>5, <1>6, <1>7

LEMMA KafkaKeeps ==
    ASSUME ConsumersInv, KafkaSequential, Of("kafka"),
           \/ KafkaListen \/ KafkaLoop \/ FetchFails \/ KafkaListenReturns \/ KafkaNext
           \/ \E m \in Messages : KafkaHandle(m)
    PROVE  ConsumersInv'
<1>1. Concurrency = 1
  BY DEF KafkaSequential, ConsumersInv, Of
<1> QED
  BY <1>1, KafkaLoopKeeps, KafkaSpawnKeeps, KafkaHandleKeeps, KafkaCrashKeeps
  DEF KafkaLoop, KafkaNext

-----------------------------------------------------------------------------
(* RabbitMQ: the broker, the loop of Listen and its supervisor, none of    *)
(* which touches what a goroutine does with its message.                   *)
LEMMA RabbitLoopKeeps ==
    ASSUME ConsumersInv, Of("rabbit"),
           \/ RabbitListen \/ LoopEnds \/ RabbitListenReturns \/ RabbitCancel \/ ChannelDies
           \/ NackTaken \/ \E m \in Messages : Take(m) \/ Deliver(m)
    PROVE  ConsumersInv'
<1> USE ConsumingAssumption DEF ConsumersInv, Messages
<1>1. transport = "rabbit" /\ UNCHANGED <<transport, kafkaVars>>
  BY DEF Of
<1>2. UNCHANGED <<stage, history, requeue, sent, buffer>>
  BY DEF RabbitListen, LoopEnds, RabbitListenReturns, RabbitCancel, ChannelDies, NackTaken, Take,
         Deliver, LoseChannel, Cancel, loopVars, rabbitVars, brokerVars, consumingVars
<1>3. UNCHANGED <<Settleable, Handled, TurnedAway, Active>>
  BY <1>1, <1>2 DEF Settleable, Handled, TurnedAway, Active, history
<1>4. Active \in SUBSET Messages
  BY DEF Active
<1>5. StageInv'
  BY <1>1, <1>2, <1>3 DEF StageInv
<1>6. CASE RabbitListen
  <2>1. Shape'
    BY <1>6, <1>1, <1>2 DEF RabbitListen, Shape, history, kafkaVars, brokerVars, rabbitVars
  <2>2. RabbitInv'
    BY <1>6, <1>1, <1>2, <1>3, <1>4 DEF RabbitListen, RabbitInv, Shape, OnItsWay, Gone, brokerVars, rabbitVars
  <2>3. RabbitRunsInv'
    BY <1>6, <1>1, <1>2, <1>3, <1>4 DEF RabbitListen, RabbitInv, RabbitRunsInv, Shape, OnItsWay, history, brokerVars, rabbitVars
  <2> QED
    BY <1>1, <1>5, <2>1, <2>2, <2>3
<1>7. CASE LoopEnds
  <2>1. Shape'
    BY <1>7, <1>1, <1>2 DEF LoopEnds, Shape, history, kafkaVars, brokerVars, rabbitVars
  <2>2. RabbitInv'
    BY <1>7, <1>1, <1>2, <1>3, <1>4 DEF LoopEnds, RabbitInv, Shape, OnItsWay, Gone, brokerVars, rabbitVars
  <2>3. RabbitRunsInv'
    BY <1>7, <1>1, <1>2, <1>3, <1>4 DEF LoopEnds, RabbitInv, RabbitRunsInv, Shape, OnItsWay, history, brokerVars, rabbitVars
  <2> QED
    BY <1>1, <1>5, <2>1, <2>2, <2>3
<1>8. CASE RabbitListenReturns
  <2>1. /\ Active = {} /\ taken' = taken
        /\ loop = "draining" /\ loop' = "off" /\ deliveries' = {} /\ ~channel'
        /\ \/ channel /\ ready' = ready \cup unsettled /\ unsettled' = {} /\ losses' = losses + 1
           \/ ~channel /\ UNCHANGED <<ready, unsettled, losses>>
    BY <1>8 DEF RabbitListenReturns, LoseChannel, brokerVars
  <2>2. taken = 0
    BY <2>1, <1>1 DEF RabbitInv
  <2>3. Shape'
    <3>1. ready' \in SUBSET Messages /\ unsettled' \in SUBSET Messages /\ losses' \in Nat
      <4>1. losses \in Nat /\ ready \in SUBSET Messages /\ unsettled \in SUBSET Messages
        BY DEF Shape
      <4>2. CASE channel
        <5>1. ready' = ready \cup unsettled /\ unsettled' = {} /\ losses' = losses + 1
          BY <4>2, <2>1
        <5>2. losses' \in Nat
          BY <5>1, <4>1
        <5> QED
          BY <5>1, <5>2, <4>1
      <4>3. CASE ~channel
        BY <4>1, <4>3, <2>1
      <4> QED
        BY <4>2, <4>3
    <3> QED
      BY <3>1, <2>1, <1>1, <1>2 DEF Shape, history, kafkaVars
  <2>4. RabbitInv'
    BY <2>1, <2>2, <1>1, <1>2, <1>3 DEF RabbitInv, OnItsWay, Gone
  <2>5. RabbitRunsInv'
    <3>1. \A m \in Messages : ~OnItsWay(m)'
      BY <2>1, <2>2, <1>3 DEF OnItsWay
    <3>2. losses \in Nat /\ runs \in [Messages -> Nat] /\ runs' = runs
      BY <1>2 DEF Shape, history
    <3>3. CASE channel
      BY <3>1, <3>2, <3>3, <2>1, <1>1 DEF RabbitRunsInv
    <3>4. CASE ~channel
      BY <3>1, <3>2, <3>4, <2>1, <1>1, <1>2 DEF RabbitRunsInv
    <3> QED
      BY <3>3, <3>4
  <2> QED
    BY <1>1, <1>5, <2>3, <2>4, <2>5
<1>9. CASE RabbitCancel
  <2>1. Shape'
    BY <1>9, <1>1, <1>2 DEF RabbitCancel, Shape, history, kafkaVars, brokerVars, rabbitVars, Cancel
  <2>2. RabbitInv'
    BY <1>9, <1>1, <1>2, <1>3, <1>4 DEF RabbitCancel, RabbitInv, Shape, OnItsWay, Gone, brokerVars, rabbitVars, Cancel
  <2>3. RabbitRunsInv'
    BY <1>9, <1>1, <1>2, <1>3, <1>4 DEF RabbitCancel, RabbitInv, RabbitRunsInv, Shape, OnItsWay, history, brokerVars, rabbitVars, Cancel
  <2> QED
    BY <1>1, <1>5, <2>1, <2>2, <2>3
<1>10. CASE ChannelDies
  <2>1. Shape'
    BY <1>10, <1>1, <1>2 DEF ChannelDies, Shape, history, kafkaVars, brokerVars, rabbitVars, LoseChannel, loopVars
  <2>2. RabbitInv'
    BY <1>10, <1>1, <1>2, <1>3, <1>4 DEF ChannelDies, RabbitInv, Shape, OnItsWay, Gone, brokerVars, rabbitVars, LoseChannel, loopVars
  <2>3. RabbitRunsInv'
    <3>1. /\ channel /\ ~channel' /\ losses' = losses + 1 /\ losses \in Nat
          /\ ready' = ready \cup unsettled /\ unsettled' = {}
          /\ deliveries' \subseteq deliveries /\ UNCHANGED <<taken, runs>>
      BY <1>10 DEF ChannelDies, LoseChannel, loopVars, history, Shape
    <3>2. \A m \in Messages : OnItsWay(m)' => OnItsWay(m) /\ m \in unsettled
      BY <3>1, <1>1, <1>3 DEF RabbitInv, OnItsWay
    <3> SUFFICES ASSUME NEW m \in Messages
                 PROVE  /\ runs[m] <= losses + 1
                        /\ OnItsWay(m)' /\ stage[m] \in {"none", "dispatch"} => runs[m] <= losses
      BY <3>1, <1>2 DEF RabbitRunsInv, Shape
    <3> QED
      BY <3>1, <3>2, <1>1 DEF RabbitRunsInv
  <2> QED
    BY <1>1, <1>5, <2>1, <2>2, <2>3
<1>11. CASE NackTaken
  <2>1. Shape'
    BY <1>11, <1>1, <1>2 DEF NackTaken, Shape, history, kafkaVars, brokerVars, rabbitVars
  <2>2. RabbitInv'
    BY <1>11, <1>1, <1>2, <1>3, <1>4 DEF NackTaken, RabbitInv, Shape, OnItsWay, Gone, brokerVars, rabbitVars
  <2>3. RabbitRunsInv'
    <3>1. taken \in Messages /\ stage[taken] = "none"
      BY <1>11, <1>1 DEF NackTaken, RabbitInv, Shape, Active
    <3>2. runs[taken] <= losses
      BY <3>1, <1>1, <1>11 DEF RabbitInv, RabbitRunsInv, OnItsWay
    <3> QED
      BY <3>1, <3>2, <1>11, <1>1, <1>2, <1>3 DEF NackTaken, RabbitInv, RabbitRunsInv, OnItsWay, history
  <2> QED
    BY <1>1, <1>5, <2>1, <2>2, <2>3
<1>12. ASSUME NEW m \in Messages, Take(m) PROVE ConsumersInv'
  <2>1. Shape'
    BY <1>12, <1>1, <1>2 DEF Take, Shape, history, kafkaVars, brokerVars, rabbitVars
  <2>2. RabbitInv'
    BY <1>12, <1>1, <1>2, <1>3, <1>4 DEF Take, RabbitInv, Shape, OnItsWay, Gone, brokerVars, rabbitVars
  <2>3. RabbitRunsInv'
    BY <1>12, <1>1, <1>2, <1>3, <1>4 DEF Take, RabbitInv, RabbitRunsInv, Shape, OnItsWay, history, brokerVars, rabbitVars
  <2> QED
    BY <1>1, <1>5, <2>1, <2>2, <2>3
<1>13. ASSUME NEW m \in Messages, Deliver(m) PROVE ConsumersInv'
  <2>1. Shape'
    BY <1>13, <1>1, <1>2 DEF Deliver, Shape, history, kafkaVars, brokerVars, rabbitVars, consumingVars, loopVars
  <2>2. RabbitInv'
    BY <1>13, <1>1, <1>2, <1>3, <1>4 DEF Deliver, RabbitInv, Shape, OnItsWay, Gone, brokerVars, rabbitVars, consumingVars, loopVars
  <2>3. RabbitRunsInv'
    BY <1>13, <1>1, <1>2, <1>3, <1>4 DEF Deliver, RabbitInv, RabbitRunsInv, Shape, OnItsWay, history, brokerVars, rabbitVars, consumingVars, loopVars
  <2> QED
    BY <1>1, <1>5, <2>1, <2>2, <2>3
<1> QED
  BY <1>6, <1>7, <1>8, <1>9, <1>10, <1>11, <1>12, <1>13

(* The goroutine of a delivery is started. *)
LEMMA RabbitSpawnKeeps ==
    ASSUME ConsumersInv, Of("rabbit"), RabbitSpawn
    PROVE  ConsumersInv'
<1> USE ConsumingAssumption DEF ConsumersInv, Messages
<1>1. /\ transport = "rabbit" /\ UNCHANGED <<transport, kafkaVars, rabbitVars>>
      /\ RabbitInv /\ RabbitRunsInv
  BY DEF Of, RabbitSpawn
<1>2. /\ UNCHANGED <<sent, loop, buffer, losses, history>> /\ loop = "up"
      /\ taken \in Messages /\ taken' = 0
      /\ stage' = [stage EXCEPT ![taken] = IF taken \in Malformed THEN "drop" ELSE "dispatch"]
  BY DEF RabbitSpawn, Spawn, Advance, Shape
<1>3. UNCHANGED <<Settleable, Handled, TurnedAway, Gone>>
  BY <1>1, <1>2 DEF Settleable, Handled, TurnedAway, Gone, history, rabbitVars, brokerVars
<1>4. Active' = Active \cup {taken}
  BY <1>2 DEF Active, Shape
<1>5. Shape'
  BY <1>1, <1>2 DEF Shape, kafkaVars, history, rabbitVars, brokerVars, Stages
<1>6. StageInv'
  BY <1>1, <1>2, <1>3 DEF StageInv, Shape, Settleable
<1>7. \A m \in Messages : OnItsWay(m)' <=> OnItsWay(m)
  BY <1>1, <1>2, <1>4 DEF OnItsWay, rabbitVars
<1>8. RabbitInv'
  <2>1. \A m \in Messages : stage'[m] # "slot"
    BY <1>1, <1>2 DEF RabbitInv, Shape
  <2>2. deliveries' \cap Active' = {} /\ taken' \notin deliveries' \cup Active'
    BY <1>1, <1>2, <1>4 DEF RabbitInv, rabbitVars, Shape, Active
  <2>3. \A m \in Messages : OnItsWay(m)' => IF channel' THEN m \in unsettled' ELSE m \in ready'
    BY <1>1, <1>7 DEF RabbitInv, rabbitVars, brokerVars
  <2> QED
    BY <2>1, <2>2, <2>3, <1>1, <1>2, <1>3 DEF RabbitInv, rabbitVars, brokerVars
<1>9. RabbitRunsInv'
  <2>1. stage[taken] = "none" /\ OnItsWay(taken)
    BY <1>1, <1>2 DEF RabbitInv, Active, OnItsWay
  <2>2. \A m \in Messages : m # taken => stage'[m] = stage[m]
    BY <1>2 DEF Shape
  <2> QED
    BY <2>1, <2>2, <1>1, <1>2, <1>7 DEF RabbitInv, RabbitRunsInv, rabbitVars, brokerVars, history, Shape
<1> QED
  BY <1>1, <1>5, <1>6, <1>8, <1>9

(* The rest of a message on RabbitMQ: what leaves the queue is done. *)
LEMMA RabbitHandleKeeps ==
    ASSUME ConsumersInv, Of("rabbit"), NEW m \in Messages, RabbitHandle(m)
    PROVE  ConsumersInv'
<1> USE ConsumingAssumption DEF ConsumersInv, Messages
<1>1. /\ transport = "rabbit" /\ UNCHANGED <<transport, kafkaVars>>
      /\ RabbitInv /\ RabbitRunsInv
  BY DEF Of
<1>2. CASE ~Settle(m)
  <2> DEFINE to == IF requeue THEN "requeue" ELSE "drop"
  <2>1. UNCHANGED rabbitVars /\ (HandlerRuns(m) \/ DispatchRefused(m, to) \/ Reply(m))
    BY <1>2 DEF RabbitHandle
  <2>2. to \in {"ack", "reply", "requeue", "drop"} /\ (to = "requeue" <=> transport = "rabbit" /\ requeue)
    BY <1>1
  <2> HIDE DEF to
  <2>3. /\ Shape' /\ StageInv'
        /\ Settleable \subseteq Settleable'
        /\ UNCHANGED <<loop, taken, losses, Active>>
        /\ stage' = [stage EXCEPT ![m] = stage'[m]] /\ stage'[m] \notin {"none", "slot", "dispatch"}
        /\ m \in Active
        /\ \/ runs' = runs
           \/ stage[m] = "dispatch" /\ runs' = [runs EXCEPT ![m] = @ + 1] /\ stage'[m] \in {"reply", "ack"}
        /\ stage[m] = "reply" => stage'[m] = "ack"
        /\ stage[m] \in {"dispatch", "reply"}
    BY <1>1, <2>1, <2>2, HandlingKeepsStages
  <2>4. UNCHANGED <<ready, unsettled, channel, deliveries, Gone>>
    BY <2>1 DEF rabbitVars, brokerVars, Gone
  <2>5. \A k \in Messages : OnItsWay(k)' <=> OnItsWay(k)
    BY <2>3, <2>4 DEF OnItsWay
  <2>6. RabbitInv'
    <3>1. \A k \in Messages : stage'[k] # "slot"
      BY <1>1, <2>3 DEF RabbitInv, Shape
    <3> QED
      BY <3>1, <2>3, <2>4, <2>5, <1>1 DEF RabbitInv
  <2>7. RabbitRunsInv'
    <3>1. OnItsWay(m) /\ runs \in [Messages -> Nat] /\ losses \in Nat /\ stage \in [Messages -> Stages]
      BY <2>3 DEF OnItsWay, Shape
    <3>2. \A k \in Messages : k # m => runs'[k] = runs[k] /\ stage'[k] = stage[k]
      BY <3>1, <2>3
    <3>3. stage[m] = "dispatch" => runs[m] <= losses /\ (~channel => runs[m] < losses)
      BY <3>1, <1>1 DEF RabbitInv, RabbitRunsInv
    <3>4. runs'[m] <= losses + 1
      BY <3>1, <3>3, <2>3, <1>1 DEF RabbitRunsInv
    <3>5. m \in ready => runs'[m] <= losses
      <4>1. CASE runs' = runs
        BY <4>1, <1>1 DEF RabbitRunsInv
      <4>2. CASE stage[m] = "dispatch" /\ runs' = [runs EXCEPT ![m] = @ + 1]
        BY <4>2, <3>1, <3>3, <1>1 DEF RabbitInv
      <4> QED
        BY <4>1, <4>2, <2>3
    <3>6. m \in unsettled /\ stage'[m] \notin {"reply", "ack"} => runs'[m] <= losses
      BY <3>1, <2>3, <1>1 DEF RabbitRunsInv
    <3> QED
      BY <3>1, <3>2, <3>4, <3>5, <3>6, <2>3, <2>4, <2>5, <1>1 DEF RabbitRunsInv
  <2> QED
    BY <1>1, <2>3, <2>6, <2>7
<1>3. CASE Settle(m)
  <2>1. /\ UNCHANGED <<sent, loop, buffer, taken, losses, history, requeue, channel, deliveries>>
        /\ stage[m] \in {"ack", "requeue", "drop"} /\ m \in Active
        /\ stage' = [stage EXCEPT ![m] = "none"]
        /\ unsettled' = unsettled \ {m}
        /\ ready' = IF m \in unsettled /\ stage[m] = "requeue" THEN ready \cup {m} ELSE ready
    BY <1>3 DEF Settle, Advance, loopVars, Active
  <2>2. UNCHANGED <<Settleable, Handled, TurnedAway>> /\ Active' = Active \ {m}
    BY <1>1, <2>1 DEF Settleable, Handled, TurnedAway, history, Active, Shape
  <2>3. Shape'
    <3>1. ready' \in SUBSET Messages /\ unsettled' \in SUBSET Messages
      BY <2>1 DEF Shape
    <3> QED
      BY <3>1, <1>1, <2>1 DEF Shape, Stages, history, kafkaVars
  <2>4. StageInv'
    BY <1>1, <2>1, <2>2 DEF StageInv, Shape
  <2>5. OnItsWay(m) /\ m # taken /\ m \notin deliveries
    BY <2>1, <1>1 DEF OnItsWay, RabbitInv
  <2>6. ~OnItsWay(m)' /\ \A k \in Messages : OnItsWay(k)' => OnItsWay(k)
    BY <2>1, <2>2, <2>5 DEF OnItsWay
  <2>7. \A k \in Messages : k # m => stage'[k] = stage[k]
    BY <2>1 DEF Shape
  <2>8. RabbitInv'
    <3>1. Gone' \subseteq Settleable
      BY <2>1, <1>1 DEF Gone, RabbitInv, StageInv
    <3>2. ready' \cap unsettled' = {} /\ (~channel => unsettled' = {})
      BY <2>1, <1>1 DEF RabbitInv
    <3>3. \A k \in Messages : OnItsWay(k)' => IF channel THEN k \in unsettled' ELSE k \in ready'
      BY <2>1, <2>6, <1>1 DEF RabbitInv
    <3> QED
      BY <3>1, <3>2, <3>3, <2>1, <2>2, <2>7, <1>1 DEF RabbitInv, Shape
  <2>9. RabbitRunsInv'
    <3>1. m \in ready' => runs[m] <= losses
      BY <2>1, <1>1 DEF RabbitRunsInv
    <3> QED
      BY <3>1, <2>1, <2>6, <2>7, <1>1 DEF RabbitRunsInv, history
  <2> QED
    BY <1>1, <2>3, <2>4, <2>8, <2>9
<1> QED
  BY <1>2, <1>3

LEMMA RabbitCrashKeeps ==
    ASSUME ConsumersInv, Of("rabbit"), RabbitCrash
    PROVE  ConsumersInv'
<1> USE ConsumingAssumption DEF ConsumersInv, Messages
<1>1. /\ transport = "rabbit" /\ UNCHANGED <<transport, kafkaVars>>
      /\ RabbitInv /\ RabbitRunsInv
  BY DEF Of
<1>2. /\ UNCHANGED <<sent, buffer, history, requeue>>
      /\ loop' = "off" /\ losses' = losses + 1 /\ taken' = 0 /\ deliveries' = {}
      /\ ~channel' /\ ready' = ready \cup unsettled /\ unsettled' = {}
      /\ stage' = [k \in Messages |-> "none"]
  BY DEF RabbitCrash, LoseChannel
<1>3. UNCHANGED <<Settleable, Handled, TurnedAway, Gone>> /\ Active' = {}
  BY <1>1, <1>2 DEF Settleable, Handled, TurnedAway, history, Active, Gone
<1>4. Shape'
  BY <1>1, <1>2 DEF Shape, Stages, history, kafkaVars
<1>5. StageInv'
  BY <1>1, <1>2, <1>3 DEF StageInv
<1>6. \A m \in Messages : ~OnItsWay(m)'
  BY <1>2, <1>3 DEF OnItsWay
<1>7. RabbitInv'
  BY <1>1, <1>2, <1>3, <1>6 DEF RabbitInv
<1>8. RabbitRunsInv'
  BY <1>1, <1>2, <1>6 DEF RabbitRunsInv, history, Shape
<1> QED
  BY <1>1, <1>4, <1>5, <1>7, <1>8

LEMMA RabbitKeeps ==
    ASSUME ConsumersInv, Of("rabbit"),
           \/ RabbitListen \/ RabbitLoop \/ LoopEnds \/ RabbitListenReturns \/ RabbitNext
           \/ \E m \in Messages : RabbitHandle(m)
    PROVE  ConsumersInv'
  BY RabbitLoopKeeps, RabbitSpawnKeeps, RabbitHandleKeeps, RabbitCrashKeeps
  DEF RabbitLoop, RabbitNext

-----------------------------------------------------------------------------
(* The buffer of a transport that keeps nothing: no message is in it twice. *)
LEMMA BufferGrows ==
    ASSUME Shape, NEW m \in Messages, m \notin InBuffer, buffer' = Append(buffer, m),
           \A i, j \in DOMAIN buffer : buffer[i] = buffer[j] => i = j
    PROVE  /\ buffer' \in Seq(Messages) /\ InBuffer' = InBuffer \cup {m}
           /\ \A i, j \in DOMAIN buffer' : buffer'[i] = buffer'[j] => i = j
<1>1. /\ buffer \in Seq(Messages) /\ buffer' \in Seq(Messages) /\ Len(buffer) \in Nat
      /\ DOMAIN buffer = 1..Len(buffer) /\ DOMAIN buffer' = 1..(Len(buffer) + 1)
      /\ buffer'[Len(buffer) + 1] = m /\ \A i \in 1..Len(buffer) : buffer'[i] = buffer[i]
  BY DEF Shape
<1>2. \A i \in 1..Len(buffer) : buffer[i] # m
  BY <1>1 DEF InBuffer
<1>3. \A i \in DOMAIN buffer' : i \in DOMAIN buffer \/ i = Len(buffer) + 1
  BY <1>1
<1>4. InBuffer' = InBuffer \cup {m}
  BY <1>1, <1>3 DEF InBuffer
<1> QED
  BY <1>1, <1>2, <1>3, <1>4

LEMMA BufferShrinks ==
    ASSUME Shape, buffer # <<>>, buffer' = Tail(buffer),
           \A i, j \in DOMAIN buffer : buffer[i] = buffer[j] => i = j
    PROVE  /\ buffer' \in Seq(Messages) /\ InBuffer' = InBuffer \ {Head(buffer)}
           /\ Head(buffer) \in Messages \cap InBuffer
           /\ \A i, j \in DOMAIN buffer' : buffer'[i] = buffer'[j] => i = j
<1>1. /\ buffer \in Seq(Messages) /\ buffer' \in Seq(Messages) /\ Len(buffer) \in Nat \ {0}
      /\ DOMAIN buffer = 1..Len(buffer) /\ DOMAIN buffer' = 1..(Len(buffer) - 1)
      /\ \A i \in 1..(Len(buffer) - 1) : buffer'[i] = buffer[i + 1]
      /\ Head(buffer) = buffer[1]
  BY DEF Shape
<1>2. \A i \in DOMAIN buffer' : i \in Nat /\ i + 1 \in DOMAIN buffer /\ buffer'[i] = buffer[i + 1]
  BY <1>1
<1>3. \A i \in DOMAIN buffer : i = 1 \/ (i - 1 \in DOMAIN buffer' /\ buffer'[i - 1] = buffer[i])
  BY <1>1
<1>4. 1 \in DOMAIN buffer /\ buffer[1] \in Messages
  BY <1>1
<1>5. InBuffer' = InBuffer \ {Head(buffer)}
  <2>1. ASSUME NEW x \in InBuffer' PROVE x \in InBuffer /\ x # Head(buffer)
    <3>1. PICK i \in DOMAIN buffer' : x = buffer'[i]
      BY <2>1 DEF InBuffer
    <3>2. i + 1 # 1 /\ i + 1 \in DOMAIN buffer /\ x = buffer[i + 1]
      BY <3>1, <1>2
    <3> QED
      BY <3>2, <1>1, <1>4 DEF InBuffer
  <2>2. ASSUME NEW x \in InBuffer, x # Head(buffer) PROVE x \in InBuffer'
    <3>1. PICK i \in DOMAIN buffer : x = buffer[i]
      BY <2>2 DEF InBuffer
    <3> QED
      BY <3>1, <2>2, <1>1, <1>3 DEF InBuffer
  <2> QED
    BY <2>1, <2>2
<1>6. \A i, j \in DOMAIN buffer' : buffer'[i] = buffer'[j] => i = j
  <2> SUFFICES ASSUME NEW i \in DOMAIN buffer', NEW j \in DOMAIN buffer', buffer'[i] = buffer'[j]
               PROVE  i = j
    OBVIOUS
  <2>1. i + 1 = j + 1
    BY <1>2
  <2> QED
    BY <2>1, <1>2
<1>7. Head(buffer) \in Messages \cap InBuffer
  BY <1>1, <1>4 DEF InBuffer
<1> QED
  BY <1>1, <1>5, <1>6, <1>7

LEMMA EmptyBuffer ==
    ASSUME Shape
    PROVE  /\ InBuffer \subseteq Messages
           /\ InBuffer = {} <=> buffer = <<>>
<1>1. /\ buffer \in Seq(Messages) /\ Len(buffer) \in Nat /\ DOMAIN buffer = 1..Len(buffer)
      /\ buffer \in [1..Len(buffer) -> Messages]
  BY DEF Shape
<1>2. InBuffer \subseteq Messages
  BY <1>1 DEF InBuffer
<1>3. ASSUME buffer # <<>> PROVE InBuffer # {}
  <2>1. 1 \in DOMAIN buffer
    BY <1>1, <1>3
  <2> QED
    BY <2>1 DEF InBuffer
<1>4. ASSUME buffer = <<>> PROVE InBuffer = {}
  BY <1>4 DEF InBuffer
<1> QED
  BY <1>2, <1>3, <1>4

-----------------------------------------------------------------------------
(* NATS, Redis, TCP and gRPC.  The steps of Listen that take, start and    *)
(* drop nothing.                                                           *)
LEMMA DirectLoopKeeps ==
    ASSUME ConsumersInv, transport \notin {"kafka", "rabbit"},
           UNCHANGED <<transport, kafkaVars, rabbitVars>>,
           UNCHANGED <<sent, buffer, taken, stage, losses, runs, refused, replied, dropped>>,
           \/ ListenOnce
           \/ loop' = loop /\ UNCHANGED forced
           \/ transport = "nats" /\ NatsListenReturns
           \/ transport = "redis" /\ RedisListenReturns
           \/ transport = "tcp" /\ (TcpListenReturns \/ TcpWaitGivenUp)
           \/ transport = "grpc" /\ (GrpcStops \/ GrpcListenReturns)
    PROVE  ConsumersInv'
<1> USE ConsumingAssumption DEF ConsumersInv, Messages
<1>1. UNCHANGED <<Settleable, Handled, TurnedAway, Active, InBuffer>>
  BY DEF Settleable, Handled, TurnedAway, Active, InBuffer, rabbitVars
<1>2. loop' \in {"off", "up", "draining", "returned"} /\ (loop' = "off" => loop = "off")
  BY DEF Shape, ListenOnce, NatsListenReturns, RedisListenReturns, TcpListenReturns, TcpWaitGivenUp,
         GrpcStops, GrpcListenReturns
<1>3. Shape'
  BY <1>2 DEF Shape, kafkaVars, rabbitVars, brokerVars
<1>4. StageInv'
  BY <1>1 DEF StageInv
<1>5. DirectInv'
  BY <1>1 DEF DirectInv
<1>6. DirectLoopInv'
  <2>1. CASE ListenOnce
    <3>1. sent = 0 /\ DirectInv /\ loop' \in {"up", "returned"}
      BY <2>1 DEF ListenOnce, DirectLoopInv
    <3>2. InBuffer = {} /\ taken = 0
      BY <3>1, EmptyBuffer DEF DirectInv, Shape
    <3>3. buffer = <<>>
      BY <3>2, EmptyBuffer
    <3>4. \A m \in Messages : stage[m] = "none"
      BY <3>1 DEF DirectInv
    <3>5. Active = {}
      BY <3>4 DEF Active
    <3> QED
      BY <3>1, <3>2, <3>3, <3>4, <3>5, <1>1 DEF DirectLoopInv
  <2>2. CASE loop' = loop /\ UNCHANGED forced
    BY <2>2, <1>1 DEF DirectLoopInv
  <2>3. CASE transport = "nats" /\ NatsListenReturns
    BY <2>3, <1>1 DEF DirectLoopInv, NatsListenReturns
  <2>4. CASE transport = "redis" /\ RedisListenReturns
    BY <2>4, <1>1 DEF DirectLoopInv, RedisListenReturns
  <2>5. CASE transport = "tcp" /\ (TcpListenReturns \/ TcpWaitGivenUp)
    BY <2>5, <1>1 DEF DirectLoopInv, TcpListenReturns, TcpWaitGivenUp
  <2>6. CASE transport = "grpc" /\ (GrpcStops \/ GrpcListenReturns)
    BY <2>6, <1>1 DEF DirectLoopInv, GrpcStops, GrpcListenReturns
  <2> QED
    BY <2>1, <2>2, <2>3, <2>4, <2>5, <2>6
<1> QED
  BY <1>3, <1>4, <1>5, <1>6

(* What leaves the buffer, or the wait for a slot, without a handler is in *)
(* the history of what was dropped.                                        *)
LEMMA DirectDropKeeps ==
    ASSUME ConsumersInv, transport \notin {"kafka", "rabbit"},
           UNCHANGED <<transport, kafkaVars, rabbitVars>>,
           UNCHANGED <<sent, stage, losses, runs, refused, replied>>,
           buffer' \in {buffer, <<>>}, taken' \in {taken, 0},
           dropped \subseteq dropped', dropped' \in SUBSET Messages,
           InBuffer \cup ({taken} \ {0}) \subseteq dropped' \cup InBuffer' \cup {taken'},
           \/ UNCHANGED <<loop, forced>>
           \/ transport = "tcp" /\ loop' = "draining" /\ taken' = 0 /\ buffer' = <<>>
           \/ transport = "redis" /\ loop' = "draining" /\ taken' = 0 /\ buffer' = <<>>
           \/ transport = "grpc" /\ loop' = "returned" /\ forced'
    PROVE  ConsumersInv'
<1> USE ConsumingAssumption DEF ConsumersInv, Messages
<1>1. UNCHANGED <<Handled, TurnedAway, Active>>
  BY DEF Handled, TurnedAway, Active, rabbitVars
<1>2. Settleable \subseteq Settleable' /\ dropped' \subseteq Settleable'
  BY <1>1 DEF Settleable
<1>3. Shape'
  <2>1. loop' \in {"off", "up", "draining", "returned"} /\ taken' \in Messages \cup {0}
    BY DEF Shape
  <2>2. buffer' \in Seq(Messages)
    <3>1. buffer \in Seq(Messages) /\ <<>> \in Seq(Messages)
      BY DEF Shape
    <3> QED
      BY <3>1
  <2> QED
    BY <2>1, <2>2 DEF Shape, kafkaVars, rabbitVars, brokerVars
<1>4. StageInv'
  BY <1>1, <1>2 DEF StageInv
<1>5. InBuffer' \subseteq InBuffer
  BY DEF InBuffer
<1>6. DirectInv'
  <2>1. DirectInv
    OBVIOUS
  <2>2. \A m \in 1..sent : m \in Settleable' \cup InBuffer' \cup {taken'} \/ stage[m] # "none"
    <3> SUFFICES ASSUME NEW m \in 1..sent, stage[m] = "none"
                 PROVE  m \in Settleable' \cup InBuffer' \cup {taken'}
      OBVIOUS
    <3>1. m \in Settleable \cup InBuffer \cup {taken} /\ m # 0
      BY <2>1 DEF DirectInv, Shape
    <3> QED
      BY <3>1, <1>2
  <2>3. \A i, j \in DOMAIN buffer' : buffer'[i] = buffer'[j] => i = j
    BY <2>1 DEF DirectInv
  <2>4. 0 \notin InBuffer /\ sent \in Nat
    <3>1. InBuffer \subseteq 1..MaxMessages
      BY EmptyBuffer
    <3>2. sent \in Nat
      BY DEF Shape
    <3> QED
      BY <3>1, <3>2
  <2>5. \A m \in Messages : m \in InBuffer' \cup {taken'} => m \in InBuffer \cup {taken}
    BY <1>5
  <2>6. \A m \in InBuffer' \cup {taken'} : m <= sent
    BY <2>1, <2>4, <1>5 DEF DirectInv
  <2>7. taken' \notin InBuffer'
    BY <2>1, <2>4, <1>5 DEF DirectInv
  <2>8. \A m \in Messages : m \in InBuffer' \cup {taken'} \/ m > sent => runs[m] = 0 /\ stage[m] = "none"
    BY <2>1, <2>5 DEF DirectInv
  <2> QED
    BY <2>1, <2>2, <2>3, <2>6, <2>7, <2>8 DEF DirectInv
<1>7. DirectLoopInv'
  BY <1>1 DEF DirectLoopInv, Shape
<1> QED
  BY <1>3, <1>4, <1>6, <1>7

(* A message arrives, on a connection, subscription or stream, or as a     *)
(* unary call.                                                             *)
LEMMA DirectArriveKeeps ==
    ASSUME ConsumersInv, transport \notin {"kafka", "rabbit"},
           UNCHANGED <<transport, kafkaVars, rabbitVars>>,
           Arrive \/ (transport = "grpc" /\ GrpcUnaryArrives)
    PROVE  ConsumersInv'
<1> USE ConsumingAssumption DEF ConsumersInv, Messages
<1>1. /\ UNCHANGED <<loop, taken, losses, history>> /\ loop = "up"
      /\ sent \in Nat /\ sent' = sent + 1 /\ sent + 1 \in Messages
      /\ InBuffer \subseteq Messages
      /\ DirectInv /\ DirectLoopInv
  <2>1. InBuffer \subseteq Messages
    BY EmptyBuffer
  <2>2. sent \in Nat /\ DirectInv /\ DirectLoopInv
    BY DEF Shape
  <2>3. CASE Arrive
    BY <2>1, <2>2, <2>3 DEF Arrive
  <2>4. CASE GrpcUnaryArrives
    BY <2>1, <2>2, <2>4 DEF GrpcUnaryArrives, loopVars
  <2> QED
    BY <2>3, <2>4
<1>2. UNCHANGED <<Settleable, Handled, TurnedAway>>
  BY <1>1 DEF Settleable, Handled, TurnedAway, history, rabbitVars
<1>3. sent + 1 \notin InBuffer \cup {taken} /\ stage[sent + 1] = "none" /\ runs[sent + 1] = 0
  BY <1>1 DEF DirectInv, Shape
<1>4. CASE Arrive
  <2>1. buffer' = Append(buffer, sent + 1) /\ UNCHANGED stage
    BY <1>4 DEF Arrive
  <2>2. /\ buffer' \in Seq(Messages) /\ InBuffer' = InBuffer \cup {sent + 1}
        /\ \A i, j \in DOMAIN buffer' : buffer'[i] = buffer'[j] => i = j
    BY <2>1, <1>1, <1>3, BufferGrows DEF DirectInv
  <2>3. Shape'
    BY <2>1, <2>2, <1>1 DEF Shape, history, kafkaVars, rabbitVars, brokerVars
  <2>4. StageInv'
    BY <2>1, <1>2 DEF StageInv
  <2>5. DirectInv'
    <3>1. \A m \in 1..sent' : m \in Settleable \cup InBuffer' \cup {taken} \/ stage[m] # "none"
      <4> SUFFICES ASSUME NEW m \in 1..sent'
                   PROVE  m \in Settleable \cup InBuffer' \cup {taken} \/ stage[m] # "none"
        OBVIOUS
      <4>1. m = sent + 1 \/ m \in 1..sent
        BY <1>1
      <4> QED
        BY <4>1, <2>2, <1>1 DEF DirectInv
    <3>2. \A m \in Messages : m \in InBuffer' \cup {taken} \/ m > sent' =>
            runs[m] = 0 /\ stage[m] = "none"
      BY <2>2, <1>1, <1>3 DEF DirectInv
    <3>3. \A m \in InBuffer' \cup {taken} : m <= sent'
      <4> SUFFICES ASSUME NEW m \in InBuffer' \cup {taken} PROVE m <= sent'
        OBVIOUS
      <4>1. m = sent + 1 \/ (m \in Nat /\ m <= sent)
        BY <2>2, <1>1 DEF DirectInv, Shape
      <4> QED
        BY <4>1, <1>1
    <3>4. taken \notin InBuffer'
      BY <2>2, <1>1, <1>3 DEF DirectInv
    <3> QED
      BY <3>1, <3>2, <3>3, <3>4, <2>1, <2>2, <1>1, <1>2 DEF DirectInv, history
  <2>6. DirectLoopInv'
    BY <2>1, <1>1 DEF DirectLoopInv, history
  <2> QED
    BY <2>3, <2>4, <2>5, <2>6
<1>5. CASE transport = "grpc" /\ GrpcUnaryArrives
  <2>1. stage' = [stage EXCEPT ![sent + 1] = "slot"] /\ UNCHANGED <<buffer, InBuffer>>
    BY <1>5 DEF GrpcUnaryArrives, Advance, loopVars, InBuffer
  <2>2. \A m \in Messages : IF m = sent + 1 THEN stage'[m] = "slot" ELSE stage'[m] = stage[m]
    BY <2>1, <1>1 DEF Shape
  <2>3. Shape'
    BY <2>1, <1>1 DEF Shape, Stages, history, kafkaVars, rabbitVars, brokerVars
  <2>4. StageInv'
    BY <2>2, <1>2 DEF StageInv
  <2>5. DirectInv'
    <3>1. \A m \in 1..sent' : m \in Settleable \cup InBuffer \cup {taken} \/ stage'[m] # "none"
      <4> SUFFICES ASSUME NEW m \in 1..sent'
                   PROVE  m \in Settleable \cup InBuffer \cup {taken} \/ stage'[m] # "none"
        OBVIOUS
      <4>1. m \in Messages /\ (m = sent + 1 \/ m \in 1..sent)
        BY <1>1
      <4> QED
        BY <4>1, <2>2, <1>1 DEF DirectInv
    <3>2. \A m \in Messages : m \in InBuffer \cup {taken} \/ m > sent' =>
            runs[m] = 0 /\ stage'[m] = "none"
      BY <2>2, <1>1, <1>3 DEF DirectInv
    <3>3. \A m \in InBuffer \cup {taken} : m <= sent'
      <4> SUFFICES ASSUME NEW m \in InBuffer \cup {taken} PROVE m <= sent'
        OBVIOUS
      <4>1. m \in Nat /\ m <= sent
        BY <1>1 DEF DirectInv, Shape
      <4> QED
        BY <4>1, <1>1
    <3>4. \A m \in Messages : runs[m] <= 1 /\ (stage'[m] \in {"slot", "dispatch"} => runs[m] = 0)
      BY <2>2, <1>1, <1>3 DEF DirectInv
    <3> QED
      BY <3>1, <3>2, <3>3, <3>4, <2>1, <1>1, <1>2 DEF DirectInv, history
  <2>6. DirectLoopInv'
    BY <1>5, <2>1, <1>1 DEF DirectLoopInv, history
  <2> QED
    BY <2>3, <2>4, <2>5, <2>6
<1> QED
  BY <1>4, <1>5

(* The loop takes the oldest message. *)
LEMMA DirectTakeKeeps ==
    ASSUME ConsumersInv, transport \notin {"kafka", "rabbit"},
           UNCHANGED <<transport, kafkaVars, rabbitVars>>,
           TakeHead({}) \/ TakeHead(Malformed),
           transport \in {"redis", "tcp"} => loop = "up"
    PROVE  ConsumersInv'
<1> USE ConsumingAssumption DEF ConsumersInv, Messages
<1>1. /\ UNCHANGED <<sent, loop, stage, losses, history>>
      /\ taken = 0 /\ buffer # <<>> /\ buffer' = Tail(buffer)
      /\ taken' = Head(buffer) \/ (taken' = 0 /\ Head(buffer) \in Malformed)
  BY DEF TakeHead
<1>2. /\ DirectInv /\ DirectLoopInv /\ sent \in Nat
      /\ InBuffer \subseteq Messages
  <2>1. InBuffer \subseteq Messages
    BY EmptyBuffer
  <2> QED
    BY <2>1 DEF Shape
<1>3. /\ buffer' \in Seq(Messages) /\ InBuffer' = InBuffer \ {Head(buffer)}
      /\ Head(buffer) \in Messages \cap InBuffer
      /\ \A i, j \in DOMAIN buffer' : buffer'[i] = buffer'[j] => i = j
  BY <1>2, <1>1, BufferShrinks DEF DirectInv
<1>4. UNCHANGED <<Settleable, Handled, TurnedAway, Active>>
  BY <1>1 DEF Settleable, Handled, TurnedAway, Active, history, rabbitVars
<1>5. InBuffer \subseteq Settleable \cup InBuffer' \cup {taken'}
  BY <1>2, <1>1, <1>3 DEF Settleable
<1>6. Shape'
  BY <1>2, <1>1, <1>3 DEF Shape, history, kafkaVars, rabbitVars, brokerVars
<1>7. StageInv'
  BY <1>2, <1>1, <1>4 DEF StageInv
<1>8. DirectInv'
  <2>1. \A m \in 1..sent : m \in Settleable \cup InBuffer' \cup {taken'} \/ stage[m] # "none"
    <3> SUFFICES ASSUME NEW m \in 1..sent, stage[m] = "none"
                 PROVE  m \in Settleable \cup InBuffer' \cup {taken'}
      OBVIOUS
    <3>1. m \in Settleable \cup InBuffer
      BY <1>2, <1>1 DEF DirectInv
    <3> QED
      BY <3>1, <1>5
  <2>2. \A m \in Messages : m \in InBuffer' \cup {taken'} => m \in InBuffer
    BY <1>1, <1>3
  <2>3. \A m \in InBuffer' \cup {taken'} : m <= sent
    BY <1>2, <1>1, <1>3 DEF DirectInv
  <2>4. taken' \notin InBuffer'
    BY <1>1, <1>2, <1>3
  <2> QED
    BY <2>1, <2>2, <2>3, <2>4, <1>1, <1>3, <1>4 DEF DirectInv, history
<1>9. DirectLoopInv'
  BY <1>2, <1>1, <1>4 DEF DirectLoopInv, history
<1> QED
  BY <1>6, <1>7, <1>8, <1>9

(* The message that waited for a slot is in work. *)
LEMMA DirectSpawnKeeps ==
    ASSUME ConsumersInv, transport \notin {"kafka", "rabbit"},
           UNCHANGED <<transport, kafkaVars, rabbitVars>>,
           Spawn("drop"), transport \in {"redis", "tcp"} => loop = "up"
    PROVE  ConsumersInv'
<1> USE ConsumingAssumption DEF ConsumersInv, Messages
<1>1. /\ UNCHANGED <<sent, loop, buffer, losses, history>>
      /\ taken \in Messages /\ taken' = 0
      /\ stage' = [stage EXCEPT ![taken] = IF taken \in Malformed THEN "drop" ELSE "dispatch"]
  BY DEF Spawn, Advance, Shape
<1>2. DirectInv /\ DirectLoopInv /\ sent \in Nat /\ stage \in [Messages -> Stages]
  BY DEF Shape
<1>3. InBuffer \subseteq Messages
  BY EmptyBuffer
<1>4. UNCHANGED <<Settleable, Handled, TurnedAway, InBuffer>>
  BY <1>1 DEF Settleable, Handled, TurnedAway, InBuffer, history, rabbitVars
<1>5. /\ \A m \in Messages : m # taken => stage'[m] = stage[m]
      /\ stage'[taken] = IF taken \in Malformed THEN "drop" ELSE "dispatch"
      /\ runs[taken] = 0 /\ taken \notin InBuffer /\ taken <= sent
  BY <1>1, <1>2 DEF DirectInv
<1>6. Shape'
  BY <1>1 DEF Shape, kafkaVars, history, rabbitVars, brokerVars, Stages
<1>7. StageInv'
  BY <1>1, <1>4, <1>5 DEF StageInv, Settleable
<1>8. DirectInv'
  <2>1. \A m \in 1..sent : m \in Settleable \cup InBuffer \/ stage'[m] # "none"
    <3> SUFFICES ASSUME NEW m \in 1..sent
                 PROVE  m \in Settleable \cup InBuffer \/ stage'[m] # "none"
      OBVIOUS
    <3>1. m \in Messages
      BY DEF Shape
    <3>2. CASE m = taken
      BY <3>2, <1>5
    <3>3. CASE m # taken
      BY <3>1, <3>3, <1>2, <1>5 DEF DirectInv
    <3> QED
      BY <3>2, <3>3
  <2>2. \A m \in Messages : m \in InBuffer \/ m > sent => runs[m] = 0 /\ stage'[m] = "none"
    BY <1>2, <1>5 DEF DirectInv
  <2>3. \A m \in Messages : runs[m] <= 1 /\ (stage'[m] \in {"slot", "dispatch"} => runs[m] = 0)
    BY <1>2, <1>5 DEF DirectInv
  <2>4. \A m \in InBuffer \cup {0} : m <= sent
    BY <1>2 DEF DirectInv
  <2> QED
    BY <2>1, <2>2, <2>3, <2>4, <1>1, <1>2, <1>3, <1>4 DEF DirectInv, history
<1>9. DirectLoopInv'
  <2>1. transport # "grpc" => \A m \in Messages : stage'[m] # "slot"
    BY <1>2, <1>5 DEF DirectLoopInv
  <2> QED
    BY <2>1, <1>1, <1>2 DEF DirectLoopInv, history
<1> QED
  BY <1>6, <1>7, <1>8, <1>9

(* A goroutine with a message goes on to its next stage. *)
LEMMA DirectStageKeeps ==
    ASSUME ConsumersInv, transport \notin {"kafka", "rabbit"},
           UNCHANGED <<transport, sent, loop, buffer, taken, losses, forced>>,
           NEW m \in Messages, stage[m] # "none",
           stage' = [stage EXCEPT ![m] = stage'[m]], stage'[m] # "slot",
           stage'[m] = "none" => m \in Settleable',
           stage'[m] = "dispatch" => stage[m] = "slot",
           Settleable \subseteq Settleable',
           \/ runs' = runs
           \/ stage[m] = "dispatch" /\ runs' = [runs EXCEPT ![m] = @ + 1] /\ stage'[m] # "dispatch"
    PROVE  DirectInv' /\ DirectLoopInv'
<1> USE ConsumingAssumption DEF ConsumersInv, Messages
<1>1. DirectInv /\ DirectLoopInv /\ sent \in Nat /\ stage \in [Messages -> Stages]
      /\ runs \in [Messages -> Nat] /\ sent <= MaxMessages
  BY DEF Shape
<1>2. InBuffer' = InBuffer
  BY DEF InBuffer
<1>3. m \notin InBuffer \cup {taken} /\ m <= sent
  BY <1>1 DEF DirectInv
<1>4. \A k \in Messages : k # m => stage'[k] = stage[k] /\ runs'[k] = runs[k]
  BY <1>1
<1>5. DirectInv'
  <2>1. \A k \in 1..sent : k \in Settleable' \cup InBuffer \cup {taken} \/ stage'[k] # "none"
    <3> SUFFICES ASSUME NEW k \in 1..sent
                 PROVE  k \in Settleable' \cup InBuffer \cup {taken} \/ stage'[k] # "none"
      OBVIOUS
    <3>1. k \in Messages
      BY <1>1
    <3>2. CASE k = m
      BY <3>2
    <3>3. CASE k # m
      BY <3>1, <3>3, <1>1, <1>4 DEF DirectInv
    <3> QED
      BY <3>2, <3>3
  <2>2. \A k \in Messages : k \in InBuffer \cup {taken} \/ k > sent => runs'[k] = 0 /\ stage'[k] = "none"
    BY <1>1, <1>3, <1>4 DEF DirectInv
  <2>3. runs'[m] <= 1 /\ (stage'[m] \in {"slot", "dispatch"} => runs'[m] = 0)
    BY <1>1 DEF DirectInv
  <2>4. \A k \in Messages : runs'[k] <= 1 /\ (stage'[k] \in {"slot", "dispatch"} => runs'[k] = 0)
    BY <2>3, <1>1, <1>4 DEF DirectInv
  <2> QED
    BY <2>1, <2>2, <2>4, <1>1, <1>2 DEF DirectInv
<1>6. DirectLoopInv'
  <2>1. transport # "grpc" => m \in Active
    BY <1>1 DEF DirectLoopInv, Active
  <2>2. transport # "grpc" => \A k \in Messages : stage'[k] # "slot"
    BY <1>1, <1>4 DEF DirectLoopInv
  <2> QED
    BY <2>1, <2>2, <1>1 DEF DirectLoopInv
<1> QED
  BY <1>5, <1>6

LEMMA DirectHandleKeeps ==
    ASSUME ConsumersInv, transport \notin {"kafka", "rabbit"},
           UNCHANGED <<transport, kafkaVars, rabbitVars>>,
           NEW m \in Messages, HandleStep(m) \/ GrpcAcquire(m) \/ GrpcCallEnds(m)
    PROVE  ConsumersInv'
<1> USE ConsumingAssumption DEF ConsumersInv, Messages
<1>1. CASE HandlerRuns(m) \/ Refused(m) \/ Reply(m)
  <2> DEFINE to == IF m \in Requests THEN "reply" ELSE "ack"
  <2>1. to \in {"ack", "reply", "requeue", "drop"} /\ (to = "requeue" <=> transport = "rabbit" /\ requeue)
    OBVIOUS
  <2>2. HandlerRuns(m) \/ DispatchRefused(m, to) \/ Reply(m)
    BY <1>1 DEF Refused
  <2> HIDE DEF to
  <2>3. /\ Shape' /\ StageInv'
        /\ Settleable \subseteq Settleable'
        /\ UNCHANGED <<sent, loop, buffer, taken, losses>>
        /\ stage' = [stage EXCEPT ![m] = stage'[m]] /\ stage'[m] \notin {"none", "slot", "dispatch"}
        /\ \/ runs' = runs
           \/ stage[m] = "dispatch" /\ runs' = [runs EXCEPT ![m] = @ + 1]
        /\ stage[m] \in {"dispatch", "reply"}
    BY <2>1, <2>2, HandlingKeepsStages
  <2>4. UNCHANGED forced
    BY <2>2 DEF HandlerRuns, DispatchRefused, Reply
  <2>5. DirectInv' /\ DirectLoopInv'
    BY <2>3, <2>4, DirectStageKeeps
  <2> QED
    BY <2>3, <2>5
<1>2. CASE HandlerDone(m) \/ GrpcAcquire(m)
  <2>1. /\ UNCHANGED <<sent, loop, buffer, taken, losses, history>>
        /\ stage[m] \in {"ack", "drop", "slot"}
        /\ \/ stage[m] # "slot" /\ stage' = [stage EXCEPT ![m] = "none"]
           \/ stage[m] = "slot" /\ m \in Malformed /\ stage' = [stage EXCEPT ![m] = "drop"]
           \/ stage[m] = "slot" /\ m \notin Malformed /\ stage' = [stage EXCEPT ![m] = "dispatch"]
    BY <1>2 DEF HandlerDone, GrpcAcquire, Advance, loopVars
  <2>2. UNCHANGED <<Settleable, Handled, TurnedAway>>
    BY <2>1 DEF Settleable, Handled, TurnedAway, history, rabbitVars
  <2>3. Shape'
    BY <2>1 DEF Shape, kafkaVars, history, rabbitVars, brokerVars, Stages
  <2>4. StageInv'
    BY <2>1, <2>2 DEF StageInv, Shape, Settleable
  <2>5. /\ stage' = [stage EXCEPT ![m] = stage'[m]]
        /\ \/ stage[m] # "slot" /\ stage'[m] = "none"
           \/ stage[m] = "slot" /\ stage'[m] \in {"drop", "dispatch"}
    BY <2>1 DEF Shape
  <2>6. stage'[m] = "none" => m \in Settleable'
    BY <2>1, <2>2, <2>5 DEF StageInv
  <2>7. DirectInv' /\ DirectLoopInv'
    BY <2>1, <2>2, <2>5, <2>6, DirectStageKeeps DEF history
  <2> QED
    BY <2>3, <2>4, <2>7
<1>3. CASE GrpcCallEnds(m)
  <2>1. /\ UNCHANGED <<sent, loop, buffer, taken, losses, runs, replied, dropped, forced>>
        /\ stage[m] \in {"slot", "dispatch"} /\ refused' = refused \cup {m}
        /\ stage' = [stage EXCEPT ![m] = IF stage[m] = "slot" THEN "none" ELSE "ack"]
    BY <1>3 DEF GrpcCallEnds, Advance, loopVars
  <2>2. Settleable \subseteq Settleable' /\ Handled' = Handled /\ TurnedAway \subseteq TurnedAway'
    BY <2>1, SettleableGrows DEF Shape, rabbitVars, Handled
  <2>3. m \in Settleable'
    BY <2>1 DEF Settleable, TurnedAway
  <2>4. Shape'
    BY <2>1 DEF Shape, kafkaVars, rabbitVars, brokerVars, Stages
  <2>5. stage' = [stage EXCEPT ![m] = stage'[m]] /\ stage'[m] \in {"none", "ack"}
    BY <2>1 DEF Shape
  <2>6. StageInv'
    BY <2>1, <2>2, <2>3, <2>5 DEF StageInv, Shape
  <2>7. DirectInv' /\ DirectLoopInv'
    BY <2>1, <2>2, <2>3, <2>5, DirectStageKeeps
  <2> QED
    BY <2>4, <2>6, <2>7
<1> QED
  BY <1>1, <1>2, <1>3 DEF HandleStep

(* Each of the four transports. *)
LEMMA NatsKeeps ==
    ASSUME ConsumersInv, Of("nats"),
           NatsListen \/ NatsLoop \/ NatsListenReturns \/ NatsNext \/ \E m \in Messages : NatsHandle(m)
    PROVE  ConsumersInv'
<1>1. transport = "nats" /\ UNCHANGED <<transport, kafkaVars, rabbitVars>>
  BY DEF Of
<1>2. CASE NatsListen \/ NatsListenReturns \/ Cancel \/ NatsClose
  BY <1>1, <1>2, DirectLoopKeeps DEF NatsListen, ListenOnce, NatsListenReturns, Cancel, NatsClose, history
<1>3. CASE NatsCallback
  BY <1>1, <1>3, DirectTakeKeeps DEF NatsCallback
<1>4. CASE NatsSpawn
  BY <1>1, <1>4, DirectSpawnKeeps DEF NatsSpawn
<1>5. CASE NatsDropsMessage
  <2>1. taken \in Messages /\ dropped \in SUBSET Messages
    BY <1>5 DEF ConsumersInv, Shape, NatsDropsMessage
  <2>2. /\ UNCHANGED <<sent, stage, losses, runs, refused, replied, loop, forced, buffer, InBuffer>>
        /\ taken' = 0 /\ dropped' = dropped \cup {taken}
    BY <1>5 DEF NatsDropsMessage, InBuffer
  <2> QED
    BY <1>1, <2>1, <2>2, DirectDropKeeps
<1>6. CASE Arrive
  BY <1>1, <1>6, DirectArriveKeeps
<1>7. CASE \E m \in Messages : NatsHandle(m)
  BY <1>1, <1>7, DirectHandleKeeps DEF NatsHandle
<1> QED
  BY <1>2, <1>3, <1>4, <1>5, <1>6, <1>7 DEF NatsLoop, NatsNext

LEMMA RedisKeeps ==
    ASSUME ConsumersInv, Of("redis"),
           \/ RedisListen \/ RedisLoop \/ RedisLoopEnds \/ RedisListenReturns \/ RedisNext
           \/ \E m \in Messages : RedisHandle(m)
    PROVE  ConsumersInv'
<1>1. transport = "redis" /\ UNCHANGED <<transport, kafkaVars, rabbitVars>>
  BY DEF Of
<1>2. CASE RedisListen \/ RedisListenReturns \/ Cancel \/ RedisClose
  BY <1>1, <1>2, DirectLoopKeeps DEF RedisListen, ListenOnce, RedisListenReturns, Cancel, RedisClose, history
<1>3. CASE RedisTake
  BY <1>1, <1>3, DirectTakeKeeps DEF RedisTake
<1>4. CASE RedisSpawn
  BY <1>1, <1>4, DirectSpawnKeeps DEF RedisSpawn
<1>5. CASE RedisLoopEnds
  <2>1. InBuffer \subseteq Messages /\ taken \in Messages \cup {0} /\ dropped \in SUBSET Messages
    BY EmptyBuffer DEF ConsumersInv, Shape
  <2>2. /\ UNCHANGED <<sent, stage, losses, runs, refused, replied, forced>>
        /\ loop' = "draining" /\ buffer' = <<>> /\ taken' = 0
        /\ dropped' = dropped \cup InBuffer \cup ({taken} \ {0})
    BY <1>5 DEF RedisLoopEnds
  <2> QED
    BY <1>1, <2>1, <2>2, DirectDropKeeps
<1>6. CASE Arrive
  BY <1>1, <1>6, DirectArriveKeeps
<1>7. CASE \E m \in Messages : RedisHandle(m)
  BY <1>1, <1>7, DirectHandleKeeps DEF RedisHandle
<1> QED
  BY <1>2, <1>3, <1>4, <1>5, <1>6, <1>7 DEF RedisLoop, RedisNext

LEMMA TcpKeeps ==
    ASSUME ConsumersInv, Of("tcp"),
           \/ TcpListen \/ TcpLoop \/ TcpReadEnds \/ TcpListenReturns \/ TcpNext
           \/ \E m \in Messages : TcpHandle(m)
    PROVE  ConsumersInv'
<1>1. transport = "tcp" /\ UNCHANGED <<transport, kafkaVars, rabbitVars>>
  BY DEF Of
<1>2. CASE TcpListen \/ TcpListenReturns \/ Cancel \/ TcpWaitGivenUp
  BY <1>1, <1>2, DirectLoopKeeps DEF TcpListen, ListenOnce, TcpListenReturns, Cancel, TcpWaitGivenUp, history
<1>3. CASE TcpReadFrame
  BY <1>1, <1>3, DirectTakeKeeps DEF TcpReadFrame
<1>4. CASE TcpSpawn
  BY <1>1, <1>4, DirectSpawnKeeps DEF TcpSpawn
<1>5. InBuffer \subseteq Messages /\ taken \in Messages \cup {0} /\ dropped \in SUBSET Messages
  BY EmptyBuffer DEF ConsumersInv, Shape
<1>6. CASE TcpReadEnds
  <2>1. /\ UNCHANGED <<sent, stage, losses, runs, refused, replied, forced>>
        /\ loop' = "draining" /\ buffer' = <<>> /\ taken' = 0
        /\ dropped' = dropped \cup InBuffer \cup ({taken} \ {0})
    BY <1>6 DEF TcpReadEnds
  <2> QED
    BY <1>1, <1>5, <2>1, DirectDropKeeps
<1>7. CASE TcpClose \/ TcpConnectionEnds
  <2>1. /\ UNCHANGED <<sent, stage, losses, runs, refused, replied, loop, forced>>
        /\ buffer' = <<>> /\ taken' = taken /\ dropped' = dropped \cup InBuffer
    BY <1>7 DEF TcpClose, TcpConnectionEnds
  <2> QED
    BY <1>1, <1>5, <2>1, DirectDropKeeps
<1>8. CASE Arrive
  BY <1>1, <1>8, DirectArriveKeeps
<1>9. CASE \E m \in Messages : TcpHandle(m)
  BY <1>1, <1>9, DirectHandleKeeps DEF TcpHandle
<1> QED
  BY <1>2, <1>3, <1>4, <1>6, <1>7, <1>8, <1>9 DEF TcpLoop, TcpNext

LEMMA GrpcKeeps ==
    ASSUME ConsumersInv, Of("grpc"),
           \/ GrpcListen \/ GrpcLoop \/ GrpcStops \/ GrpcListenReturns \/ GrpcNext
           \/ \E m \in Messages : GrpcHandle(m)
    PROVE  ConsumersInv'
<1>1. transport = "grpc" /\ UNCHANGED <<transport, kafkaVars, rabbitVars>>
  BY DEF Of
<1>2. CASE GrpcListen \/ GrpcStops \/ GrpcListenReturns \/ Cancel \/ GrpcClose
  BY <1>1, <1>2, DirectLoopKeeps
  DEF GrpcListen, ListenOnce, GrpcStops, GrpcListenReturns, Cancel, GrpcClose, history
<1>3. CASE GrpcRecv
  BY <1>1, <1>3, DirectTakeKeeps DEF GrpcRecv
<1>4. CASE GrpcAcquireStreamed
  BY <1>1, <1>4, DirectSpawnKeeps DEF GrpcAcquireStreamed
<1>5. InBuffer \subseteq Messages /\ taken \in Messages \cup {0} /\ dropped \in SUBSET Messages
  BY EmptyBuffer DEF ConsumersInv, Shape
<1>6. CASE GrpcStreamEnds
  <2>1. /\ UNCHANGED <<sent, stage, losses, runs, refused, replied, loop, forced>>
        /\ buffer' = <<>> /\ taken' = 0
        /\ dropped' = dropped \cup InBuffer \cup ({taken} \ {0})
    BY <1>6 DEF GrpcStreamEnds
  <2> QED
    BY <1>1, <1>5, <2>1, DirectDropKeeps
<1>7. CASE GrpcForcedDown
  <2>1. /\ UNCHANGED <<sent, stage, losses, runs, refused, replied>>
        /\ loop' = "returned" /\ forced' /\ buffer' = <<>> /\ taken' = 0
        /\ dropped' = dropped \cup InBuffer \cup ({taken} \ {0})
    BY <1>7 DEF GrpcForcedDown
  <2> QED
    BY <1>1, <1>5, <2>1, DirectDropKeeps
<1>8. CASE GrpcStreamArrives \/ GrpcUnaryArrives
  BY <1>1, <1>8, DirectArriveKeeps DEF GrpcStreamArrives
<1>9. CASE \E m \in Messages : GrpcHandle(m) \/ GrpcCallEnds(m)
  BY <1>1, <1>9, DirectHandleKeeps DEF GrpcHandle, HandleStep
<1> QED
  BY <1>2, <1>3, <1>4, <1>6, <1>7, <1>8, <1>9 DEF GrpcLoop, GrpcNext

-----------------------------------------------------------------------------
LEMMA ConsumersInvInit ==
    ASSUME Init PROVE ConsumersInv
<1> USE ConsumingAssumption DEF Messages
<1>1. /\ sent = 0 /\ loop = "off" /\ buffer = <<>> /\ taken = 0 /\ losses = 0
      /\ stage = [m \in Messages |-> "none"] /\ runs = [m \in Messages |-> 0]
      /\ refused = {} /\ replied = {} /\ dropped = {}
      /\ committed = 1 /\ position = 1
      /\ ready = Messages /\ unsettled = {} /\ ~channel /\ deliveries = {}
      /\ transport \in Transports
  BY DEF Init, ConsumingInit, KafkaInit, RabbitInit
<1>2. Shape
  BY <1>1 DEF Shape, Stages
<1>3. StageInv
  BY <1>1 DEF StageInv
<1>4. Active = {} /\ InBuffer = {} /\ Gone = {}
  BY <1>1 DEF Active, InBuffer, Gone
<1>5. KafkaInv /\ KafkaRunsInv
  BY <1>1, <1>4 DEF KafkaInv, KafkaRunsInv
<1>6. RabbitInv /\ RabbitRunsInv
  BY <1>1, <1>4 DEF RabbitInv, RabbitRunsInv, OnItsWay
<1>7. DirectInv /\ DirectLoopInv
  BY <1>1, <1>4 DEF DirectInv, DirectLoopInv
<1> QED
  BY <1>1, <1>2, <1>3, <1>5, <1>6, <1>7 DEF ConsumersInv

LEMMA ConsumersInvStep ==
    ASSUME ConsumersInv, KafkaSequential, Next PROVE ConsumersInv'
  BY KafkaKeeps, RabbitKeeps, NatsKeeps, RedisKeeps, TcpKeeps, GrpcKeeps
  DEF Next, World, Listen, Loop, LoopStops, ListenReturns, Handle

LEMMA ConsumersInvStutter ==
    ASSUME ConsumersInv, UNCHANGED vars PROVE ConsumersInv'
<1>1. UNCHANGED <<Settleable, Active, InBuffer, Gone, Handled, TurnedAway>>
  BY DEF vars, consumingVars, loopVars, history, kafkaVars, rabbitVars, brokerVars,
         Settleable, Active, InBuffer, Gone, Handled, TurnedAway
<1>2. \A m \in Messages : OnItsWay(m)' <=> OnItsWay(m)
  BY <1>1 DEF OnItsWay, vars, consumingVars, loopVars, rabbitVars
<1> USE DEF vars, consumingVars, loopVars, history, kafkaVars, rabbitVars, brokerVars
<1>3. Shape <=> Shape'
  BY DEF Shape
<1>4. (StageInv <=> StageInv') /\ (KafkaInv <=> KafkaInv')
  BY <1>1 DEF StageInv, KafkaInv
<1>5. KafkaRunsInv <=> KafkaRunsInv'
  BY DEF KafkaRunsInv
<1>6. (RabbitInv <=> RabbitInv') /\ (RabbitRunsInv <=> RabbitRunsInv')
  BY <1>1, <1>2 DEF RabbitInv, RabbitRunsInv
<1>7. (DirectInv <=> DirectInv') /\ (DirectLoopInv <=> DirectLoopInv')
  BY <1>1 DEF DirectInv, DirectLoopInv
<1> QED
  BY <1>3, <1>4, <1>5, <1>6, <1>7 DEF ConsumersInv

(* The inductive invariant of the consumers. *)
THEOREM ConsumersInvariant == KafkaSequential => (Spec => []ConsumersInv)
<1> SUFFICES ASSUME KafkaSequential PROVE Spec => []ConsumersInv
  OBVIOUS
<1>1. Init => ConsumersInv
  BY ConsumersInvInit
<1>2. ConsumersInv /\ [Next]_vars => ConsumersInv'
  BY ConsumersInvStep, ConsumersInvStutter
<1> QED
  BY <1>1, <1>2, PTL DEF Spec

-----------------------------------------------------------------------------
(* What a transport will not deliver again can be forgotten. *)
LEMMA SettledIsSettleable ==
    ASSUME ConsumersInv PROVE Settled \subseteq Settleable
<1>1. CASE transport = "kafka"
  BY <1>1 DEF ConsumersInv, Settled, Passed, KafkaInv
<1>2. CASE transport = "rabbit"
  BY <1>2 DEF ConsumersInv, Settled, RabbitInv
<1>3. CASE transport \notin {"kafka", "rabbit"}
  <2>1. Settled = {m \in 1..sent : stage[m] = "none"} \ (InBuffer \cup {taken})
    BY <1>3 DEF Settled
  <2> QED
    BY <2>1, <1>3 DEF ConsumersInv, DirectInv
<1> QED
  BY <1>1, <1>2, <1>3

(* For any number of messages, crashes, lost channels and slots (one slot  *)
(* on Kafka): a message the transport will not give again was handled, was *)
(* no envelope, was turned away by a shutdown or dropped by a connection.  *)
THEOREM NothingVanishes == KafkaSequential => (Spec => []GoneIsAccountedFor)
<1> SUFFICES ASSUME KafkaSequential PROVE Spec => []GoneIsAccountedFor
  OBVIOUS
<1>1. ConsumersInv => GoneIsAccountedFor
  BY SettledIsSettleable DEF GoneIsAccountedFor, Settleable
<1> QED
  BY <1>1, ConsumersInvariant, PTL

(* A request that ran and will not be given again was answered first, or   *)
(* the attempt was made.                                                   *)
THEOREM AnswersComeFirst == KafkaSequential => (Spec => []AnsweredBeforeSettled)
<1> SUFFICES ASSUME KafkaSequential PROVE Spec => []AnsweredBeforeSettled
  OBVIOUS
<1>1. ConsumersInv => AnsweredBeforeSettled
  BY SettledIsSettleable, ConsumingAssumption DEF AnsweredBeforeSettled, Settleable
<1> QED
  BY <1>1, ConsumersInvariant, PTL

(* A handler runs at most once per message and loss of the consumer. *)
THEOREM RerunsNeedLosses == KafkaSequential => (Spec => []RerunsOnlyAfterLoss)
<1> SUFFICES ASSUME KafkaSequential PROVE Spec => []RerunsOnlyAfterLoss
  OBVIOUS
<1>1. ConsumersInv => RerunsOnlyAfterLoss
  BY DEF ConsumersInv, KafkaRunsInv, RabbitRunsInv, DirectInv, Shape, RerunsOnlyAfterLoss
<1> QED
  BY <1>1, ConsumersInvariant, PTL

(* When Listen is not running, no handler is, except on NATS or after a    *)
(* wait that was given up.                                                 *)
THEOREM ListenAwaitsHandlers == KafkaSequential => (Spec => []NoHandlerOutlivesListen)
<1> SUFFICES ASSUME KafkaSequential PROVE Spec => []NoHandlerOutlivesListen
  OBVIOUS
<1>1. ConsumersInv => NoHandlerOutlivesListen
  <2> SUFFICES ASSUME ConsumersInv, loop \in {"off", "returned"}, transport # "nats", ~forced
               PROVE  Active = {}
    BY DEF NoHandlerOutlivesListen
  <2>1. CASE transport = "kafka"
    BY <2>1 DEF ConsumersInv, KafkaInv
  <2>2. CASE transport = "rabbit"
    BY <2>2 DEF ConsumersInv, RabbitInv
  <2>3. CASE transport \notin {"kafka", "rabbit"} /\ loop = "off"
    <3>1. \A m \in Messages : stage[m] = "none"
      BY <2>3 DEF ConsumersInv, DirectInv, DirectLoopInv, Messages
    <3> QED
      BY <3>1 DEF Active
  <2>4. CASE transport \notin {"kafka", "rabbit"} /\ loop = "returned"
    BY <2>4, ConsumersAssumption DEF ConsumersInv, DirectLoopInv, Active
  <2> QED
    BY <2>1, <2>2, <2>3, <2>4
<1> QED
  BY <1>1, ConsumersInvariant, PTL
=============================================================================
