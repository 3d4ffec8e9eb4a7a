---------------------------- MODULE PipelineProofs ----------------------------
(***************************************************************************)
(* What a client and the composed pipeline guarantee for any number of     *)
(* events, outputs, senders, tries and errors of the service.  The lemmas  *)
(* about the counters of a client, what the close waiter and the wait      *)
(* group of the pipeline count, are about its steps, so that they hold     *)
(* wherever those are taken, alone (Spec) or in the pipeline.              *)
(***************************************************************************)
EXTENDS Pipeline, FiniteSetTheorems, TLAPS

(* All that happens to the client, its queue and the wait group before the *)
(* queue is closed.                                                        *)
ClientMove ==
    \/ Publisher \/ Acknowledge \/ Close \/ Closing \/ Waiter
    \/ PipelineClose \/ PipelineWaited \/ PipelineTimeout

Queued == {queue[i] : i \in 1 .. Len(queue)}

(* The event that the queue has and onPublished has not counted yet.       *)
Accepted == IF pub = "accepted" THEN {next} ELSE {}

Adding == IF pub = "added" THEN 1 ELSE 0
InPublish == IF pub \in {"added", "accepted"} THEN 1 ELSE 0

(* The variables that only have a few values. *)
FlagsInv ==
    /\ isOpen \in BOOLEAN /\ producerOpen \in BOOLEAN
    /\ closing \in BOOLEAN /\ signalDone \in BOOLEAN

ModesInv ==
    /\ pub \in {"idle", "open", "added", "accepted"}
    /\ signalAll \in {0, 1}
    /\ waitRoutine \in {"none", "running", "ended"}
    /\ closer \in {"no", "signal", "stored", "waiting", "closed"}
    /\ pipeline \in {"open", "waiting", "stopping", "closed"}
    /\ ackLoop \in {"idle", "onACK", "zero"}
    /\ timedOut \subseteq {"client", "pipeline"}
    /\ "pipeline" \in timedOut => pipeline \in {"stopping", "closed"}

(* The queue has the events in order; all before its first are acknowledged*)
(* or were never accepted.                                                 *)
OrderInv ==
    /\ next \in 1 .. MaxEvents + 1
    /\ pub # "idle" => next \in Event
    /\ queue \in Seq(Event)
    /\ \A i, j \in 1 .. Len(queue) : i < j => queue[i] < queue[j]
    /\ acked \subseteq Event /\ published \subseteq 1 .. next - 1
    /\ acked \cup Queued = published \cup Accepted
    /\ \A a \in acked, i \in 1 .. Len(queue) : a < queue[i]

(* The close waiter counts what the queue has, what the ack loop is about  *)
(* to report, what publish is about to pass on, and events refused before. *)
WaiterInv ==
    /\ events \in Nat /\ ackCount \in Nat
    /\ events >= Len(queue) + ackCount + Adding
    /\ events <= next - 1 + InPublish

(* The wait group counts the published events that are not acknowledged;   *)
(* it may be one too low while an event is acknowledged before onPublished.*)
GroupInv ==
    eventWaitGroup = IF WaitOnPipelineClose
                     THEN Cardinality(published) - Cardinality(acked) ELSE 0

ClientInv == FlagsInv /\ ModesInv /\ OrderInv /\ WaiterInv /\ GroupInv

LEMMA InitClientInv == Init => ClientInv
<1> SUFFICES ASSUME Init PROVE ClientInv
  OBVIOUS
<1> USE PipelineClientAssumption
<1>1. FlagsInv /\ ModesInv
  BY Zenon DEF Init, FlagsInv, ModesInv
<1>2. Queued = {} /\ Accepted = {}
  BY DEF Init, Queued, Accepted
<1>3. OrderInv
  BY <1>2 DEF Init, OrderInv, Event
<1>4. WaiterInv
  BY DEF Init, WaiterInv, Adding, InPublish
<1>5. GroupInv
  BY FS_EmptySet DEF Init, GroupInv
<1> QED
  BY <1>1, <1>3, <1>4, <1>5 DEF ClientInv

LEMMA FlagsStep ==
  ASSUME FlagsInv, ClientMove \/ QueueClose
  PROVE  FlagsInv'
<1> USE DEF FlagsInv, clientVars, waiterVars, pipelineVars, queueVars
<1>1. CASE Publisher
  BY <1>1, Zenon DEF Publisher, publish, AddEvent, ProducerPublish, onDroppedOnPublish, onPublished
<1>2. CASE Acknowledge
  BY <1>2, Zenon DEF Acknowledge, onACK, ACKEvents, SendSignalAll
<1>3. CASE Close \/ Closing
  BY <1>3, Zenon DEF Close, Closing, signalClose, finishOrWait, FinishClose
<1>4. CASE Waiter
  BY <1>4, Zenon DEF Waiter, ReceiveSignalAll, WaitTimeout, WaitEnds
<1>5. CASE PipelineClose \/ PipelineWaited \/ PipelineTimeout \/ QueueClose
  BY <1>5, Zenon DEF PipelineClose, PipelineWaited, PipelineTimeout, WaitGroupWait, QueueClose
<1> QED
  BY <1>1, <1>2, <1>3, <1>4, <1>5 DEF ClientMove

LEMMA ModesStep ==
  ASSUME ModesInv, ClientMove \/ QueueClose
  PROVE  ModesInv'
<1> USE DEF ModesInv, clientVars, waiterVars, pipelineVars, queueVars
<1>1. CASE publish
  BY <1>1 DEF publish
<1>2. CASE AddEvent
  BY <1>2 DEF AddEvent
<1>3. CASE ProducerPublish
  BY <1>3 DEF ProducerPublish
<1>3d. CASE onDroppedOnPublish
  BY <1>3d DEF onDroppedOnPublish
<1>4. CASE onPublished
  BY <1>4 DEF onPublished
<1>5. CASE Acknowledge
  <2>1. CASE onACK
    BY <2>1 DEF onACK
  <2>2. CASE ACKEvents
    BY <2>2 DEF ACKEvents
  <2>3. CASE SendSignalAll
    BY <2>3 DEF SendSignalAll
  <2> QED
    BY <1>5, <2>1, <2>2, <2>3 DEF Acknowledge
<1>6. CASE Close
  BY <1>6 DEF Close
<1>6s. CASE signalClose
  BY <1>6s DEF signalClose
<1>7. CASE finishOrWait
  BY <1>7 DEF finishOrWait
<1>7f. CASE FinishClose
  BY <1>7f DEF FinishClose
<1>8. CASE Waiter
  <2>1. CASE ReceiveSignalAll
    BY <2>1 DEF ReceiveSignalAll, WaitEnds
  <2>2. CASE WaitTimeout
    BY <2>2 DEF WaitTimeout, WaitEnds
  <2> QED
    BY <1>8, <2>1, <2>2 DEF Waiter
<1>9. CASE PipelineClose \/ QueueClose
  <2>1. CASE PipelineClose
    BY <2>1 DEF PipelineClose
  <2>2. CASE QueueClose
    BY <2>2 DEF QueueClose
  <2> QED
    BY <1>9, <2>1, <2>2
<1>10. CASE PipelineWaited \/ PipelineTimeout
  <2>1. CASE PipelineWaited
    BY <2>1 DEF PipelineWaited, WaitGroupWait
  <2>2. CASE PipelineTimeout
    BY <2>2 DEF PipelineTimeout, WaitGroupWait
  <2> QED
    BY <1>10, <2>1, <2>2
<1> QED
  BY <1>1, <1>2, <1>3, <1>3d, <1>4, <1>5, <1>6, <1>6s, <1>7, <1>7f, <1>8, <1>9, <1>10
     DEF ClientMove, Publisher, Closing

(* Most steps leave the events, and what counts them, alone. *)
Rest == UNCHANGED <<pub, next, queue, published, acked, eventWaitGroup, events, ackCount>>

LEMMA RestInv ==
  ASSUME OrderInv, WaiterInv, GroupInv, Rest
  PROVE  OrderInv' /\ WaiterInv' /\ GroupInv'
<1> USE DEF Rest
<1>1. Queued' = Queued /\ Accepted' = Accepted /\ Adding' = Adding /\ InPublish' = InPublish
  BY DEF Queued, Accepted, Adding, InPublish
<1>2. OrderInv'
  BY <1>1 DEF OrderInv
<1>3. WaiterInv'
  BY <1>1 DEF WaiterInv
<1>4. GroupInv'
  BY DEF GroupInv
<1> QED
  BY <1>2, <1>3, <1>4

LEMMA FiniteEvents ==
  ASSUME OrderInv
  PROVE  IsFiniteSet(published) /\ IsFiniteSet(acked)
<1>1. MaxEvents \in Int /\ next - 1 \in Int
  BY PipelineClientAssumption DEF OrderInv
<1>2. IsFiniteSet(1 .. MaxEvents) /\ IsFiniteSet(1 .. next - 1)
  BY <1>1, FS_Interval
<1> QED
  BY Zenon, <1>2, FS_Subset DEF OrderInv, Event

LEMMA PublisherInv ==
  ASSUME ModesInv, OrderInv, WaiterInv, GroupInv, Publisher
  PROVE  OrderInv' /\ WaiterInv' /\ GroupInv'
<1> USE PipelineClientAssumption DEF waiterVars, pipelineVars, queueVars
<1>1. CASE publish
  <2>1. Queued' = Queued /\ Accepted' = Accepted /\ Accepted = {}
    BY <1>1 DEF publish, Queued, Accepted
  <2>2. OrderInv'
    BY <1>1, <2>1 DEF publish, OrderInv, Event
  <2>3. WaiterInv'
    BY <1>1 DEF publish, OrderInv, WaiterInv, Adding, InPublish, Event
  <2>4. GroupInv'
    BY <1>1 DEF publish, GroupInv
  <2> QED
    BY <2>2, <2>3, <2>4
<1>2. CASE AddEvent
  <2>1. Queued' = Queued /\ Accepted' = Accepted /\ Accepted = {}
    BY <1>2 DEF AddEvent, Queued, Accepted
  <2>2. OrderInv'
    BY <1>2, <2>1 DEF AddEvent, OrderInv, Event
  <2>3. WaiterInv'
    BY <1>2 DEF AddEvent, Inc, OrderInv, WaiterInv, Adding, InPublish, Event
  <2>4. GroupInv'
    BY <1>2 DEF AddEvent, GroupInv
  <2> QED
    BY <2>2, <2>3, <2>4
<1>3. CASE ProducerPublish
  <2>1. /\ next' = next /\ next \in Event /\ Len(queue') = Len(queue) + 1
        /\ \A i \in 1 .. Len(queue) : queue'[i] = queue[i]
        /\ queue'[Len(queue) + 1] = next
        /\ queue' \in Seq(Event)
    BY <1>3 DEF ProducerPublish, OrderInv
  <2>2. Queued' = Queued \cup {next} /\ Accepted' = {next} /\ Accepted = {}
    BY <1>3, <2>1 DEF ProducerPublish, Queued, Accepted, OrderInv
  <2>3. \A b \in acked \cup Queued : b < next
    BY <1>3, <2>2 DEF ProducerPublish, OrderInv, Event
  <2>4. \A i \in 1 .. Len(queue) : queue[i] < next
    BY <2>3 DEF Queued
  <2>5. OrderInv'
    <3>1. \A i, j \in 1 .. Len(queue') : i < j => queue'[i] < queue'[j]
      BY <2>1, <2>4 DEF OrderInv
    <3>2. \A a \in acked, i \in 1 .. Len(queue') : a < queue'[i]
      BY <2>1, <2>3 DEF OrderInv
    <3> QED
      BY <1>3, <2>1, <2>2, <3>1, <3>2 DEF ProducerPublish, OrderInv
  <2>6. WaiterInv'
    BY <1>3, <2>1 DEF ProducerPublish, OrderInv, WaiterInv, Adding, InPublish, Event
  <2>7. GroupInv'
    BY <1>3 DEF ProducerPublish, GroupInv
  <2> QED
    BY <2>5, <2>6, <2>7
<1>4. CASE onDroppedOnPublish
  <2>1. Queued' = Queued /\ Accepted' = Accepted /\ Accepted = {}
    BY <1>4 DEF onDroppedOnPublish, Queued, Accepted
  <2>2. OrderInv'
    BY <1>4, <2>1 DEF onDroppedOnPublish, OrderInv, Event
  <2>3. WaiterInv'
    BY <1>4 DEF onDroppedOnPublish, OrderInv, WaiterInv, Adding, InPublish, Event
  <2>4. GroupInv'
    BY <1>4 DEF onDroppedOnPublish, GroupInv
  <2> QED
    BY <2>2, <2>3, <2>4
<1>5. CASE onPublished
  <2>1. Queued' = Queued /\ Accepted' = {} /\ Accepted = {next}
    BY <1>5 DEF onPublished, Queued, Accepted
  <2>2. OrderInv'
    BY <1>5, <2>1 DEF onPublished, OrderInv, Event
  <2>3. WaiterInv'
    BY <1>5 DEF onPublished, OrderInv, WaiterInv, Adding, InPublish, Event
  <2>4. GroupInv'
    <3>1. next \notin published
      BY DEF OrderInv
    <3> IsFiniteSet(published) /\ IsFiniteSet(acked)
      BY FiniteEvents
    <3>2. Cardinality(published') = Cardinality(published) + 1
      BY Zenon, <1>5, <3>1, FS_AddElement DEF onPublished
    <3>3. Cardinality(published) \in Nat /\ Cardinality(acked) \in Nat
      BY FS_CardinalityType
    <3> QED
      BY <1>5, <3>2, <3>3 DEF onPublished, GroupInv, WaitGroupAdd
  <2> QED
    BY <2>2, <2>3, <2>4
<1> QED
  BY <1>1, <1>2, <1>3, <1>4, <1>5 DEF Publisher

LEMMA AcknowledgeInv ==
  ASSUME ModesInv, OrderInv, WaiterInv, GroupInv, Acknowledge
  PROVE  OrderInv' /\ WaiterInv' /\ GroupInv'
<1> USE PipelineClientAssumption DEF clientVars, waiterVars, pipelineVars
<1>1. CASE onACK
  <2>1. PICK n \in 1 .. Len(queue) :
          /\ ackCount' = n
          /\ queue' = SubSeq(queue, n + 1, Len(queue))
          /\ acked' = acked \cup {queue[i] : i \in 1 .. n}
          /\ eventWaitGroup' = eventWaitGroup - (IF WaitOnPipelineClose THEN n ELSE 0)
    BY <1>1 DEF onACK
  <2> DEFINE first == {queue[i] : i \in 1 .. n}
  <2>2. /\ UNCHANGED <<pub, next, published, events>>
        /\ queue \in Seq(Event) /\ Len(queue) \in Nat /\ n \in Nat /\ n <= Len(queue)
        /\ ackLoop = "idle"
    BY <1>1 DEF onACK, OrderInv
  <2>3. /\ queue' \in Seq(Event) /\ Len(queue') = Len(queue) - n
        /\ \A i \in 1 .. Len(queue') : queue'[i] = queue[i + n] /\ i + n \in 1 .. Len(queue)
    BY <2>1, <2>2
  <2>4. \A i \in 1 .. Len(queue) : queue[i] \in Event
    BY <2>2
  <2>5. first \subseteq Event /\ Queued = first \cup Queued'
    <3>1. first \subseteq Queued
      BY <2>2 DEF Queued
    <3>4. Queued' \subseteq Queued
      BY <2>3 DEF Queued
    <3>2. ASSUME NEW i \in 1 .. Len(queue)
          PROVE  queue[i] \in first \cup Queued'
      <4>1. CASE i <= n
        BY <4>1, <2>2
      <4>2. CASE i > n
        <5>1. i - n \in 1 .. Len(queue') /\ queue'[i - n] = queue[i]
          BY <4>2, <2>2, <2>3
        <5> QED
          BY <5>1 DEF Queued
      <4> QED
        BY <4>1, <4>2, <2>2
    <3> QED
      BY Zenon, <3>1, <3>2, <3>4, <2>2, <2>4 DEF Queued
  <2>6. OrderInv'
    <3>1. ASSUME NEW i \in 1 .. Len(queue'), NEW j \in 1 .. Len(queue'), i < j
          PROVE  queue'[i] < queue'[j]
      <4>1. i + n < j + n
        BY <2>2, <2>3, <3>1
      <4> QED
        BY Zenon, <2>3, <4>1 DEF OrderInv
    <3>2. \A a \in acked', i \in 1 .. Len(queue') : a < queue'[i]
      <4>1. \A a \in acked, i \in 1 .. Len(queue') : a < queue'[i]
        BY <2>3 DEF OrderInv
      <4>2. ASSUME NEW k \in 1 .. n, NEW i \in 1 .. Len(queue')
            PROVE  queue[k] < queue'[i]
        <5>1. k \in 1 .. Len(queue) /\ k < i + n
          BY <2>2, <2>3
        <5> QED
          BY Zenon, <2>3, <5>1 DEF OrderInv
      <4> QED
        BY <2>1, <4>1, <4>2
    <3>3. acked' \subseteq Event /\ acked' \cup Queued' = acked \cup Queued
      BY <2>1, <2>5 DEF OrderInv
    <3>4. Accepted' = Accepted
      BY <2>2 DEF Accepted
    <3> QED
      BY <2>2, <2>3, <3>1, <3>2, <3>3, <3>4 DEF OrderInv
  <2>7. WaiterInv'
    <3>1. Adding' = Adding /\ InPublish' = InPublish /\ Adding \in Nat
      BY <2>2 DEF Adding, InPublish
    <3>2. Len(queue') + ackCount' = Len(queue) /\ ackCount' \in Nat
      BY <2>1, <2>2, <2>3
    <3> QED
      BY <2>2, <3>1, <3>2 DEF WaiterInv
  <2>8. GroupInv'
    <3>1. IsFiniteSet(acked) /\ Cardinality(acked) \in Nat /\ Cardinality(published) \in Nat
      BY FiniteEvents, FS_CardinalityType
    <3>2. IsFiniteSet(first) /\ Cardinality(first) = n
      <4> DEFINE f == [i \in 1 .. n |-> queue[i]]
      <4>1. ASSUME NEW i \in 1 .. n, NEW j \in 1 .. n, i # j
            PROVE  queue[i] # queue[j]
        <5>1. i \in 1 .. Len(queue) /\ j \in 1 .. Len(queue) /\ (i < j \/ j < i)
          BY <2>2, <4>1
        <5>2. queue[i] \in Int /\ queue[j] \in Int
          BY <2>4, <5>1 DEF Event
        <5>3. queue[i] < queue[j] \/ queue[j] < queue[i]
          BY <5>1 DEF OrderInv
        <5> QED
          BY <5>2, <5>3
      <4>2. f \in Bijection(1 .. n, first)
        BY <4>1 DEF Bijection, Injection, Surjection, IsInjective
      <4>3. IsFiniteSet(1 .. n) /\ Cardinality(1 .. n) = n
        BY <2>2, FS_Interval
      <4> QED
        BY <4>2, <4>3, FS_Bijection DEF ExistsBijection
    <3>3. acked \cap first = {}
      <4>1. ASSUME NEW i \in 1 .. n PROVE queue[i] \notin acked
        <5>1. i \in 1 .. Len(queue) /\ queue[i] \in Int
          BY <2>2, <2>4 DEF Event
        <5>2. queue[i] \in acked => queue[i] < queue[i]
          BY <5>1 DEF OrderInv
        <5> QED
          BY <5>1, <5>2
      <4> QED
        BY <4>1
    <3>4. Cardinality(acked') = Cardinality(acked) + n
      <4>1. Cardinality(acked \cap first) = 0
        BY <3>3, FS_EmptySet
      <4>2. Cardinality(acked \cup first) = Cardinality(acked) + n - 0
        <5>1. Cardinality(acked \cup first)
                = Cardinality(acked) + Cardinality(first) - Cardinality(acked \cap first)
          BY <3>1, <3>2, FS_Union, Zenon
        <5> QED
          BY <3>2, <4>1, <5>1
      <4> QED
        BY <2>1, <2>2, <3>1, <4>2
    <3> QED
      BY <2>1, <2>2, <3>1, <3>4 DEF GroupInv
  <2> QED
    BY <2>6, <2>7, <2>8
<1>2. CASE ACKEvents
  <2>1. Queued' = Queued /\ Accepted' = Accepted
    BY <1>2 DEF ACKEvents, Queued, Accepted
  <2>2. OrderInv'
    BY <1>2, <2>1 DEF ACKEvents, OrderInv
  <2>3. WaiterInv'
    BY <1>2 DEF ACKEvents, WaiterInv, OrderInv, Adding, InPublish
  <2>4. GroupInv'
    BY <1>2 DEF ACKEvents, GroupInv
  <2> QED
    BY <2>2, <2>3, <2>4
<1>3. CASE SendSignalAll
  BY <1>3, RestInv DEF SendSignalAll, Rest
<1> QED
  BY <1>1, <1>2, <1>3 DEF Acknowledge

LEMMA ClientInvStep ==
  ASSUME ClientInv, ClientMove \/ QueueClose
  PROVE  ClientInv'
<1> USE DEF ClientInv
<1>1. FlagsInv' /\ ModesInv'
  BY FlagsStep, ModesStep
<1>2. OrderInv' /\ WaiterInv' /\ GroupInv'
  <2>1. CASE Publisher \/ Acknowledge
    BY <2>1, PublisherInv, AcknowledgeInv
  <2>2. CASE Close \/ Closing
    BY Zenon, <2>2, RestInv DEF Close, Closing, signalClose, finishOrWait, FinishClose, Rest,
                         clientVars, waiterVars, pipelineVars, queueVars
  <2>3. CASE Waiter
    BY <2>3, RestInv DEF Waiter, ReceiveSignalAll, WaitTimeout, WaitEnds, Rest,
                         clientVars, waiterVars, pipelineVars, queueVars
  <2>4. CASE PipelineClose \/ PipelineWaited \/ PipelineTimeout \/ QueueClose
    BY Zenon, <2>4, RestInv DEF PipelineClose, PipelineWaited, PipelineTimeout, WaitGroupWait,
                         QueueClose, Rest, clientVars, waiterVars, queueVars
  <2> QED
    BY <2>1, <2>2, <2>3, <2>4 DEF ClientMove
<1> QED
  BY <1>1, <1>2

LEMMA ClientInvStutters ==
  ASSUME ClientInv, UNCHANGED vars
  PROVE  ClientInv'
<1> USE DEF vars, clientVars, waiterVars, pipelineVars, queueVars
<1>1. FlagsInv' /\ ModesInv'
  BY DEF ClientInv, FlagsInv, ModesInv
<1>2. OrderInv' /\ WaiterInv' /\ GroupInv'
  BY RestInv DEF ClientInv, Rest
<1> QED
  BY <1>1, <1>2 DEF ClientInv

LEMMA ClientInvTypeOK ==
  ASSUME ClientInv
  PROVE  TypeOK
<1> USE PipelineClientAssumption DEF ClientInv
<1>1. {isOpen, producerOpen, closing, signalDone} \subseteq BOOLEAN
  BY Zenon DEF FlagsInv
<1>2. published \cup acked \subseteq Event
  <2>1. 1 .. next - 1 \subseteq Event
    BY DEF OrderInv, Event
  <2> QED
    BY Zenon, <2>1 DEF OrderInv
<1>3. events \in 0 .. MaxEvents /\ ackCount \in 0 .. MaxEvents
  <2>1. events <= MaxEvents
    BY DEF WaiterInv, OrderInv, ModesInv, InPublish, Event
  <2>2. Len(queue) \in Nat /\ Adding \in Nat
    BY DEF OrderInv, Adding
  <2> QED
    BY <2>1, <2>2 DEF WaiterInv
<1>4. eventWaitGroup \in -MaxEvents .. MaxEvents
  <2>1. IsFiniteSet(Event) /\ Cardinality(Event) = MaxEvents
    BY FS_Interval DEF Event
  <2>2. /\ Cardinality(published) \in Nat /\ Cardinality(published) <= MaxEvents
        /\ Cardinality(acked) \in Nat /\ Cardinality(acked) <= MaxEvents
    BY <1>2, <2>1, FS_Subset, FS_CardinalityType
  <2> QED
    BY <2>2 DEF GroupInv
<1>5. /\ pub \in {"idle", "open", "added", "accepted"}
      /\ waitRoutine \in {"none", "running", "ended"}
      /\ closer \in {"no", "signal", "stored", "waiting", "closed"}
      /\ pipeline \in {"open", "waiting", "stopping", "closed"}
      /\ ackLoop \in {"idle", "onACK", "zero"}
      /\ timedOut \subseteq {"client", "pipeline"}
  BY Zenon DEF ModesInv
<1>6. signalAll \in 0 .. 1
  BY DEF ModesInv
<1>7. next \in 1 .. MaxEvents + 1 /\ queue \in Seq(Event)
  BY Zenon DEF OrderInv
<1> QED
  BY Zenon, <1>1, <1>2, <1>3, <1>4, <1>5, <1>6, <1>7 DEF TypeOK

(* Pipeline.Close finds the wait group at zero only when everything that   *)
(* was published is acknowledged: an event that is acknowledged before it  *)
(* is counted is later than all others, so it can not hide one of them.    *)
LEMMA GroupZero ==
  ASSUME ClientInv, WaitOnPipelineClose, eventWaitGroup = 0
  PROVE  published \subseteq acked
<1> SUFFICES ASSUME NEW x \in published, x \notin acked
             PROVE  FALSE
  OBVIOUS
<1> USE DEF ClientInv
<1>1. PICK i \in 1 .. Len(queue) : queue[i] = x
  BY DEF OrderInv, Queued
<1>2. x \in Int /\ x < next /\ next \in Int
  BY DEF OrderInv
<1>3. acked \subseteq published \ {x}
  <2>1. next \notin acked
    BY <1>1, <1>2 DEF OrderInv
  <2> QED
    BY <2>1 DEF OrderInv, Accepted
<1>4. IsFiniteSet(published)
  BY FiniteEvents
<1>5. /\ IsFiniteSet(published \ {x})
      /\ Cardinality(published \ {x}) = Cardinality(published) - 1
  BY <1>4, FS_RemoveElement
<1>6. Cardinality(acked) <= Cardinality(published) - 1
  BY <1>3, <1>5, FS_Subset
<1>7. Cardinality(published) \in Nat /\ Cardinality(acked) \in Nat
  BY FiniteEvents, FS_CardinalityType
<1> QED
  BY <1>6, <1>7 DEF GroupInv

LEMMA WaitedForAcks ==
  ASSUME ClientInv, WaitOnPipelineClose, ClientMove \/ QueueClose,
         pipeline' = "stopping", timedOut' = timedOut
  PROVE  pipeline = "stopping" \/ published \subseteq acked
<1>1. CASE PipelineWaited
  BY <1>1, GroupZero DEF PipelineWaited
<1>2. CASE PipelineTimeout
  <2>1. "pipeline" \in timedOut /\ pipeline = "waiting"
    BY <1>2 DEF PipelineTimeout, WaitGroupWait
  <2> QED
    BY <2>1 DEF ClientInv, ModesInv
<1>3. CASE ~PipelineWaited /\ ~PipelineTimeout
  <2>1. pipeline' = pipeline \/ pipeline' # "stopping"
    BY Zenon, <1>3 DEF ClientMove, Publisher, Acknowledge, Closing, Waiter, publish, AddEvent,
                ProducerPublish, onDroppedOnPublish, onPublished, onACK, ACKEvents,
                SendSignalAll, signalClose, finishOrWait, FinishClose, ReceiveSignalAll,
                WaitTimeout, WaitEnds, Close, PipelineClose, QueueClose, pipelineVars
  <2> QED
    BY <2>1
<1> QED
  BY <1>1, <1>2, <1>3

(* The counters of the close waiter and of the wait group stay within      *)
(* their bounds: no acknowledgment makes the unsigned counter wrap, for    *)
(* any number of events, whatever is refused, filtered or cancelled.       *)
THEOREM ClientTypeCorrect == Spec => []TypeOK
<1>1. ClientInv /\ [Next]_vars => ClientInv'
  BY ClientInvStep, ClientInvStutters DEF Next, ClientMove
<1> QED
  BY InitClientInv, <1>1, ClientInvTypeOK, PTL DEF Spec

-----------------------------------------------------------------------------
(* The composed pipeline *)

ControllerMove ==
    \/ queueProducer \/ Set \/ SetEmpty \/ SetWorkers \/ SetNoWorkers
    \/ ControllerClose \/ ControllerClosed \/ ToWorker

(* The client, the output and the controller with the consumer each change *)
(* variables of their own; the queue acknowledges what is done.            *)
LEMMA StepKinds ==
  ASSUME PipelineNext
  PROVE  \/ /\ ClientMove /\ acked' \subseteq acked \cup done
            /\ UNCHANGED <<clsVars, controllerVars, handedOut>>
         \/ OutputStep /\ UNCHANGED <<vars, controllerVars, handedOut>>
         \/ ControllerMove
<1>1. CASE ClientStep(AckDone)
  BY <1>1 DEF ClientStep, AckDone, ClientMove, Acknowledge
<1>2. ASSUME \/ ClientStep(Publisher \/ ACKEvents \/ SendSignalAll \/ Closing \/ ReceiveSignalAll)
             \/ ClientStep(Close) \/ ClientStep(WaitTimeout)
             \/ ClosePipeline \/ Waited(PipelineWaited) \/ Waited(PipelineTimeout)
      PROVE  /\ ClientMove /\ acked' = acked
             /\ UNCHANGED <<clsVars, controllerVars, handedOut>>
  <2>1. ClientMove /\ UNCHANGED <<clsVars, controllerVars, handedOut>>
    BY <1>2 DEF ClientStep, Waited, ClosePipeline, ClientMove, Acknowledge, Waiter
  <2>2. acked' = acked
    BY Zenon, <1>2 DEF ClientStep, Waited, ClosePipeline, Publisher, Closing, publish, AddEvent,
                ProducerPublish, onDroppedOnPublish, onPublished, ACKEvents, SendSignalAll,
                signalClose, finishOrWait, FinishClose, ReceiveSignalAll, WaitTimeout, WaitEnds,
                Close, PipelineClose, PipelineWaited, PipelineTimeout, WaitGroupWait
  <2> QED
    BY <2>1, <2>2
<1> QED
  BY Zenon, <1>1, <1>2 DEF PipelineNext, System, Environment, ClientStep, ClientSystem, ControllerMove

-----------------------------------------------------------------------------
(* Nobody waits for a producer in vain *)

LEMMA ClientMovePipeline ==
  ASSUME ClientMove
  PROVE  pipeline' = pipeline \/ pipeline' # "closed"
  BY Zenon DEF ClientMove, Publisher, Acknowledge, Closing, Waiter, publish, AddEvent, ProducerPublish,
         onDroppedOnPublish, onPublished, onACK, ACKEvents, SendSignalAll, signalClose,
         finishOrWait, FinishClose, ReceiveSignalAll, WaitTimeout, WaitEnds, Close,
         PipelineClose, PipelineWaited, PipelineTimeout, WaitGroupWait, pipelineVars

(* Every request that queueProducer leaves is answered by the step that    *)
(* creates the queue, createQueueIfNeeded, or that closes the controller.  *)
THEOREM NoRequestIsStranded == PipelineSpec => []NoRequestStranded
<1>1. PipelineInit => NoRequestStranded
  BY DEF PipelineInit, NoRequestStranded
<1>2. NoRequestStranded /\ [PipelineNext]_pipelineAll => NoRequestStranded'
  <2> SUFFICES ASSUME NoRequestStranded, [PipelineNext]_pipelineAll
               PROVE  NoRequestStranded'
    OBVIOUS
  <2> USE DEF NoRequestStranded
  <2>1. CASE UNCHANGED pipelineAll
    BY <2>1 DEF pipelineAll, controllerVars, vars, pipelineVars
  <2>2. CASE /\ ClientMove /\ acked' \subseteq acked \cup done
            /\ UNCHANGED <<clsVars, controllerVars, handedOut>>
    BY <2>2, ClientMovePipeline DEF controllerVars
  <2>3. CASE OutputStep /\ UNCHANGED <<vars, controllerVars, handedOut>>
    BY <2>3 DEF controllerVars, vars, pipelineVars
  <2>4. CASE ControllerMove
    <3>1. CASE queueProducer
      BY <3>1 DEF queueProducer, vars, pipelineVars
    <3>2. CASE Set
      BY <3>2 DEF Set, SetStart, createQueueIfNeeded, Answer, vars, pipelineVars
    <3>3. CASE ControllerClosed
      BY <3>3 DEF ControllerClosed, Answer, QueueClose
    <3>4. CASE SetEmpty \/ SetWorkers \/ SetNoWorkers \/ ControllerClose \/ ToWorker
      BY Zenon, <3>4 DEF SetEmpty, SetStart, SetWorkers, SetNoWorkers, ControllerClose, ToWorker,
                  HandOutUnread, HandOut, vars, pipelineVars, controllerVars
    <3> QED
      BY <2>4, <3>1, <3>2, <3>3, <3>4 DEF ControllerMove
  <2> QED
    BY <2>1, <2>2, <2>3, <2>4, StepKinds
<1> QED
  BY <1>1, <1>2, PTL DEF PipelineSpec

-----------------------------------------------------------------------------
(* Guaranteed events are answered by the service before the client hears *)

(* What the queue may acknowledge is what the service has answered.  The   *)
(* done callback is called by Drop only, and a guaranteed batch is dropped *)
(* by the decision of the service or by a consumer that is closed.         *)
AnsweredInv ==
    Guaranteed /\ consumer = "running" => done \subseteq answered /\ acked \subseteq answered

LEMMA OutputStepAnswered ==
  ASSUME OutputStep, Guaranteed, consumer = "running", done \subseteq answered
  PROVE  consumer' = consumer /\ done' \subseteq answered' /\ answered \subseteq answered'
<1>1. CASE \E o \in Outputs : \/ WorkerDone(o) \/ PublishCheck(o) \/ PublishSend(o)
                              \/ CloseCancel(o) \/ CloseQueue(o) \/ CloseWait(o)
  BY Zenon, <1>1 DEF WorkerDone, PublishCheck, PublishSend, CloseCancel, CloseQueue, CloseWait,
              CloseStep, batchVars
<1>2. CASE \E o \in Outputs : PublishCancelled(o)
  BY <1>2 DEF PublishCancelled, Cancelled, retry, retryRequest
<1>3. CASE \E w \in CLSWorkers : Take(w) \/ TryPublish(w)
  BY Zenon, <1>3 DEF Take, TryPublish, batchVars
<1>4. CASE \E w \in CLSWorkers : Report(w)
  <2> PICK w \in CLSWorkers : Report(w)
    BY <1>4
  <2> DEFINE s == Head(sending[w])
  <2>1. Decide(s.batch, s.decision) /\ consumer' = consumer
    BY Zenon DEF Report
  <2>2. CASE s.decision = "retry"
    BY <2>1, <2>2 DEF Decide, retry, retryRequest, reduceTTL
  <2>3. CASE s.decision \in {"ack", "drop"}
    BY <2>1, <2>3 DEF Decide, Drop
  <2>4. CASE s.decision \notin {"retry", "ack", "drop"}
    BY Zenon, <2>1, <2>4 DEF Decide, batchVars
  <2> QED
    BY <2>1, <2>2, <2>3, <2>4
<1> QED
  BY <1>1, <1>2, <1>3, <1>4 DEF OutputStep

(* An event of a client that asked for GuaranteedSend is acknowledged only *)
(* after the service took or refused it, whatever number of reloads,       *)
(* errors, retries and senders: Retry never gives such a batch up.         *)
THEOREM GuaranteedIsAnswered == PipelineSpec => []GuaranteedAnswered
<1>1. PipelineInit => AnsweredInv
  BY DEF PipelineInit, Init, CLSInit, AnsweredInv
<1>2. AnsweredInv /\ [PipelineNext]_pipelineAll => AnsweredInv'
  <2> SUFFICES ASSUME AnsweredInv, [PipelineNext]_pipelineAll
               PROVE  AnsweredInv'
    OBVIOUS
  <2> USE DEF AnsweredInv
  <2>1. CASE UNCHANGED pipelineAll
    BY <2>1 DEF pipelineAll, clsVars, batchVars, vars
  <2>2. CASE /\ ClientMove /\ acked' \subseteq acked \cup done
            /\ UNCHANGED <<clsVars, controllerVars, handedOut>>
    BY <2>2 DEF clsVars, batchVars
  <2>3. CASE OutputStep /\ UNCHANGED <<vars, controllerVars, handedOut>>
    <3>1. consumer' = consumer
      BY Zenon, <2>3 DEF OutputStep, WorkerDone, PublishCancelled, PublishCheck, PublishSend,
                  CloseCancel, CloseQueue, CloseWait, CloseStep, Take, TryPublish, Report
    <3> QED
      BY <2>3, <3>1, OutputStepAnswered DEF vars
  <2>4. CASE ControllerMove
    BY Zenon, <2>4 DEF ControllerMove, queueProducer, Set, SetEmpty, SetStart, SetWorkers,
                StartOutput, SetNoWorkers, ControllerClose, ControllerClosed, QueueClose,
                ToWorker, HandOutUnread, HandOut, Receive, vars, clsVars, batchVars
  <2> QED
    BY <2>1, <2>2, <2>3, <2>4, StepKinds
<1>3. AnsweredInv => GuaranteedAnswered
  BY DEF AnsweredInv, GuaranteedAnswered
<1> QED
  BY <1>1, <1>2, <1>3, PTL DEF PipelineSpec

-----------------------------------------------------------------------------
(* Close of the pipeline waits for the acknowledgments *)

LEMMA PipelineMoves ==
  ASSUME [PipelineNext]_pipelineAll
  PROVE  ClientMove \/ QueueClose \/ UNCHANGED vars
<1>1. CASE UNCHANGED pipelineAll
  BY <1>1 DEF pipelineAll
<1>2. CASE ControllerMove
  BY Zenon, <1>2 DEF ControllerMove, queueProducer, Set, SetEmpty, SetStart, SetWorkers, SetNoWorkers,
              ControllerClose, ControllerClosed, ToWorker, HandOutUnread, HandOut
<1> QED
  BY <1>1, <1>2, StepKinds

LEMMA PipelineClientInv == PipelineSpec => []ClientInv
<1>1. PipelineInit => ClientInv
  BY InitClientInv DEF PipelineInit
<1>2. ClientInv /\ [PipelineNext]_pipelineAll => ClientInv'
  BY PipelineMoves, ClientInvStep, ClientInvStutters
<1> QED
  BY <1>1, <1>2, PTL DEF PipelineSpec

(* A Pipeline.Close with a wait group that does not run into its timeout   *)
(* stops the outputs after every event whose Publish call returned was     *)
(* acknowledged.  The wait group is told of an event only after the queue  *)
(* has it, so it can be zero, or less, too early; never when an older      *)
(* event is still on its way.                                              *)
THEOREM PipelineCloseWaits ==
  ASSUME WaitOnPipelineClose
  PROVE  PipelineSpec => PipelineWaitsForAcks
<1>1. ClientInv /\ [PipelineNext]_pipelineAll =>
        [pipeline' = "stopping" /\ timedOut' = timedOut =>
           pipeline = "stopping" \/ published \subseteq acked]_vars
  BY PipelineMoves, WaitedForAcks
<1> QED
  BY <1>1, PipelineClientInv, PTL DEF PipelineSpec, PipelineWaitsForAcks
===============================================================================
