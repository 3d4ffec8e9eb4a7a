---------------------------- MODULE MemQueueProofs ----------------------------
(***************************************************************************)
(* Theorems about the memory queue.  The steps of the producers, of        *)
(* runLoop, of the consumers and of ackLoop keep the inductive invariant   *)
(* IInv, for every number of slots, producers, events and get requests,    *)
(* and IInv implies the properties.  The queue's producers do not drop on  *)
(* cancel (the pipeline never sets ProducerConfig.DropOnCancel):           *)
(* handleCancel's compaction is left to the model checker.                 *)
(***************************************************************************)
EXTENDS MemQueue, RingArithmetic

-----------------------------------------------------------------------------
(* Slots of the ring buffer. *)

\* The slot of a place computed from the reduced position bufPos, as the code does.
LEMMA SlotAdd ==
  ASSUME NEW a \in Int, NEW b \in Int, NEW c \in Int, Events \in Nat \ {0},
         Slot(a) = Slot(b)
  PROVE  Slot(a + c) = Slot(b + c)
<1>1. ((a % Events) + c) % Events = (a + c) % Events BY ModAdd, Zenon
<1>2. ((b % Events) + c) % Events = (b + c) % Events BY ModAdd, Zenon
<1> QED BY <1>1, <1>2 DEF Slot

\* A slot is its own remainder.
LEMMA SlotSlot ==
  ASSUME NEW a \in Int, Events \in Nat \ {0}
  PROVE  Slot(a) \in Slots /\ Slot(Slot(a)) = Slot(a)
<1>1. a % Events \in 0 .. Events - 1 BY ModRange
<1>2. 0 \in Int OBVIOUS
<1>3. ((a % Events) + 0) % Events = (a + 0) % Events BY <1>2, ModAdd, Zenon
<1> QED BY <1>1, <1>3 DEF Slot, Slots

\* Two places of one window of the buffer's length that share a slot are equal.
LEMMA SlotInj ==
  ASSUME NEW a \in Nat, NEW b \in Nat, Events \in Nat \ {0},
         a < b + Events, b < a + Events, Slot(a) = Slot(b)
  PROVE  a = b
<1>1. a % Events = b % Events BY DEF Slot
<1>2. ~(a < b) BY <1>1, ModInj, Zenon
<1>3. ~(b < a) BY <1>1, ModInj, Zenon
<1> QED BY <1>2, <1>3

-----------------------------------------------------------------------------
(* The steps that leave the ring buffer and its batches alone. *)

coreVars == <<buf, bufPos, eventCount, consumedCount, batches, ackPc, ackSlots, ackCount,
              callbacks, head, log>>

\* The limit newQueue computes for one get request is positive and no more than the queue.
LEMMA MaxGetNat == MaxGet \in Nat \ {0} /\ MaxGet <= Events
BY ConstantsAssumption DEF MaxGet, Lesser

\* The invariant only depends on the core variables, types aside.
LEMMA CoreStutter ==
  ASSUME IInv, TypeOK', UNCHANGED coreVars
  PROVE  IInv'
BY DEF IInv, coreVars, RingOK, BatchRange, BatchOrder, AckRange, UnreadAt, BatchAt, Slot

\* No call of a producer touches the ring buffer: Publish, TryPublish and Cancel only
\* write to channels and to the producer's own fields.
LEMMA ProducerTypes ==
  ASSUME TypeOK, NEW p \in Producers, ProducerStep(p)
  PROVE  TypeOK' /\ UNCHANGED coreVars
<1>0. ASSUME Calls(p)
      PROVE  attempts' \in [Producers -> 0 .. MaxPublish] /\ attempts[p] \in Nat
  <2>1. attempts \in [Producers -> 0 .. MaxPublish] BY DEF TypeOK
  <2>2. MaxPublish \in Nat BY ConstantsAssumption
  <2> QED BY <1>0, <2>1, <2>2 DEF Calls
<1>a. /\ pubPc \in [Producers -> {"idle", "wait", "replied"}]
      /\ producedCount \in [Producers -> Nat]
      /\ pushChan \in Seq(Request)
  BY DEF TypeOK
<1>b. AckProducers \subseteq Producers BY ConstantsAssumption
<1> USE DEF coreVars, runVars, ackVars, histVars
<1>1. CASE PublishSend(p)
  <2>0. Calls(p) BY <1>1 DEF PublishSend
  <2>1. PushRequest(p) \in Request
    <3>1. <<p, attempts[p] + 1>> \in Event BY <1>0, <2>0 DEF Event
    <3>2. producedCount[p] + 1 \in Nat BY <1>a
    <3> QED BY <3>1, <3>2 DEF PushRequest, Request
  <2>2. pushChan' \in Seq(Request) BY <1>1, <1>a, <2>1 DEF PublishSend
  <2>3. Len(pushChan') <= ChanSize
    <3>1. ChanSize \in Int BY ConstantsAssumption DEF ChanSize, Lesser
    <3>2. Len(pushChan') = Len(pushChan) + 1 BY <1>1, <1>a, <2>1 DEF PublishSend
    <3> QED BY <1>1, <1>a, <3>1, <3>2 DEF PublishSend
  <2>4. pubPc' \in [Producers -> {"idle", "wait", "replied"}]
    BY <1>1, <1>a DEF PublishSend
  <2> QED BY <1>0, <1>1, <2>0, <2>2, <2>3, <2>4, Zenon DEF PublishSend, TypeOK
<1>2. CASE PublishClosed(p)
  <2>1. eventsNil' \in [Producers -> BOOLEAN] BY <1>2 DEF PublishClosed, TypeOK
  <2> QED BY <1>0, <1>2, <2>1, Zenon DEF PublishClosed, TypeOK
<1>3. CASE TryPublishFull(p) BY <1>0, <1>3, Zenon DEF TryPublishFull, TypeOK
<1>4. CASE PublishReturn(p)
  <2>1. producedCount' \in [Producers -> Nat] BY <1>4, <1>a DEF PublishReturn
  <2>2. pubPc' \in [Producers -> {"idle", "wait", "replied"}] BY <1>4, <1>a DEF PublishReturn
  <2> QED BY <1>4, <2>1, <2>2, Zenon DEF PublishReturn, TypeOK
<1>5. CASE PublishAbort(p)
  <2>1. eventsNil' \in [Producers -> BOOLEAN] BY <1>5 DEF PublishAbort, TypeOK
  <2>2. pubPc' \in [Producers -> {"idle", "wait", "replied"}] BY <1>5 DEF PublishAbort, TypeOK
  <2> QED BY <1>5, <2>1, <2>2, Zenon DEF PublishAbort, TypeOK
<1>6. CASE Cancel(p) BY <1>6, SMTT(30) DEF Cancel, TypeOK
<1>7. CASE CancelSend(p)
  <2>1. p \in DropOnCancel BY <1>7 DEF CancelSend, TypeOK
  <2>2. cancelChan' \in Seq(DropOnCancel) /\ Len(cancelChan') <= CancelChanSize
    <3>1. cancelChan \in Seq(DropOnCancel) BY DEF TypeOK
    <3>2. CancelChanSize \in Nat BY ConstantsAssumption
    <3> QED BY <1>7, <2>1, <3>1, <3>2 DEF CancelSend
  <2>3. cancelPc' \in [Producers -> {"no", "sending", "waiting", "returned"}]
    BY <1>7 DEF CancelSend, TypeOK
  <2>4. \A q \in Producers : cancelPc'[q] \in {"sending", "waiting"} => q \in DropOnCancel
    BY <1>7, <2>1 DEF CancelSend, TypeOK
  <2> QED BY <1>7, <2>2, <2>3, <2>4, Zenon DEF CancelSend, TypeOK
<1> QED BY <1>1, <1>2, <1>3, <1>4, <1>5, <1>6, <1>7 DEF ProducerStep

-----------------------------------------------------------------------------
(* Handing out a batch. *)

\* handleGetReply appends a batch that takes over the oldest unread events.  The
\* facts about buf' and log' let handleInsert use it after storing its event.
LEMMA GetReplyInv ==
  ASSUME IInv, NEW n \in Nat, NEW ec \in Nat, consumedCount <= ec,
         GetReply(n, ec),
         UNCHANGED <<bufPos, head, ackCount>>,
         \A a \in head + consumedCount .. head + ec - 1 : buf'[Slot(a)] = log'[a + 1],
         \A i \in 1 .. Len(batches) : ~batches[i].freed =>
           \A a \in batches[i].pos .. batches[i].pos + batches[i].count - 1 :
             buf'[Slot(a)].event = log'[a + 1].event
  PROVE  /\ batches' \in Seq(Batch)
         /\ Len(batches) <= Len(batches')
         /\ consumedCount' \in consumedCount .. ec
         /\ pendingGet' = 0
         /\ BatchRange' /\ BatchOrder' /\ BatchAt'
         /\ \A a \in head + consumedCount' .. head + ec - 1 : buf'[Slot(a)] = log'[a + 1]
<1> DEFINE size == Lesser(n, ec - consumedCount)
           b == [start |-> bufPos + consumedCount, count |-> size,
                 pos |-> head + consumedCount, done |-> FALSE, freed |-> FALSE]
           L == Len(batches)
<1>1. /\ consumedCount \in Nat /\ head \in Nat /\ bufPos \in Nat /\ ackCount \in Nat
      /\ batches \in Seq(Batch) /\ Events \in Nat \ {0}
  BY ConstantsAssumption DEF IInv, TypeOK, Slots
<1>2. size \in 0 .. ec - consumedCount BY <1>1 DEF Lesser
<1>3. b \in Batch BY <1>1, <1>2 DEF Batch
<1>4. /\ batches' = Append(batches, b) /\ consumedCount' = consumedCount + size
      /\ pendingGet' = 0
  BY DEF GetReply
<1>5. /\ b.start = bufPos + consumedCount /\ b.pos = head + consumedCount /\ b.count = size
      /\ b.freed = FALSE
  OBVIOUS
<1> HIDE DEF b, size
<1>6. /\ batches' \in Seq(Batch) /\ Len(batches') = L + 1 /\ batches'[L + 1] = b
      /\ \A i \in 1 .. L : batches'[i] = batches[i]
  BY <1>1, <1>3, <1>4
<1>7. ASSUME NEW i \in 1 .. L
      PROVE  batches[i].pos \in Nat /\ batches[i].count \in Nat
  <2>1. batches[i] \in Batch BY <1>1
  <2> QED BY <2>1 DEF Batch
<1>8. BatchRange'
  <2>1. Slot(b.start) = Slot(b.pos)
    <3>1. Slot(bufPos) = Slot(head) BY <1>1, SlotSlot DEF IInv, RingOK
    <3>2. bufPos \in Int /\ head \in Int /\ consumedCount \in Int BY <1>1
    <3>3. Slot(bufPos + consumedCount) = Slot(head + consumedCount)
      BY <1>1, <3>1, <3>2, SlotAdd, Zenon
    <3> QED BY <1>5, <3>3
  <2>2. head + ackCount <= b.pos BY <1>1, <1>5 DEF IInv, AckRange
  <2>3. b.pos + b.count <= head + consumedCount' BY <1>1, <1>2, <1>4, <1>5
  <2>4. \A i \in 1 .. L : batches[i].pos + batches[i].count <= head + consumedCount'
    BY <1>1, <1>2, <1>4, <1>7 DEF IInv, BatchRange
  <2>5. ASSUME NEW i \in 1 .. L + 1
        PROVE  /\ Slot(batches'[i].start) = Slot(batches'[i].pos)
               /\ head + ackCount <= batches'[i].pos
               /\ batches'[i].pos + batches'[i].count <= head + consumedCount'
    <3>1. CASE i = L + 1 BY <1>6, <2>1, <2>2, <2>3, <3>1
    <3>2. CASE i \in 1 .. L BY <1>6, <2>4, <3>2 DEF IInv, BatchRange
    <3> QED BY <1>1, <3>1, <3>2
  <2> QED BY <1>6, <2>5 DEF BatchRange, Slot
<1>9. BatchOrder'
  <2>1. ASSUME NEW i \in 1 .. L + 1, NEW j \in 1 .. L + 1, i < j
        PROVE  batches'[i].pos + batches'[i].count <= batches'[j].pos
    <3>0. i \in 1 .. L BY <1>1, <2>1
    <3>1. CASE j = L + 1
      <4>1. batches[i].pos + batches[i].count <= head + consumedCount
        BY <3>0 DEF IInv, BatchRange
      <4> QED BY <1>5, <1>6, <3>0, <3>1, <4>1
    <3>2. CASE j \in 1 .. L BY <1>6, <2>1, <3>0, <3>2 DEF IInv, BatchOrder
    <3> QED BY <1>1, <3>1, <3>2
  <2> QED BY <1>6, <2>1 DEF BatchOrder
<1>10. BatchAt'
  <2>1. ASSUME NEW i \in 1 .. L + 1, ~batches'[i].freed,
               NEW a \in batches'[i].pos .. batches'[i].pos + batches'[i].count - 1
        PROVE  buf'[Slot(a)].event = log'[a + 1].event
    <3>1. CASE i = L + 1
      <4>1. a \in head + consumedCount .. head + ec - 1
        BY <1>1, <1>2, <1>5, <1>6, <3>1
      <4> QED BY <4>1
    <3>2. CASE i \in 1 .. L BY <1>6, <2>1, <3>2
    <3> QED BY <1>1, <3>1, <3>2
  <2> QED BY <1>6, <2>1 DEF BatchAt, Slot
<1>11. \A a \in head + consumedCount' .. head + ec - 1 : buf'[Slot(a)] = log'[a + 1]
  BY <1>1, <1>2, <1>4
<1>12. consumedCount' \in consumedCount .. ec BY <1>1, <1>2, <1>4
<1> QED BY <1>1, <1>4, <1>6, <1>8, <1>9, <1>10, <1>11, <1>12

\* Handing out more events only widens the range of places processACK may visit.
LEMMA AckRangeGrows ==
  ASSUME AckRange, NEW k \in Nat, head \in Nat, ackCount \in Nat, consumedCount \in Nat,
         consumedCount' = consumedCount + k, UNCHANGED <<head, ackVars>>
  PROVE  AckRange'
<1>1. UNCHANGED <<head, ackPc, ackSlots, ackCount, callbacks>> BY DEF ackVars
<1>2. ASSUME NEW a \in head .. head + consumedCount - 1
      PROVE  a \in head .. head + consumedCount' - 1
  OBVIOUS
<1>3. ackCount <= consumedCount' BY DEF AckRange
<1>4. \A i \in 1 .. Len(ackSlots) :
        \E a \in head .. head + consumedCount' - 1 : ackSlots[i] = Slot(a)
  BY <1>2 DEF AckRange
<1> QED BY <1>1, <1>3, <1>4 DEF AckRange, Slot

\* A reply from the events already in the buffer keeps the invariant.
LEMMA ReplyInv ==
  ASSUME IInv, NEW n \in Nat, GetReply(n, eventCount), runPc' \in {"select", "exited"},
         UNCHANGED <<buf, bufPos, eventCount, nextEntryID, forwarded, pushChan, cancelChan,
                     closed, ackVars, pubVars, histVars>>
  PROVE  IInv'
<1> USE DEF ackVars, pubVars, histVars
<1>1. /\ batches' \in Seq(Batch) /\ Len(batches) <= Len(batches')
      /\ consumedCount' \in consumedCount .. eventCount
      /\ pendingGet' = 0 /\ BatchRange' /\ BatchOrder' /\ BatchAt'
      /\ \A a \in head + consumedCount' .. head + eventCount - 1 : buf'[Slot(a)] = log'[a + 1]
  <2>1. eventCount \in Nat /\ consumedCount <= eventCount
    BY ConstantsAssumption DEF IInv, TypeOK
  <2> QED BY Zenon, <2>1, GetReplyInv DEF IInv, UnreadAt, BatchAt
<1>2. TypeOK'
  <2>1. eventCount \in 0 .. Events /\ consumedCount \in 0 .. eventCount
        /\ forwarded \in 0 .. Len(batches) /\ Events \in Nat
    BY ConstantsAssumption DEF IInv, TypeOK
  <2>2. consumedCount' \in 0 .. eventCount BY <1>1, <2>1
  <2>3. pendingGet' \in 0 .. MaxGet BY <1>1, MaxGetNat
  <2>4. Len(batches') \in Nat BY <1>1
  <2>5. forwarded \in 0 .. Len(batches') BY <1>1, <2>1, <2>4
  <2> QED BY <1>1, <2>2, <2>3, <2>5, Zenon DEF IInv, TypeOK
<1>3. RingOK' BY DEF IInv, RingOK, Slot
<1>4. AckRange'
  <2>1. head \in Nat /\ ackCount \in Nat /\ consumedCount \in Nat /\ eventCount \in Nat
    BY ConstantsAssumption DEF IInv, TypeOK
  <2>2. PICK k \in Nat : consumedCount' = consumedCount + k
    <3>1. consumedCount' \in consumedCount .. eventCount BY <1>1
    <3> QED BY <2>1, <3>1, Excess
  <2> QED BY <2>1, <2>2, AckRangeGrows DEF IInv
<1>5. UnreadAt' BY <1>1 DEF UnreadAt, Slot
<1> QED BY <1>1, <1>2, <1>3, <1>4, <1>5 DEF IInv

\* A get request, answered at once or stored, keeps the invariant.
LEMMA HandleGetRequestInv ==
  ASSUME IInv, NEW n \in 0 .. Events, HandleGetRequest(n)
  PROVE  IInv'
<1> DEFINE entryCount == IF n <= 0 \/ n > MaxGet THEN MaxGet ELSE n
<1>1. entryCount \in 1 .. MaxGet /\ entryCount \in Nat BY MaxGetNat, ConstantsAssumption
<1>2. /\ UNCHANGED <<buf, bufPos, eventCount, nextEntryID, forwarded, pushChan, cancelChan,
                     closed, ackVars, pubVars, histVars>>
      /\ runPc' \in {"select", "exited"}
      /\ IF Flush /\ eventCount - consumedCount < entryCount
         THEN pendingGet' = entryCount /\ UNCHANGED <<batches, consumedCount>>
         ELSE GetReply(entryCount, eventCount)
  BY DEF HandleGetRequest, Iteration
<1> HIDE DEF entryCount
<1>3. CASE pendingGet' = entryCount /\ UNCHANGED <<batches, consumedCount>>
  <2>1. pendingGet' \in 0 .. MaxGet BY <1>1, <1>3, MaxGetNat
  <2>2. TypeOK' BY <1>2, <1>3, <2>1, Zenon DEF IInv, TypeOK, ackVars, pubVars, histVars
  <2> QED BY <1>2, <1>3, <2>2, CoreStutter DEF coreVars, ackVars, histVars
<1>4. CASE GetReply(entryCount, eventCount) BY <1>1, <1>2, <1>4, ReplyInv
<1> QED BY <1>2, <1>3, <1>4

\* The flush timer's reply keeps the invariant.
LEMMA GetTimeoutInv ==
  ASSUME IInv, GetTimeout
  PROVE  IInv'
<1>1. pendingGet \in Nat BY MaxGetNat DEF IInv, TypeOK
<1> QED BY <1>1, ReplyInv DEF GetTimeout, Iteration

-----------------------------------------------------------------------------
(* Inserting an event. *)

\* The new event goes to a slot that no outstanding batch and no unread event uses,
\* since the live places span less than the buffer's length.
LEMMA HandleInsertInv ==
  ASSUME IInv, HandleInsert
  PROVE  IInv'
<1> DEFINE req == Head(pushChan)
           e == [event |-> req.event, id |-> nextEntryID,
                 producer |-> req.producer, producerID |-> req.producerID]
           new == head + eventCount
<1>a. /\ buf \in [Slots -> Entry] /\ log \in Seq(Entry) /\ Len(log) = new
      /\ batches \in Seq(Batch) /\ forwarded \in 0 .. Len(batches)
  BY Zenon DEF IInv, TypeOK, RingOK
<1>b. /\ pushChan \in Seq(Request) /\ pushChan # <<>> /\ nextEntryID \in Nat
      /\ pendingGet \in 0 .. MaxGet /\ pubPc \in [Producers -> {"idle", "wait", "replied"}]
  BY Zenon DEF IInv, TypeOK, HandleInsert
<1>c. eventCount \in 0 .. Events /\ consumedCount \in 0 .. eventCount /\ eventCount < Events
      /\ head \in Nat /\ ackCount \in Nat /\ bufPos \in Slots
  BY Zenon DEF IInv, TypeOK, HandleInsert, CanInsert
<1>d. Events \in Nat \ {0} BY ConstantsAssumption
<1>1. /\ eventCount \in Nat /\ eventCount < Events /\ consumedCount \in 0 .. eventCount
      /\ head \in Nat /\ ackCount \in Nat /\ Events \in Nat \ {0} /\ bufPos \in Nat
      /\ new \in Nat
  BY <1>c, <1>d DEF Slots
<1>2. req \in Request BY <1>b
<1>3. e \in Entry BY <1>b, <1>2 DEF Request, Entry
<1>4. InsertSlot = Slot(new)
  <2>1. Slot(bufPos) = Slot(head) BY <1>1, SlotSlot DEF IInv, RingOK
  <2>2. bufPos \in Int /\ head \in Int /\ eventCount \in Int BY <1>1
  <2> QED BY <1>1, <2>1, <2>2, SlotAdd, Zenon DEF InsertSlot
<1>5. /\ buf' = [buf EXCEPT ![Slot(new)] = e] /\ log' = Append(log, e)
      /\ pubPc' = [pubPc EXCEPT ![req.from] = IF @ = "wait" THEN "replied" ELSE @]
      /\ pushChan' = Tail(pushChan) /\ nextEntryID' = nextEntryID + 1
      /\ eventCount' = eventCount + 1 /\ runPc' \in {"select", "exited"}
      /\ UNCHANGED <<bufPos, forwarded, cancelChan, closed, ackVars, attempts,
                     producedCount, doneChan, eventsNil, cancelPc, head, finished>>
      /\ \/ GetReply(pendingGet, eventCount + 1)
         \/ UNCHANGED <<batches, consumedCount, pendingGet>>
  BY Zenon, <1>4 DEF HandleInsert, Iteration
<1>6. Slot(new) \in Slots BY <1>1, SlotSlot, SMTT(30)
<1>e. buf' = [buf EXCEPT ![Slot(new)] = e] /\ log' = Append(log, e) BY Zenon, <1>5
<1>f. /\ eventCount' = eventCount + 1
      /\ UNCHANGED <<bufPos, head, ackCount, ackPc, ackSlots, callbacks>>
  BY Zenon, <1>5 DEF ackVars
<1> HIDE DEF req, e
<1>7. /\ buf' \in [Slots -> Entry] /\ buf'[Slot(new)] = e
      /\ log' \in Seq(Entry) /\ Len(log') = new + 1 /\ log'[new + 1] = e
      /\ \A k \in 1 .. new : log'[k] = log[k]
  <2>1. buf' \in [Slots -> Entry] /\ buf'[Slot(new)] = e BY <1>a, <1>e, <1>3, <1>6
  <2>2. log \in Seq(Entry) /\ Len(log) = new /\ log' = Append(log, e) BY <1>a, <1>e
  <2> HIDE DEF new
  <2>3. /\ log' \in Seq(Entry) /\ Len(log') = new + 1 /\ log'[new + 1] = e
        /\ \A k \in 1 .. new : log'[k] = log[k]
    BY <1>3, <2>2
  <2> QED BY <2>1, <2>3
<1>8. ASSUME NEW a \in Nat, head <= a, a < new
      PROVE  buf'[Slot(a)] = buf[Slot(a)] /\ log'[a + 1] = log[a + 1]
  <2>1. Slot(a) # Slot(new)
    <3>1. new \in Nat /\ a < new + Events /\ new < a + Events /\ a # new BY <1>1, <1>8
    <3> QED BY <1>1, <3>1, SlotInj
  <2>2. Slot(a) \in Slots BY <1>1, SlotSlot
  <2>3. a + 1 \in 1 .. new BY <1>1, <1>8
  <2> QED BY <1>a, <1>e, <1>7, <2>1, <2>2, <2>3
<1>9. \A a \in head + consumedCount .. head + (eventCount + 1) - 1 : buf'[Slot(a)] = log'[a + 1]
  <2>1. SUFFICES ASSUME NEW a \in head + consumedCount .. new
                 PROVE  buf'[Slot(a)] = log'[a + 1]
    BY <1>1
  <2>2. CASE a = new BY <1>7, <2>2
  <2>3. CASE a # new
    <3>1. a \in Nat /\ head <= a /\ a < new BY <1>1, <2>3
    <3>2. a \in head + consumedCount .. head + eventCount - 1 BY <1>1, <2>3
    <3>3. buf[Slot(a)] = log[a + 1] BY <3>2 DEF IInv, UnreadAt
    <3> QED BY <1>8, <3>1, <3>3
  <2> QED BY <2>2, <2>3
<1>10. ASSUME NEW i \in 1 .. Len(batches), ~batches[i].freed,
              NEW a \in batches[i].pos .. batches[i].pos + batches[i].count - 1
       PROVE  buf'[Slot(a)].event = log'[a + 1].event
  <2>1. batches[i] \in Batch BY <1>a
  <2>2. batches[i].pos \in Nat /\ batches[i].count \in Nat BY <2>1 DEF Batch
  <2>3. head + ackCount <= batches[i].pos
        /\ batches[i].pos + batches[i].count <= head + consumedCount
    BY DEF IInv, BatchRange
  <2>4. a \in Nat /\ head <= a /\ a < new
    <3>1. a \in Int /\ batches[i].pos <= a /\ a < batches[i].pos + batches[i].count BY <2>2
    <3>2. a < head + consumedCount BY <1>1, <2>2, <2>3, <3>1
    <3>3. head <= a BY <1>1, <2>2, <2>3, <3>1
    <3> QED BY <1>1, <3>1, <3>2, <3>3
  <2>5. buf[Slot(a)].event = log[a + 1].event BY <1>10 DEF IInv, BatchAt
  <2> QED BY <1>8, <2>4, <2>5
<1>11. /\ batches' \in Seq(Batch) /\ Len(batches) <= Len(batches')
       /\ consumedCount' \in consumedCount .. eventCount + 1
       /\ pendingGet' \in 0 .. MaxGet
       /\ BatchRange' /\ BatchOrder' /\ BatchAt'
       /\ \A a \in head + consumedCount' .. head + (eventCount + 1) - 1 :
            buf'[Slot(a)] = log'[a + 1]
  <2>1. CASE GetReply(pendingGet, eventCount + 1)
    <3>1. pendingGet \in Nat /\ eventCount + 1 \in Nat /\ consumedCount <= eventCount + 1
      BY <1>1, <1>b, MaxGetNat
    <3>2. UNCHANGED <<bufPos, head, ackCount>> BY <1>f
    <3>3. 0 \in 0 .. MaxGet BY MaxGetNat
    <3> QED BY Zenon, <1>9, <1>10, <2>1, <3>1, <3>2, <3>3, GetReplyInv
  <2>2. CASE UNCHANGED <<batches, consumedCount, pendingGet>>
    <3>1. BatchRange' /\ BatchOrder'
      BY <1>f, <2>2 DEF IInv, BatchRange, BatchOrder, Slot
    <3>2. BatchAt' BY <1>10, <2>2 DEF BatchAt, Slot
    <3>3. batches' \in Seq(Batch) /\ Len(batches) <= Len(batches') BY <1>a, <2>2
    <3>4. consumedCount' \in consumedCount .. eventCount + 1 BY <1>1, <2>2
    <3>5. pendingGet' \in 0 .. MaxGet BY <1>b, <2>2
    <3>6. \A a \in head + consumedCount' .. head + (eventCount + 1) - 1 :
            buf'[Slot(a)] = log'[a + 1]
      BY <1>9, <2>2
    <3> QED BY <3>1, <3>2, <3>3, <3>4, <3>5, <3>6
  <2> QED BY <1>5, <2>1, <2>2, Zenon
<1>12. TypeOK'
  <2>1. eventCount' \in 0 .. Events /\ consumedCount' \in 0 .. eventCount'
    BY <1>1, <1>f, <1>11
  <2>2. pushChan' \in Seq(Request) /\ Len(pushChan') <= ChanSize
    <3>1. Len(pushChan) <= ChanSize /\ ChanSize \in Int
      BY ConstantsAssumption DEF IInv, TypeOK, ChanSize, Lesser
    <3>2. pushChan' = Tail(pushChan) BY <1>5
    <3> QED BY <1>b, <3>1, <3>2
  <2>3. pubPc' \in [Producers -> {"idle", "wait", "replied"}] BY <1>b, <1>5, Zenon
  <2>4. Len(batches') \in Nat /\ Len(batches) \in Nat BY <1>a, <1>11
  <2>5. forwarded' \in 0 .. Len(batches')
    <3>1. forwarded' = forwarded BY <1>5
    <3> QED BY <1>a, <1>11, <2>4, <3>1
  <2>6. nextEntryID' \in Nat
    <3>1. nextEntryID' = nextEntryID + 1 BY <1>5
    <3> QED BY <1>b, <3>1
  <2> QED BY <1>5, <1>7, <1>11, <2>1, <2>2, <2>3, <2>5, <2>6, Zenon DEF IInv, TypeOK, ackVars
<1>13. RingOK' BY <1>1, <1>f, <1>7 DEF IInv, RingOK, Slot
<1>14. AckRange'
  <2>1. consumedCount \in Nat BY <1>1
  <2>2. PICK k \in Nat : consumedCount' = consumedCount + k
    <3>1. consumedCount' \in consumedCount .. eventCount + 1 /\ eventCount + 1 \in Nat
      BY <1>1, <1>11
    <3> QED BY <2>1, <3>1, Excess
  <2> QED BY <1>1, <1>5, <2>1, <2>2, AckRangeGrows DEF IInv
<1>15. UnreadAt' BY <1>5, <1>11, Zenon DEF UnreadAt, Slot
<1> QED BY <1>11, <1>12, <1>13, <1>14, <1>15 DEF IInv

-----------------------------------------------------------------------------
(* The remaining steps of runLoop, and Close. *)

\* Passing batches to ackLoop, leaving the loop and closing change no core variable.
LEMMA RunLoopRestInv ==
  ASSUME IInv, ForwardConsumed \/ RunLoopExit \/ Close
  PROVE  IInv'
<1>1. TypeOK /\ Len(batches) \in Nat BY SMTT(30) DEF IInv, TypeOK
<1>2. CASE ForwardConsumed
  <2>0. forwarded' = Len(batches) /\ batches' = batches BY <1>2 DEF ForwardConsumed
  <2>a. forwarded' \in 0 .. Len(batches') BY <1>1, <2>0
  <2>b. runPc' \in {"select", "exited"} BY <1>2 DEF ForwardConsumed, Iteration
  <2>1. TypeOK'
    BY <1>1, <1>2, <2>a, <2>b, Zenon DEF TypeOK, ForwardConsumed, ackVars, pubVars, histVars
  <2> QED BY <1>2, <2>1, CoreStutter DEF ForwardConsumed, coreVars, ackVars, histVars
<1>3. CASE RunLoopExit
  <2>1. TypeOK' BY <1>1, <1>3, Zenon DEF TypeOK, RunLoopExit, ackVars, pubVars, histVars
  <2> QED BY <1>3, <2>1, CoreStutter DEF RunLoopExit, coreVars, ackVars, histVars
<1>4. CASE Close
  <2>1. TypeOK' BY <1>1, <1>4, Zenon DEF TypeOK, Close, runVars, ackVars, pubVars, histVars
  <2> QED BY <1>4, <2>1, CoreStutter DEF Close, coreVars, runVars, ackVars, histVars
<1> QED BY <1>2, <1>3, <1>4

\* Deleting the collected events moves the window; no live place changes its slot.
LEMMA HandleDeleteInv ==
  ASSUME IInv, HandleDelete
  PROVE  IInv'
<1>1. /\ bufPos' = Slot(bufPos + ackCount) /\ eventCount' = eventCount - ackCount
      /\ consumedCount' = consumedCount - ackCount /\ head' = head + ackCount
      /\ ackCount' = 0 /\ ackPc' = (IF callbacks = <<>> THEN "wait" ELSE "callbacks")
      /\ ackPc = "delete" /\ runPc' \in {"select", "exited"}
      /\ UNCHANGED <<buf, pendingGet, nextEntryID, batches, forwarded, pushChan, cancelChan,
                     closed, ackSlots, callbacks, lastACK, acked, queueACKed, pubVars,
                     finished, log>>
  BY DEF HandleDelete, Iteration
<1>2. /\ eventCount \in 0 .. Events /\ consumedCount \in 0 .. eventCount
      /\ ackCount \in Nat /\ ackCount <= consumedCount /\ head \in Nat
      /\ bufPos \in Slots /\ Events \in Nat \ {0} /\ Len(log) = head + eventCount
      /\ ackSlots = <<>> /\ batches \in Seq(Batch)
  BY <1>1, ConstantsAssumption, Zenon DEF IInv, TypeOK, RingOK, AckRange
<1>3. bufPos' = Slot(head')
  <2>1. Slot(bufPos) = Slot(head) BY <1>2, SlotSlot DEF IInv, RingOK
  <2>2. bufPos \in Int /\ head \in Int /\ ackCount \in Int BY <1>2 DEF Slots
  <2> QED BY <1>1, <1>2, <2>1, <2>2, SlotAdd, Zenon
<1>4. head' \in Nat /\ bufPos' \in Slots
  <2>1. head' \in Nat /\ head' \in Int BY <1>1, <1>2
  <2> QED BY <1>2, <1>3, <2>1, SlotSlot
<1>5. TypeOK'
  <2>1. eventCount' \in 0 .. Events /\ consumedCount' \in 0 .. eventCount' /\ ackCount' \in Nat
    BY <1>1, <1>2
  <2> QED BY <1>1, <1>4, <2>1, Zenon DEF IInv, TypeOK, pubVars
<1>6. RingOK' BY <1>1, <1>2, <1>3 DEF RingOK, Slot
<1>7. head' + ackCount' = head + ackCount /\ head' + consumedCount' = head + consumedCount
      /\ head' + eventCount' = head + eventCount
  BY <1>1, <1>2
<1>8. BatchRange' BY <1>1, <1>7 DEF IInv, BatchRange, Slot
<1>9. BatchOrder' /\ BatchAt' BY <1>1 DEF IInv, BatchOrder, BatchAt, Slot
<1>10. AckRange' BY <1>1, <1>2 DEF AckRange
<1>11. UnreadAt'
  <2>1. ASSUME NEW a \in head' + consumedCount' .. head' + eventCount' - 1
        PROVE  buf'[Slot(a)] = log'[a + 1]
    <3>1. /\ head' + consumedCount' = head + consumedCount
          /\ head' + eventCount' - 1 = head + eventCount - 1
      BY <1>1, <1>2
    <3>2. a \in head + consumedCount .. head + eventCount - 1 BY <3>1
    <3> QED BY <1>1, <3>2 DEF IInv, UnreadAt
  <2> QED BY <2>1 DEF UnreadAt, Slot
<1> QED BY <1>5, <1>6, <1>8, <1>9, <1>10, <1>11 DEF IInv

-----------------------------------------------------------------------------
(* Consumers. *)

\* Marking a batch done changes neither its range nor its slots.
LEMMA DoneInv ==
  ASSUME IInv, NEW i \in 1 .. Len(batches), Done(i)
  PROVE  IInv'
<1>1. /\ batches \in Seq(Batch) /\ finished \subseteq Nat
      /\ batches' = [batches EXCEPT ![i].done = TRUE]
      /\ finished' = finished \cup (batches[i].pos + 1 .. batches[i].pos + batches[i].count)
      /\ UNCHANGED <<buf, runVars, forwarded, pushChan, cancelChan, closed, ackVars, pubVars,
                     head, log>>
  BY DEF IInv, TypeOK, Done
<1> USE DEF runVars, ackVars, pubVars
<1>2. batches[i] \in Batch BY <1>1
<1>3. /\ Len(batches') = Len(batches) /\ batches' \in Seq(Batch)
      /\ \A k \in 1 .. Len(batches) :
           /\ batches'[k].start = batches[k].start /\ batches'[k].count = batches[k].count
           /\ batches'[k].pos = batches[k].pos /\ batches'[k].freed = batches[k].freed
  <2>1. [batches[i] EXCEPT !.done = TRUE] \in Batch BY <1>2, Zenon DEF Batch
  <2>2. batches' = [batches EXCEPT ![i] = [batches[i] EXCEPT !.done = TRUE]] BY <1>1
  <2>3. Len(batches') = Len(batches) /\ batches' \in Seq(Batch) BY <1>1, <2>1, <2>2
  <2>4. ASSUME NEW k \in 1 .. Len(batches)
        PROVE  batches'[k] = IF k = i THEN [batches[i] EXCEPT !.done = TRUE] ELSE batches[k]
    BY <1>1, <2>2
  <2> QED BY <1>2, <2>3, <2>4, ZenonT(40) DEF Batch
<1>4. finished' \subseteq Nat
  <2>1. batches[i].pos \in Nat /\ batches[i].count \in Nat BY <1>2 DEF Batch
  <2> QED BY <1>1, <2>1
<1>5. TypeOK' BY <1>1, <1>3, <1>4, Zenon DEF IInv, TypeOK
<1>6. RingOK' /\ AckRange' /\ UnreadAt' BY <1>1 DEF IInv, RingOK, AckRange, UnreadAt, Slot
<1>7. BatchRange' BY <1>1, <1>3 DEF IInv, BatchRange, Slot
<1>8. BatchOrder' BY <1>3 DEF IInv, BatchOrder
<1>9. BatchAt' BY <1>1, <1>3 DEF IInv, BatchAt, Slot
<1> QED BY <1>5, <1>6, <1>7, <1>8, <1>9 DEF IInv

\* Freeing a batch's entries clears slots of that batch only.
LEMMA FreeEntriesInv ==
  ASSUME IInv, NEW i \in 1 .. Len(batches), FreeEntries(i)
  PROVE  IInv'
<1> DEFINE b == batches[i]
           Hit(s) == \E j \in 1 .. b.count : Slot(b.start + j - 1) = s
<1>1. /\ batches \in Seq(Batch) /\ buf \in [Slots -> Entry] /\ Events \in Nat \ {0}
      /\ head \in Nat /\ ackCount \in Nat /\ eventCount \in 0 .. Events
      /\ consumedCount \in 0 .. eventCount
      /\ batches' = [batches EXCEPT ![i].freed = TRUE]
      /\ UNCHANGED <<runVars, forwarded, pushChan, cancelChan, closed, ackVars, pubVars,
                     histVars>>
  BY ConstantsAssumption DEF IInv, TypeOK, FreeEntries
<1>2. buf' = [s \in Slots |-> IF Hit(s) THEN [buf[s] EXCEPT !.event = Nil] ELSE buf[s]]
  BY Zenon DEF FreeEntries, BatchSlots
<1> USE DEF runVars, ackVars, pubVars, histVars
<1>3. b \in Batch BY <1>1
<1>4. b.start \in Nat /\ b.count \in Nat /\ b.pos \in Nat BY <1>3 DEF Batch
<1>5. /\ Len(batches') = Len(batches) /\ batches' \in Seq(Batch)
      /\ \A k \in 1 .. Len(batches) :
           /\ batches'[k].start = batches[k].start /\ batches'[k].count = batches[k].count
           /\ batches'[k].pos = batches[k].pos
           /\ batches'[k].freed = (IF k = i THEN TRUE ELSE batches[k].freed)
  <2>1. [batches[i] EXCEPT !.freed = TRUE] \in Batch BY <1>3, Zenon DEF Batch
  <2>2. batches' = [batches EXCEPT ![i] = [batches[i] EXCEPT !.freed = TRUE]] BY <1>1
  <2>3. Len(batches') = Len(batches) /\ batches' \in Seq(Batch) BY <1>1, <2>1, <2>2
  <2>4. ASSUME NEW k \in 1 .. Len(batches)
        PROVE  batches'[k] = IF k = i THEN [batches[i] EXCEPT !.freed = TRUE] ELSE batches[k]
    BY <1>1, <2>2
  <2> QED BY <1>3, <2>3, <2>4, ZenonT(40) DEF Batch
<1>6. /\ Slot(b.start) = Slot(b.pos) /\ head + ackCount <= b.pos
      /\ b.pos + b.count <= head + consumedCount
  BY DEF IInv, BatchRange
<1>t. /\ Events \in Nat /\ head \in Nat /\ ackCount \in Nat /\ eventCount \in Nat
      /\ consumedCount \in Nat /\ eventCount <= Events /\ consumedCount <= eventCount
  BY <1>1
<1> HIDE DEF b
<1>7. ASSUME NEW a \in Nat, head <= a, a < head + eventCount,
             a < b.pos \/ b.pos + b.count <= a
      PROVE  ~Hit(Slot(a))
  <2>1. SUFFICES ASSUME NEW j \in 1 .. b.count, Slot(b.start + j - 1) = Slot(a)
                 PROVE  FALSE
    OBVIOUS
  <2>2. Slot(b.start + (j - 1)) = Slot(b.pos + (j - 1))
    <3>1. b.start \in Int /\ b.pos \in Int /\ j - 1 \in Int BY <1>4
    <3> QED BY <1>1, <1>6, <3>1, SlotAdd, Zenon
  <2>3. b.start + (j - 1) = b.start + j - 1 BY <1>4
  <2>4. Slot(b.pos + (j - 1)) = Slot(a) BY <2>1, <2>2, <2>3
  <2>5. /\ b.pos + (j - 1) \in Nat /\ b.pos + (j - 1) # a
        /\ b.pos + (j - 1) < a + Events /\ a < (b.pos + (j - 1)) + Events
    <3>1. j \in Nat /\ 1 <= j /\ j <= b.count BY <1>4
    <3>2. b.pos + (j - 1) \in Nat /\ b.pos + (j - 1) # a BY <1>4, <1>7, <3>1
    <3>3. b.pos + (j - 1) < a + Events BY <1>t, <1>4, <1>6, <1>7, <3>1
    <3>4. a < (b.pos + (j - 1)) + Events BY <1>t, <1>4, <1>6, <1>7, <3>1
    <3> QED BY <3>2, <3>3, <3>4
  <2> QED BY <1>1, <2>4, <2>5, SlotInj
<1>8. ASSUME NEW a \in Nat, head <= a, a < head + eventCount,
             a < b.pos \/ b.pos + b.count <= a
      PROVE  buf'[Slot(a)] = buf[Slot(a)]
  <2>1. Slot(a) \in Slots BY <1>1, SlotSlot
  <2> QED BY <1>2, <1>7, <1>8, <2>1
<1>9. TypeOK'
  <2>1. ASSUME NEW s \in Slots PROVE [buf[s] EXCEPT !.event = Nil] \in Entry
    <3>1. buf[s] \in Entry BY <1>1
    <3> QED BY <3>1 DEF Entry
  <2>2. buf' \in [Slots -> Entry] BY <1>1, <1>2, <2>1
  <2> QED BY <1>1, <1>5, <2>2, Zenon DEF IInv, TypeOK
<1>10. RingOK' /\ AckRange' BY <1>1 DEF IInv, RingOK, AckRange, Slot
<1>11. BatchRange' BY <1>1, <1>5 DEF IInv, BatchRange, Slot
<1>12. BatchOrder' BY <1>5, Zenon DEF IInv, BatchOrder
<1>13. UnreadAt'
  <2>1. ASSUME NEW a \in head + consumedCount .. head + eventCount - 1
        PROVE  buf'[Slot(a)] = log[a + 1]
    <3>1. a \in Nat /\ head <= a /\ a < head + eventCount /\ b.pos + b.count <= a
      BY <1>t, <1>4, <1>6
    <3>2. buf[Slot(a)] = log[a + 1] BY DEF IInv, UnreadAt
    <3> QED BY <1>8, <3>1, <3>2
  <2> QED BY <1>1, <2>1 DEF UnreadAt, Slot
<1>14. BatchAt'
  <2>1. ASSUME NEW k \in 1 .. Len(batches), ~batches'[k].freed,
               NEW a \in batches[k].pos .. batches[k].pos + batches[k].count - 1
        PROVE  buf'[Slot(a)].event = log[a + 1].event
    <3>1. k # i /\ ~batches[k].freed BY <1>5, <2>1, Zenon
    <3>2. buf[Slot(a)].event = log[a + 1].event BY <2>1, <3>1 DEF IInv, BatchAt
    <3>3. batches[k] \in Batch BY <1>1
    <3>4. batches[k].pos \in Nat /\ batches[k].count \in Nat BY <3>3 DEF Batch
    <3>5. /\ head + ackCount <= batches[k].pos
          /\ batches[k].pos + batches[k].count <= head + consumedCount
      BY DEF IInv, BatchRange
    <3>6. a < b.pos \/ b.pos + b.count <= a
      <4>1. CASE k < i
        <5>1. batches[k].pos + batches[k].count <= b.pos
          BY <4>1 DEF IInv, BatchOrder, b
        <5> QED BY <1>4, <3>4, <5>1, SMTT(30)
      <4>2. CASE i < k
        <5>1. b.pos + b.count <= batches[k].pos BY <4>2 DEF IInv, BatchOrder, b
        <5> QED BY <1>4, <3>4, <5>1, SMTT(30)
      <4>3. Len(batches) \in Nat BY <1>1
      <4> QED BY <3>1, <4>1, <4>2, <4>3
    <3>7. a \in Nat /\ head <= a /\ a < head + eventCount BY <1>t, <3>4, <3>5
    <3> QED BY <1>8, <3>2, <3>6, <3>7
  <2> QED BY <1>1, <1>5, <2>1 DEF BatchAt, Slot
<1> QED BY <1>9, <1>10, <1>11, <1>12, <1>13, <1>14 DEF IInv

-----------------------------------------------------------------------------
(* ackLoop. *)

\* Collecting the oldest batch hands its slots, all of consumed events, to processACK.
LEMMA AckCollectInv ==
  ASSUME IInv, AckCollect
  PROVE  IInv'
<1> DEFINE b == batches[1]
           L == Len(batches)
<1>1. /\ batches \in Seq(Batch) /\ forwarded \in 0 .. L /\ forwarded > 0
      /\ ackSlots \in Seq(Slots) /\ ackCount \in Nat /\ head \in Nat
      /\ Events \in Nat \ {0} /\ consumedCount \in Nat
      /\ ackSlots' = ackSlots \o BatchSlots(b) /\ ackCount' = ackCount + b.count
      /\ batches' = Tail(batches) /\ forwarded' = forwarded - 1 /\ ackPc' = "collect"
      /\ UNCHANGED <<buf, runVars, pushChan, cancelChan, closed, callbacks, lastACK, acked,
                     queueACKed, pubVars, histVars>>
  BY ConstantsAssumption DEF IInv, TypeOK, AckCollect, HeadDone
<1>2. L \in Nat /\ 1 \in 1 .. L /\ batches # <<>> BY <1>1
<1>3. b \in Batch BY <1>1, <1>2
<1>4. b.start \in Nat /\ b.count \in Nat /\ b.pos \in Nat BY <1>3 DEF Batch
<1>5. /\ Slot(b.start) = Slot(b.pos) /\ head + ackCount <= b.pos
      /\ b.pos + b.count <= head + consumedCount
  BY <1>2 DEF IInv, BatchRange
<1>t. /\ ackCount \in Nat /\ head \in Nat /\ consumedCount \in Nat
      /\ ackCount' = ackCount + b.count
  BY <1>1
<1>6. /\ batches' \in Seq(Batch) /\ Len(batches') = L - 1
      /\ \A k \in 1 .. L - 1 : batches'[k] = batches[k + 1] /\ k + 1 \in 1 .. L
  BY <1>1, <1>2
<1> HIDE DEF b, L
<1>7. ASSUME NEW j \in 1 .. b.count
      PROVE  Slot(b.start + j - 1) \in Slots
  <2>1. b.start + j - 1 \in Int BY <1>4
  <2> QED BY <1>1, <2>1, SlotSlot
<1>8. BatchSlots(b) \in Seq(Slots) /\ Len(BatchSlots(b)) = b.count
      /\ \A j \in 1 .. b.count : BatchSlots(b)[j] = Slot(b.start + j - 1)
  BY <1>4, <1>7 DEF BatchSlots
<1>9. ackSlots' \in Seq(Slots) /\ ackCount' \in Nat BY <1>1, <1>4, <1>8
<1>10. TypeOK'
  <2>1. forwarded' \in 0 .. Len(batches') BY <1>1, <1>2, <1>6
  <2> QED BY <1>1, <1>6, <1>9, <2>1, Zenon DEF IInv, TypeOK, runVars, pubVars, histVars
<1> USE DEF runVars, histVars
<1>11. RingOK' /\ UnreadAt' BY <1>1 DEF IInv, RingOK, UnreadAt, Slot
<1>12. BatchRange'
  <2>1. ASSUME NEW k \in 1 .. L - 1
        PROVE  /\ Slot(batches[k + 1].start) = Slot(batches[k + 1].pos)
               /\ head + ackCount' <= batches[k + 1].pos
               /\ batches[k + 1].pos + batches[k + 1].count <= head + consumedCount
    <3>1. k + 1 \in 1 .. L /\ 1 < k + 1 BY <1>2, <1>6
    <3>2. b.pos + b.count <= batches[k + 1].pos BY <1>2, <3>1 DEF IInv, BatchOrder, b, L
    <3>3. batches[k + 1] \in Batch BY <1>1, <3>1 DEF L
    <3>4. batches[k + 1].pos \in Nat BY <3>3 DEF Batch
    <3>5. head + ackCount' <= batches[k + 1].pos BY <1>t, <1>4, <1>5, <3>2, <3>4
    <3> QED BY <3>1, <3>5 DEF IInv, BatchRange, L
  <2> QED BY <1>1, <1>6, <2>1, Zenon DEF BatchRange, Slot
<1>13. BatchOrder'
  <2>1. ASSUME NEW k \in 1 .. L - 1, NEW m \in 1 .. L - 1, k < m
        PROVE  batches[k + 1].pos + batches[k + 1].count <= batches[m + 1].pos
    <3>1. k + 1 \in 1 .. L /\ m + 1 \in 1 .. L /\ k + 1 < m + 1 BY <1>2, <1>6, <2>1
    <3> QED BY <3>1 DEF IInv, BatchOrder, L
  <2> QED BY <1>6, <2>1 DEF BatchOrder
<1>14. BatchAt'
  <2>1. ASSUME NEW k \in 1 .. L - 1, ~batches[k + 1].freed,
               NEW a \in batches[k + 1].pos .. batches[k + 1].pos + batches[k + 1].count - 1
        PROVE  buf[Slot(a)].event = log[a + 1].event
    BY <1>6, <2>1 DEF IInv, BatchAt, L
  <2>2. ASSUME NEW k \in 1 .. Len(batches'), ~batches'[k].freed,
               NEW a \in batches'[k].pos .. batches'[k].pos + batches'[k].count - 1
        PROVE  buf'[Slot(a)].event = log'[a + 1].event
    <3>1. k \in 1 .. L - 1 /\ batches'[k] = batches[k + 1] BY <1>6
    <3>2. buf[Slot(a)].event = log[a + 1].event BY <2>1, <2>2, <3>1
    <3> QED BY <1>1, <3>2
  <2> QED BY <2>2 DEF BatchAt, Slot
<1>15. AckRange'
  <2>1. ackCount' <= consumedCount BY <1>t, <1>4, <1>5, SMTT(30)
  <2>2. /\ ackSlots \in Seq(Slots) /\ ackSlots' = ackSlots \o BatchSlots(b)
        /\ BatchSlots(b) \in Seq(Slots) /\ Len(BatchSlots(b)) = b.count
    BY <1>1, <1>8
  <2>3. Len(ackSlots') = Len(ackSlots) + b.count /\ Len(ackSlots) \in Nat
    <3>1. Len(ackSlots \o BatchSlots(b)) = Len(ackSlots) + Len(BatchSlots(b))
      BY <2>2, ConcatLen, Zenon
    <3>2. Len(ackSlots) \in Nat BY <2>2
    <3> QED BY <2>2, <3>1, <3>2
  <2>4. ASSUME NEW k \in 1 .. Len(ackSlots')
        PROVE  \E a \in head .. head + consumedCount - 1 : ackSlots'[k] = Slot(a)
    <3>1. k \in Nat /\ 1 <= k /\ k <= Len(ackSlots) + b.count BY <1>4, <2>3
    <3>2. CASE k \in 1 .. Len(ackSlots)
      <4>1. ackSlots'[k] = ackSlots[k] BY <2>2, <3>2
      <4> QED BY <3>2, <4>1 DEF IInv, AckRange
    <3>3. CASE k > Len(ackSlots)
      <4> DEFINE j == k - Len(ackSlots)
      <4>1. j \in 1 .. b.count BY <1>4, <2>3, <3>1, <3>3
      <4>2. ackSlots'[k] = BatchSlots(b)[j] BY <2>2, <2>3, <3>1, <3>3
      <4> HIDE DEF j
      <4>3. Slot(b.start + (j - 1)) = Slot(b.pos + (j - 1))
        <5>1. b.start \in Int /\ b.pos \in Int /\ j - 1 \in Int BY <1>4, <4>1
        <5> QED BY <1>1, <1>5, <5>1, SlotAdd
      <4>4. b.start + (j - 1) = b.start + j - 1 BY <1>4, <4>1
      <4>5. b.pos + (j - 1) \in head .. head + consumedCount - 1
        <5>1. j \in Nat /\ 1 <= j /\ j <= b.count BY <1>4, <4>1
        <5>2. head <= b.pos + (j - 1) BY <1>t, <1>4, <1>5, <5>1
        <5>3. b.pos + (j - 1) <= head + consumedCount - 1 BY <1>t, <1>4, <1>5, <5>1, SMTT(30)
        <5> QED BY <1>t, <1>4, <5>1, <5>2, <5>3
      <4> QED BY <1>8, <4>1, <4>2, <4>3, <4>4, <4>5
    <3> QED BY <2>3, <3>1, <3>2, <3>3
  <2> QED BY <1>1, <2>1, <2>4, Zenon DEF AckRange, Slot
<1> QED BY <1>10, <1>11, <1>12, <1>13, <1>14, <1>15 DEF IInv

\* Visiting an entry clears its producer; unread entries are in other slots, and the
\* events of outstanding batches are left alone.
LEMMA ScanEntryInv ==
  ASSUME IInv, ScanEntry
  PROVE  IInv'
<1> DEFINE N == Len(ackSlots)
           slot == ackSlots[N]
           entry == buf[slot]
           p == entry.producer
           fresh == p # Nil /\ entry.producerID > lastACK[p]
<1>1. /\ ackSlots \in Seq(Slots) /\ ackSlots # <<>> /\ buf \in [Slots -> Entry]
      /\ lastACK \in [AckProducers -> Nat] /\ Events \in Nat \ {0}
      /\ callbacks \in Seq([producer : AckProducers, count : Nat \ {0}])
      /\ ackPc = "scan" /\ ackSlots' = SubSeq(ackSlots, 1, N - 1)
      /\ UNCHANGED <<runVars, batches, forwarded, pushChan, cancelChan, closed, ackPc,
                     ackCount, acked, queueACKed, pubVars, histVars>>
  BY ConstantsAssumption, Zenon DEF IInv, TypeOK, ScanEntry
<1>2. /\ callbacks' = (IF fresh THEN Append(callbacks, [producer |-> p,
                                      count |-> entry.producerID - lastACK[p]])
                      ELSE callbacks)
      /\ lastACK' = (IF fresh THEN [lastACK EXCEPT ![p] = entry.producerID] ELSE lastACK)
      /\ buf' = [buf EXCEPT ![slot].producer = Nil]
  BY DEF ScanEntry
<1>3. N \in Nat \ {0} /\ slot \in Slots BY <1>1
<1>4. entry \in Entry BY <1>1, <1>3
<1>5. p \in AckProducers \cup {Nil} /\ entry.producerID \in Nat BY <1>4 DEF Entry
<1>6. callbacks' \in Seq([producer : AckProducers, count : Nat \ {0}])
      /\ lastACK' \in [AckProducers -> Nat]
  <2>1. CASE fresh
    <3>1. p \in AckProducers BY <1>5, <2>1
    <3>2. lastACK[p] \in Nat BY <1>1, <3>1
    <3>3. entry.producerID - lastACK[p] \in Nat \ {0} BY <1>5, <2>1, <3>2
    <3>4. [producer |-> p, count |-> entry.producerID - lastACK[p]]
            \in [producer : AckProducers, count : Nat \ {0}]
      BY <3>1, <3>3
    <3> HIDE DEF fresh, p, entry
    <3> QED BY <1>1, <1>2, <1>5, <2>1, <3>1, <3>4
  <2>2. CASE ~fresh BY <1>1, <1>2, <2>2
  <2> QED BY <2>1, <2>2
<1>7. [entry EXCEPT !.producer = Nil] \in Entry BY <1>4 DEF Entry
<1>8. buf' = [buf EXCEPT ![slot] = [entry EXCEPT !.producer = Nil]] BY <1>2
<1>9. buf' \in [Slots -> Entry] BY <1>1, <1>3, <1>7, <1>8
<1>10. ASSUME NEW s \in Slots
       PROVE  buf'[s].event = buf[s].event /\ (s # slot => buf'[s] = buf[s])
  <2>1. CASE s = slot
    <3>1. buf'[s] = [entry EXCEPT !.producer = Nil] BY <1>1, <1>8, <2>1
    <3> QED BY <1>4, <2>1, <3>1 DEF Entry
  <2>2. CASE s # slot BY <1>1, <1>8, <2>2
  <2> QED BY <2>1, <2>2
<1>11. ackSlots' \in Seq(Slots) /\ Len(ackSlots') = N - 1
       /\ \A k \in 1 .. N - 1 : ackSlots'[k] = ackSlots[k]
  <2>1. ackSlots \in Seq(Slots) /\ ackSlots' = SubSeq(ackSlots, 1, N - 1) BY <1>1
  <2> QED BY <1>1, <2>1, FrontOf
<1> HIDE DEF slot, entry, p, fresh
<1>12. TypeOK' BY <1>1, <1>6, <1>9, <1>11, Zenon DEF IInv, TypeOK, runVars, pubVars, histVars
<1>13. RingOK' /\ BatchRange' /\ BatchOrder'
  BY <1>1, Zenon DEF IInv, RingOK, BatchRange, BatchOrder, Slot, runVars, histVars
<1>14. AckRange'
  <2>1. \A k \in 1 .. N - 1 : \E a \in head .. head + consumedCount - 1 : ackSlots[k] = Slot(a)
    BY <1>3 DEF IInv, AckRange
  <2>2. ackCount <= consumedCount BY DEF IInv, AckRange
  <2> QED BY <1>1, <1>11, <2>1, <2>2, Zenon DEF AckRange, Slot, runVars, histVars
<1>15. UnreadAt'
  <2>1. ASSUME NEW a \in head + consumedCount .. head + eventCount - 1
        PROVE  buf'[Slot(a)] = log[a + 1]
    <3>1. PICK c \in head .. head + consumedCount - 1 : slot = Slot(c)
      BY <1>3 DEF IInv, AckRange, slot
    <3>2. /\ head \in Nat /\ consumedCount \in Nat /\ eventCount \in Nat /\ eventCount <= Events
          /\ consumedCount <= eventCount
      BY ConstantsAssumption DEF IInv, TypeOK
    <3>3. a \in Nat /\ c \in Nat /\ a # c /\ a < c + Events /\ c < a + Events
      BY <1>1, <3>1, <3>2
    <3>4. Slot(a) # slot BY <1>1, <3>1, <3>3, SlotInj
    <3>5. Slot(a) \in Slots BY <1>1, <3>3, SlotSlot
    <3>6. buf[Slot(a)] = log[a + 1] BY DEF IInv, UnreadAt
    <3> QED BY <1>10, <3>4, <3>5, <3>6
  <2> QED BY <1>1, <2>1 DEF UnreadAt, Slot, runVars, histVars
<1>16. BatchAt'
  <2>1. ASSUME NEW i \in 1 .. Len(batches), ~batches[i].freed,
               NEW a \in batches[i].pos .. batches[i].pos + batches[i].count - 1
        PROVE  buf'[Slot(a)].event = log[a + 1].event
    <3>1. buf[Slot(a)].event = log[a + 1].event BY <2>1 DEF IInv, BatchAt
    <3>2. a \in Int BY <2>1
    <3>3. Slot(a) \in Slots BY <1>1, <3>2, SlotSlot
    <3> QED BY <1>10, <3>1, <3>3
  <2> QED BY <1>1, <2>1 DEF BatchAt, Slot, histVars
<1> QED BY <1>12, <1>13, <1>14, <1>15, <1>16 DEF IInv

\* The other steps of ackLoop only move its program counter and its counters.
LEMMA AckLoopRestInv ==
  ASSUME IInv, AckCollected \/ ScanDone \/ RunCallback \/ AckLoopExit
  PROVE  IInv'
<1>1. /\ UNCHANGED <<buf, runVars, batches, forwarded, pushChan, cancelChan, closed, ackSlots,
                     ackCount, lastACK, pubVars, histVars>>
      /\ ackPc' \in {"wait", "collect", "scan", "delete", "callbacks", "exited"}
  BY DEF AckCollected, ScanDone, RunCallback, AckLoopExit
<1>2. /\ callbacks' \in Seq([producer : AckProducers, count : Nat \ {0}])
      /\ acked' \in [AckProducers -> Nat] /\ queueACKed' \in Nat
      /\ (ackPc' = "callbacks" => callbacks' # <<>>)
      /\ (ackPc' = "delete" => ackSlots = <<>>)
  <2>1. /\ callbacks \in Seq([producer : AckProducers, count : Nat \ {0}])
        /\ acked \in [AckProducers -> Nat] /\ queueACKed \in Nat /\ ackCount \in Nat
        /\ (ackPc = "callbacks" => callbacks # <<>>)
    BY DEF IInv, TypeOK, AckRange
  <2>2. CASE AckCollected BY <2>1, <2>2 DEF AckCollected
  <2>3. CASE ScanDone BY <2>1, <2>3 DEF ScanDone
  <2>4. CASE AckLoopExit BY <2>1, <2>4 DEF AckLoopExit
  <2>5. CASE RunCallback
    <3>1. callbacks # <<>> BY <2>1, <2>5 DEF RunCallback
    <3> DEFINE Callback == [producer : AckProducers, count : Nat \ {0}]
    <3>2. callbacks \in Seq(Callback) BY <2>1
    <3> HIDE DEF Callback
    <3>3. /\ Head(callbacks) \in Callback /\ Tail(callbacks) \in Seq(Callback)
          /\ Len(Tail(callbacks)) = Len(callbacks) - 1 /\ Len(callbacks) \in Nat \ {0}
      BY <3>1, <3>2
    <3>4. Len(callbacks) # 1 => Tail(callbacks) # <<>>
      <4>1. Len(<<>>) = 0 OBVIOUS
      <4>2. Len(callbacks) # 1 => Len(Tail(callbacks)) # 0 BY <3>3
      <4> QED BY <4>1, <4>2, Zenon
    <3>5. /\ callbacks' = Tail(callbacks) /\ queueACKed' = queueACKed
          /\ ackPc' = IF Len(callbacks) = 1 THEN "wait" ELSE "callbacks"
          /\ acked' = [acked EXCEPT ![Head(callbacks).producer] = @ + Head(callbacks).count]
      BY <2>5 DEF RunCallback
    <3>6. acked' \in [AckProducers -> Nat] BY <2>1, <3>3, <3>5 DEF Callback
    <3> QED BY <2>1, <3>3, <3>4, <3>5, <3>6, Zenon DEF Callback
  <2> QED BY <2>2, <2>3, <2>4, <2>5
<1>3. TypeOK' BY <1>1, <1>2, Zenon DEF IInv, TypeOK, runVars, pubVars, histVars
<1>4. AckRange' BY <1>1, <1>2 DEF IInv, AckRange, runVars, histVars, Slot
<1>5. RingOK' /\ BatchRange' /\ BatchOrder' /\ UnreadAt' /\ BatchAt'
  BY <1>1, Zenon DEF IInv, RingOK, BatchRange, BatchOrder, UnreadAt, BatchAt, runVars, histVars, Slot
<1> QED BY <1>3, <1>4, <1>5 DEF IInv

-----------------------------------------------------------------------------
(* The theorems.  They are about the queue as the pipeline uses it: pipeline.go  *)
(* never sets DropOnCancel, so runLoop never receives a cancel request.          *)

\* Initially the queue is empty and the invariant holds.
LEMMA InitIInv == Init => IInv
<1> SUFFICES ASSUME Init PROVE IInv OBVIOUS
<1> USE ConstantsAssumption DEF Init
<1>1. TypeOK
  <2>1. EmptyEntry \in Entry BY DEF EmptyEntry, Entry
  <2>2. ChanSize \in Nat BY DEF ChanSize, Lesser
  <2>3. 0 \in Slots BY DEF Slots
  <2>4. buf \in [Slots -> Entry] BY <2>1
  <2>5. /\ batches \in Seq(Batch) /\ forwarded \in 0 .. Len(batches)
        /\ pushChan \in Seq(Request) /\ Len(pushChan) <= ChanSize
        /\ cancelChan \in Seq(DropOnCancel) /\ Len(cancelChan) <= CancelChanSize
        /\ ackSlots \in Seq(Slots) /\ log \in Seq(Entry)
        /\ callbacks \in Seq([producer : AckProducers, count : Nat \ {0}])
    BY <2>2
  <2>6. /\ eventCount \in 0 .. Events /\ consumedCount \in 0 .. eventCount
        /\ pendingGet \in 0 .. MaxGet /\ bufPos \in Slots
    BY <2>3, MaxGetNat
  <2>7. /\ lastACK \in [AckProducers -> Nat] /\ acked \in [AckProducers -> Nat]
        /\ attempts \in [Producers -> 0 .. MaxPublish] /\ producedCount \in [Producers -> Nat]
    OBVIOUS
  <2>8. /\ pubPc \in [Producers -> {"idle", "wait", "replied"}]
        /\ doneChan \in [Producers -> BOOLEAN] /\ eventsNil \in [Producers -> BOOLEAN]
        /\ cancelPc \in [Producers -> {"no", "sending", "waiting", "returned"}]
        /\ \A p \in Producers : cancelPc[p] \in {"sending", "waiting"} => p \in DropOnCancel
    OBVIOUS
  <2> QED BY <2>4, <2>5, <2>6, <2>7, <2>8, Zenon DEF TypeOK
<1>2. RingOK
  <2>1. 0 % Events = 0 OBVIOUS
  <2> QED BY <2>1 DEF RingOK, Slot
<1>3. BatchRange /\ BatchOrder /\ AckRange /\ UnreadAt /\ BatchAt
  BY DEF BatchRange, BatchOrder, AckRange, UnreadAt, BatchAt
<1> QED BY <1>1, <1>2, <1>3, Zenon DEF IInv

\* Every step keeps the invariant.
LEMMA NextIInv ==
  ASSUME DropOnCancel = {}, IInv, [Next]_vars
  PROVE  IInv'
<1>1. CASE \E p \in Producers : ProducerStep(p)
  BY <1>1, ProducerTypes, CoreStutter DEF IInv
<1>2. CASE HandleInsert BY <1>2, HandleInsertInv
<1>3. CASE HandleCancel
  <2>1. cancelChan \in Seq({}) /\ cancelChan # <<>> BY <1>3 DEF IInv, TypeOK, HandleCancel
  <2>2. Head(cancelChan) \in {} BY <2>1
  <2> QED BY <2>2
<1>4. CASE GetTimeout BY <1>4, GetTimeoutInv
<1>5. CASE ForwardConsumed \/ RunLoopExit \/ Close BY <1>5, RunLoopRestInv
<1>6. CASE HandleDelete BY <1>6, HandleDeleteInv
<1>7. CASE \E n \in 0 .. Events : HandleGetRequest(n) BY <1>7, HandleGetRequestInv
<1>8. CASE AckCollect BY <1>8, AckCollectInv
<1>9. CASE ScanEntry BY <1>9, ScanEntryInv
<1>10. CASE AckCollected \/ ScanDone \/ RunCallback \/ AckLoopExit BY <1>10, AckLoopRestInv
<1>11. CASE \E i \in 1 .. Len(batches) : FreeEntries(i) \/ Done(i)
  BY <1>11, FreeEntriesInv, DoneInv
<1>12. CASE UNCHANGED vars
  <2>1. TypeOK' BY <1>12, Zenon DEF IInv, TypeOK, vars, runVars, ackVars, pubVars, histVars
  <2> QED BY <1>12, <2>1, CoreStutter, Zenon DEF coreVars, vars, runVars, ackVars, histVars
<1> QED BY <1>1, <1>2, <1>3, <1>4, <1>5, <1>6, <1>7, <1>8, <1>9, <1>10, <1>11, <1>12
        DEF Next, RunLoopStep, AckLoopStep

\* The place of the j-th event of a batch that starts at place q, slot s.
LEMMA PlaceInBatch ==
  ASSUME NEW s \in Nat, NEW q \in Nat, NEW c \in Nat, NEW j \in 1 .. c
  PROVE  /\ s \in Int /\ q \in Int /\ j - 1 \in Int
         /\ q + (j - 1) \in q .. q + c - 1
         /\ s + (j - 1) = s + j - 1
         /\ (q + (j - 1)) + 1 = q + j
OBVIOUS

\* The invariant gives the two properties of the ring buffer.
LEMMA IInvImplies ==
  ASSUME IInv
  PROVE  BatchIntact /\ UnreadIntact
<1>1. Events \in Nat \ {0} BY ConstantsAssumption
<1>2. BatchIntact
  <2>1. ASSUME NEW i \in 1 .. Len(batches), ~batches[i].freed,
               NEW j \in 1 .. batches[i].count
        PROVE  buf[Slot(batches[i].start + j - 1)].event = log[batches[i].pos + j].event
    <3>1. batches[i] \in Batch BY DEF IInv, TypeOK
    <3>2. /\ batches[i].start \in Nat /\ batches[i].pos \in Nat /\ batches[i].count \in Nat
      BY <3>1, SMTT(30) DEF Batch
    <3>3. Slot(batches[i].start) = Slot(batches[i].pos) BY Zenon DEF IInv, BatchRange
    <3>a. /\ batches[i].start \in Int /\ batches[i].pos \in Int /\ j - 1 \in Int
          /\ batches[i].pos + (j - 1)
               \in batches[i].pos .. batches[i].pos + batches[i].count - 1
          /\ batches[i].start + (j - 1) = batches[i].start + j - 1
          /\ (batches[i].pos + (j - 1)) + 1 = batches[i].pos + j
      BY <3>2, PlaceInBatch, Zenon
    <3>4. Slot(batches[i].start + (j - 1)) = Slot(batches[i].pos + (j - 1))
      BY <1>1, <3>3, <3>a, SlotAdd, Zenon
    <3>5. batches[i].pos + (j - 1)
            \in batches[i].pos .. batches[i].pos + batches[i].count - 1
      BY <3>a, Zenon
    <3>6. buf[Slot(batches[i].pos + (j - 1))].event = log[(batches[i].pos + (j - 1)) + 1].event
      BY Zenon, <2>1, <3>5 DEF IInv, BatchAt
    <3> QED BY <3>a, <3>4, <3>6, Zenon
  <2> QED BY Zenon, <2>1 DEF BatchIntact
<1>3. UnreadIntact
  <2>1. ASSUME NEW k \in consumedCount .. eventCount - 1
        PROVE  buf[Slot(bufPos + k)] = log[head + k + 1]
    <3>1. head \in Nat /\ bufPos \in Nat /\ consumedCount \in Nat /\ eventCount \in Nat
      BY ConstantsAssumption DEF IInv, TypeOK, Slots
    <3>2. Slot(bufPos + k) = Slot(head + k)
      <4>1. Slot(bufPos) = Slot(head) BY <1>1, <3>1, SlotSlot DEF IInv, RingOK
      <4>2. bufPos \in Int /\ head \in Int /\ k \in Int BY <3>1
      <4> QED BY <1>1, <4>1, <4>2, SlotAdd, Zenon
    <3>3. head + k \in head + consumedCount .. head + eventCount - 1 BY <3>1
    <3>4. buf[Slot(head + k)] = log[(head + k) + 1] BY <3>3, Zenon DEF IInv, UnreadAt
    <3>5. (head + k) + 1 = head + k + 1 BY <3>1
    <3> QED BY <3>2, <3>4, <3>5
  <2> QED BY Zenon, <2>1 DEF UnreadIntact
<1> QED BY <1>2, <1>3

\* For any number of producers, queue size and request limit, the queue's variables
\* keep their types: the counters stay within the ring buffer, the channels within
\* their capacities.
THEOREM TypeCorrect ==
  ASSUME DropOnCancel = {}
  PROVE  Spec => []TypeOK
<1>1. IInv /\ [Next]_vars => IInv' BY NextIInv
<1>2. IInv => TypeOK BY DEF IInv
<1> QED BY InitIInv, <1>1, <1>2, PTL DEF Spec

\* The events of every outstanding batch stay where the consumer reads them until the
\* consumer itself frees them.
THEOREM BatchesStayIntact ==
  ASSUME DropOnCancel = {}
  PROVE  Spec => []BatchIntact
<1>1. IInv /\ [Next]_vars => IInv' BY NextIInv
<1>2. IInv => BatchIntact BY IInvImplies
<1> QED BY InitIInv, <1>1, <1>2, PTL DEF Spec

\* No insert, delete, get or acknowledgement disturbs an event that is still unread.
THEOREM UnreadStaysIntact ==
  ASSUME DropOnCancel = {}
  PROVE  Spec => []UnreadIntact
<1>1. IInv /\ [Next]_vars => IInv' BY NextIInv
<1>2. IInv => UnreadIntact BY IInvImplies
<1> QED BY InitIInv, <1>1, <1>2, PTL DEF Spec
===============================================================================
