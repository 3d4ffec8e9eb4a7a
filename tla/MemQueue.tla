------------------------------- MODULE MemQueue -------------------------------
(***************************************************************************)
(* The memory queue of libbeat (publisher/queue/memqueue).                 *)
(*                                                                         *)
(* Two goroutines own the queue.  runLoop owns the ring buffer's counters  *)
(* and serves push, cancel and get requests one at a time; ackLoop follows *)
(* the batches that were handed out and, when the oldest ones are done,    *)
(* tells runLoop how many events to delete and then runs the producers'    *)
(* ACK callbacks.  Producers talk to runLoop through the buffered pushChan *)
(* and cancelChan; getChan, consumedChan and deleteChan are unbuffered and *)
(* appear here as joint steps of the two ends.  Consumers read the slots   *)
(* of a batch without any lock, concurrently with both loops.              *)
(***************************************************************************)
EXTENDS Integers, Sequences, FiniteSets

CONSTANTS
  Producers,        \* producers connected to the queue
  AckProducers,     \* the ones with an ACK callback (ackProducer)
  DropOnCancel,     \* the ones with ProducerConfig.DropOnCancel
  Events,           \* Settings.Events: slots of the ring buffer
  MaxGetRequest,    \* Settings.MaxGetRequest
  FlushTimeout,     \* Settings.FlushTimeout > 0
  InputQueueSize,   \* the requested size of pushChan
  MinInputQueueSize,\* minInputQueueSize
  CancelChanSize,   \* capacity of cancelChan
  MaxPublish,       \* bound: Publish and TryPublish calls of one producer
  MayClose,         \* bound: whether the queue may be closed
  Nil               \* a nil pointer: no event, no producer

ASSUME ConstantsAssumption ==
  /\ AckProducers \subseteq Producers
  /\ DropOnCancel \subseteq AckProducers
  /\ Events \in Nat \ {0}
  /\ MaxGetRequest \in Int
  /\ FlushTimeout \in BOOLEAN
  /\ InputQueueSize \in Nat
  /\ MinInputQueueSize \in Nat \ {0}
  /\ CancelChanSize \in Nat \ {0}
  /\ MaxPublish \in Nat
  /\ MayClose \in BOOLEAN
  /\ Nil \notin Producers
  /\ Nil \notin Producers \X Nat

VARIABLES
  buf,            \* broker.buf: the ring buffer
  bufPos,         \* runLoop: index of the oldest event
  eventCount,     \* runLoop: events in the queue
  consumedCount,  \* runLoop: events handed out and not deleted yet
  pendingGet,     \* runLoop.pendingGetRequest's entryCount, 0 when nil
  nextEntryID,    \* runLoop
  batches,        \* batches handed out and not collected by ackLoop, in order
  forwarded,      \* how many of them are in ackLoop.pendingBatches; the
                  \* others are still in runLoop.consumedBatches
  pushChan,       \* buffered push requests
  cancelChan,     \* buffered cancel requests
  closed,         \* broker.ctx is cancelled
  runPc,          \* runLoop: "select" or "exited"
  ackPc,          \* ackLoop: "wait", "collect", "scan", "delete", "callbacks", "exited"
  ackSlots,       \* slots of the collected batches processACK has still to visit
  ackCount,       \* events of the collected batches, not deleted yet
  callbacks,      \* ackCallbacks collected by processACK and not run yet
  lastACK,        \* produceState.lastACK
  pubPc,          \* Publish: "idle", "wait" for req.resp, "replied"
  attempts,       \* calls of Publish and TryPublish so far
  producedCount,  \* ackProducer.producedCount
  doneChan,       \* openState.done is closed
  eventsNil,      \* openState.events was set to nil
  cancelPc,       \* Cancel: "no", "sending", "waiting" for the response, "returned"
  acked,          \* events reported to the producer's ACK callback
  queueACKed,     \* events reported to broker.ackCallback
  head,           \* history: events deleted so far
  finished,       \* history: places in log whose batch the consumer marked Done
  log             \* history: the inserted events (less the cancelled ones)

runVars == <<bufPos, eventCount, consumedCount, pendingGet, nextEntryID, runPc>>
ackVars == <<ackPc, ackSlots, ackCount, callbacks, lastACK, acked, queueACKed>>
pubVars == <<pubPc, attempts, producedCount, doneChan, eventsNil, cancelPc>>
histVars == <<head, finished, log>>
vars == <<buf, runVars, batches, forwarded, pushChan, cancelChan, closed,
          ackVars, pubVars, histVars>>

-----------------------------------------------------------------------------
(* Settings as newQueue normalises them. *)

Lesser(a, b) == IF a <= b THEN a ELSE b

\* A limit of 0 or 1 selects the old synchronous mode: half the queue, no timeout.
MaxGet == IF MaxGetRequest <= 1 THEN (Events + 1) \div 2
                                ELSE Lesser(MaxGetRequest, Events)

Flush == FlushTimeout /\ MaxGetRequest > 1

\* AdjustInputQueueSize: at most a tenth of the queue, at least the minimum.
ChanSize ==
  LET actual == Lesser(InputQueueSize, Events \div 10)
  IN  IF actual < MinInputQueueSize THEN MinInputQueueSize ELSE actual

Slots == 0 .. Events - 1

Event == Producers \X Nat

Entry == [event : Event \cup {Nil}, id : Nat,
          producer : AckProducers \cup {Nil}, producerID : Nat]

EmptyEntry == [event |-> Nil, id |-> 0, producer |-> Nil, producerID |-> 0]

Request == [from : Producers, event : Event,
            producer : AckProducers \cup {Nil}, producerID : Nat]

\* start and count as in the code (start is not reduced modulo Events); done: the
\* buffered doneChan holds a message; freed: FreeEntries was called; pos is
\* history: the place of the first event in log.
Batch == [start : Nat, count : Nat, pos : Nat, done : BOOLEAN, freed : BOOLEAN]

Slot(i) == i % Events

\* batch.rawEntry: the slots of a batch, in order.
BatchSlots(b) == [i \in 1 .. b.count |-> Slot(b.start + i - 1)]

Init ==
  /\ buf = [s \in Slots |-> EmptyEntry]
  /\ bufPos = 0 /\ eventCount = 0 /\ consumedCount = 0
  /\ pendingGet = 0 /\ nextEntryID = 0
  /\ batches = <<>> /\ forwarded = 0
  /\ pushChan = <<>> /\ cancelChan = <<>>
  /\ closed = FALSE /\ runPc = "select"
  /\ ackPc = "wait" /\ ackSlots = <<>> /\ ackCount = 0 /\ callbacks = <<>>
  /\ lastACK = [p \in AckProducers |-> 0]
  /\ pubPc = [p \in Producers |-> "idle"]
  /\ attempts = [p \in Producers |-> 0]
  /\ producedCount = [p \in Producers |-> 0]
  /\ doneChan = [p \in Producers |-> FALSE]
  /\ eventsNil = [p \in Producers |-> FALSE]
  /\ cancelPc = [p \in Producers |-> "no"]
  /\ acked = [p \in AckProducers |-> 0]
  /\ queueACKed = 0
  /\ head = 0 /\ finished = {} /\ log = <<>>

-----------------------------------------------------------------------------
(* Producers. *)

\* Mutant: the request numbers its event with the events produced before it.
PushRequestFromZero(p) ==
  [from |-> p, event |-> <<p, attempts[p] + 1>>,
   producer   |-> IF p \in AckProducers THEN p ELSE Nil,
   producerID |-> IF p \in AckProducers THEN producedCount[p] ELSE 0]

\* makePushRequest: only an ackProducer numbers its events.
PushRequest(p) ==
  [from |-> p, event |-> <<p, attempts[p] + 1>>,
   producer   |-> IF p \in AckProducers THEN p ELSE Nil,
   producerID |-> IF p \in AckProducers THEN producedCount[p] + 1 ELSE 0]

Calls(p) ==
  /\ pubPc[p] = "idle"
  /\ attempts[p] < MaxPublish
  /\ attempts' = [attempts EXCEPT ![p] = @ + 1]

\* Publish or TryPublish: the request goes into the buffered channel.  A closed
\* done channel or queue does not prevent it: select picks any ready case.
PublishSend(p) ==
  /\ Calls(p)
  /\ ~eventsNil[p]
  /\ Len(pushChan) < ChanSize
  /\ pushChan' = Append(pushChan, PushRequest(p))
  /\ pubPc' = [pubPc EXCEPT ![p] = "wait"]
  /\ UNCHANGED <<buf, runVars, batches, forwarded, cancelChan, closed, ackVars,
                 producedCount, doneChan, eventsNil, cancelPc, histVars>>

\* The call fails because the producer or the queue is closed.
PublishClosed(p) ==
  /\ Calls(p)
  /\ doneChan[p] \/ closed
  /\ eventsNil' = [eventsNil EXCEPT ![p] = TRUE]
  /\ UNCHANGED <<buf, runVars, batches, forwarded, pushChan, cancelChan, closed,
                 ackVars, pubPc, producedCount, doneChan, cancelPc, histVars>>

\* TryPublish's default case: no other case is ready, the event is dropped.
TryPublishFull(p) ==
  /\ Calls(p)
  /\ eventsNil[p] \/ Len(pushChan) = ChanSize
  /\ ~doneChan[p]
  /\ UNCHANGED <<buf, runVars, batches, forwarded, pushChan, cancelChan, closed,
                 ackVars, pubPc, producedCount, doneChan, eventsNil, cancelPc, histVars>>

\* The response arrives; an ackProducer counts the event.
PublishReturn(p) ==
  /\ pubPc[p] = "replied"
  /\ pubPc' = [pubPc EXCEPT ![p] = "idle"]
  /\ producedCount' = IF p \in AckProducers
                      THEN [producedCount EXCEPT ![p] = @ + 1] ELSE producedCount
  /\ UNCHANGED <<buf, runVars, batches, forwarded, pushChan, cancelChan, closed,
                 ackVars, attempts, doneChan, eventsNil, cancelPc, histVars>>

\* Mutant: the call does not wait on the queue's shutdown channel.
PublishAbortReplied(p) ==
  /\ pubPc[p] = "replied"
  /\ closed
  /\ pubPc' = [pubPc EXCEPT ![p] = "idle"]
  /\ eventsNil' = [eventsNil EXCEPT ![p] = TRUE]
  /\ UNCHANGED <<buf, runVars, batches, forwarded, pushChan, cancelChan, closed,
                 ackVars, attempts, producedCount, doneChan, cancelPc, histVars>>

\* The queue is closed while the producer waits: the call gives up, even when the
\* response is there (select picks any ready case).
PublishAbort(p) ==
  /\ pubPc[p] \in {"wait", "replied"}
  /\ closed
  /\ pubPc' = [pubPc EXCEPT ![p] = "idle"]
  /\ eventsNil' = [eventsNil EXCEPT ![p] = TRUE]
  /\ UNCHANGED <<buf, runVars, batches, forwarded, pushChan, cancelChan, closed,
                 ackVars, attempts, producedCount, doneChan, cancelPc, histVars>>

\* Cancel closes the producer's done channel, possibly from another goroutine
\* while Publish is waiting.
Cancel(p) ==
  /\ ~doneChan[p]
  /\ doneChan' = [doneChan EXCEPT ![p] = TRUE]
  /\ cancelPc' = [cancelPc EXCEPT ![p] = IF p \in DropOnCancel THEN "sending" ELSE "returned"]
  /\ UNCHANGED <<buf, runVars, batches, forwarded, pushChan, cancelChan, closed,
                 ackVars, pubPc, attempts, producedCount, eventsNil, histVars>>

CancelSend(p) ==
  /\ cancelPc[p] = "sending"
  /\ Len(cancelChan) < CancelChanSize
  /\ cancelChan' = Append(cancelChan, p)
  /\ cancelPc' = [cancelPc EXCEPT ![p] = "waiting"]
  /\ UNCHANGED <<buf, runVars, batches, forwarded, pushChan, closed, ackVars,
                 pubPc, attempts, producedCount, doneChan, eventsNil, histVars>>

-----------------------------------------------------------------------------
(* runLoop.  The loop tests ctx before each select, so a select entered before *)
(* the queue was closed may still serve one request.                           *)

Iteration ==
  /\ runPc = "select"
  /\ runPc' = IF closed THEN "exited" ELSE "select"

\* handleGetReply: hand out what there is, up to n events.
GetReply(n, events) ==
  LET size == Lesser(n, events - consumedCount)
  IN  /\ batches' = Append(batches, [start |-> bufPos + consumedCount, count |-> size,
                                     pos |-> head + consumedCount,
                                     done |-> FALSE, freed |-> FALSE])
      /\ consumedCount' = consumedCount + size
      /\ pendingGet' = 0

\* Mutants: one event too many is accepted; the new event goes to the first unread slot.
CanInsertOneMore == eventCount <= Events
InsertSlotUnread == Slot(bufPos + consumedCount)

\* runIteration enables pushChan while the queue is not full.
CanInsert == eventCount < Events

InsertSlot == Slot(bufPos + eventCount)

\* handleInsert: store the event, reply to the producer, and serve a blocked get
\* request if it can be filled now.
HandleInsert ==
  /\ Iteration
  /\ CanInsert
  /\ pushChan # <<>>
  /\ LET req == Head(pushChan)
     IN  /\ buf' = [buf EXCEPT ![InsertSlot] =
                      [event |-> req.event, id |-> nextEntryID,
                       producer |-> req.producer, producerID |-> req.producerID]]
         /\ log' = Append(log, [event |-> req.event, id |-> nextEntryID,
                                producer |-> req.producer, producerID |-> req.producerID])
         /\ pubPc' = [pubPc EXCEPT ![req.from] = IF @ = "wait" THEN "replied" ELSE @]
  /\ pushChan' = Tail(pushChan)
  /\ nextEntryID' = nextEntryID + 1
  /\ eventCount' = eventCount + 1
  /\ IF pendingGet # 0 /\ eventCount + 1 - consumedCount >= pendingGet
     THEN GetReply(pendingGet, eventCount + 1)
     ELSE UNCHANGED <<batches, consumedCount, pendingGet>>
  /\ UNCHANGED <<bufPos, forwarded, cancelChan, closed, ackVars,
                 attempts, producedCount, doneChan, eventsNil, cancelPc, head, finished>>

\* Mutant: the traversal starts at the oldest event of the buffer.
CancelStartOldest == bufPos

\* handleCancel starts at the oldest event no consumer has seen.
CancelStart == bufPos + consumedCount

\* handleCancel: remove the producer's events that no consumer has seen yet, moving
\* the others up; the slots freed at the end lose their event pointer.
HandleCancel ==
  /\ Iteration
  /\ cancelChan # <<>>
  /\ LET p      == Head(cancelChan)
         first  == CancelStart
         unread == [i \in 1 .. eventCount - consumedCount |-> buf[Slot(first + i - 1)]]
         kept   == SelectSeq(unread, LAMBDA e : e.producer # p)
         Place(s) == Slot(s - first) + 1
     IN  /\ buf' = [s \in Slots |->
                      IF Place(s) <= Len(kept) THEN kept[Place(s)]
                      ELSE IF Place(s) <= Len(unread) THEN [buf[s] EXCEPT !.event = Nil]
                      ELSE buf[s]]
         /\ eventCount' = consumedCount + Len(kept)
         /\ log' = SubSeq(log, 1, head + consumedCount) \o kept
         /\ cancelPc' = [cancelPc EXCEPT ![p] = "returned"]
  /\ cancelChan' = Tail(cancelChan)
  /\ UNCHANGED <<bufPos, consumedCount, pendingGet, nextEntryID, batches, forwarded,
                 pushChan, closed, ackVars, pubPc, attempts, producedCount, doneChan,
                 eventsNil, head, finished>>

\* handleGetRequest: a consumer asks for n events.  With a flush timeout the request
\* blocks until it can be filled; otherwise it is answered at once.
HandleGetRequest(n) ==
  /\ Iteration
  /\ pendingGet = 0
  /\ eventCount > consumedCount
  /\ LET entryCount == IF n <= 0 \/ n > MaxGet THEN MaxGet ELSE n
     IN  IF Flush /\ eventCount - consumedCount < entryCount
         THEN /\ pendingGet' = entryCount
              /\ UNCHANGED <<batches, consumedCount>>
         ELSE GetReply(entryCount, eventCount)
  /\ UNCHANGED <<buf, bufPos, eventCount, nextEntryID, forwarded, pushChan, cancelChan,
                 closed, ackVars, pubVars, histVars>>

\* Mutant: the timer's expiry waits until the request can be filled.
GetTimeoutFilled ==
  /\ Iteration
  /\ pendingGet # 0
  /\ eventCount - consumedCount >= pendingGet
  /\ GetReply(pendingGet, eventCount)
  /\ UNCHANGED <<buf, bufPos, eventCount, nextEntryID, forwarded, pushChan, cancelChan,
                 closed, ackVars, pubVars, histVars>>

\* The flush timer expires: the blocked request gets what there is.
GetTimeout ==
  /\ Iteration
  /\ pendingGet # 0
  /\ GetReply(pendingGet, eventCount)
  /\ UNCHANGED <<buf, bufPos, eventCount, nextEntryID, forwarded, pushChan, cancelChan,
                 closed, ackVars, pubVars, histVars>>

\* consumedChan: runLoop hands the new batches to ackLoop.
ForwardConsumed ==
  /\ Iteration
  /\ ackPc = "wait"
  /\ forwarded < Len(batches)
  /\ forwarded' = Len(batches)
  /\ UNCHANGED <<buf, bufPos, eventCount, consumedCount, pendingGet, nextEntryID, batches,
                 pushChan, cancelChan, closed, ackVars, pubVars, histVars>>

\* deleteChan: ackLoop hands over the count, runLoop runs handleDelete.
HandleDelete ==
  /\ Iteration
  /\ ackPc = "delete"
  /\ bufPos' = Slot(bufPos + ackCount)
  /\ eventCount' = eventCount - ackCount
  /\ consumedCount' = consumedCount - ackCount
  /\ head' = head + ackCount
  /\ ackCount' = 0
  /\ ackPc' = IF callbacks = <<>> THEN "wait" ELSE "callbacks"
  /\ UNCHANGED <<buf, pendingGet, nextEntryID, batches, forwarded, pushChan, cancelChan,
                 closed, ackSlots, callbacks, lastACK, acked, queueACKed, pubVars, finished, log>>

\* The select sees the closed context.
RunLoopExit ==
  /\ runPc = "select"
  /\ closed
  /\ runPc' = "exited"
  /\ UNCHANGED <<buf, bufPos, eventCount, consumedCount, pendingGet, nextEntryID, batches,
                 forwarded, pushChan, cancelChan, closed, ackVars, pubVars, histVars>>

\* broker.Close
Close ==
  /\ MayClose /\ ~closed
  /\ closed' = TRUE
  /\ UNCHANGED <<buf, runVars, batches, forwarded, pushChan, cancelChan, ackVars, pubVars,
                 histVars>>

-----------------------------------------------------------------------------
(* Consumers: what an output does with the i-th outstanding batch.            *)

FreeEntries(i) ==
  /\ ~batches[i].done /\ ~batches[i].freed
  /\ batches' = [batches EXCEPT ![i].freed = TRUE]
  /\ LET slots == BatchSlots(batches[i])
     IN  buf' = [s \in Slots |-> IF \E j \in DOMAIN slots : slots[j] = s
                                 THEN [buf[s] EXCEPT !.event = Nil] ELSE buf[s]]
  /\ UNCHANGED <<runVars, forwarded, pushChan, cancelChan, closed, ackVars, pubVars, histVars>>

Done(i) ==
  /\ ~batches[i].done
  /\ batches' = [batches EXCEPT ![i].done = TRUE]
  /\ finished' = finished \cup (batches[i].pos + 1 .. batches[i].pos + batches[i].count)
  /\ UNCHANGED <<buf, runVars, forwarded, pushChan, cancelChan, closed, ackVars, pubVars,
                 head, log>>

-----------------------------------------------------------------------------
(* ackLoop. *)

\* Mutant: the oldest batch is taken whether or not its consumer is done.
HeadPending == forwarded > 0

\* nextBatchChannel is ready: the oldest pending batch is done.
HeadDone == forwarded > 0 /\ batches[1].done

\* handleBatchSig and collectAcked: take the oldest batch and every batch after it
\* that is done too, one at a time.
AckCollect ==
  /\ ackPc \in {"wait", "collect"}
  /\ HeadDone
  /\ ackPc' = "collect"
  /\ ackSlots' = ackSlots \o BatchSlots(batches[1])
  /\ ackCount' = ackCount + batches[1].count
  /\ batches' = Tail(batches)
  /\ forwarded' = forwarded - 1
  /\ UNCHANGED <<buf, runVars, pushChan, cancelChan, closed, callbacks, lastACK, acked,
                 queueACKed, pubVars, histVars>>

\* The next batch is not done: report the count to ackCallback and process it.
AckCollected ==
  /\ ackPc = "collect"
  /\ ~HeadDone
  /\ ackPc' = IF ackCount > 0 THEN "scan" ELSE "wait"
  /\ queueACKed' = queueACKed + ackCount
  /\ UNCHANGED <<buf, runVars, batches, forwarded, pushChan, cancelChan, closed, ackSlots,
                 ackCount, callbacks, lastACK, acked, pubVars, histVars>>

\* processACK visits the entries from last to first.  The first entry met of a
\* producer acknowledges all its earlier ones, which are skipped.
ScanEntry ==
  /\ ackPc = "scan"
  /\ ackSlots # <<>>
  /\ LET slot  == ackSlots[Len(ackSlots)]
         entry == buf[slot]
         p     == entry.producer
         fresh == p # Nil /\ entry.producerID > lastACK[p]
     IN  /\ callbacks' = IF fresh
                         THEN Append(callbacks, [producer |-> p,
                                                 count |-> entry.producerID - lastACK[p]])
                         ELSE callbacks
         /\ lastACK' = IF fresh THEN [lastACK EXCEPT ![p] = entry.producerID] ELSE lastACK
         /\ buf' = [buf EXCEPT ![slot].producer = Nil]
  /\ ackSlots' = SubSeq(ackSlots, 1, Len(ackSlots) - 1)
  /\ UNCHANGED <<runVars, batches, forwarded, pushChan, cancelChan, closed, ackPc, ackCount,
                 acked, queueACKed, pubVars, histVars>>

\* All entries visited: block on deleteChan.
ScanDone ==
  /\ ackPc = "scan"
  /\ ackSlots = <<>>
  /\ ackPc' = "delete"
  /\ UNCHANGED <<buf, runVars, batches, forwarded, pushChan, cancelChan, closed, ackSlots,
                 ackCount, callbacks, lastACK, acked, queueACKed, pubVars, histVars>>

\* The events are deleted: notify their listeners, one callback after the other.
RunCallback ==
  /\ ackPc = "callbacks"
  /\ LET f == Head(callbacks) IN acked' = [acked EXCEPT ![f.producer] = @ + f.count]
  /\ callbacks' = Tail(callbacks)
  /\ ackPc' = IF Len(callbacks) = 1 THEN "wait" ELSE "callbacks"
  /\ UNCHANGED <<buf, runVars, batches, forwarded, pushChan, cancelChan, closed, ackSlots,
                 ackCount, lastACK, queueACKed, pubVars, histVars>>

AckLoopExit ==
  /\ ackPc = "wait"
  /\ closed
  /\ ackPc' = "exited"
  /\ UNCHANGED <<buf, runVars, batches, forwarded, pushChan, cancelChan, closed, ackSlots,
                 ackCount, callbacks, lastACK, acked, queueACKed, pubVars, histVars>>

-----------------------------------------------------------------------------

ProducerStep(p) ==
  \/ PublishSend(p) \/ PublishClosed(p) \/ TryPublishFull(p)
  \/ PublishReturn(p) \/ PublishAbort(p)
  \/ Cancel(p) \/ CancelSend(p)

RunLoopStep ==
  \/ HandleInsert \/ HandleCancel \/ GetTimeout
  \/ ForwardConsumed \/ HandleDelete \/ RunLoopExit

AckLoopStep ==
  \/ AckCollect \/ AckCollected \/ ScanEntry \/ ScanDone \/ RunCallback \/ AckLoopExit

Next ==
  \/ \E p \in Producers : ProducerStep(p)
  \/ RunLoopStep
  \/ \E n \in 0 .. Events : HandleGetRequest(n)
  \/ AckLoopStep
  \/ \E i \in 1 .. Len(batches) : FreeEntries(i) \/ Done(i)
  \/ Close

Spec == Init /\ [][Next]_vars

-----------------------------------------------------------------------------
(* Properties. *)

\* The variables hold values of the types the Go fields have, within the bounds the
\* channels and the ring buffer impose.
TypeOK ==
  /\ buf \in [Slots -> Entry]
  /\ bufPos \in Slots
  /\ eventCount \in 0 .. Events
  /\ consumedCount \in 0 .. eventCount
  /\ pendingGet \in 0 .. MaxGet
  /\ nextEntryID \in Nat
  /\ batches \in Seq(Batch)
  /\ forwarded \in 0 .. Len(batches)
  /\ pushChan \in Seq(Request) /\ Len(pushChan) <= ChanSize
  /\ cancelChan \in Seq(DropOnCancel) /\ Len(cancelChan) <= CancelChanSize
  /\ closed \in BOOLEAN
  /\ runPc \in {"select", "exited"}
  /\ ackPc \in {"wait", "collect", "scan", "delete", "callbacks", "exited"}
  /\ ackSlots \in Seq(Slots)
  /\ ackCount \in Nat
  /\ callbacks \in Seq([producer : AckProducers, count : Nat \ {0}])
  /\ lastACK \in [AckProducers -> Nat]
  /\ pubPc \in [Producers -> {"idle", "wait", "replied"}]
  /\ attempts \in [Producers -> 0 .. MaxPublish]
  /\ producedCount \in [Producers -> Nat]
  /\ doneChan \in [Producers -> BOOLEAN]
  /\ eventsNil \in [Producers -> BOOLEAN]
  /\ cancelPc \in [Producers -> {"no", "sending", "waiting", "returned"}]
  /\ \A p \in Producers : cancelPc[p] \in {"sending", "waiting"} => p \in DropOnCancel
  /\ acked \in [AckProducers -> Nat]
  /\ queueACKed \in Nat
  /\ head \in Nat
  /\ finished \subseteq Nat
  /\ log \in Seq(Entry)

\* The events a consumer reads from a batch it has not freed are the ones that were
\* in the queue at the batch's place, in order: neither an insert that wraps around,
\* nor a cancel that compacts the buffer, nor a delete of older batches touches the
\* slots of an outstanding batch (batch.Entry reads them without a lock).
BatchIntact ==
  \A i \in 1 .. Len(batches) :
    LET b == batches[i]
    IN  ~b.freed => \A j \in 1 .. b.count :
                      buf[Slot(b.start + j - 1)].event = log[b.pos + j].event

\* The slots runLoop counts as unread hold the inserted events that no consumer has
\* seen, in the order of insertion.
UnreadIntact ==
  \A k \in consumedCount .. eventCount - 1 : buf[Slot(bufPos + k)] = log[head + k + 1]

\* Every event processACK acknowledges to a producer was in a batch whose consumer
\* called Done: acknowledging by producerID differences never covers an event that
\* was not delivered and finished.  (A producer that drops its events on Cancel is
\* told of the dropped ones as well.)
AckedDelivered ==
  \A p \in AckProducers \ DropOnCancel : \A k \in 1 .. lastACK[p] :
    \E j \in finished : log[j].producer = p /\ log[j].producerID = k

\* When ackLoop is idle, the counts it reported to a producer add up to exactly the
\* producer's events among the deleted ones, and those reported to ackCallback to
\* all deleted events: coalescing callbacks neither loses nor repeats an ACK, for
\* every producer that does not drop its events on Cancel.
AckExact ==
  ackPc \in {"wait", "exited"} =>
    /\ queueACKed = head
    /\ \A p \in AckProducers \ DropOnCancel :
         acked[p] = Cardinality({j \in 1 .. head : log[j].producer = p})

\* Mutant: an empty queue reports the zero ID.
OldestEntryIDZero == IF eventCount > 0 THEN buf[Slot(bufPos)].id ELSE 0

\* handleMetricsRequest
OldestEntryID == IF eventCount > 0 THEN buf[Slot(bufPos)].id ELSE nextEntryID

\* The oldest entry ID that Metrics reports never goes back, and never names an
\* entry that was deleted.
OldestMonotone == [][OldestEntryID' >= OldestEntryID]_vars

-----------------------------------------------------------------------------
(* Liveness.  Both loops are goroutines that run whenever they can; Go's select  *)
(* chooses among the ready cases at random, so no case that stays ready is       *)
(* passed over forever.  The pipeline's reader asks for events again and again,  *)
(* and every output finishes its batches.  Nothing obliges anyone to close.      *)

Fairness ==
  /\ WF_vars(HandleInsert) /\ WF_vars(HandleCancel) /\ WF_vars(GetTimeout)
  /\ WF_vars(ForwardConsumed) /\ WF_vars(HandleDelete) /\ WF_vars(RunLoopExit)
  /\ WF_vars(AckLoopStep)
  /\ WF_vars(\E n \in 0 .. Events : HandleGetRequest(n))
  /\ WF_vars(\E i \in 1 .. Len(batches) : Done(i))
  /\ \A p \in Producers : WF_vars(PublishReturn(p)) /\ WF_vars(PublishAbort(p))

FairSpec == Spec /\ Fairness

\* Every published event is eventually reported to its producer, unless the queue is
\* closed: no event is stuck in the ring buffer, in a batch that waits to be
\* forwarded, or behind a blocked get request.
EventuallyAcked ==
  \A p \in AckProducers : \A k \in 1 .. MaxPublish :
    (producedCount[p] >= k) ~> (acked[p] >= k \/ closed)

\* Every Publish returns, also when the queue is full or is closed under it.
PublishReturns == \A p \in Producers : (pubPc[p] = "wait") ~> (pubPc[p] = "idle")

-----------------------------------------------------------------------------
(* The inductive invariant behind TypeOK, BatchIntact and UnreadIntact.  It     *)
(* speaks of absolute places in log: place a lives in slot a % Events.          *)

RingOK ==
  /\ bufPos = Slot(head)
  /\ Len(log) = head + eventCount

\* Outstanding batches lie between the collected events and the unread ones, ...
BatchRange ==
  \A i \in 1 .. Len(batches) :
    /\ Slot(batches[i].start) = Slot(batches[i].pos)
    /\ head + ackCount <= batches[i].pos
    /\ batches[i].pos + batches[i].count <= head + consumedCount

\* ... one after the other.
BatchOrder ==
  \A i, j \in 1 .. Len(batches) :
    i < j => batches[i].pos + batches[i].count <= batches[j].pos

\* processACK only visits slots of events that were handed out.
AckRange ==
  /\ ackCount <= consumedCount
  /\ \A i \in 1 .. Len(ackSlots) :
       \E a \in head .. head + consumedCount - 1 : ackSlots[i] = Slot(a)
  /\ ackPc = "delete" => ackSlots = <<>>
  /\ ackPc = "callbacks" => callbacks # <<>>

UnreadAt ==
  \A a \in head + consumedCount .. head + eventCount - 1 : buf[Slot(a)] = log[a + 1]

BatchAt ==
  \A i \in 1 .. Len(batches) : ~batches[i].freed =>
    \A a \in batches[i].pos .. batches[i].pos + batches[i].count - 1 :
      buf[Slot(a)].event = log[a + 1].event

IInv ==
  /\ TypeOK /\ RingOK /\ BatchRange /\ BatchOrder /\ AckRange /\ UnreadAt /\ BatchAt
===============================================================================
