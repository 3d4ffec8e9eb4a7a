-------------------------- MODULE MemQueueAckProofs --------------------------
(***************************************************************************)
(* Proofs about the memory queue's acknowledgements: what ackLoop reports  *)
(* to a producer is exactly what was delivered and deleted of its events.  *)
(*                                                                         *)
(* processACK only knows producer IDs: it walks the collected entries from *)
(* last to first and reports, for the first entry it meets of a producer,  *)
(* the difference to the producer's last acknowledged ID.  The invariant   *)
(* says why that is a count: the inserted events of a producer are         *)
(* numbered without gaps, the batches ackLoop collects follow each other   *)
(* in the ring buffer without gaps, and their slots are still the ones of  *)
(* the events that were inserted there.                                    *)
(***************************************************************************)
EXTENDS MemQueueProofs, FiniteSetTheorems

\* How many of the first n inserted events are p's.
Count(l, p, n) == Cardinality({j \in 1 .. n : l[j].producer = p})

\* The events of a producer are numbered 1, 2, 3, ... in the order of insertion.
LogNumbered ==
  /\ nextEntryID = Len(log)
  /\ \A j \in 1 .. Len(log) :
       log[j].producer # Nil => log[j].producerID = Count(log, log[j].producer, j)
  /\ \A p \in AckProducers : \A k \in 1 .. Count(log, p, Len(log)) :
       \E j \in 1 .. Len(log) : log[j].producer = p /\ log[j].producerID = k

NoRequest(p) == \A i \in 1 .. Len(pushChan) : pushChan[i].producer # p

\* A producer has at most one request in pushChan, and it carries the number after the
\* producer's inserted events; producedCount lags by one while the reply is not read.
\* A producer that gave up when the queue closed may have left either behind, but it
\* never sends again.
RequestsNumbered ==
  /\ \A i \in 1 .. Len(pushChan) :
       /\ pushChan[i].producer
            = IF pushChan[i].from \in AckProducers THEN pushChan[i].from ELSE Nil
       /\ pushChan[i].producer # Nil =>
            pushChan[i].producerID = Count(log, pushChan[i].producer, Len(log)) + 1
  /\ \A i, j \in 1 .. Len(pushChan) :
       pushChan[i].producer # Nil /\ pushChan[i].producer = pushChan[j].producer => i = j
  /\ \A p \in AckProducers :
       /\ pubPc[p] = "idle" /\ ~eventsNil[p] =>
            NoRequest(p) /\ producedCount[p] = Count(log, p, Len(log))
       /\ pubPc[p] = "wait" => producedCount[p] = Count(log, p, Len(log))
       /\ pubPc[p] = "replied" =>
            NoRequest(p) /\ producedCount[p] + 1 = Count(log, p, Len(log))

\* Where the i-th outstanding batch starts, or the unread events after the last one.
Start(i) == IF i <= Len(batches) THEN batches[i].pos ELSE head + consumedCount

\* The outstanding batches leave no gap between the collected events and the unread ones.
BatchChain ==
  /\ Start(1) = head + ackCount
  /\ \A i \in 1 .. Len(batches) : Start(i + 1) = batches[i].pos + batches[i].count

\* processACK has the slots of the oldest events to visit, in order.
SlotsAt ==
  /\ Len(ackSlots) <= ackCount
  /\ \A i \in 1 .. Len(ackSlots) : ackSlots[i] = Slot(head + i - 1)
  /\ ackPc \in {"wait", "collect"} => Len(ackSlots) = ackCount
  /\ ackPc \in {"wait", "callbacks", "exited"} => ackCount = 0

\* The places of the collected events that processACK has already visited.
Visited == head + Len(ackSlots) .. head + ackCount - 1

\* An event in the queue keeps its number, and its producer until processACK visits it.
EntriesAt ==
  \A a \in head .. head + eventCount - 1 :
    /\ buf[Slot(a)].id = a
    /\ buf[Slot(a)].producerID = log[a + 1].producerID
    /\ a \notin Visited => buf[Slot(a)].producer = log[a + 1].producer

\* lastACK covers the deleted events and, as soon as processACK met one of the
\* producer's events, all of its collected ones.
LastACKs ==
  \A p \in AckProducers :
    lastACK[p] = IF \E a \in Visited : log[a + 1].producer = p
                 THEN Count(log, p, head + ackCount) ELSE Count(log, p, head)

\* A producer has at most one callback to run, for what lastACK is ahead of acked.
CallbacksOwed ==
  /\ ackPc \in {"wait", "collect", "exited"} => callbacks = <<>>
  /\ \A i, j \in 1 .. Len(callbacks) : callbacks[i].producer = callbacks[j].producer => i = j
  /\ \A i \in 1 .. Len(callbacks) :
       acked[callbacks[i].producer] + callbacks[i].count = lastACK[callbacks[i].producer]
  /\ \A p \in AckProducers :
       (\A i \in 1 .. Len(callbacks) : callbacks[i].producer # p) => acked[p] = lastACK[p]
  /\ ackPc = "scan" => \A i \in 1 .. Len(callbacks) :
       lastACK[callbacks[i].producer] = Count(log, callbacks[i].producer, head + ackCount)

\* What ackLoop has collected, and every batch marked so, was finished by its consumer.
FinishedAt ==
  /\ 1 .. head + ackCount \subseteq finished
  /\ \A i \in 1 .. Len(batches) :
       batches[i].done => batches[i].pos + 1 .. batches[i].pos + batches[i].count \subseteq finished

QueueCount ==
  queueACKed = IF ackPc \in {"scan", "delete"} THEN head + ackCount ELSE head

AInv ==
  /\ IInv /\ LogNumbered /\ RequestsNumbered /\ BatchChain /\ SlotsAt /\ EntriesAt
  /\ LastACKs /\ CallbacksOwed /\ FinishedAt /\ QueueCount

-----------------------------------------------------------------------------
(* Counting a producer's events. *)

\* A prefix holds finitely many events of a producer.
LEMMA CountType ==
  ASSUME NEW l, NEW p, NEW n \in Nat
  PROVE  /\ IsFiniteSet({j \in 1 .. n : l[j].producer = p})
         /\ Count(l, p, n) \in Nat
<1>1. IsFiniteSet(1 .. n) BY FS_Interval
<1>2. {j \in 1 .. n : l[j].producer = p} \subseteq 1 .. n OBVIOUS
<1>3. IsFiniteSet({j \in 1 .. n : l[j].producer = p}) BY <1>1, <1>2, FS_Subset
<1> QED BY <1>3, FS_CardinalityType DEF Count

\* Only the producers of the counted events matter.
LEMMA CountSame ==
  ASSUME NEW l, NEW m, NEW p, NEW n \in Nat,
         \A j \in 1 .. n : l[j].producer = m[j].producer
  PROVE  Count(l, p, n) = Count(m, p, n)
<1>1. {j \in 1 .. n : l[j].producer = p} = {j \in 1 .. n : m[j].producer = p} OBVIOUS
<1> QED BY Zenon, <1>1 DEF Count

\* The next event is one more of its producer, and none of any other.
LEMMA CountNext ==
  ASSUME NEW l, NEW p, NEW n \in Nat
  PROVE  Count(l, p, n + 1) = IF l[n + 1].producer = p THEN Count(l, p, n) + 1 ELSE Count(l, p, n)
<1> DEFINE S == {j \in 1 .. n : l[j].producer = p}
           T == {j \in 1 .. n + 1 : l[j].producer = p}
<1>1. IsFiniteSet(S) BY Zenon, CountType
<1>2. CASE l[n + 1].producer = p
  <2>1. T = S \cup {n + 1} BY <1>2
  <2>2. n + 1 \notin S OBVIOUS
  <2>3. Cardinality(S \cup {n + 1}) = Cardinality(S) + 1 BY Zenon, <1>1, <2>2, FS_AddElement
  <2> QED BY Zenon, <1>2, <2>1, <2>3 DEF Count
<1>3. CASE l[n + 1].producer # p
  <2>1. T = S BY <1>3
  <2> QED BY Zenon, <1>3, <2>1 DEF Count
<1> QED BY <1>2, <1>3

\* A longer prefix holds no fewer.
LEMMA CountMono ==
  ASSUME NEW l, NEW p, NEW m \in Nat, NEW n \in Nat, m <= n
  PROVE  Count(l, p, m) <= Count(l, p, n)
<1>1. {j \in 1 .. m : l[j].producer = p} \subseteq {j \in 1 .. n : l[j].producer = p} OBVIOUS
<1>2. IsFiniteSet({j \in 1 .. n : l[j].producer = p}) BY Zenon, CountType
<1> QED BY <1>1, <1>2, FS_Subset DEF Count

\* It holds as many when none of the events in between is the producer's, ...
LEMMA CountGap ==
  ASSUME NEW l, NEW p, NEW m \in Nat, NEW n \in Nat, m <= n,
         \A j \in m + 1 .. n : l[j].producer # p
  PROVE  Count(l, p, m) = Count(l, p, n)
<1>1. {j \in 1 .. m : l[j].producer = p} = {j \in 1 .. n : l[j].producer = p} OBVIOUS
<1> QED BY <1>1 DEF Count

\* ... and more when it ends with one.
LEMMA CountMore ==
  ASSUME NEW l, NEW p, NEW m \in Nat, NEW n \in Nat, m < n, l[n].producer = p
  PROVE  Count(l, p, m) < Count(l, p, n)
<1>1. n - 1 \in Nat /\ m <= n - 1 /\ (n - 1) + 1 = n OBVIOUS
<1>2. Count(l, p, m) <= Count(l, p, n - 1) BY <1>1, CountMono, Zenon
<1>3. Count(l, p, n) = Count(l, p, n - 1) + 1 
  <2>1. l[(n - 1) + 1].producer = p BY <1>1
  <2>2. Count(l, p, (n - 1) + 1) = Count(l, p, n - 1) + 1 BY <1>1, <2>1, CountNext
  <2> QED BY <1>1, <2>2, Zenon
<1>4. Count(l, p, m) \in Nat /\ Count(l, p, n - 1) \in Nat BY <1>1, CountType, Zenon
<1> QED BY <1>2, <1>3, <1>4

\* An empty prefix holds none.
LEMMA CountZero ==
  ASSUME NEW l, NEW p
  PROVE  Count(l, p, 0) = 0
<1>1. {j \in 1 .. 0 : l[j].producer = p} = {} OBVIOUS
<1> QED BY <1>1, FS_EmptySet DEF Count

\* Replacing an element of a sequence leaves the others.
LEMMA SeqExcept ==
  ASSUME NEW S, NEW s \in Seq(S), NEW i \in 1 .. Len(s), NEW x, NEW t, t = [s EXCEPT ![i] = x]
  PROVE  Len(t) = Len(s) /\ \A k \in 1 .. Len(s) : t[k] = IF k = i THEN x ELSE s[k]
OBVIOUS

\* The elements of a concatenation.
LEMMA ConcatAt ==
  ASSUME NEW S, NEW s \in Seq(S), NEW t \in Seq(S)
  PROVE  /\ \A k \in 1 .. Len(s) : (s \o t)[k] = s[k]
         /\ \A k \in 1 .. Len(t) : (s \o t)[Len(s) + k] = t[k]
OBVIOUS

-----------------------------------------------------------------------------
(* What the inductive invariant of the ring buffer says about the counters. *)

\* The counters are natural numbers, within the buffer, and agree with the log.
LEMMA QueueNumbers ==
  ASSUME IInv
  PROVE  /\ head \in Nat /\ ackCount \in Nat /\ consumedCount \in Nat /\ eventCount \in Nat
         /\ Events \in Nat \ {0} /\ eventCount <= Events /\ consumedCount <= eventCount
         /\ ackCount <= consumedCount /\ ackCount <= eventCount
         /\ log \in Seq(Entry) /\ Len(log) \in Nat /\ Len(log) = head + eventCount
         /\ batches \in Seq(Batch) /\ Len(batches) \in Nat
         /\ ackSlots \in Seq(Slots) /\ Len(ackSlots) \in Nat
         /\ pendingGet \in Nat /\ bufPos \in Nat
<1>1. /\ head \in Nat /\ ackCount \in Nat /\ eventCount \in 0 .. Events
      /\ consumedCount \in 0 .. eventCount /\ ackCount <= consumedCount
      /\ Len(log) = head + eventCount /\ bufPos \in Slots /\ pendingGet \in 0 .. MaxGet
  BY Zenon DEF IInv, TypeOK, RingOK, AckRange
<1>2. Events \in Nat \ {0} BY ConstantsAssumption
<1>3. /\ consumedCount \in Nat /\ eventCount \in Nat /\ eventCount <= Events
      /\ consumedCount <= eventCount /\ ackCount <= eventCount /\ Len(log) \in Nat
  BY <1>1, <1>2
<1>4. log \in Seq(Entry) /\ batches \in Seq(Batch) /\ ackSlots \in Seq(Slots)
  BY Zenon DEF IInv, TypeOK
<1>5. Len(batches) \in Nat /\ Len(ackSlots) \in Nat BY <1>4
<1>6. pendingGet \in Nat /\ bufPos \in Nat BY <1>1, <1>2, MaxGetNat DEF Slots
<1> QED BY <1>1, <1>2, <1>3, <1>4, <1>5, <1>6, Zenon

\* Only an insert touches the numbering of the log.
LEMMA LogStutter ==
  ASSUME LogNumbered, nextEntryID' = nextEntryID, log' = log
  PROVE  LogNumbered'
BY DEF LogNumbered

-----------------------------------------------------------------------------
(* Producers. *)

\* What a producer's call leaves alone.
reqRest == <<buf, bufPos, eventCount, consumedCount, nextEntryID, batches, ackVars, head,
             finished, log>>

\* Only RequestsNumbered speaks of the producers' own state.
LEMMA RestStutter ==
  ASSUME AInv, IInv', RequestsNumbered', UNCHANGED reqRest
  PROVE  AInv'
<1> USE DEF reqRest, ackVars
<1>1. LogNumbered' BY LogStutter, Zenon DEF AInv
<1>2. BatchChain' BY Zenon DEF AInv, BatchChain, Start
<1>3. SlotsAt' BY Zenon DEF AInv, SlotsAt, Slot
<1>4. EntriesAt' BY Zenon DEF AInv, EntriesAt, Visited, Slot
<1>5. LastACKs' BY Zenon DEF AInv, LastACKs, Visited
<1>6. CallbacksOwed' BY Zenon DEF AInv, CallbacksOwed
<1>7. FinishedAt' BY Zenon DEF AInv, FinishedAt
<1>8. QueueCount' BY Zenon DEF AInv, QueueCount
<1> QED BY <1>1, <1>2, <1>3, <1>4, <1>5, <1>6, <1>7, <1>8, Zenon DEF AInv

\* A call that leaves pushChan and producedCount alone, moves no call forward and opens
\* no producer keeps the numbering.
LEMMA IdleKeepsNumbering ==
  ASSUME RequestsNumbered, UNCHANGED <<pushChan, producedCount, log>>,
         \A p \in AckProducers : pubPc'[p] = pubPc[p] \/ (pubPc'[p] = "idle" /\ eventsNil'[p]),
         \A p \in AckProducers : eventsNil[p] => eventsNil'[p]
  PROVE  RequestsNumbered'
<1>1. ASSUME NEW p \in AckProducers
      PROVE  /\ pubPc'[p] = "idle" /\ ~eventsNil'[p] =>
                  NoRequest(p) /\ producedCount[p] = Count(log, p, Len(log))
             /\ pubPc'[p] = "wait" => producedCount[p] = Count(log, p, Len(log))
             /\ pubPc'[p] = "replied" =>
                  NoRequest(p) /\ producedCount[p] + 1 = Count(log, p, Len(log))
  BY <1>1 DEF RequestsNumbered
<1> QED BY Zenon, <1>1 DEF RequestsNumbered, NoRequest

\* A new request carries the number after the producer's inserted events.
LEMMA SendKeepsNumbering ==
  ASSUME TypeOK, RequestsNumbered, NEW p \in Producers, PublishSend(p)
  PROVE  RequestsNumbered'
<1> DEFINE N == Len(pushChan)
           r == PushRequest(p)
<1>1. /\ pushChan \in Seq(Request) /\ pushChan' = Append(pushChan, r)
      /\ pubPc \in [Producers -> {"idle", "wait", "replied"}] /\ producedCount \in [Producers -> Nat]
      /\ attempts \in [Producers -> 0 .. MaxPublish]
      /\ AckProducers \subseteq Producers /\ Nil \notin Producers
      /\ pubPc[p] = "idle" /\ ~eventsNil[p] /\ pubPc' = [pubPc EXCEPT ![p] = "wait"]
      /\ UNCHANGED <<producedCount, eventsNil, log>>
  BY ConstantsAssumption, Zenon DEF TypeOK, PublishSend, Calls, histVars
<1>2. /\ r.from = p /\ r.producer = (IF p \in AckProducers THEN p ELSE Nil)
      /\ p \in AckProducers => r.producerID = producedCount[p] + 1
  BY DEF PushRequest
<1>3. r \in Request
  <2>1. attempts[p] + 1 \in Nat /\ producedCount[p] + 1 \in Nat BY <1>1, ConstantsAssumption
  <2> QED BY <2>1 DEF PushRequest, Request, Event
<1> HIDE DEF r
<1>4. /\ N \in Nat /\ Len(pushChan') = N + 1 /\ pushChan'[N + 1] = r
      /\ \A i \in 1 .. N : pushChan'[i] = pushChan[i]
  BY <1>1, <1>3
<1>5. p \in AckProducers => NoRequest(p) /\ producedCount[p] = Count(log, p, Len(log))
  BY <1>1 DEF RequestsNumbered
<1>6. ASSUME NEW i \in 1 .. N + 1
      PROVE  /\ pushChan'[i].producer
                  = IF pushChan'[i].from \in AckProducers THEN pushChan'[i].from ELSE Nil
             /\ pushChan'[i].producer # Nil =>
                  pushChan'[i].producerID = Count(log, pushChan'[i].producer, Len(log)) + 1
  <2>1. CASE i = N + 1
    <3>1. CASE p \in AckProducers BY <1>2, <1>4, <1>5, <2>1, <3>1, Zenon
    <3>2. CASE p \notin AckProducers BY <1>2, <1>4, <2>1, <3>2, Zenon
    <3> QED BY <3>1, <3>2
  <2>2. CASE i # N + 1
    <3>1. i \in 1 .. N BY <1>4, <2>2
    <3> QED BY <1>4, <3>1, Zenon DEF RequestsNumbered
  <2> QED BY <2>1, <2>2
<1>7. ASSUME NEW i \in 1 .. N + 1, NEW j \in 1 .. N + 1, pushChan'[i].producer # Nil,
             pushChan'[i].producer = pushChan'[j].producer
      PROVE  i = j
  <2>1. ASSUME NEW k \in 1 .. N, pushChan'[k].producer = r.producer, r.producer # Nil PROVE FALSE
    <3>1. p \in AckProducers /\ r.producer = p BY <1>2, <2>1
    <3>2. pushChan[k].producer = p BY <1>4, <2>1, <3>1, Zenon
    <3> QED BY <1>5, <3>1, <3>2, Zenon DEF NoRequest
  <2>2. CASE i = N + 1 /\ j # N + 1
    <3>1. j \in 1 .. N BY <1>4, <2>2
    <3> QED BY <1>4, <1>7, <2>1, <2>2, <3>1, Zenon
  <2>3. CASE i # N + 1 /\ j = N + 1
    <3>1. i \in 1 .. N BY <1>4, <2>3
    <3> QED BY <1>4, <1>7, <2>1, <2>3, <3>1, Zenon
  <2>4. CASE i # N + 1 /\ j # N + 1
    <3>1. i \in 1 .. N /\ j \in 1 .. N BY <1>4, <2>4
    <3>2. pushChan[i].producer # Nil /\ pushChan[i].producer = pushChan[j].producer
      BY <1>4, <1>7, <3>1, Zenon
    <3> QED BY <3>1, <3>2, Zenon DEF RequestsNumbered
  <2> QED BY <2>2, <2>3, <2>4
<1>8. ASSUME NEW q \in AckProducers
      PROVE  /\ pubPc'[q] = "idle" /\ ~eventsNil[q] =>
                  /\ \A i \in 1 .. N + 1 : pushChan'[i].producer # q
                  /\ producedCount[q] = Count(log, q, Len(log))
             /\ pubPc'[q] = "wait" => producedCount[q] = Count(log, q, Len(log))
             /\ pubPc'[q] = "replied" =>
                  /\ \A i \in 1 .. N + 1 : pushChan'[i].producer # q
                  /\ producedCount[q] + 1 = Count(log, q, Len(log))
  <2>1. CASE q = p
    <3>1. pubPc'[q] = "wait" BY <1>1, <2>1
    <3> QED BY <1>5, <2>1, <3>1, Zenon
  <2>2. CASE q # p
    <3>1. pubPc'[q] = pubPc[q] BY <1>1, <2>2
    <3>2. NoRequest(q) => \A i \in 1 .. N + 1 : pushChan'[i].producer # q
      <4>1. ASSUME NoRequest(q), NEW i \in 1 .. N + 1 PROVE pushChan'[i].producer # q
        <5>1. CASE i = N + 1
          <6>1. q # Nil BY <1>1
          <6> QED BY <1>2, <1>4, <2>2, <5>1, <6>1, Zenon
        <5>2. CASE i # N + 1
          <6>1. i \in 1 .. N BY <1>4, <5>2
          <6> QED BY <1>4, <4>1, <6>1, Zenon DEF NoRequest
        <5> QED BY <5>1, <5>2
      <4> QED BY <4>1, Zenon
    <3> QED BY <3>1, <3>2, Zenon DEF RequestsNumbered
  <2> QED BY <2>1, <2>2
<1> HIDE DEF N
<1> QED BY Zenon, <1>1, <1>4, <1>6, <1>7, <1>8 DEF RequestsNumbered, NoRequest

\* The reply is read: producedCount catches up with the inserted events.
LEMMA ReturnKeepsNumbering ==
  ASSUME TypeOK, RequestsNumbered, NEW p \in Producers, PublishReturn(p)
  PROVE  RequestsNumbered'
<1>1. /\ pubPc \in [Producers -> {"idle", "wait", "replied"}] /\ producedCount \in [Producers -> Nat]
      /\ pubPc[p] = "replied" /\ pubPc' = [pubPc EXCEPT ![p] = "idle"]
      /\ producedCount' = (IF p \in AckProducers
                           THEN [producedCount EXCEPT ![p] = @ + 1] ELSE producedCount)
      /\ AckProducers \subseteq Producers
      /\ UNCHANGED <<pushChan, eventsNil, log>>
  BY ConstantsAssumption, Zenon DEF TypeOK, PublishReturn, histVars
<1>2. ASSUME NEW q \in AckProducers
      PROVE  /\ pubPc'[q] = "idle" /\ ~eventsNil[q] =>
                  NoRequest(q) /\ producedCount'[q] = Count(log, q, Len(log))
             /\ pubPc'[q] = "wait" => producedCount'[q] = Count(log, q, Len(log))
             /\ pubPc'[q] = "replied" =>
                  NoRequest(q) /\ producedCount'[q] + 1 = Count(log, q, Len(log))
  <2>1. CASE q = p
    <3>1. pubPc'[q] = "idle" /\ producedCount'[q] = producedCount[q] + 1 BY <1>1, <2>1
    <3>2. NoRequest(q) /\ producedCount[q] + 1 = Count(log, q, Len(log))
      BY <1>1, <2>1, Zenon DEF RequestsNumbered
    <3> QED BY <3>1, <3>2
  <2>2. CASE q # p
    <3>1. pubPc'[q] = pubPc[q] /\ producedCount'[q] = producedCount[q] BY <1>1, <2>2
    <3> QED BY <3>1, Zenon DEF RequestsNumbered
  <2> QED BY <2>1, <2>2
<1> QED BY Zenon, <1>1, <1>2 DEF RequestsNumbered, NoRequest

\* No call of a producer disturbs the invariant.
LEMMA ProducerAInv ==
  ASSUME AInv, IInv', NEW p \in Producers, ProducerStep(p)
  PROVE  AInv'
<1>1. TypeOK /\ RequestsNumbered BY DEF AInv, IInv
<1>2. UNCHANGED reqRest
  BY Zenon DEF ProducerStep, PublishSend, PublishClosed, TryPublishFull, PublishReturn,
     PublishAbort, Cancel, CancelSend, reqRest, runVars, histVars
<1>3. RequestsNumbered'
  <2>1. CASE PublishSend(p) BY <1>1, <2>1, SendKeepsNumbering
  <2>2. CASE PublishReturn(p) BY <1>1, <2>2, ReturnKeepsNumbering
  <2>3. CASE PublishClosed(p)
    <3>1. /\ UNCHANGED <<pushChan, producedCount, log, pubPc>>
          /\ eventsNil' = [eventsNil EXCEPT ![p] = TRUE] /\ eventsNil \in [Producers -> BOOLEAN]
          /\ AckProducers \subseteq Producers
      BY <1>1, <2>3, ConstantsAssumption, Zenon DEF PublishClosed, TypeOK, histVars
    <3>2. \A q \in AckProducers : eventsNil[q] => eventsNil'[q] BY <3>1
    <3>3. \A q \in AckProducers : pubPc'[q] = pubPc[q] BY <3>1
    <3> QED BY <1>1, <3>1, <3>2, <3>3, IdleKeepsNumbering, Zenon
  <2>4. CASE PublishAbort(p)
    <3>1. /\ UNCHANGED <<pushChan, producedCount, log>>
          /\ eventsNil' = [eventsNil EXCEPT ![p] = TRUE] /\ eventsNil \in [Producers -> BOOLEAN]
          /\ pubPc' = [pubPc EXCEPT ![p] = "idle"]
          /\ pubPc \in [Producers -> {"idle", "wait", "replied"}]
          /\ AckProducers \subseteq Producers
      BY <1>1, <2>4, ConstantsAssumption, Zenon DEF PublishAbort, TypeOK, histVars
    <3>2. \A q \in AckProducers : eventsNil[q] => eventsNil'[q] BY <3>1
    <3>3. ASSUME NEW q \in AckProducers
          PROVE  pubPc'[q] = pubPc[q] \/ (pubPc'[q] = "idle" /\ eventsNil'[q])
      <4>1. CASE q = p BY <3>1, <4>1
      <4>2. CASE q # p BY <3>1, <4>2
      <4> QED BY <4>1, <4>2
    <3> QED BY <1>1, <3>1, <3>2, <3>3, IdleKeepsNumbering, Zenon
  <2>5. CASE TryPublishFull(p) \/ Cancel(p) \/ CancelSend(p)
    <3>1. UNCHANGED <<pushChan, producedCount, log, pubPc, eventsNil>>
      BY <2>5, Zenon DEF TryPublishFull, Cancel, CancelSend, histVars
    <3> QED BY <1>1, <3>1, IdleKeepsNumbering, Zenon
  <2> QED BY <2>1, <2>2, <2>3, <2>4, <2>5 DEF ProducerStep
<1> QED BY <1>2, <1>3, RestStutter

-----------------------------------------------------------------------------
(* runLoop: get requests and inserts. *)

\* A batch that is handed out continues the chain of outstanding batches, undone.
LEMMA ReplyChain ==
  ASSUME IInv, BatchChain, FinishedAt, NEW n \in Nat, NEW ec \in Nat, consumedCount <= ec,
         GetReply(n, ec), UNCHANGED <<head, ackCount, finished>>
  PROVE  BatchChain' /\ FinishedAt'
<1> DEFINE L == Len(batches)
           size == Lesser(n, ec - consumedCount)
           b == [start |-> bufPos + consumedCount, count |-> size,
                 pos |-> head + consumedCount, done |-> FALSE, freed |-> FALSE]
<1>1. /\ batches' = Append(batches, b) /\ consumedCount' = consumedCount + size
      /\ batches \in Seq(Batch)
  BY Zenon DEF GetReply, IInv, TypeOK
<1>2. head \in Nat /\ consumedCount \in Nat /\ ackCount \in Nat /\ bufPos \in Nat /\ L \in Nat
  BY <1>1, ConstantsAssumption DEF IInv, TypeOK, Slots
<1>3. size \in Nat BY <1>2 DEF Lesser
<1>4. b.pos = head + consumedCount /\ b.count = size /\ b.done = FALSE BY DEF b
<1> HIDE DEF size
<1>5. b \in Batch BY <1>2, <1>3 DEF b, Batch
<1> HIDE DEF b
<1>6. /\ Len(batches') = L + 1 /\ batches'[L + 1] = b
      /\ \A i \in 1 .. L : batches'[i] = batches[i]
  BY <1>1, <1>5
<1> DEFINE StartP(i) == IF i <= L + 1 THEN batches'[i].pos ELSE head + (consumedCount + size)
<1>7. BatchChain' = (/\ StartP(1) = head + ackCount
                     /\ \A i \in 1 .. L + 1 :
                          StartP(i + 1) = batches'[i].pos + batches'[i].count)
  BY <1>1, <1>6, Zenon DEF BatchChain, Start
<1>8. ASSUME NEW i \in 1 .. L + 1 PROVE StartP(i) = Start(i)
  <2>1. CASE i = L + 1
    <3>1. i <= L + 1 /\ ~(i <= L) BY <1>2, <2>1
    <3> QED BY <1>4, <1>6, <2>1, <3>1 DEF Start
  <2>2. CASE i # L + 1
    <3>1. i \in 1 .. L /\ i <= L + 1 /\ i <= L BY <1>2, <2>2
    <3> QED BY <1>6, <3>1, Zenon DEF Start
  <2> QED BY <2>1, <2>2
<1>9. StartP(1) = head + ackCount
  <2>1. 1 \in 1 .. L + 1 BY <1>2
  <2> QED BY <1>8, <2>1, Zenon DEF BatchChain
<1>10. ASSUME NEW i \in 1 .. L + 1
       PROVE  StartP(i + 1) = batches'[i].pos + batches'[i].count
  <2>1. CASE i = L + 1
    <3>1. ~(i + 1 <= L + 1) BY <1>2, <2>1
    <3> QED BY <1>2, <1>3, <1>4, <1>6, <2>1, <3>1
  <2>2. CASE i # L + 1
    <3>1. i \in 1 .. L /\ i + 1 \in 1 .. L + 1 BY <1>2, <2>2
    <3>2. Start(i + 1) = batches[i].pos + batches[i].count BY <3>1 DEF BatchChain
    <3> QED BY <1>6, <1>8, <3>1, <3>2, Zenon
  <2> QED BY <2>1, <2>2
<1>11. BatchChain' BY <1>7, <1>9, <1>10, Zenon
<1>12. ASSUME NEW i \in 1 .. L + 1, batches'[i].done
       PROVE  batches'[i].pos + 1 .. batches'[i].pos + batches'[i].count \subseteq finished
  <2>1. i # L + 1 BY <1>4, <1>6, <1>12
  <2>2. i \in 1 .. L BY <1>2, <2>1
  <2> QED BY <1>6, <1>12, <2>2, Zenon DEF FinishedAt
<1>13. FinishedAt' BY <1>6, <1>12, Zenon DEF FinishedAt
<1> QED BY <1>11, <1>13

\* Answering a get request only appends a batch.
LEMMA GetAInv ==
  ASSUME AInv, IInv', GetTimeout \/ \E n \in 0 .. Events : HandleGetRequest(n)
  PROVE  AInv'
<1>1. /\ UNCHANGED <<buf, eventCount, nextEntryID, pushChan, ackVars, pubVars, histVars>>
      /\ \/ UNCHANGED <<batches, consumedCount>>
         \/ \E n \in Nat : GetReply(n, eventCount)
  <2>1. CASE GetTimeout
    <3>1. pendingGet \in Nat BY QueueNumbers, Zenon DEF AInv
    <3> QED BY <2>1, <3>1, Zenon DEF GetTimeout
  <2>2. ASSUME NEW n \in 0 .. Events, HandleGetRequest(n)
        PROVE  /\ UNCHANGED <<buf, eventCount, nextEntryID, pushChan, ackVars, pubVars, histVars>>
               /\ \/ UNCHANGED <<batches, consumedCount>>
                  \/ \E m \in Nat : GetReply(m, eventCount)
    <3> DEFINE entryCount == IF n <= 0 \/ n > MaxGet THEN MaxGet ELSE n
    <3>1. entryCount \in Nat BY MaxGetNat, ConstantsAssumption
    <3>2. /\ UNCHANGED <<buf, eventCount, nextEntryID, pushChan, ackVars, pubVars, histVars>>
          /\ UNCHANGED <<batches, consumedCount>> \/ GetReply(entryCount, eventCount)
      BY <2>2, Zenon DEF HandleGetRequest
    <3> HIDE DEF entryCount
    <3> QED BY <3>1, <3>2, Zenon
  <2> QED BY <2>1, <2>2, Zenon
<1>2. BatchChain' /\ FinishedAt'
  <2>1. CASE UNCHANGED <<batches, consumedCount>>
    BY <1>1, <2>1, Zenon DEF AInv, BatchChain, FinishedAt, Start, ackVars, histVars
  <2>2. ASSUME NEW n \in Nat, GetReply(n, eventCount) PROVE BatchChain' /\ FinishedAt'
    <3>1. eventCount \in Nat /\ consumedCount <= eventCount
      BY QueueNumbers, Zenon DEF AInv
    <3>2. IInv /\ BatchChain /\ FinishedAt /\ UNCHANGED <<head, ackCount, finished>>
      BY <1>1, Zenon DEF AInv, ackVars, histVars
    <3> QED BY <2>2, <3>1, <3>2, ReplyChain, Zenon
  <2> QED BY <1>1, <2>1, <2>2, Zenon
<1> USE DEF ackVars, pubVars, histVars
<1>3. LogNumbered' BY <1>1, LogStutter, Zenon DEF AInv
<1>4. RequestsNumbered' BY <1>1, Zenon DEF AInv, RequestsNumbered, NoRequest
<1>5. SlotsAt' BY <1>1, Zenon DEF AInv, SlotsAt
<1>6. EntriesAt' BY <1>1, Zenon DEF AInv, EntriesAt, Visited
<1>7. LastACKs' BY <1>1, Zenon DEF AInv, LastACKs, Visited
<1>8. CallbacksOwed' BY <1>1, Zenon DEF AInv, CallbacksOwed
<1>9. QueueCount' BY <1>1, Zenon DEF AInv, QueueCount
<1> QED BY <1>2, <1>3, <1>4, <1>5, <1>6, <1>7, <1>8, <1>9, Zenon DEF AInv

\* handleInsert writes the request at the place after the youngest event, and nowhere else.
LEMMA InsertShape ==
  ASSUME IInv, HandleInsert,
         NEW new, new = head + eventCount,
         NEW req, req = Head(pushChan)
  PROVE  /\ new \in Nat /\ Len(log) = new /\ Len(log') = new + 1
         /\ \A k \in 1 .. new : log'[k] = log[k]
         /\ \A a \in head .. new - 1 : buf'[Slot(a)] = buf[Slot(a)]
         /\ buf'[Slot(new)] = log'[new + 1]
         /\ log'[new + 1] = [event |-> req.event, id |-> nextEntryID,
                             producer |-> req.producer, producerID |-> req.producerID]
<1> DEFINE e == [event |-> req.event, id |-> nextEntryID,
                 producer |-> req.producer, producerID |-> req.producerID]
<1>1. /\ buf \in [Slots -> Entry] /\ log \in Seq(Entry) /\ Len(log) = new
      /\ pushChan \in Seq(Request) /\ pushChan # <<>> /\ nextEntryID \in Nat
      /\ eventCount \in 0 .. Events /\ eventCount < Events /\ head \in Nat /\ bufPos \in Slots
  BY Zenon DEF IInv, TypeOK, RingOK, HandleInsert, CanInsert
<1>2. /\ Events \in Nat \ {0} /\ eventCount \in Nat /\ bufPos \in Nat /\ new \in Nat
  BY <1>1, ConstantsAssumption DEF Slots
<1>3. InsertSlot = Slot(new)
  <2>1. Slot(bufPos) = Slot(head) BY <1>1, <1>2, SlotSlot DEF IInv, RingOK
  <2>2. bufPos \in Int /\ head \in Int /\ eventCount \in Int BY <1>1, <1>2
  <2> QED BY <1>2, <2>1, <2>2, SlotAdd, Zenon DEF InsertSlot
<1>4. buf' = [buf EXCEPT ![Slot(new)] = e] /\ log' = Append(log, e)
  BY Zenon, <1>3 DEF HandleInsert
<1>5. req \in Request BY <1>1
<1>6. e \in Entry BY <1>1, <1>5 DEF Request, Entry
<1>7. Slot(new) \in Slots BY <1>2, SlotSlot, SMTT(30)
<1> HIDE DEF e
<1>8. /\ Len(log') = new + 1 /\ log'[new + 1] = e /\ \A k \in 1 .. new : log'[k] = log[k]
  BY <1>1, <1>4, <1>6
<1>9. buf'[Slot(new)] = e BY <1>1, <1>4, <1>7
<1>10. ASSUME NEW a \in head .. new - 1 PROVE buf'[Slot(a)] = buf[Slot(a)]
  <2>1. a \in Nat /\ a < new + Events /\ new < a + Events /\ a # new BY <1>1, <1>2
  <2>2. Slot(a) # Slot(new) BY <1>2, <2>1, SlotInj
  <2>3. Slot(a) \in Slots BY <1>2, <2>1, SlotSlot
  <2> QED BY <1>1, <1>4, <2>2, <2>3
<1> QED BY <1>1, <1>2, <1>8, <1>9, <1>10, Zenon DEF e

\* The inserted event is the next one of its producer: the number it carries is the
\* producer's count, and the producer's request has left pushChan.
LEMMA InsertNumbering ==
  ASSUME IInv, LogNumbered, RequestsNumbered, HandleInsert
  PROVE  /\ LogNumbered' /\ RequestsNumbered'
         /\ \A p : \A n \in 0 .. Len(log) : Count(log', p, n) = Count(log, p, n)
<1>1. PICK new : new = head + eventCount BY Zenon
<1>2. PICK req : req = Head(pushChan) BY Zenon
<1>3. /\ new \in Nat /\ Len(log) = new /\ Len(log') = new + 1
      /\ \A k \in 1 .. new : log'[k] = log[k]
      /\ log'[new + 1] = [event |-> req.event, id |-> nextEntryID,
                          producer |-> req.producer, producerID |-> req.producerID]
  BY <1>1, <1>2, InsertShape, Zenon
<1>4. log'[new + 1].producer = req.producer /\ log'[new + 1].producerID = req.producerID
  BY <1>3
<1>5. ASSUME NEW p, NEW n \in 0 .. new PROVE Count(log', p, n) = Count(log, p, n)
  <2>1. \A j \in 1 .. n : log'[j].producer = log[j].producer BY <1>3
  <2>2. n \in Nat BY <1>3
  <2> QED BY <2>1, <2>2, CountSame
<1>6. ASSUME NEW p
      PROVE  Count(log', p, new + 1) = IF req.producer = p THEN Count(log, p, new) + 1
                                       ELSE Count(log, p, new)
  <2>1. new \in 0 .. new BY <1>3
  <2>2. Count(log', p, new) = Count(log, p, new) BY <1>5, <2>1
  <2>3. Count(log', p, new + 1) = IF log'[new + 1].producer = p THEN Count(log', p, new) + 1
                                  ELSE Count(log', p, new)
    BY <1>3, CountNext
  <2> QED BY <1>4, <2>2, <2>3
<1>7. /\ pushChan \in Seq(Request) /\ pushChan # <<>> /\ pushChan' = Tail(pushChan)
      /\ pubPc \in [Producers -> {"idle", "wait", "replied"}]
      /\ pubPc' = [pubPc EXCEPT ![req.from] = IF @ = "wait" THEN "replied" ELSE @]
      /\ nextEntryID' = nextEntryID + 1 /\ UNCHANGED <<producedCount, eventsNil>>
      /\ AckProducers \subseteq Producers /\ Nil \notin Producers
  BY <1>2, ConstantsAssumption, Zenon DEF IInv, TypeOK, HandleInsert
<1> DEFINE N == Len(pushChan)
<1>8. /\ N \in Nat \ {0} /\ req = pushChan[1] /\ Len(pushChan') = N - 1
      /\ \A i \in 1 .. N - 1 : pushChan'[i] = pushChan[i + 1]
      /\ req \in Request
  BY <1>2, <1>7
<1> HIDE DEF N
<1>9. 1 \in 1 .. N /\ \A i \in 1 .. N - 1 : i + 1 \in 1 .. N /\ i + 1 # 1 BY <1>8
<1>10. /\ req.producer = (IF req.from \in AckProducers THEN req.from ELSE Nil)
       /\ req.producer # Nil => req.producerID = Count(log, req.producer, new) + 1
  BY <1>3, <1>8, <1>9, Zenon DEF RequestsNumbered, N
<1>11. \A i \in 1 .. N - 1 : req.producer # Nil => pushChan'[i].producer # req.producer
  BY <1>8, <1>9, Zenon DEF RequestsNumbered, N
<1>12. LogNumbered'
  <2>1. nextEntryID' = new + 1 BY <1>3, <1>7 DEF LogNumbered
  <2>2. ASSUME NEW j \in 1 .. new + 1, log'[j].producer # Nil
        PROVE  log'[j].producerID = Count(log', log'[j].producer, j)
    <3>1. CASE j = new + 1 BY <1>4, <1>6, <1>10, <2>2, <3>1, Zenon
    <3>2. CASE j # new + 1
      <4>1. j \in 1 .. new /\ j \in 0 .. new BY <1>3, <3>2
      <4>2. log'[j] = log[j] BY <1>3, <4>1, Zenon
      <4>3. log[j].producerID = Count(log, log[j].producer, j)
        BY <1>3, <2>2, <4>1, <4>2, Zenon DEF LogNumbered
      <4> QED BY <1>5, <4>1, <4>2, <4>3, Zenon
    <3> QED BY <3>1, <3>2
  <2>3. ASSUME NEW p \in AckProducers, NEW k \in 1 .. Count(log', p, new + 1)
        PROVE  \E j \in 1 .. new + 1 : log'[j].producer = p /\ log'[j].producerID = k
    <3>a. Count(log, p, new) \in Nat BY Zenon, <1>3, CountType
    <3>b. new + 1 \in 1 .. new + 1 BY <1>3
    <3>1. Count(log, p, new) \in Nat /\ new + 1 \in 1 .. new + 1 BY <3>a, <3>b
    <3>2. CASE k <= Count(log, p, new)
      <4>1. k \in 1 .. Count(log, p, new) BY <3>1, <3>2
      <4>2. PICK j \in 1 .. new : log[j].producer = p /\ log[j].producerID = k
        BY <1>3, <4>1, Zenon DEF LogNumbered
      <4>3. j \in 1 .. new + 1 BY <1>3
      <4> QED BY <1>3, <4>2, <4>3, Zenon
    <3>3. CASE ~(k <= Count(log, p, new))
      <4>1. req.producer = p /\ k = Count(log, p, new) + 1
        <5>1. req.producer = p => Count(log', p, new + 1) = Count(log, p, new) + 1
          BY <1>6
        <5>2. req.producer # p => Count(log', p, new + 1) = Count(log, p, new) BY <1>6
        <5> QED BY <3>1, <3>3, <5>1, <5>2
      <4>2. p # Nil BY <1>7
      <4> QED BY <1>4, <1>10, <3>1, <4>1, <4>2, Zenon
    <3> QED BY <3>2, <3>3
  <2> QED BY <1>3, <2>1, <2>2, <2>3 DEF LogNumbered
<1>13. RequestsNumbered'
  <2>1. ASSUME NEW i \in 1 .. N - 1
        PROVE  /\ pushChan'[i].producer
                    = IF pushChan'[i].from \in AckProducers THEN pushChan'[i].from ELSE Nil
               /\ pushChan'[i].producer # Nil =>
                    pushChan'[i].producerID = Count(log', pushChan'[i].producer, new + 1) + 1
    <3>1. pushChan'[i] = pushChan[i + 1] /\ i + 1 \in 1 .. N BY <1>8, <1>9, Zenon
    <3>2. /\ pushChan[i + 1].producer
               = IF pushChan[i + 1].from \in AckProducers THEN pushChan[i + 1].from ELSE Nil
          /\ pushChan[i + 1].producer # Nil =>
               pushChan[i + 1].producerID = Count(log, pushChan[i + 1].producer, new) + 1
      BY <1>3, <3>1, Zenon DEF RequestsNumbered, N
    <3>3. pushChan'[i].producer # Nil => req.producer # pushChan'[i].producer BY <1>11, Zenon
    <3> QED BY <1>6, <3>1, <3>2, <3>3, Zenon
  <2>2. ASSUME NEW i \in 1 .. N - 1, NEW j \in 1 .. N - 1, pushChan'[i].producer # Nil,
               pushChan'[i].producer = pushChan'[j].producer
        PROVE  i = j
    <3>a. /\ pushChan[i + 1].producer # Nil
          /\ pushChan[i + 1].producer = pushChan[j + 1].producer
      BY <1>8, <2>2, Zenon
    <3>b. i + 1 \in 1 .. N /\ j + 1 \in 1 .. N BY <1>9, Zenon
    <3>1. i + 1 = j + 1 BY <3>a, <3>b, Zenon DEF RequestsNumbered, N
    <3> QED BY <1>8, <3>1
  <2> DEFINE None(q) == \A i \in 1 .. N - 1 : pushChan'[i].producer # q
  <2>3. ASSUME NEW q \in AckProducers
        PROVE  /\ pubPc'[q] = "idle" /\ ~eventsNil[q] =>
                    None(q) /\ producedCount[q] = Count(log', q, new + 1)
               /\ pubPc'[q] = "wait" => producedCount[q] = Count(log', q, new + 1)
               /\ pubPc'[q] = "replied" =>
                    None(q) /\ producedCount[q] + 1 = Count(log', q, new + 1)
    <3>1. q # Nil /\ q \in Producers BY <1>7
    <3>2. CASE q = req.producer
      <4>1. req.from = q BY <1>10, <3>1, <3>2, Zenon
      <4>2. ~NoRequest(q) BY <1>8, <1>9, <3>2, Zenon DEF NoRequest, N
      <4>3. pubPc[q] # "replied" /\ ~(pubPc[q] = "idle" /\ ~eventsNil[q])
        BY <4>2, Zenon DEF RequestsNumbered
      <4>4. CASE pubPc[q] = "wait"
        <5>1. pubPc'[q] = "replied" BY <1>7, <3>1, <4>1, <4>4
        <5>2. producedCount[q] = Count(log, q, new) BY <1>3, <4>4, Zenon DEF RequestsNumbered
        <5>3. Count(log', q, new + 1) = Count(log, q, new) + 1 BY <1>6, <3>2, Zenon
        <5>4. None(q) BY <1>11, <3>1, <3>2, Zenon
        <5> HIDE DEF None
        <5> QED BY <5>1, <5>2, <5>3, <5>4
      <4>5. CASE pubPc[q] # "wait"
        <5>1. pubPc'[q] = pubPc[q] BY <1>7, <3>1, <4>1, <4>5
        <5>2. pubPc[q] = "idle" /\ eventsNil[q] BY <1>7, <3>1, <4>3, <4>5
        <5> QED BY <5>1, <5>2
      <4> QED BY <4>4, <4>5
    <3>3. CASE q # req.producer
      <4>1. req.from # q BY <1>10, <3>3, Zenon
      <4>2. pubPc'[q] = pubPc[q] BY <1>7, <3>1, <4>1
      <4>3. NoRequest(q) => None(q) BY <1>8, <1>9, Zenon DEF NoRequest, N
      <4>4. Count(log', q, new + 1) = Count(log, q, new) BY <1>6, <3>3, Zenon
      <4> HIDE DEF None
      <4> QED BY <1>3, <4>2, <4>3, <4>4, Zenon DEF RequestsNumbered
    <3> QED BY <3>2, <3>3
  <2>4. /\ N - 1 = Len(pushChan') /\ new + 1 = Len(log')
        /\ producedCount' = producedCount /\ eventsNil' = eventsNil
    BY <1>3, <1>7, <1>8
  <2>5. \A i \in 1 .. Len(pushChan') :
          /\ pushChan'[i].producer
               = IF pushChan'[i].from \in AckProducers THEN pushChan'[i].from ELSE Nil
          /\ pushChan'[i].producer # Nil =>
               pushChan'[i].producerID = Count(log', pushChan'[i].producer, Len(log')) + 1
    BY <2>1, <2>4, Zenon
  <2>6. \A i, j \in 1 .. Len(pushChan') :
          pushChan'[i].producer # Nil /\ pushChan'[i].producer = pushChan'[j].producer => i = j
    BY <2>2, <2>4, Zenon
  <2>7. \A q : None(q) <=> NoRequest(q)' BY <2>4, Zenon DEF NoRequest
  <2> HIDE DEF None
  <2>8. \A q \in AckProducers :
          /\ pubPc'[q] = "idle" /\ ~eventsNil'[q] =>
               NoRequest(q)' /\ producedCount'[q] = Count(log', q, Len(log'))
          /\ pubPc'[q] = "wait" => producedCount'[q] = Count(log', q, Len(log'))
          /\ pubPc'[q] = "replied" =>
               NoRequest(q)' /\ producedCount'[q] + 1 = Count(log', q, Len(log'))
    BY <2>3, <2>4, <2>7, Zenon
  <2> QED BY <2>5, <2>6, <2>8, Zenon DEF RequestsNumbered
<1> QED BY <1>3, <1>5, <1>12, <1>13, Zenon

\* An insert touches no collected event, and none it counts changes place.
LEMMA InsertAInv ==
  ASSUME AInv, IInv', HandleInsert
  PROVE  AInv'
<1>1. PICK new : new = head + eventCount BY Zenon
<1>2. PICK req : req = Head(pushChan) BY Zenon
<1>3. /\ new \in Nat /\ Len(log) = new /\ Len(log') = new + 1
      /\ \A k \in 1 .. new : log'[k] = log[k]
      /\ \A a \in head .. new - 1 : buf'[Slot(a)] = buf[Slot(a)]
      /\ buf'[Slot(new)] = log'[new + 1]
      /\ log'[new + 1] = [event |-> req.event, id |-> nextEntryID,
                          producer |-> req.producer, producerID |-> req.producerID]
  BY <1>1, <1>2, InsertShape, Zenon DEF AInv
<1>4. /\ LogNumbered' /\ RequestsNumbered'
      /\ \A p : \A n \in 0 .. new : Count(log', p, n) = Count(log, p, n)
  BY <1>3, InsertNumbering, Zenon DEF AInv
<1>5. /\ UNCHANGED <<head, finished, ackVars>> /\ eventCount' = eventCount + 1
      /\ \/ GetReply(pendingGet, eventCount + 1)
         \/ UNCHANGED <<batches, consumedCount>>
  BY Zenon DEF HandleInsert
<1>6. /\ head \in Nat /\ eventCount \in Nat /\ ackCount \in Nat /\ consumedCount \in Nat
      /\ consumedCount <= eventCount /\ ackCount <= consumedCount /\ Len(ackSlots) \in Nat
      /\ pendingGet \in Nat
  BY QueueNumbers, Zenon DEF AInv
<1>7. /\ head \in 0 .. new /\ head + ackCount \in 0 .. new
      /\ \A a \in Visited : a + 1 \in 1 .. new
  BY <1>1, <1>6 DEF Visited
<1>8. Visited' = Visited BY <1>5, Zenon DEF Visited, ackVars
<1>9. BatchChain' /\ FinishedAt'
  <2>1. CASE UNCHANGED <<batches, consumedCount>>
    BY <1>5, <2>1, Zenon DEF AInv, BatchChain, FinishedAt, Start, ackVars
  <2>2. CASE GetReply(pendingGet, eventCount + 1)
    <3>1. eventCount + 1 \in Nat /\ consumedCount <= eventCount + 1 BY <1>6
    <3>2. UNCHANGED <<head, ackCount, finished>> BY <1>5 DEF ackVars
    <3> QED BY <1>6, <2>2, <3>1, <3>2, ReplyChain, Zenon DEF AInv
  <2> QED BY <1>5, <2>1, <2>2
<1>10. SlotsAt' /\ QueueCount' BY <1>5, Zenon DEF AInv, SlotsAt, QueueCount, ackVars
<1>11. EntriesAt'
  <2>1. ASSUME NEW a \in head .. new
        PROVE  /\ buf'[Slot(a)].id = a
               /\ buf'[Slot(a)].producerID = log'[a + 1].producerID
               /\ a \notin Visited => buf'[Slot(a)].producer = log'[a + 1].producer
    <3>1. CASE a = new
      <4>1. nextEntryID = new BY <1>3 DEF AInv, LogNumbered
      <4>2. log'[new + 1].id = nextEntryID BY <1>3
      <4> QED BY <1>3, <3>1, <4>1, <4>2, Zenon
    <3>2. CASE a # new
      <4>1. a \in head .. new - 1 /\ a + 1 \in 1 .. new BY <1>3, <1>6, <3>2
      <4>2. a \in head .. head + eventCount - 1 BY <1>1, <1>6, <4>1
      <4> QED BY <1>3, <4>1, <4>2, Zenon DEF AInv, EntriesAt
    <3> QED BY <3>1, <3>2
  <2>2. head' = head /\ head + eventCount' - 1 = new BY <1>1, <1>5, <1>6
  <2> QED BY <1>8, <2>1, <2>2, Zenon DEF EntriesAt
<1>12. LastACKs'
  <2>1. ASSUME NEW p \in AckProducers
        PROVE  lastACK[p] = IF \E a \in Visited : log'[a + 1].producer = p
                            THEN Count(log', p, head + ackCount) ELSE Count(log', p, head)
    <3>1. \A a \in Visited : log'[a + 1] = log[a + 1] BY <1>3, <1>7, Zenon
    <3>2. /\ Count(log', p, head + ackCount) = Count(log, p, head + ackCount)
          /\ Count(log', p, head) = Count(log, p, head)
      BY <1>4, <1>7, Zenon
    <3> QED BY <3>1, <3>2 DEF AInv, LastACKs
  <2>2. UNCHANGED <<head, ackCount, lastACK>> BY <1>5 DEF ackVars
  <2> QED BY <1>8, <2>1, <2>2, Zenon DEF LastACKs
<1>13. CallbacksOwed'
  <2>1. ackPc = "scan" => \A i \in 1 .. Len(callbacks) :
          lastACK[callbacks[i].producer] = Count(log', callbacks[i].producer, head + ackCount)
    <3>1. ASSUME ackPc = "scan", NEW i \in 1 .. Len(callbacks)
          PROVE  lastACK[callbacks[i].producer]
                   = Count(log', callbacks[i].producer, head + ackCount)
      <4>1. lastACK[callbacks[i].producer] = Count(log, callbacks[i].producer, head + ackCount)
        BY <3>1, Zenon DEF AInv, CallbacksOwed
      <4> QED BY <1>4, <1>7, <4>1, Zenon
    <3> QED BY <3>1, Zenon
  <2>2. UNCHANGED <<head, ackPc, ackCount, callbacks, lastACK, acked>> BY <1>5 DEF ackVars
  <2> QED BY <2>1, <2>2, Zenon DEF AInv, CallbacksOwed
<1> QED BY <1>4, <1>9, <1>10, <1>11, <1>12, <1>13, Zenon DEF AInv

-----------------------------------------------------------------------------
(* runLoop: deleting the collected events. *)

\* The collected events leave the queue: what lastACK covers is what is deleted.
LEMMA DeleteAInv ==
  ASSUME AInv, IInv', HandleDelete
  PROVE  AInv'
<1>1. /\ ackPc = "delete" /\ head' = head + ackCount /\ ackCount' = 0
      /\ eventCount' = eventCount - ackCount /\ consumedCount' = consumedCount - ackCount
      /\ ackPc' = (IF callbacks = <<>> THEN "wait" ELSE "callbacks")
      /\ UNCHANGED <<buf, nextEntryID, batches, pushChan, ackSlots, callbacks, lastACK, acked,
                     queueACKed, pubVars, finished, log>>
  BY Zenon DEF HandleDelete
<1>2. /\ head \in Nat /\ eventCount \in Nat /\ ackCount \in Nat /\ consumedCount \in Nat
      /\ consumedCount <= eventCount /\ ackCount <= consumedCount /\ Len(log) = head + eventCount
      /\ ackSlots = <<>> /\ Len(ackSlots) = 0
  <2>1. ackSlots = <<>> BY <1>1, Zenon DEF AInv, IInv, AckRange
  <2>2. Len(<<>>) = 0 OBVIOUS
  <2> QED BY <2>1, <2>2, QueueNumbers, Zenon DEF AInv
<1>3. LogNumbered' BY <1>1, LogStutter, Zenon DEF AInv
<1>4. RequestsNumbered' BY <1>1, Zenon DEF AInv, RequestsNumbered, NoRequest, pubVars
<1>5. BatchChain'
  <2>1. head' + consumedCount' = head + consumedCount /\ head' + ackCount' = head + ackCount
    BY <1>1, <1>2
  <2> QED BY <1>1, <2>1, Zenon DEF AInv, BatchChain, Start
<1>6. SlotsAt' BY <1>1, <1>2 DEF SlotsAt
<1>7. Visited' = {} /\ Visited = head .. head + ackCount - 1 BY <1>1, <1>2 DEF Visited
<1>8. EntriesAt'
  <2>1. ASSUME NEW a \in head + ackCount .. head + eventCount - 1
        PROVE  /\ buf[Slot(a)].id = a
               /\ buf[Slot(a)].producerID = log[a + 1].producerID
               /\ buf[Slot(a)].producer = log[a + 1].producer
    <3>1. a \in head .. head + eventCount - 1 /\ a \notin Visited BY <1>2, <1>7
    <3> QED BY <3>1, Zenon DEF AInv, EntriesAt
  <2>2. head' = head + ackCount /\ head' + eventCount' - 1 = head + eventCount - 1 BY <1>1, <1>2
  <2> QED BY <1>1, <2>1, <2>2, Zenon DEF EntriesAt
<1>9. ASSUME NEW p \in AckProducers PROVE lastACK[p] = Count(log, p, head + ackCount)
  <2>1. CASE \E a \in Visited : log[a + 1].producer = p BY <2>1, Zenon DEF AInv, LastACKs
  <2>2. CASE ~(\E a \in Visited : log[a + 1].producer = p)
    <3>1. ASSUME NEW j \in head + 1 .. head + ackCount PROVE log[j].producer # p
      <4>1. j - 1 \in Visited /\ (j - 1) + 1 = j BY <1>2, <1>7
      <4> QED BY <2>2, <4>1, Zenon
    <3>2. head + ackCount \in Nat /\ head <= head + ackCount BY <1>2
    <3>3. Count(log, p, head) = Count(log, p, head + ackCount) BY <1>2, <3>1, <3>2, CountGap, Zenon
    <3> QED BY <2>2, <3>3, Zenon DEF AInv, LastACKs
  <2> QED BY <2>1, <2>2
<1>10. LastACKs'
  <2>1. ~\E a \in Visited' : TRUE BY <1>7
  <2> QED BY <1>1, <1>9, <2>1, Zenon DEF LastACKs
<1>11. CallbacksOwed' BY <1>1, Zenon DEF AInv, CallbacksOwed
<1>12. FinishedAt'
  <2>1. head' + ackCount' = head + ackCount BY <1>1, <1>2
  <2> QED BY <1>1, <2>1, Zenon DEF AInv, FinishedAt
<1>13. QueueCount' BY <1>1, Zenon DEF AInv, QueueCount
<1> QED BY <1>3, <1>4, <1>5, <1>6, <1>8, <1>10, <1>11, <1>12, <1>13, Zenon DEF AInv

-----------------------------------------------------------------------------
(* Consumers. *)

\* FreeEntries clears event pointers: it touches neither numbers nor producers.
LEMMA FreeShape ==
  ASSUME IInv, NEW i \in 1 .. Len(batches), FreeEntries(i)
  PROVE  /\ \A s \in Slots : /\ buf'[s].id = buf[s].id
                             /\ buf'[s].producer = buf[s].producer
                             /\ buf'[s].producerID = buf[s].producerID
         /\ Len(batches') = Len(batches)
         /\ \A k \in 1 .. Len(batches) : /\ batches'[k].pos = batches[k].pos
                                         /\ batches'[k].count = batches[k].count
                                         /\ batches'[k].done = batches[k].done
<1> DEFINE slots == BatchSlots(batches[i])
           Hit(s) == \E j \in DOMAIN slots : slots[j] = s
<1>1. /\ buf \in [Slots -> Entry] /\ batches \in Seq(Batch)
      /\ batches' = [batches EXCEPT ![i].freed = TRUE]
      /\ buf' = [s \in Slots |-> IF Hit(s) THEN [buf[s] EXCEPT !.event = Nil] ELSE buf[s]]
  BY Zenon DEF IInv, TypeOK, FreeEntries
<1> HIDE DEF Hit
<1>2. ASSUME NEW s \in Slots
      PROVE  /\ buf'[s].id = buf[s].id /\ buf'[s].producer = buf[s].producer
             /\ buf'[s].producerID = buf[s].producerID
  <2>1. buf[s] \in Entry BY <1>1
  <2>2. buf'[s] = IF Hit(s) THEN [buf[s] EXCEPT !.event = Nil] ELSE buf[s] BY <1>1
  <2> QED BY <2>1, <2>2 DEF Entry
<1>3. Len(batches') = Len(batches) BY <1>1
<1>4. ASSUME NEW k \in 1 .. Len(batches)
      PROVE  /\ batches'[k].pos = batches[k].pos /\ batches'[k].count = batches[k].count
             /\ batches'[k].done = batches[k].done
  <2>1. batches[k] \in Batch BY <1>1
  <2>2. CASE k = i
    <3>a. batches' = [batches EXCEPT ![i] = [batches[i] EXCEPT !.freed = TRUE]] BY <1>1
    <3>b. batches \in Seq(Batch) BY <1>1
    <3>c. \A m \in 1 .. Len(batches) :
            batches'[m] = IF m = i THEN [batches[i] EXCEPT !.freed = TRUE] ELSE batches[m]
      BY <3>a, <3>b, SeqExcept
    <3>1. batches'[k] = [batches[k] EXCEPT !.freed = TRUE] BY <2>2, <3>c, Zenon
    <3> QED BY <2>1, <3>1 DEF Batch
  <2>3. CASE k # i
    <3>1. batches'[k] = batches[k] BY <1>1, <2>3
    <3> QED BY <3>1
  <2> QED BY <2>2, <2>3
<1> QED BY <1>2, <1>3, <1>4, Zenon

\* FreeEntries clears the events of a batch and leaves their numbers and producers.
LEMMA FreeAInv ==
  ASSUME AInv, IInv', NEW i \in 1 .. Len(batches), FreeEntries(i)
  PROVE  AInv'
<1>1. /\ \A s \in Slots : /\ buf'[s].id = buf[s].id
                          /\ buf'[s].producer = buf[s].producer
                          /\ buf'[s].producerID = buf[s].producerID
      /\ Len(batches') = Len(batches)
      /\ \A k \in 1 .. Len(batches) : /\ batches'[k].pos = batches[k].pos
                                      /\ batches'[k].count = batches[k].count
                                      /\ batches'[k].done = batches[k].done
  BY FreeShape, Zenon DEF AInv
<1>2. UNCHANGED <<runVars, pushChan, ackVars, pubVars, histVars>> BY Zenon DEF FreeEntries
<1> USE DEF runVars, ackVars, pubVars, histVars
<1>3. LogNumbered' BY <1>2, LogStutter, Zenon DEF AInv
<1>4. RequestsNumbered' BY <1>2, Zenon DEF AInv, RequestsNumbered, NoRequest
<1>5. /\ head \in Nat /\ Len(batches) \in Nat /\ eventCount \in Nat
  BY QueueNumbers, Zenon DEF AInv
<1>6. BatchChain'
  <2>1. ASSUME NEW k \in 1 .. Len(batches) + 1 PROVE Start(k)' = Start(k)
    <3>1. CASE k <= Len(batches)
      <4>1. k \in 1 .. Len(batches) BY <1>5, <3>1
      <4> QED BY <1>1, <1>2, <3>1, <4>1, Zenon DEF Start
    <3>2. CASE ~(k <= Len(batches)) BY <1>1, <1>2, <3>2, Zenon DEF Start
    <3> QED BY <3>1, <3>2
  <2>2. 1 \in 1 .. Len(batches) + 1
        /\ \A k \in 1 .. Len(batches) : k + 1 \in 1 .. Len(batches) + 1
    BY <1>5
  <2> QED BY <1>1, <1>2, <2>1, <2>2, Zenon DEF AInv, BatchChain
<1>7. SlotsAt' /\ QueueCount' BY <1>2, Zenon DEF AInv, SlotsAt, QueueCount
<1>8. EntriesAt'
  <2>1. \A a \in head .. head + eventCount - 1 : Slot(a) \in Slots
    <3>1. \A a \in head .. head + eventCount - 1 : a \in Int BY <1>5
    <3> QED BY <3>1, SlotSlot, ConstantsAssumption
  <2>2. ASSUME NEW a \in head .. head + eventCount - 1
        PROVE  /\ buf'[Slot(a)].id = a
               /\ buf'[Slot(a)].producerID = log[a + 1].producerID
               /\ a \notin Visited => buf'[Slot(a)].producer = log[a + 1].producer
    <3>1. Slot(a) \in Slots BY <2>1
    <3>2. /\ buf[Slot(a)].id = a
          /\ buf[Slot(a)].producerID = log[a + 1].producerID
          /\ a \notin Visited => buf[Slot(a)].producer = log[a + 1].producer
      BY Zenon DEF AInv, EntriesAt
    <3> QED BY <1>1, <3>1, <3>2, Zenon
  <2> QED BY <1>2, <2>2, Zenon DEF EntriesAt, Visited
<1>9. LastACKs' BY <1>2, Zenon DEF AInv, LastACKs, Visited
<1>10. CallbacksOwed' BY <1>2, Zenon DEF AInv, CallbacksOwed
<1>11. FinishedAt' BY <1>1, <1>2, Zenon DEF AInv, FinishedAt
<1> QED BY <1>3, <1>4, <1>6, <1>7, <1>8, <1>9, <1>10, <1>11, Zenon DEF AInv

\* Done only adds to what is finished, and marks the batch whose events it adds.
LEMMA DoneAInv ==
  ASSUME AInv, IInv', NEW i \in 1 .. Len(batches), Done(i)
  PROVE  AInv'
<1>1. /\ batches \in Seq(Batch) /\ batches' = [batches EXCEPT ![i] = [batches[i] EXCEPT !.done = TRUE]]
      /\ finished' = finished \cup (batches[i].pos + 1 .. batches[i].pos + batches[i].count)
      /\ UNCHANGED <<buf, runVars, pushChan, ackVars, pubVars, head, log>>
  BY DEF AInv, IInv, TypeOK, Done
<1>2. Len(batches') = Len(batches) /\ Len(batches) \in Nat BY <1>1
<1>3. ASSUME NEW k \in 1 .. Len(batches)
      PROVE  /\ batches'[k].pos = batches[k].pos /\ batches'[k].count = batches[k].count
             /\ k # i => batches'[k].done = batches[k].done
  <2>1. batches[k] \in Batch BY <1>1
  <2>2. CASE k = i
    <3>a. batches \in Seq(Batch)
          /\ batches' = [batches EXCEPT ![i] = [batches[i] EXCEPT !.done = TRUE]]
      BY <1>1
    <3>b. \A m \in 1 .. Len(batches) :
            batches'[m] = IF m = i THEN [batches[i] EXCEPT !.done = TRUE] ELSE batches[m]
      BY <3>a, SeqExcept
    <3>1. batches'[k] = [batches[k] EXCEPT !.done = TRUE] BY <2>2, <3>b, Zenon
    <3> QED BY <2>1, <2>2, <3>1 DEF Batch
  <2>3. CASE k # i
    <3>1. batches'[k] = batches[k] BY <1>1, <2>3
    <3> QED BY <3>1
  <2> QED BY <2>2, <2>3
<1> USE DEF runVars, ackVars, pubVars
<1>4. LogNumbered' BY <1>1, LogStutter, Zenon DEF AInv
<1>5. RequestsNumbered' BY <1>1, Zenon DEF AInv, RequestsNumbered, NoRequest
<1>6. BatchChain'
  <2>1. ASSUME NEW k \in 1 .. Len(batches) + 1 PROVE Start(k)' = Start(k)
    <3>1. CASE k <= Len(batches)
      <4>1. k \in 1 .. Len(batches) BY <1>2, <3>1
      <4> QED BY <1>1, <1>2, <1>3, <3>1, <4>1, Zenon DEF Start
    <3>2. CASE ~(k <= Len(batches)) BY <1>1, <1>2, <3>2, Zenon DEF Start
    <3> QED BY <3>1, <3>2
  <2>2. 1 \in 1 .. Len(batches) + 1
        /\ \A k \in 1 .. Len(batches) : k + 1 \in 1 .. Len(batches) + 1
    BY <1>2
  <2> QED BY <1>1, <1>2, <1>3, <2>1, <2>2, Zenon DEF AInv, BatchChain
<1>7. SlotsAt' /\ QueueCount' BY <1>1, Zenon DEF AInv, SlotsAt, QueueCount
<1>8. EntriesAt' BY <1>1, Zenon DEF AInv, EntriesAt, Visited
<1>9. LastACKs' BY <1>1, Zenon DEF AInv, LastACKs, Visited
<1>10. CallbacksOwed' BY <1>1, Zenon DEF AInv, CallbacksOwed
<1>11. FinishedAt'
  <2>1. 1 .. head + ackCount \subseteq finished' BY <1>1, Zenon DEF AInv, FinishedAt
  <2>2. ASSUME NEW k \in 1 .. Len(batches), batches'[k].done
        PROVE  batches'[k].pos + 1 .. batches'[k].pos + batches'[k].count \subseteq finished'
    <3>1. CASE k = i BY <1>1, <1>3, <3>1, Zenon
    <3>2. CASE k # i
      <4>1. batches[k].pos + 1 .. batches[k].pos + batches[k].count \subseteq finished
        BY <1>3, <2>2, <3>2, Zenon DEF AInv, FinishedAt
      <4> QED BY <1>1, <1>3, <4>1, Zenon
    <3> QED BY <3>1, <3>2
  <2> QED BY <1>1, <1>2, <2>1, <2>2, Zenon DEF FinishedAt
<1> QED BY <1>4, <1>5, <1>6, <1>7, <1>8, <1>9, <1>10, <1>11, Zenon DEF AInv

-----------------------------------------------------------------------------
(* ackLoop: collecting batches. *)

\* The oldest batch starts right after the events collected so far, so its slots follow
\* theirs.
LEMMA CollectAInv ==
  ASSUME AInv, IInv', AckCollect
  PROVE  AInv'
<1> DEFINE L == Len(batches)
           b == batches[1]
           bs == BatchSlots(b)
<1>1. /\ batches \in Seq(Batch) /\ ackSlots \in Seq(Slots) /\ forwarded \in 0 .. L
      /\ ackPc \in {"wait", "collect"} /\ forwarded > 0 /\ b.done /\ ackPc' = "collect"
      /\ ackSlots' = ackSlots \o bs /\ ackCount' = ackCount + b.count /\ batches' = Tail(batches)
      /\ UNCHANGED <<buf, runVars, pushChan, callbacks, lastACK, acked, queueACKed, pubVars,
                     histVars>>
  BY Zenon DEF AInv, IInv, TypeOK, AckCollect, HeadDone
<1>2. L \in Nat \ {0} /\ 1 \in 1 .. L BY <1>1
<1>3. b \in Batch BY <1>1, <1>2
<1>4. b.count \in Nat /\ b.pos \in Nat /\ b.start \in Nat BY <1>3 DEF Batch
<1>5. head \in Nat /\ ackCount \in Nat /\ consumedCount \in Nat /\ Events \in Nat \ {0}
  BY QueueNumbers, Zenon DEF AInv
<1>6. b.pos = head + ackCount /\ Start(2) = b.pos + b.count
  <2>1. 1 <= L BY <1>2
  <2>2. Start(1) = b.pos BY <2>1 DEF Start
  <2>3. 1 + 1 = 2 OBVIOUS
  <2> QED BY <1>2, <2>2, <2>3, Zenon DEF AInv, BatchChain
<1>7. Slot(b.start) = Slot(b.pos) BY <1>2, Zenon DEF AInv, IInv, BatchRange
<1>8. Len(ackSlots) = ackCount BY <1>1, Zenon DEF AInv, SlotsAt
<1>9. /\ Len(batches') = L - 1 /\ \A i \in 1 .. L - 1 : batches'[i] = batches[i + 1]
  BY <1>1, <1>2
<1>10. /\ bs \in Seq(Slots) /\ Len(bs) = b.count
       /\ \A j \in 1 .. b.count : bs[j] = Slot(b.start + j - 1)
  <2> HIDE DEF b
  <2>1. \A j \in 1 .. b.count : b.start + j - 1 \in Int BY <1>4
  <2>2. \A j \in 1 .. b.count : Slot(b.start + j - 1) \in Slots BY <1>5, <2>1, SlotSlot, Zenon
  <2> QED BY <1>4, <2>2 DEF BatchSlots
<1> HIDE DEF b, bs, L
<1>a. Len(ackSlots') = ackCount'
  <2>a. ackSlots \in Seq(Slots) /\ bs \in Seq(Slots) BY <1>1, <1>10
  <2>1. Len(ackSlots \o bs) = Len(ackSlots) + Len(bs) BY <2>a, ConcatLen, Zenon
  <2> QED BY <1>1, <1>8, <1>10, <2>1, Zenon
<1>11. BatchChain'
  <2>1. ASSUME NEW i \in 1 .. L PROVE Start(i)' = Start(i + 1)
    <3>1. CASE i <= L - 1
      <4>1. i \in 1 .. L - 1 /\ i + 1 <= L BY <1>2, <3>1
      <4> QED BY <1>1, <1>9, <3>1, <4>1, Zenon DEF Start, L
    <3>2. CASE ~(i <= L - 1)
      <4>1. ~(i + 1 <= L) BY <1>2, <3>2
      <4> QED BY <1>1, <1>9, <3>2, <4>1, Zenon DEF Start, L, runVars, histVars
    <3> QED BY <3>1, <3>2
  <2>2. Start(1)' = head' + ackCount'
    <3>1. head' = head /\ 1 + 1 = 2 BY <1>1 DEF histVars
    <3>2. Start(1)' = head + ackCount + b.count BY <1>2, <1>6, <2>1, <3>1, Zenon
    <3>3. head + ackCount + b.count = head + (ackCount + b.count) BY <1>4, <1>5
    <3> QED BY <1>1, <3>1, <3>2, <3>3, Zenon
  <2>3. ASSUME NEW i \in 1 .. L - 1 PROVE Start(i + 1)' = batches'[i].pos + batches'[i].count
    <3>1. i + 1 \in 1 .. L BY <1>2
    <3>2. Start((i + 1) + 1) = batches[i + 1].pos + batches[i + 1].count
      BY <3>1, Zenon DEF AInv, BatchChain, L
    <3> QED BY <1>9, <2>1, <3>1, <3>2, Zenon
  <2> QED BY <1>9, <2>2, <2>3, Zenon DEF BatchChain
<1>12. SlotsAt'
  <2>1. Len(ackSlots') = ackCount' BY <1>a
  <2>2. ASSUME NEW i \in 1 .. ackCount + b.count PROVE ackSlots'[i] = Slot(head + i - 1)
    <3>1. CASE i <= ackCount
      <4>1. i \in 1 .. Len(ackSlots) BY <1>5, <1>8, <3>1
      <4>2. ackSlots'[i] = ackSlots[i] BY <1>1, <1>10, <4>1
      <4> QED BY <4>1, <4>2, Zenon DEF AInv, SlotsAt
    <3>2. CASE ~(i <= ackCount)
      <4>1. PICK j \in 1 .. b.count : i = ackCount + j
        <5>1. i - ackCount \in 1 .. b.count /\ i = ackCount + (i - ackCount)
          BY <1>4, <1>5, <3>2
        <5> QED BY <5>1, Zenon
      <4>a. ackSlots \in Seq(Slots) /\ bs \in Seq(Slots) /\ j \in 1 .. Len(bs) BY <1>1, <1>10
      <4>b. (ackSlots \o bs)[Len(ackSlots) + j] = bs[j] BY <4>a, ConcatAt
      <4>2. ackSlots'[i] = bs[j] BY <1>1, <1>8, <4>1, <4>b, Zenon
      <4>3. Slot(b.start + (j - 1)) = Slot(b.pos + (j - 1))
        <5>1. b.start \in Int /\ b.pos \in Int /\ j - 1 \in Int BY <1>4
        <5> QED BY <1>5, <1>7, <5>1, SlotAdd, Zenon
      <4>4. b.start + (j - 1) = b.start + j - 1 /\ b.pos + (j - 1) = head + i - 1
        BY <1>4, <1>5, <1>6, <4>1
      <4> QED BY <1>10, <4>2, <4>3, <4>4, Zenon
    <3> QED BY <3>1, <3>2
  <2>3. ackCount' = ackCount + b.count /\ ackCount' <= ackCount' BY <1>1, <1>4, <1>5
  <2>4. head' = head BY <1>1 DEF histVars
  <2> QED BY <1>1, <2>1, <2>2, <2>3, <2>4 DEF SlotsAt
<1>13. Visited = {} /\ Visited' = {}
  <2>1. Len(ackSlots') = ackCount' BY <1>a
  <2>2. ackCount' \in Nat /\ head' \in Nat BY <1>1, <1>4, <1>5 DEF histVars
  <2>3. Visited = {} BY <1>5, <1>8 DEF Visited
  <2>4. Visited' = head' + Len(ackSlots') .. head' + ackCount' - 1 BY Zenon DEF Visited
  <2>5. Visited' = head' + ackCount' .. head' + ackCount' - 1 BY <2>1, <2>4, Zenon
  <2>6. \A h, c \in Nat : h + c .. h + c - 1 = {} OBVIOUS
  <2> QED BY <2>2, <2>3, <2>5, <2>6, Zenon
<1> USE DEF runVars, pubVars, histVars
<1>14. LogNumbered' BY <1>1, LogStutter, Zenon DEF AInv
<1>15. RequestsNumbered' BY <1>1, Zenon DEF AInv, RequestsNumbered, NoRequest
<1>16. EntriesAt' BY <1>1, <1>13, Zenon DEF AInv, EntriesAt
<1>17. LastACKs'
  <2>1. ASSUME NEW p \in AckProducers PROVE lastACK'[p] = Count(log', p, head')
    BY <1>1, <1>13, Zenon DEF AInv, LastACKs
  <2>2. ASSUME NEW p PROVE ~\E a \in Visited' : log'[a + 1].producer = p BY <1>13
  <2> QED BY <2>1, <2>2, Zenon DEF LastACKs
<1>18. CallbacksOwed' BY <1>1, Zenon DEF AInv, CallbacksOwed
<1>19. FinishedAt'
  <2>1. b.pos + 1 .. b.pos + b.count \subseteq finished
    BY <1>1, <1>2, Zenon DEF AInv, FinishedAt, L, b
  <2>2. 1 .. head + ackCount \subseteq finished BY DEF AInv, FinishedAt
  <2>3. 1 .. head + (ackCount + b.count) \subseteq finished BY <1>4, <1>5, <1>6, <2>1, <2>2
  <2>4. ASSUME NEW i \in 1 .. L - 1, batches'[i].done
        PROVE  batches'[i].pos + 1 .. batches'[i].pos + batches'[i].count \subseteq finished
    <3>1. i + 1 \in 1 .. L BY <1>2
    <3> QED BY <1>9, <2>4, <3>1, Zenon DEF AInv, FinishedAt, L
  <2> QED BY <1>1, <1>9, <2>3, <2>4, Zenon DEF FinishedAt
<1>20. QueueCount' BY <1>1, Zenon DEF AInv, QueueCount
<1> QED BY <1>11, <1>12, <1>14, <1>15, <1>16, <1>17, <1>18, <1>19, <1>20, Zenon DEF AInv

-----------------------------------------------------------------------------
(* ackLoop: processACK. *)

\* The entry processACK visits is the youngest unvisited one of the collected events, and
\* still names its producer.
LEMMA ScanShape ==
  ASSUME IInv, SlotsAt, EntriesAt, ScanEntry,
         NEW a, a = head + Len(ackSlots) - 1
  PROVE  /\ a \in Nat /\ a \in head .. head + ackCount - 1 /\ a \in head .. head + eventCount - 1
         /\ Len(ackSlots) \in Nat \ {0} /\ Len(ackSlots') = Len(ackSlots) - 1
         /\ \A k \in 1 .. Len(ackSlots) - 1 : ackSlots'[k] = ackSlots[k]
         /\ Visited' = Visited \cup {a} /\ a \notin Visited
         /\ ackSlots[Len(ackSlots)] = Slot(a)
         /\ buf[Slot(a)].producer = log[a + 1].producer
         /\ buf[Slot(a)].producerID = log[a + 1].producerID
         /\ buf'[Slot(a)].id = buf[Slot(a)].id
         /\ buf'[Slot(a)].producerID = buf[Slot(a)].producerID
         /\ \A c \in head .. head + eventCount - 1 : c # a => buf'[Slot(c)] = buf[Slot(c)]
<1> DEFINE N == Len(ackSlots)
           slot == ackSlots[N]
<1>1. /\ ackSlots \in Seq(Slots) /\ ackSlots # <<>> /\ buf \in [Slots -> Entry]
      /\ ackSlots' = SubSeq(ackSlots, 1, N - 1) /\ buf' = [buf EXCEPT ![slot].producer = Nil]
      /\ UNCHANGED <<runVars, ackCount, histVars>>
  BY Zenon DEF IInv, TypeOK, ScanEntry
<1>2. N \in Nat \ {0} /\ slot \in Slots BY <1>1
<1>3. /\ head \in Nat /\ ackCount \in Nat /\ Events \in Nat \ {0} /\ eventCount \in Nat
      /\ eventCount <= Events /\ ackCount <= eventCount
  BY QueueNumbers, Zenon
<1>4. N <= ackCount BY DEF SlotsAt
<1>5. /\ a \in Nat /\ a \in head .. head + ackCount - 1 /\ a \in head .. head + eventCount - 1
      /\ head + N - 1 = a
  BY <1>2, <1>3, <1>4
<1>6. slot = Slot(a)
  <2>1. N \in 1 .. Len(ackSlots) BY <1>2
  <2> QED BY <1>5, <2>1, Zenon DEF SlotsAt
<1>7. /\ Len(ackSlots') = N - 1 /\ \A k \in 1 .. N - 1 : ackSlots'[k] = ackSlots[k]
  <2>1. ackSlots \in Seq(Slots) /\ ackSlots' = SubSeq(ackSlots, 1, N - 1) BY <1>1
  <2> QED BY <1>1, <2>1, FrontOf
<1> HIDE DEF N, slot
<1>8. Visited' = Visited \cup {a} /\ a \notin Visited
  <2>1. Visited = head + N .. head + ackCount - 1 BY Zenon DEF Visited, N
  <2>2. Visited' = head + (N - 1) .. head + ackCount - 1
    BY <1>1, <1>7, Zenon DEF Visited, histVars
  <2> QED BY <1>2, <1>3, <1>4, <1>5, <2>1, <2>2
<1>9. buf[Slot(a)] \in Entry BY <1>1, <1>2, <1>6
<1>10. buf' = [buf EXCEPT ![Slot(a)] = [buf[Slot(a)] EXCEPT !.producer = Nil]] BY <1>1, <1>6
<1>11. buf'[Slot(a)].id = buf[Slot(a)].id /\ buf'[Slot(a)].producerID = buf[Slot(a)].producerID
  <2>1. buf'[Slot(a)] = [buf[Slot(a)] EXCEPT !.producer = Nil] BY <1>1, <1>2, <1>6, <1>10
  <2> QED BY <1>9, <2>1 DEF Entry
<1>12. ASSUME NEW c \in head .. head + eventCount - 1, c # a PROVE buf'[Slot(c)] = buf[Slot(c)]
  <2>1. c \in Nat /\ c < a + Events /\ a < c + Events BY <1>3, <1>5
  <2>2. Slot(c) # Slot(a) BY <1>3, <1>5, <1>12, <2>1, SlotInj
  <2>3. Slot(c) \in Slots BY <1>3, <2>1, SlotSlot
  <2> QED BY <1>1, <1>10, <2>2, <2>3
<1>13. buf[Slot(a)].producer = log[a + 1].producer /\ buf[Slot(a)].producerID = log[a + 1].producerID
  BY <1>5, <1>8, Zenon DEF EntriesAt
<1> QED BY <1>2, <1>5, <1>6, <1>7, <1>8, <1>11, <1>12, <1>13, Zenon DEF N, slot

\* What visiting the entry at place a does to lastACK: nothing when a younger event of the
\* producer was visited before, and otherwise it moves on to the producer's count over all
\* collected events, which is not yet owed to the producer.
LEMMA ScanCounts ==
  ASSUME AInv, ScanEntry, NEW a, a = head + Len(ackSlots) - 1,
         NEW p, p = log[a + 1].producer, p \in AckProducers
  PROVE  LET seen == \E c \in Visited : log[c + 1].producer = p
             all  == Count(log, p, head + ackCount)
         IN  /\ lastACK[p] \in Nat /\ all \in Nat /\ log[a + 1].producerID \in Nat
             /\ seen => lastACK[p] = all /\ log[a + 1].producerID <= all
             /\ ~seen => lastACK[p] = Count(log, p, head) /\ log[a + 1].producerID = all
                         /\ all > lastACK[p]
             /\ ~seen => \A i \in 1 .. Len(callbacks) : callbacks[i].producer # p
<1>1. /\ a \in Nat /\ a \in head .. head + ackCount - 1 /\ a \in head .. head + eventCount - 1
      /\ Len(ackSlots) \in Nat \ {0}
  BY ScanShape, Zenon DEF AInv
<1>2. head \in Nat /\ ackCount \in Nat /\ eventCount \in Nat /\ Len(log) = head + eventCount
  BY QueueNumbers, Zenon DEF AInv
<1>3. /\ a + 1 \in Nat /\ head + ackCount \in Nat /\ head < a + 1 /\ a + 1 <= head + ackCount
      /\ a + 1 \in 1 .. Len(log)
  BY <1>1, <1>2
<1>4. log[a + 1].producerID = Count(log, p, a + 1)
  <2>1. p # Nil BY Zenon, ConstantsAssumption
  <2> QED BY <1>3, <2>1, Zenon DEF AInv, LogNumbered
<1>5. /\ Count(log, p, a + 1) \in Nat /\ Count(log, p, head) \in Nat
      /\ Count(log, p, head + ackCount) \in Nat
  BY <1>2, <1>3, CountType, Zenon
<1>6. Count(log, p, a + 1) <= Count(log, p, head + ackCount) BY <1>3, CountMono, Zenon
<1>7. Count(log, p, head) < Count(log, p, a + 1) BY <1>2, <1>3, CountMore, Zenon
<1>8. lastACK[p] = IF \E c \in Visited : log[c + 1].producer = p
                   THEN Count(log, p, head + ackCount) ELSE Count(log, p, head)
  BY Zenon DEF AInv, LastACKs
<1>9. ASSUME ~\E c \in Visited : log[c + 1].producer = p
      PROVE  /\ Count(log, p, a + 1) = Count(log, p, head + ackCount)
             /\ \A i \in 1 .. Len(callbacks) : callbacks[i].producer # p
  <2>1. ASSUME NEW j \in (a + 1) + 1 .. head + ackCount PROVE log[j].producer # p
    <3>1. j - 1 \in Visited /\ (j - 1) + 1 = j BY <1>1, <1>2 DEF Visited
    <3> QED BY <1>9, <3>1, Zenon
  <2>2. Count(log, p, a + 1) = Count(log, p, head + ackCount) BY <1>3, <2>1, CountGap, Zenon
  <2>3. ASSUME NEW i \in 1 .. Len(callbacks), callbacks[i].producer = p PROVE FALSE
    <3>1. ackPc = "scan" BY DEF ScanEntry
    <3>2. lastACK[p] = Count(log, p, head + ackCount)
      BY <2>3, <3>1, Zenon DEF AInv, CallbacksOwed
    <3>3. lastACK[p] = Count(log, p, head) BY <1>8, <1>9
    <3> QED BY <1>5, <1>7, <2>2, <3>2, <3>3
  <2> QED BY <2>2, <2>3, Zenon
<1>10. CASE \E c \in Visited : log[c + 1].producer = p
  <2>1. lastACK[p] = Count(log, p, head + ackCount) BY <1>8, <1>10
  <2> QED BY <1>4, <1>5, <1>6, <1>10, <2>1, Zenon
<1>11. CASE ~\E c \in Visited : log[c + 1].producer = p
  <2>1. lastACK[p] = Count(log, p, head) BY <1>8, <1>11
  <2>2. Count(log, p, a + 1) = Count(log, p, head + ackCount) BY <1>9, <1>11
  <2>3. Count(log, p, head + ackCount) > lastACK[p] BY <1>5, <1>7, <2>1, <2>2
  <2> QED BY <1>4, <1>5, <1>9, <1>11, <2>1, <2>2, <2>3, Zenon
<1> QED BY Zenon, <1>10, <1>11

\* Visiting an entry keeps the invariant: either lastACK of its producer already covers
\* all collected events, or it does from now on and the difference is owed once.
LEMMA ScanAInv ==
  ASSUME AInv, IInv', ScanEntry
  PROVE  AInv'
<1>1. PICK a : a = head + Len(ackSlots) - 1 BY Zenon
<1>2. /\ a \in Nat /\ a \in head .. head + ackCount - 1 /\ a \in head .. head + eventCount - 1
      /\ Len(ackSlots) \in Nat \ {0} /\ Len(ackSlots') = Len(ackSlots) - 1
      /\ \A k \in 1 .. Len(ackSlots) - 1 : ackSlots'[k] = ackSlots[k]
      /\ Visited' = Visited \cup {a} /\ a \notin Visited
      /\ ackSlots[Len(ackSlots)] = Slot(a)
      /\ buf[Slot(a)].producer = log[a + 1].producer
      /\ buf[Slot(a)].producerID = log[a + 1].producerID
      /\ buf'[Slot(a)].id = buf[Slot(a)].id
      /\ buf'[Slot(a)].producerID = buf[Slot(a)].producerID
      /\ \A c \in head .. head + eventCount - 1 : c # a => buf'[Slot(c)] = buf[Slot(c)]
  BY <1>1, ScanShape, Zenon DEF AInv
<1>3. PICK p : p = log[a + 1].producer BY Zenon
<1>4. PICK seen : seen = (\E c \in Visited : log[c + 1].producer = p) BY Zenon
<1>5. PICK all : all = Count(log, p, head + ackCount) BY Zenon
<1> DEFINE fresh == p # Nil /\ log[a + 1].producerID > lastACK[p]
           owed == [producer |-> p, count |-> log[a + 1].producerID - lastACK[p]]
<1>6. /\ ackPc = "scan"
      /\ callbacks' = (IF fresh THEN Append(callbacks, owed) ELSE callbacks)
      /\ lastACK' = (IF fresh THEN [lastACK EXCEPT ![p] = log[a + 1].producerID] ELSE lastACK)
      /\ UNCHANGED <<runVars, batches, pushChan, ackPc, ackCount, acked, queueACKed, pubVars,
                     histVars>>
  BY <1>2, <1>3, Zenon DEF ScanEntry
<1>7. p \in AckProducers \cup {Nil} /\ Nil \notin AckProducers
  <2>1. log \in Seq(Entry) /\ Len(log) = head + eventCount /\ head \in Nat /\ eventCount \in Nat
    BY QueueNumbers, Zenon DEF AInv
  <2>a. a \in head .. head + eventCount - 1 BY Zenon, <1>2
  <2>2. a + 1 \in 1 .. Len(log) BY <2>1, <2>a
  <2>3. log[a + 1] \in Entry BY <2>1, <2>2
  <2>4. p \in AckProducers \cup {Nil} BY <1>3, <2>3 DEF Entry
  <2> QED BY <2>4, ConstantsAssumption, Zenon
<1>8. p \in AckProducers =>
        /\ lastACK[p] \in Nat /\ all \in Nat /\ log[a + 1].producerID \in Nat
        /\ seen => lastACK[p] = all /\ log[a + 1].producerID <= all
        /\ ~seen => lastACK[p] = Count(log, p, head) /\ log[a + 1].producerID = all
                    /\ all > lastACK[p]
        /\ ~seen => \A i \in 1 .. Len(callbacks) : callbacks[i].producer # p
  BY <1>1, <1>3, <1>4, <1>5, ScanCounts, Zenon
<1> USE DEF runVars, pubVars, histVars
<1>9. LogNumbered' BY <1>6, LogStutter, Zenon DEF AInv
<1>10. RequestsNumbered' BY <1>6, Zenon DEF AInv, RequestsNumbered, NoRequest
<1>11. BatchChain' /\ FinishedAt' /\ QueueCount'
  BY <1>6, Zenon DEF AInv, BatchChain, Start, FinishedAt, QueueCount
<1>12. SlotsAt'
  <2>1. ackCount \in Nat /\ Len(ackSlots) <= ackCount BY Zenon DEF AInv, IInv, TypeOK, SlotsAt
  <2>2. Len(ackSlots') <= ackCount BY <1>2, <2>1
  <2>3. ASSUME NEW k \in 1 .. Len(ackSlots) - 1 PROVE ackSlots'[k] = Slot(head + k - 1)
    <3>1. k \in 1 .. Len(ackSlots) BY <1>2
    <3> QED BY <1>2, <3>1, Zenon DEF AInv, SlotsAt
  <2> QED BY Zenon, <1>2, <1>6, <2>2, <2>3 DEF SlotsAt
<1>13. EntriesAt'
  <2>1. ASSUME NEW c \in head .. head + eventCount - 1
        PROVE  /\ buf'[Slot(c)].id = c
               /\ buf'[Slot(c)].producerID = log[c + 1].producerID
               /\ c \notin Visited' => buf'[Slot(c)].producer = log[c + 1].producer
    <3>1. /\ buf[Slot(c)].id = c
          /\ buf[Slot(c)].producerID = log[c + 1].producerID
          /\ c \notin Visited => buf[Slot(c)].producer = log[c + 1].producer
      BY Zenon DEF AInv, EntriesAt
    <3>2. CASE c = a
      <4>1. a \in Visited' BY <1>2
      <4> QED BY <1>2, <3>1, <3>2, <4>1, Zenon
    <3>3. CASE c # a
      <4>1. c \notin Visited' => c \notin Visited BY Zenon, <1>2
      <4> QED BY <1>2, <3>1, <3>3, <4>1, Zenon
    <3> QED BY <3>2, <3>3
  <2> QED BY <1>6, <2>1, Zenon DEF EntriesAt
<1>14. ASSUME NEW q
       PROVE  (\E c \in Visited' : log[c + 1].producer = q)
                <=> (q = p \/ \E c \in Visited : log[c + 1].producer = q)
  BY <1>2, <1>3, Zenon
<1>15. lastACK \in [AckProducers -> Nat]
       /\ callbacks \in Seq([producer : AckProducers, count : Nat \ {0}])
  BY Zenon DEF AInv, IInv, TypeOK
<1>16. CASE ~fresh
  <2>1. lastACK' = lastACK /\ callbacks' = callbacks BY <1>6, <1>16, Zenon
  <2>2. p \in AckProducers => seen
    <3>1. p \in AckProducers => p # Nil BY <1>7
    <3> QED BY <1>8, <1>16, <3>1
  <2>3. LastACKs'
    <3>1. ASSUME NEW q \in AckProducers
          PROVE  (\E c \in Visited' : log[c + 1].producer = q)
                   <=> (\E c \in Visited : log[c + 1].producer = q)
      BY <1>4, <1>14, <2>2, Zenon
    <3>2. log' = log /\ head' = head /\ ackCount' = ackCount BY <1>6, Zenon
    <3>3. ASSUME NEW q \in AckProducers
          PROVE  lastACK'[q] = IF \E c \in Visited' : log'[c + 1].producer = q
                               THEN Count(log', q, head' + ackCount') ELSE Count(log', q, head')
      <4>1. lastACK[q] = IF \E c \in Visited : log[c + 1].producer = q
                         THEN Count(log, q, head + ackCount) ELSE Count(log, q, head)
        BY Zenon DEF AInv, LastACKs
      <4>2. (\E c \in Visited' : log'[c + 1].producer = q)
              <=> (\E c \in Visited : log[c + 1].producer = q)
        BY <3>1, <3>2, Zenon
      <4> QED BY <2>1, <3>2, <4>1, <4>2, Zenon
    <3> QED BY <3>3, Zenon DEF LastACKs
  <2>4. CallbacksOwed'
    <3>1. /\ CallbacksOwed /\ ackPc' = ackPc /\ acked' = acked /\ log' = log /\ head' = head
          /\ ackCount' = ackCount /\ lastACK' = lastACK /\ callbacks' = callbacks
      BY <1>6, <2>1, Zenon DEF AInv
    <3> QED BY <3>1, Zenon DEF CallbacksOwed
  <2> QED BY <1>9, <1>10, <1>11, <1>12, <1>13, <2>3, <2>4, Zenon DEF AInv
<1>17. CASE fresh
  <2>1. p \in AckProducers BY <1>7, <1>17
  <2>2. ~seen
    <3>a. /\ lastACK[p] \in Nat /\ log[a + 1].producerID \in Nat
          /\ seen => lastACK[p] = all /\ log[a + 1].producerID <= all
      BY <1>8, <2>1, Zenon
    <3>1. seen => ~(log[a + 1].producerID > lastACK[p]) BY <3>a
    <3> QED BY <1>17, <3>1
  <2>3. /\ lastACK[p] = Count(log, p, head) /\ log[a + 1].producerID = all
        /\ lastACK[p] \in Nat /\ all \in Nat /\ all > lastACK[p]
        /\ \A i \in 1 .. Len(callbacks) : callbacks[i].producer # p
    BY <1>8, <2>1, <2>2, Zenon
  <2>4. lastACK' = [lastACK EXCEPT ![p] = all] /\ callbacks' = Append(callbacks, owed)
    BY <1>6, <1>17, <2>3, Zenon
  <2>5. lastACK'[p] = all /\ \A q \in AckProducers : q # p => lastACK'[q] = lastACK[q]
    BY <1>15, <2>1, <2>4
  <2>6. LastACKs'
    <3>1. ASSUME NEW q \in AckProducers
          PROVE  lastACK'[q] = IF \E c \in Visited' : log[c + 1].producer = q
                               THEN Count(log, q, head + ackCount) ELSE Count(log, q, head)
      <4>1. CASE q = p
        <5>1. \E c \in Visited' : log[c + 1].producer = q BY <1>14, <4>1, Zenon
        <5> QED BY Zenon, <1>5, <2>5, <4>1, <5>1
      <4>2. CASE q # p
        <5>1. (\E c \in Visited' : log[c + 1].producer = q)
                <=> (\E c \in Visited : log[c + 1].producer = q)
          BY <1>14, <4>2, Zenon
        <5>2. lastACK[q] = IF \E c \in Visited : log[c + 1].producer = q
                           THEN Count(log, q, head + ackCount) ELSE Count(log, q, head)
          BY Zenon DEF AInv, LastACKs
        <5> QED BY <2>5, <4>2, <5>1, <5>2
      <4> QED BY Zenon, <4>1, <4>2
    <3> QED BY <1>6, <3>1, Zenon DEF LastACKs
  <2>7. CallbacksOwed'
    <3> DEFINE N == Len(callbacks)
    <3>1. owed.producer = p /\ owed.count = all - lastACK[p] BY Zenon, <2>3
    <3> DEFINE Callback == [producer : AckProducers, count : Nat \ {0}]
    <3>2. owed \in Callback BY <2>1, <2>3
    <3>a. callbacks \in Seq(Callback) /\ callbacks' = Append(callbacks, owed) BY <1>15, <2>4
    <3>b. \A c \in Callback : c.producer \in AckProducers OBVIOUS
    <3> HIDE DEF owed, Callback
    <3>3. /\ N \in Nat /\ Len(callbacks') = N + 1 /\ callbacks'[N + 1] = owed
          /\ \A i \in 1 .. N : callbacks'[i] = callbacks[i]
          /\ \A i \in 1 .. N : callbacks[i].producer \in AckProducers
      BY <3>a, <3>b, <3>2
    <3>4. acked[p] = lastACK[p] /\ acked[p] \in Nat
      <4>1. acked[p] = lastACK[p] BY <2>1, <2>3, Zenon DEF AInv, CallbacksOwed
      <4> QED BY <2>3, <4>1
    <3> HIDE DEF N
    <3>5. \A i \in 1 .. N + 1 : i = N + 1 \/ i \in 1 .. N BY <3>3
    <3>6. ASSUME NEW i \in 1 .. N + 1, NEW j \in 1 .. N + 1,
                 callbacks'[i].producer = callbacks'[j].producer
          PROVE  i = j
      <4>1. CASE i \in 1 .. N /\ j \in 1 .. N
        <5>1. callbacks[i].producer = callbacks[j].producer BY <3>3, <3>6, <4>1, Zenon
        <5> QED BY <4>1, <5>1, Zenon DEF AInv, CallbacksOwed, N
      <4>2. CASE i = N + 1 /\ j \in 1 .. N
        <5>1. callbacks[j].producer = p BY <3>1, <3>3, <3>6, <4>2, Zenon
        <5> QED BY <2>3, <4>2, <5>1, Zenon DEF N
      <4>3. CASE i \in 1 .. N /\ j = N + 1
        <5>1. callbacks[i].producer = p BY <3>1, <3>3, <3>6, <4>3, Zenon
        <5> QED BY <2>3, <4>3, <5>1, Zenon DEF N
      <4> QED BY <3>5, <4>1, <4>2, <4>3, Zenon
    <3>7. ASSUME NEW i \in 1 .. N + 1
          PROVE  /\ acked[callbacks'[i].producer] + callbacks'[i].count
                      = lastACK'[callbacks'[i].producer]
                 /\ lastACK'[callbacks'[i].producer]
                      = Count(log, callbacks'[i].producer, head + ackCount)
      <4>1. CASE i = N + 1
        <5>1. acked[p] + (all - lastACK[p]) = all BY <2>3, <3>4
        <5> QED BY <1>5, <2>5, <3>1, <3>3, <4>1, <5>1, Zenon
      <4>2. CASE i \in 1 .. N
        <5>1. callbacks'[i] = callbacks[i] /\ callbacks[i].producer # p
              /\ callbacks[i].producer \in AckProducers
          BY <2>3, <3>3, <4>2, Zenon DEF N
        <5>2. /\ acked[callbacks[i].producer] + callbacks[i].count = lastACK[callbacks[i].producer]
              /\ lastACK[callbacks[i].producer] = Count(log, callbacks[i].producer, head + ackCount)
          BY <1>6, <4>2, Zenon DEF AInv, CallbacksOwed, N
        <5> QED BY <2>5, <5>1, <5>2, Zenon
      <4> QED BY <3>5, <4>1, <4>2, Zenon
    <3>8. ASSUME NEW q \in AckProducers, \A i \in 1 .. N + 1 : callbacks'[i].producer # q
          PROVE  acked[q] = lastACK'[q]
      <4>1. N + 1 \in 1 .. N + 1 /\ \A i \in 1 .. N : i \in 1 .. N + 1 BY <3>3
      <4>2. q # p BY <3>1, <3>3, <3>8, <4>1, Zenon
      <4>3. \A i \in 1 .. N : callbacks[i].producer # q BY <3>3, <3>8, <4>1, Zenon
      <4>4. acked[q] = lastACK[q] BY <4>3, Zenon DEF AInv, CallbacksOwed, N
      <4> QED BY <2>5, <4>2, <4>4, Zenon
    <3>9. ackPc' \notin {"wait", "collect", "exited"} BY <1>6
    <3>10. /\ Len(callbacks') = N + 1 /\ ackPc' = ackPc /\ acked' = acked /\ log' = log
           /\ head' = head /\ ackCount' = ackCount
      BY <1>6, <3>3, Zenon
    <3>11. /\ \A i, j \in 1 .. Len(callbacks') :
                callbacks'[i].producer = callbacks'[j].producer => i = j
           /\ \A i \in 1 .. Len(callbacks') :
                /\ acked'[callbacks'[i].producer] + callbacks'[i].count
                     = lastACK'[callbacks'[i].producer]
                /\ lastACK'[callbacks'[i].producer]
                     = Count(log', callbacks'[i].producer, head' + ackCount')
           /\ \A q \in AckProducers :
                (\A i \in 1 .. Len(callbacks') : callbacks'[i].producer # q)
                  => acked'[q] = lastACK'[q]
      BY <3>6, <3>7, <3>8, <3>10, Zenon
    <3> QED BY <3>9, <3>11, Zenon DEF CallbacksOwed
  <2> QED BY <1>9, <1>10, <1>11, <1>12, <1>13, <2>6, <2>7, Zenon DEF AInv
<1> QED BY <1>16, <1>17

\* A callback settles what its producer is owed.
LEMMA CallbackAInv ==
  ASSUME AInv, IInv', RunCallback
  PROVE  AInv'
<1> DEFINE Callback == [producer : AckProducers, count : Nat \ {0}]
           f == Head(callbacks)
           N == Len(callbacks)
<1>1. /\ callbacks \in Seq(Callback) /\ acked \in [AckProducers -> Nat]
      /\ ackPc = "callbacks" /\ callbacks' = Tail(callbacks)
      /\ acked' = [acked EXCEPT ![f.producer] = @ + f.count]
      /\ ackPc' = (IF N = 1 THEN "wait" ELSE "callbacks")
      /\ UNCHANGED <<buf, runVars, batches, pushChan, ackSlots, ackCount, lastACK, queueACKed,
                     pubVars, histVars>>
  BY Zenon DEF AInv, IInv, TypeOK, RunCallback
<1>2. callbacks # <<>> BY Zenon, <1>1 DEF AInv, IInv, AckRange
<1> HIDE DEF Callback
<1>3. /\ N \in Nat \ {0} /\ f = callbacks[1] /\ f \in Callback /\ Len(callbacks') = N - 1
      /\ \A i \in 1 .. N - 1 : callbacks'[i] = callbacks[i + 1] /\ callbacks[i + 1] \in Callback
      /\ callbacks' \in Seq(Callback)
  BY <1>1, <1>2
<1> HIDE DEF f, N
<1>4. f.producer \in AckProducers /\ f.count \in Nat BY <1>3 DEF Callback
<1>5. 1 \in 1 .. N /\ \A i \in 1 .. N - 1 : i + 1 \in 1 .. N /\ i + 1 # 1 BY <1>3
<1>6. /\ acked'[f.producer] = lastACK[f.producer]
      /\ \A q \in AckProducers : q # f.producer => acked'[q] = acked[q]
  <2>1. acked'[f.producer] = acked[f.producer] + f.count BY <1>1, <1>4
  <2>2. acked[f.producer] + f.count = lastACK[f.producer]
    BY <1>3, <1>5, Zenon DEF AInv, CallbacksOwed, N
  <2>3. \A q \in AckProducers : q # f.producer => acked'[q] = acked[q] BY <1>1
  <2> QED BY <2>1, <2>2, <2>3, Zenon
<1>7. CallbacksOwed'
  <2>1. ackPc' \in {"wait", "collect", "exited"} => callbacks' = <<>>
    <3>1. ackPc' \in {"wait", "collect", "exited"} => Len(callbacks') = 0 BY <1>1, <1>3
    <3>2. Len(callbacks') = 0 => callbacks' = <<>>
      <4>1. callbacks' \in Seq(Callback) BY <1>3
      <4> QED BY <4>1
    <3> QED BY <3>1, <3>2
  <2>2. ASSUME NEW i \in 1 .. N - 1, NEW j \in 1 .. N - 1,
               callbacks'[i].producer = callbacks'[j].producer
        PROVE  i = j
    <3>1. i + 1 = j + 1
      <4>1. callbacks[i + 1].producer = callbacks[j + 1].producer BY <1>3, <2>2, Zenon
      <4>2. i + 1 \in 1 .. N /\ j + 1 \in 1 .. N BY <1>5, Zenon
      <4> QED BY <4>1, <4>2, Zenon DEF AInv, CallbacksOwed, N
    <3> QED BY <1>3, <3>1
  <2>3. ASSUME NEW i \in 1 .. N - 1
        PROVE  /\ callbacks'[i].producer \in AckProducers /\ callbacks'[i].producer # f.producer
               /\ acked'[callbacks'[i].producer] + callbacks'[i].count
                    = lastACK[callbacks'[i].producer]
    <3>1. callbacks'[i] = callbacks[i + 1] /\ callbacks[i + 1] \in Callback BY <1>3, Zenon
    <3>2. i + 1 \in 1 .. N /\ i + 1 # 1 BY <1>5, Zenon
    <3>3. callbacks[i + 1].producer \in AckProducers BY <3>1 DEF Callback
    <3>4. callbacks[i + 1].producer # f.producer
      BY <1>3, <1>5, <3>2, Zenon DEF AInv, CallbacksOwed, N
    <3>5. acked[callbacks[i + 1].producer] + callbacks[i + 1].count
            = lastACK[callbacks[i + 1].producer]
      BY <3>2, Zenon DEF AInv, CallbacksOwed, N
    <3> QED BY <1>6, <3>1, <3>3, <3>4, <3>5, Zenon
  <2>4. ASSUME NEW q \in AckProducers, \A i \in 1 .. N - 1 : callbacks'[i].producer # q
        PROVE  acked'[q] = lastACK[q]
    <3>1. CASE q = f.producer BY <1>6, <3>1, Zenon
    <3>2. CASE q # f.producer
      <4>1. ASSUME NEW k \in 1 .. N PROVE callbacks[k].producer # q
        <5>1. CASE k = 1 BY <1>3, <3>2, <5>1, Zenon
        <5>2. CASE k # 1
          <6>1. k - 1 \in 1 .. N - 1 /\ (k - 1) + 1 = k BY <1>3, <5>2
          <6> QED BY <1>3, <2>4, <6>1, Zenon
        <5> QED BY <5>1, <5>2
      <4>2. acked[q] = lastACK[q] BY <4>1, Zenon DEF AInv, CallbacksOwed, N
      <4> QED BY <1>6, <3>2, <4>2, Zenon
    <3> QED BY <3>1, <3>2
  <2>5. ackPc' # "scan" BY <1>1
  <2>6. Len(callbacks') = N - 1 /\ lastACK' = lastACK BY <1>1, <1>3, Zenon
  <2>7. /\ \A i, j \in 1 .. Len(callbacks') :
             callbacks'[i].producer = callbacks'[j].producer => i = j
        /\ \A i \in 1 .. Len(callbacks') :
             acked'[callbacks'[i].producer] + callbacks'[i].count
               = lastACK'[callbacks'[i].producer]
        /\ \A q \in AckProducers :
             (\A i \in 1 .. Len(callbacks') : callbacks'[i].producer # q)
               => acked'[q] = lastACK'[q]
    BY <2>2, <2>3, <2>4, <2>6, Zenon
  <2> QED BY <2>1, <2>5, <2>7, Zenon DEF CallbacksOwed
<1> USE DEF runVars, pubVars, histVars
<1>8. LogNumbered' BY <1>1, LogStutter, Zenon DEF AInv
<1>9. RequestsNumbered' BY <1>1, Zenon DEF AInv, RequestsNumbered, NoRequest
<1>10. BatchChain' /\ FinishedAt' BY <1>1, Zenon DEF AInv, BatchChain, Start, FinishedAt
<1>11. SlotsAt'
  <2>1. ackCount = 0 /\ Len(ackSlots) <= ackCount BY <1>1 DEF AInv, SlotsAt
  <2>2. Len(ackSlots) \in Nat
    BY QueueNumbers, Zenon DEF AInv
  <2>3. Len(ackSlots) = ackCount BY <2>1, <2>2
  <2> QED BY <1>1, <2>1, <2>3, Zenon DEF AInv, SlotsAt
<1>12. EntriesAt' BY <1>1, Zenon DEF AInv, EntriesAt, Visited
<1>13. LastACKs' BY <1>1, Zenon DEF AInv, LastACKs, Visited
<1>14. QueueCount'
  <2>1. ackPc \notin {"scan", "delete"} /\ ackPc' \notin {"scan", "delete"} BY <1>1
  <2> QED BY <1>1, <2>1, Zenon DEF AInv, QueueCount
<1> QED BY <1>7, <1>8, <1>9, <1>10, <1>11, <1>12, <1>13, <1>14, Zenon DEF AInv

\* The other steps of ackLoop only move its program counter, and report the collected
\* count to the queue's own callback before processACK starts.
LEMMA AckRestAInv ==
  ASSUME AInv, IInv', AckCollected \/ ScanDone \/ AckLoopExit
  PROVE  AInv'
<1>1. UNCHANGED <<buf, runVars, batches, pushChan, ackSlots, ackCount, callbacks, lastACK, acked,
                  pubVars, histVars>>
  BY Zenon DEF AckCollected, ScanDone, AckLoopExit
<1>2. ackSlots \in Seq(Slots) /\ ackCount \in Nat /\ head \in Nat /\ queueACKed \in Nat
  BY Zenon DEF AInv, IInv, TypeOK
<1>3. Len(ackSlots) \in Nat BY <1>2
<1> USE DEF runVars, pubVars, histVars
<1>4. LogNumbered' BY <1>1, LogStutter, Zenon DEF AInv
<1>5. RequestsNumbered' BY <1>1, Zenon DEF AInv, RequestsNumbered, NoRequest
<1>6. BatchChain' /\ FinishedAt' BY <1>1, Zenon DEF AInv, BatchChain, Start, FinishedAt
<1>7. EntriesAt' BY <1>1, Zenon DEF AInv, EntriesAt, Visited
<1>8. LastACKs' BY <1>1, Zenon DEF AInv, LastACKs, Visited
<1>9. SlotsAt' /\ QueueCount' /\ CallbacksOwed'
  <2>1. CASE AckCollected
    <3>1. /\ ackPc = "collect" /\ queueACKed' = queueACKed + ackCount
          /\ ackPc' = (IF ackCount > 0 THEN "scan" ELSE "wait")
      BY <2>1 DEF AckCollected
    <3>2. /\ Len(ackSlots) = ackCount /\ callbacks = <<>> /\ queueACKed = head
          /\ \A i \in 1 .. Len(ackSlots) : ackSlots[i] = Slot(head + i - 1)
      BY Zenon, <3>1 DEF AInv, SlotsAt, CallbacksOwed, QueueCount
    <3>3. SlotsAt'
      <4>1. ackPc' \in {"wait", "callbacks", "exited"} => ackCount = 0 BY <1>2, <3>1
      <4>2. ackCount <= ackCount BY <1>2
      <4> QED BY <1>1, <3>2, <4>1, <4>2, Zenon DEF SlotsAt
    <3>4. QueueCount'
      <4>1. CASE ackCount > 0
        <5>1. ackPc' = "scan" /\ queueACKed' = head + ackCount BY <1>2, <3>1, <3>2, <4>1
        <5> QED BY <1>1, <5>1 DEF QueueCount
      <4>2. CASE ~(ackCount > 0)
        <5>1. ackPc' = "wait" /\ queueACKed' = head BY <1>2, <3>1, <3>2, <4>2
        <5> QED BY <1>1, <5>1 DEF QueueCount
      <4> QED BY <4>1, <4>2
    <3>5. CallbacksOwed'
      <4>1. \A i \in 1 .. Len(callbacks) : FALSE BY <3>2
      <4> QED BY <1>1, <3>2, <4>1, Zenon DEF AInv, CallbacksOwed
    <3> QED BY <3>3, <3>4, <3>5
  <2>2. CASE ScanDone
    <3>1. ackPc = "scan" /\ ackPc' = "delete" /\ queueACKed' = queueACKed /\ ackSlots = <<>>
      BY <2>2 DEF ScanDone
    <3> QED BY Zenon, <1>1, <3>1 DEF AInv, SlotsAt, QueueCount, CallbacksOwed
  <2>3. CASE AckLoopExit
    <3>1. ackPc = "wait" /\ ackPc' = "exited" /\ queueACKed' = queueACKed
      BY <2>3 DEF AckLoopExit
    <3> QED BY Zenon, <1>1, <3>1 DEF AInv, SlotsAt, QueueCount, CallbacksOwed
  <2> QED BY <2>1, <2>2, <2>3
<1> QED BY <1>4, <1>5, <1>6, <1>7, <1>8, <1>9, Zenon DEF AInv

-----------------------------------------------------------------------------
(* The theorems, for the queue as the pipeline uses it: no producer has           *)
(* DropOnCancel, so no event that was numbered ever leaves the queue undelivered.  *)

\* Nothing is inserted, requested or owed initially.
LEMMA InitAInv == Init => AInv
<1> SUFFICES ASSUME Init PROVE AInv OBVIOUS
<1>1. IInv BY InitIInv
<1>2. /\ head = 0 /\ eventCount = 0 /\ ackCount = 0 /\ consumedCount = 0 /\ log = <<>>
      /\ ackSlots = <<>> /\ batches = <<>> /\ pushChan = <<>> /\ callbacks = <<>>
      /\ nextEntryID = 0 /\ ackPc = "wait" /\ queueACKed = 0
  BY Zenon DEF Init
<1>3. /\ Len(log) = 0 /\ Len(ackSlots) = 0 /\ Len(batches) = 0 /\ Len(pushChan) = 0
      /\ Len(callbacks) = 0
  BY <1>2
<1>4. AckProducers \subseteq Producers BY ConstantsAssumption
<1>5. ASSUME NEW p \in AckProducers
      PROVE  lastACK[p] = 0 /\ acked[p] = 0 /\ pubPc[p] = "idle" /\ producedCount[p] = 0
             /\ Count(log, p, 0) = 0
  <2>1. Count(log, p, 0) = 0 BY CountZero
  <2> QED BY <1>4, <2>1 DEF Init
<1>6. LogNumbered BY <1>2, <1>3, <1>5 DEF LogNumbered
<1>7. RequestsNumbered
  <2>1. \A i \in 1 .. Len(pushChan) : FALSE BY <1>3
  <2>2. \A p \in AckProducers : pubPc[p] # "wait" /\ pubPc[p] # "replied" BY <1>5
  <2> QED BY <1>3, <1>5, <2>1, <2>2, Zenon DEF RequestsNumbered, NoRequest
<1>8. BatchChain BY <1>2, <1>3 DEF BatchChain, Start
<1>9. SlotsAt BY <1>2, <1>3 DEF SlotsAt
<1>10. EntriesAt BY <1>2 DEF EntriesAt
<1>11. LastACKs
  <2>1. Visited = {} BY <1>2, <1>3 DEF Visited
  <2> QED BY <1>2, <1>5, <2>1 DEF LastACKs
<1>12. CallbacksOwed
  <2>1. \A i \in 1 .. Len(callbacks) : FALSE BY <1>3
  <2> QED BY <1>2, <1>5, <2>1, Zenon DEF CallbacksOwed
<1>13. FinishedAt BY <1>2, <1>3 DEF FinishedAt
<1>14. QueueCount BY <1>2 DEF QueueCount
<1> QED BY <1>1, <1>6, <1>7, <1>8, <1>9, <1>10, <1>11, <1>12, <1>13, <1>14, Zenon DEF AInv

\* Every step keeps the invariant.
LEMMA NextAInv ==
  ASSUME DropOnCancel = {}, AInv, [Next]_vars
  PROVE  AInv'
<1>1. IInv' BY NextIInv DEF AInv
<1>2. CASE \E p \in Producers : ProducerStep(p) BY <1>1, <1>2, ProducerAInv
<1>3. CASE HandleInsert BY <1>1, <1>3, InsertAInv
<1>4. CASE HandleCancel
  <2>1. cancelChan \in Seq({}) /\ cancelChan # <<>> BY <1>4 DEF AInv, IInv, TypeOK, HandleCancel
  <2>2. Head(cancelChan) \in {} BY <2>1
  <2> QED BY <2>2
<1>5. CASE GetTimeout \/ \E n \in 0 .. Events : HandleGetRequest(n) BY <1>1, <1>5, GetAInv
<1>6. CASE HandleDelete BY <1>1, <1>6, DeleteAInv
<1>7. CASE ForwardConsumed \/ RunLoopExit \/ Close \/ UNCHANGED vars
  <2>1. UNCHANGED reqRest /\ UNCHANGED <<pushChan, pubVars>>
    BY <1>7, Zenon
       DEF ForwardConsumed, RunLoopExit, Close, vars, reqRest, runVars, ackVars, histVars
  <2>2. RequestsNumbered'
    BY <2>1, Zenon DEF AInv, RequestsNumbered, NoRequest, reqRest, pubVars
  <2> QED BY <1>1, <2>1, <2>2, RestStutter
<1>8. CASE AckCollect BY <1>1, <1>8, CollectAInv
<1>9. CASE ScanEntry BY <1>1, <1>9, ScanAInv
<1>10. CASE RunCallback BY <1>1, <1>10, CallbackAInv
<1>11. CASE AckCollected \/ ScanDone \/ AckLoopExit BY <1>1, <1>11, AckRestAInv
<1>12. CASE \E i \in 1 .. Len(batches) : FreeEntries(i) \/ Done(i)
  BY <1>1, <1>12, FreeAInv, DoneAInv
<1> QED BY <1>2, <1>3, <1>4, <1>5, <1>6, <1>7, <1>8, <1>9, <1>10, <1>11, <1>12
        DEF Next, RunLoopStep, AckLoopStep

\* lastACK counts a prefix of the producer's events, and all collected events are finished.
LEMMA AInvDelivered ==
  ASSUME AInv
  PROVE  AckedDelivered
<1> SUFFICES ASSUME NEW p \in AckProducers, NEW k \in 1 .. lastACK[p]
             PROVE  \E j \in finished : log[j].producer = p /\ log[j].producerID = k
  BY DEF AckedDelivered
<1>1. /\ head \in Nat /\ ackCount \in Nat /\ Len(log) = head + eventCount /\ eventCount \in Nat
      /\ ackCount <= eventCount
  BY QueueNumbers, Zenon DEF AInv
<1>2. PICK n : n = head + ackCount BY Zenon
<1>3. n \in Nat /\ head <= n /\ n <= Len(log) /\ Len(log) \in Nat BY <1>1, <1>2
<1>4. /\ Count(log, p, head) \in Nat /\ Count(log, p, n) \in Nat
      /\ Count(log, p, Len(log)) \in Nat
  BY <1>1, <1>3, CountType, Zenon
<1>5. Count(log, p, head) <= Count(log, p, n) /\ Count(log, p, n) <= Count(log, p, Len(log))
  BY <1>1, <1>3, CountMono, Zenon
<1>6. lastACK[p] = Count(log, p, head) \/ lastACK[p] = Count(log, p, n)
  BY <1>2, Zenon DEF AInv, LastACKs
<1>a. k \in Nat /\ 1 <= k /\ k <= lastACK[p]
  <2>1. lastACK[p] \in Nat BY <1>4, <1>6, Zenon
  <2> QED BY <2>1
<1>b. k <= Count(log, p, head) \/ k <= Count(log, p, n) BY <1>6, <1>a, Zenon
<1>7. k \in 1 .. Count(log, p, Len(log)) /\ k <= Count(log, p, n) BY <1>4, <1>5, <1>a, <1>b
<1>8. PICK j \in 1 .. Len(log) : log[j].producer = p /\ log[j].producerID = k
  BY <1>7, Zenon DEF AInv, LogNumbered
<1>9. k = Count(log, p, j)
  <2>1. p # Nil BY ConstantsAssumption
  <2> QED BY <1>8, <2>1, Zenon DEF AInv, LogNumbered
<1>10. j \in Nat /\ (j > n => n < j) BY <1>3
<1>11. ~(j > n)
  <2>1. j > n => Count(log, p, n) < Count(log, p, j) BY <1>3, <1>8, <1>10, CountMore, Zenon
  <2> QED BY <1>4, <1>7, <1>9, <2>1
<1>12. j \in 1 .. head + ackCount BY <1>2, <1>3, <1>11
<1>13. j \in finished BY Zenon, <1>12 DEF AInv, FinishedAt
<1> QED BY <1>8, <1>13

\* When ackLoop is idle nothing is collected and nothing is owed.
LEMMA AInvExact ==
  ASSUME AInv
  PROVE  AckExact
<1> SUFFICES ASSUME ackPc \in {"wait", "exited"}
             PROVE  /\ queueACKed = head
                    /\ \A p \in AckProducers : acked[p] = Count(log, p, head)
  BY Zenon DEF AckExact, Count
<1>1. queueACKed = head BY DEF AInv, QueueCount
<1>2. callbacks = <<>> BY DEF AInv, CallbacksOwed
<1>3. \A p \in AckProducers : acked[p] = lastACK[p]
  <2>1. \A i \in 1 .. Len(callbacks) : FALSE BY <1>2
  <2> QED BY <2>1, Zenon DEF AInv, CallbacksOwed
<1>4. Visited = {}
  <2>1. ackCount = 0 BY Zenon DEF AInv, SlotsAt
  <2>2. head \in Nat /\ Len(ackSlots) \in Nat BY QueueNumbers, Zenon DEF AInv
  <2> QED BY <2>1, <2>2 DEF Visited
<1>5. \A p \in AckProducers : lastACK[p] = Count(log, p, head) BY <1>4 DEF AInv, LastACKs
<1> QED BY <1>1, <1>3, <1>5

\* The oldest entry is the first one that is not deleted.
LEMMA AInvOldest ==
  ASSUME AInv
  PROVE  OldestEntryID = head
<1>1. /\ head \in Nat /\ bufPos = Slot(head) /\ Len(log) = head + eventCount
      /\ nextEntryID = Len(log) /\ eventCount \in 0 .. Events
  BY Zenon DEF AInv, IInv, TypeOK, RingOK, LogNumbered
<1>2. eventCount \in Nat /\ Events \in Nat \ {0} BY <1>1, ConstantsAssumption
<1>3. CASE eventCount > 0
  <2>1. head \in head .. head + eventCount - 1 BY <1>1, <1>2, <1>3
  <2>2. buf[Slot(head)].id = head BY <2>1, Zenon DEF AInv, EntriesAt
  <2>3. Slot(bufPos) = Slot(head) BY <1>1, <1>2, SlotSlot
  <2> QED BY <1>3, <2>2, <2>3, Zenon DEF OldestEntryID
<1>4. CASE ~(eventCount > 0)
  <2>1. nextEntryID = head BY <1>1, <1>2, <1>4
  <2> QED BY <1>4, <2>1, Zenon DEF OldestEntryID
<1> QED BY <1>3, <1>4

\* Every event a producer's ACK callback covers was in a batch that its consumer finished,
\* for any number of producers and any queue size.
THEOREM AcksOnlyDelivered ==
  ASSUME DropOnCancel = {}
  PROVE  Spec => []AckedDelivered
<1>1. AInv /\ [Next]_vars => AInv' BY NextAInv
<1>2. AInv => AckedDelivered BY AInvDelivered
<1> QED BY InitAInv, <1>1, <1>2, PTL DEF Spec

\* Coalescing ACK callbacks neither loses nor repeats one: whenever ackLoop is idle, every
\* producer was told of exactly its deleted events.
THEOREM AcksExactlyOnce ==
  ASSUME DropOnCancel = {}
  PROVE  Spec => []AckExact
<1>1. AInv /\ [Next]_vars => AInv' BY NextAInv
<1>2. AInv => AckExact BY AInvExact
<1> QED BY InitAInv, <1>1, <1>2, PTL DEF Spec

\* The oldest entry ID that Metrics reports never goes back.
THEOREM OldestNeverGoesBack ==
  ASSUME DropOnCancel = {}
  PROVE  Spec => OldestMonotone
<1>1. AInv /\ [Next]_vars => AInv' BY NextAInv
<1>2. AInv => OldestEntryID = head BY AInvOldest
<1>3. AInv /\ AInv' /\ OldestEntryID = head /\ (OldestEntryID = head)' /\ [Next]_vars
        => [OldestEntryID' >= OldestEntryID]_vars
  <2> SUFFICES ASSUME AInv, AInv', OldestEntryID = head, (OldestEntryID = head)',
                      Next \/ UNCHANGED vars
               PROVE  OldestEntryID' >= OldestEntryID \/ UNCHANGED vars
    OBVIOUS
  <2>1. OldestEntryID = head /\ OldestEntryID' = head' OBVIOUS
  <2>2. head \in Nat /\ head' \in Nat BY Zenon DEF AInv, IInv, TypeOK
  <2>3. CASE HandleDelete
    <3>1. head' = head + ackCount /\ ackCount \in Nat BY Zenon, <2>3 DEF HandleDelete, AInv, IInv, TypeOK
    <3> QED BY <2>1, <2>2, <3>1
  <2>4. CASE UNCHANGED vars BY <2>4
  <2>5. CASE Next /\ ~HandleDelete
    <3>1. head' = head
      BY <2>5, Zenon
         DEF Next, RunLoopStep, AckLoopStep, ProducerStep, PublishSend, PublishClosed,
             TryPublishFull, PublishReturn, PublishAbort, Cancel, CancelSend, HandleInsert,
             HandleCancel, GetTimeout, ForwardConsumed, RunLoopExit, HandleGetRequest, AckCollect,
             AckCollected, ScanEntry, ScanDone, RunCallback, AckLoopExit, FreeEntries, Done, Close,
             histVars
    <3> QED BY <2>1, <2>2, <3>1
  <2> QED BY <2>3, <2>4, <2>5
<1> QED BY InitAInv, <1>1, <1>2, <1>3, PTL DEF Spec, OldestMonotone
==============================================================================
