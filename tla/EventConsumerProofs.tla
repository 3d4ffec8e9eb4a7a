------------------------- MODULE EventConsumerProofs -------------------------
(***************************************************************************)
(* Theorems about the batches of the event consumer: each is done once,    *)
(* and its events are divided among the parts somebody still has, the      *)
(* events the output got and those that were given up, for any number of   *)
(* workers, batches, events, retries and reloads.                          *)
(*                                                                         *)
(* A batch moves from place to place, and the invariant says that no two   *)
(* places have the same one.  The set Live then loses nothing, and each    *)
(* step replaces at most one of its members.                               *)
(***************************************************************************)
EXTENDS EventConsumer, FiniteSetTheorems, TLAPS

-----------------------------------------------------------------------------
(* Who has a batch. *)

\* The batch on its way from the queue to a worker.
Incoming == {queueBatch, response} \ {NoBatch}

Retries == {retryBatches[i] : i \in 1 .. Len(retryBatches)}

\* What worker w has sent to the consumer's retry channel, or is about to.
Returned(w) == {requests[w][i].batch : i \in 1 .. Len(requests[w])}

With(w) == ({held[w]} \ {NoBatch}) \cup Returned(w)

\* The reader has a batch only for the read the consumer waits for, and it is a new one.
ReaderInv ==
  /\ pendingRead => queueBatch = NoBatch
  /\ response # NoBatch => reader = "response" /\ ~response.split
  /\ reader \in {"request", "response"} => pendingRead

\* The places have no batch in common, ...
Apart ==
  /\ Incoming \cap Retries = {}
  /\ \A w \in Workers : Incoming \cap With(w) = {} /\ Retries \cap With(w) = {}
  /\ \A v, w \in Workers : v # w => With(v) \cap With(w) = {}

\* ... and none has a batch twice: a worker holds its batch or sends it back.
PlaceInv ==
  /\ \A w \in Workers :
       /\ held[w] # NoBatch => requests[w] = <<>>
       /\ \A i, j \in 1 .. Len(requests[w]) :
            requests[w][i].batch = requests[w][j].batch => i = j
  /\ \A i, j \in 1 .. Len(retryBatches) : retryBatches[i] = retryBatches[j] => i = j
  /\ Apart

-----------------------------------------------------------------------------
(* What the batches are. *)

Settled(o) == acked[o] \cup dropped[o]

\* The events of o that some batch accounts for when it is done.
Parts(o) == UNION {b.part : b \in {c \in Live : c.from = o}}

\* A batch has the events of its part that are not settled.
LiveInv ==
  /\ \A b \in Live :
       /\ b.from \in 1 .. read
       /\ b.events = b.part \ Settled(b.from)
       /\ b.part # {}
       /\ ~b.split => b.part = Events
  /\ \A b, c \in Live : b.from = c.from /\ b # c => b.part \cap c.part = {}

\* The events in no part are settled, unless the batch was dropped on the floor when the
\* reader stopped.
CoverInv ==
  \A o \in 1 .. read :
    \/ Events \ Parts(o) \subseteq Settled(o)
    \/ consumer = "stopped" /\ doneCount[o] = 0 /\ \A b \in Live : b.from # o

\* A batch that is done, or not read yet, has no parts.
DoneInv ==
  \A o \in Originals :
    /\ doneCount[o] \in {0, 1}
    /\ doneCount[o] = 1 => Settled(o) = Events /\ \A b \in Live : b.from # o
    /\ o > read => doneCount[o] = 0 /\ Settled(o) = {}

\* Nothing that was split has lost events since: no partial retry, and no events without
\* guarantee to filter out when the time to live is over.
SplitsWhole ==
  "splitRetry" \in Replies =>
    /\ "retryEvents" \notin Replies
    /\ TimeToLive = 0 \/ Guaranteed = {} \/ Guaranteed = Events

\* The parts of a split batch account for no more than what is outstanding, and for all of
\* it when the parts that were split again were whole.
OutstandingInv ==
  \A b \in Live :
    b.split => /\ Cardinality(Parts(b.from)) <= outstanding[b.from]
               /\ SplitsWhole => Cardinality(Parts(b.from)) = outstanding[b.from]

\* Then a batch that is not done has a part.
PendingInv ==
  SplitsWhole =>
    /\ "splitRetry" \in Replies => \A b \in Live : b.events = b.part
    /\ consumer # "stopped" =>
         \A o \in 1 .. read : doneCount[o] = 0 => \E b \in Live : b.from = o

BatchInv == LiveInv /\ CoverInv /\ DoneInv /\ OutstandingInv /\ PendingInv

CInv == TypeOK /\ ReaderInv /\ PlaceInv /\ BatchInv

-----------------------------------------------------------------------------
(* Places. *)

Has(b) == b \in Incoming \/ b \in Retries \/ \E w \in Workers : b \in With(w)

LivePlaces == Live \subseteq Batch /\ \A b : b \in Live <=> Has(b)

\* Each place is one of the three kinds.
LEMMA LiveIs == TypeOK => LivePlaces
<1> SUFFICES ASSUME TypeOK PROVE LivePlaces OBVIOUS
<1>1. /\ retryBatches \in Seq(Batch) /\ requests \in [Workers -> Seq(Request)]
      /\ queueBatch \in Batch \cup {NoBatch} /\ response \in Batch \cup {NoBatch}
      /\ held \in [Workers -> Batch \cup {NoBatch}]
  BY Zenon DEF TypeOK
<1>2. /\ DOMAIN retryBatches = 1 .. Len(retryBatches)
      /\ \A w \in Workers : DOMAIN requests[w] = 1 .. Len(requests[w])
  BY <1>1
<1>3. \A i \in 1 .. Len(retryBatches) : retryBatches[i] \in Batch BY <1>1
<1>4. ASSUME NEW w \in Workers, NEW i \in 1 .. Len(requests[w])
      PROVE  requests[w][i].batch \in Batch
  <2>1. requests[w][i] \in Request BY <1>1
  <2> QED BY <2>1, Zenon DEF Request
<1>6. /\ \A b : b \in Retries <=> \E i \in DOMAIN retryBatches : b = retryBatches[i]
      /\ \A w \in Workers : \A b :
           b \in Returned(w) <=> \E i \in DOMAIN requests[w] : b = requests[w][i].batch
  BY <1>2, Zenon DEF Retries, Returned
<1>7. /\ Retries \subseteq Batch /\ Incoming \subseteq Batch
      /\ \A w \in Workers : With(w) \subseteq Batch
  <2>1. Retries \subseteq Batch BY <1>3, Zenon DEF Retries
  <2>2. Incoming \subseteq Batch BY <1>1, Zenon DEF Incoming
  <2>3. ASSUME NEW w \in Workers PROVE With(w) \subseteq Batch
    <3>1. Returned(w) \subseteq Batch BY <1>4, Zenon DEF Returned
    <3>2. held[w] \in Batch \cup {NoBatch} BY <1>1, Zenon
    <3> QED BY <3>1, <3>2, Zenon DEF With
  <2> QED BY <2>1, <2>2, <2>3, Zenon
<1>8. ASSUME NEW b PROVE b \in Live <=> Has(b)
  <2>1. b \in Live <=>
          /\ b # NoBatch
          /\ \/ b = queueBatch \/ b = response \/ \E i \in DOMAIN retryBatches : b = retryBatches[i]
             \/ \E w \in Workers : b = held[w]
             \/ \E w \in Workers : \E i \in DOMAIN requests[w] : b = requests[w][i].batch
    BY DEF Live, Places
  <2>2. Has(b) => b # NoBatch BY <1>7, NoBatchAssumption, Zenon DEF Has
  <2>3. b \in Incoming <=> b # NoBatch /\ (b = queueBatch \/ b = response)
    BY Zenon DEF Incoming
  <2>4. ASSUME NEW w \in Workers
        PROVE  b \in With(w) <=> \/ b # NoBatch /\ b = held[w]
                                 \/ \E i \in DOMAIN requests[w] : b = requests[w][i].batch
    BY <1>6, Zenon DEF With
  <2>5. ASSUME b \in Live PROVE Has(b) BY <1>6, <2>1, <2>3, <2>4, <2>5, Zenon DEF Has
  <2>6. ASSUME Has(b) PROVE b \in Live BY <1>6, <2>1, <2>2, <2>3, <2>4, <2>6, Zenon DEF Has
  <2> QED BY <2>5, <2>6, Zenon
<1>9. \A b \in Live : b \in Batch BY <1>7, <1>8, Zenon DEF Has
<1> QED BY <1>8, <1>9, Zenon DEF LivePlaces

\* Also after a step.
LEMMA LiveIsNext == TypeOK' => LivePlaces'
BY LiveIs, PTL

\* The place that has batch b loses it, and worker u gets the batches in N instead.
GivesWorker(b, u, N) ==
  /\ N \cap (Live \ {b}) = {}
  /\ Incoming' = Incoming \ {b}
  /\ Retries' = Retries \ {b}
  /\ With(u)' = (With(u) \ {b}) \cup N
  /\ \A w \in Workers \ {u} : With(w)' = With(w) \ {b}

\* Then no batch is in two places.
LEMMA GiveWorker ==
  ASSUME TypeOK, TypeOK', Apart, NEW b, NEW N, NEW u \in Workers, GivesWorker(b, u, N)
  PROVE  Apart' /\ Live' = (Live \ {b}) \cup N
<1> USE DEF GivesWorker
<1>1. /\ \A c : c \in Live <=> c \in Incoming \/ c \in Retries \/ \E w \in Workers : c \in With(w)
      /\ \A c : c \in Live' <=> c \in Incoming' \/ c \in Retries' \/ \E w \in Workers : c \in With(w)'
  BY LiveIs, LiveIsNext, Zenon DEF LivePlaces, Has
<1>2. \A w \in Workers : With(w) \subseteq Live BY <1>1, Zenon
<1>3. Incoming \subseteq Live /\ Retries \subseteq Live BY <1>1, Zenon
<1>4. Incoming' \cap Retries' = {} BY Zenon DEF Apart
<1>5. ASSUME NEW w \in Workers
      PROVE  Incoming' \cap With(w)' = {} /\ Retries' \cap With(w)' = {}
  BY <1>3, Zenon DEF Apart
<1>6. ASSUME NEW v \in Workers, NEW w \in Workers, v # w PROVE With(v)' \cap With(w)' = {}
  <2>1. CASE v = u BY <1>2, <1>6, <2>1, Zenon DEF Apart
  <2>2. CASE w = u BY <1>2, <1>6, <2>2, Zenon DEF Apart
  <2> QED BY <1>6, <2>1, <2>2, Zenon DEF Apart
<1>7. Live' = (Live \ {b}) \cup N
  <2>1. ASSUME NEW c \in Live' PROVE c \in (Live \ {b}) \cup N
    <3>1. c \in Incoming' => c \in Live \ {b} BY <1>1, Zenon
    <3>2. c \in Retries' => c \in (Live \ {b}) \cup N BY <1>1, Zenon
    <3>3. \A w \in Workers : c \in With(w)' => c \in (Live \ {b}) \cup N BY <1>2, Zenon
    <3> QED BY <1>1, <3>1, <3>2, <3>3, Zenon
  <2>2. ASSUME NEW c \in (Live \ {b}) \cup N PROVE c \in Live' BY <1>1, <2>2, Zenon
  <2> QED BY <2>1, <2>2, Zenon
<1> QED BY <1>4, <1>5, <1>6, <1>7, Zenon DEF Apart

\* The same when it goes to the batches to retry.
LEMMA GiveRetries ==
  ASSUME TypeOK, TypeOK', Apart, NEW b, NEW N,
         N \cap (Live \ {b}) = {},
         Incoming' = Incoming \ {b}, Retries' = (Retries \ {b}) \cup N,
         \A w \in Workers : With(w)' = With(w) \ {b}
  PROVE  Apart' /\ Live' = (Live \ {b}) \cup N
<1>1. /\ \A c : c \in Live <=> c \in Incoming \/ c \in Retries \/ \E w \in Workers : c \in With(w)
      /\ \A c : c \in Live' <=> c \in Incoming' \/ c \in Retries' \/ \E w \in Workers : c \in With(w)'
  BY LiveIs, LiveIsNext, Zenon DEF LivePlaces, Has
<1>2. \A w \in Workers : With(w) \subseteq Live BY <1>1, Zenon
<1>3. Incoming \subseteq Live /\ Retries \subseteq Live BY <1>1, Zenon
<1>4. Incoming' \cap Retries' = {} BY <1>3, Zenon DEF Apart
<1>5. ASSUME NEW w \in Workers
      PROVE  Incoming' \cap With(w)' = {} /\ Retries' \cap With(w)' = {}
  BY <1>2, Zenon DEF Apart
<1>6. ASSUME NEW v \in Workers, NEW w \in Workers, v # w PROVE With(v)' \cap With(w)' = {}
  BY <1>6, Zenon DEF Apart
<1>7. Live' = (Live \ {b}) \cup N
  <2>1. ASSUME NEW c \in Live' PROVE c \in (Live \ {b}) \cup N
    <3>1. c \in Incoming' => c \in Live \ {b} BY <1>1, Zenon
    <3>2. c \in Retries' => c \in (Live \ {b}) \cup N BY <1>1, Zenon
    <3>3. \A w \in Workers : c \in With(w)' => c \in (Live \ {b}) \cup N BY <1>2, Zenon
    <3> QED BY <1>1, <3>1, <3>2, <3>3, Zenon
  <2>2. ASSUME NEW c \in (Live \ {b}) \cup N PROVE c \in Live' BY <1>1, <2>2, Zenon
  <2> QED BY <2>1, <2>2, Zenon
<1> QED BY <1>4, <1>5, <1>6, <1>7, Zenon DEF Apart

-----------------------------------------------------------------------------
(* What a step does to the parts of the batches. *)

\* The types of what the invariant is about.
LEMMA PartTypes ==
  ASSUME TypeOK
  PROVE  /\ \A b \in Live : /\ b.from \in Originals /\ b.part \subseteq Events
                            /\ b.events \subseteq Events /\ b.split \in BOOLEAN
         /\ \A o \in Originals : Settled(o) \subseteq Events
         /\ read \in Nat /\ 1 .. read \subseteq Originals
         /\ Events # {}
<1>1. \A b \in Live : b \in Batch BY LiveIs, Zenon DEF LivePlaces
<1>2. \A b \in Batch : /\ b.from \in Originals /\ b.part \subseteq Events
                        /\ b.events \subseteq Events /\ b.split \in BOOLEAN
  BY DEF Batch
<1>3. acked \in [Originals -> SUBSET Events] /\ dropped \in [Originals -> SUBSET Events]
  BY Zenon DEF TypeOK
<1>4. \A o \in Originals : Settled(o) \subseteq Events BY <1>3 DEF Settled
<1>5. read \in 0 .. MaxBatches /\ MaxBatches \in Nat /\ Size \in Nat \ {0}
  BY EventConsumerAssumption, Zenon DEF TypeOK
<1>6. read \in Nat /\ 1 .. read \subseteq Originals BY <1>5 DEF Originals
<1>7. 1 \in Events BY <1>5 DEF Events
<1> QED BY <1>1, <1>2, <1>4, <1>6, <1>7, Zenon

\* The sizes of a part and of what is left without it.
LEMMA PartSizes ==
  ASSUME TypeOK, BatchInv, NEW b \in Live
  PROVE  /\ IsFiniteSet(Parts(b.from))
         /\ Cardinality(Parts(b.from)) \in Nat
         /\ Cardinality(b.part) \in Nat
         /\ Cardinality(Parts(b.from) \ b.part) \in Nat
         /\ Cardinality(Parts(b.from) \ b.part) = 0 <=> Parts(b.from) \ b.part = {}
         /\ Cardinality(Parts(b.from) \ b.part) = Cardinality(Parts(b.from)) - Cardinality(b.part)
<1>1. IsFiniteSet(Events)
  <2>1. Size \in Nat BY EventConsumerAssumption
  <2> QED BY <2>1, FS_Interval DEF Events
<1>2. \A c \in Live : c.part \subseteq Events BY PartTypes, Zenon
<1>3. Parts(b.from) \subseteq Events BY <1>2, Zenon DEF Parts
<1>4. b.part \subseteq Parts(b.from) BY Zenon DEF Parts
<1>5. IsFiniteSet(Parts(b.from)) BY <1>1, <1>3, FS_Subset, Zenon
<1>6. Parts(b.from) \cap b.part = b.part BY <1>4, Zenon
<1>7. /\ IsFiniteSet(Parts(b.from) \ b.part)
      /\ Cardinality(Parts(b.from) \ b.part)
           = Cardinality(Parts(b.from)) - Cardinality(Parts(b.from) \cap b.part)
  BY <1>5, FS_Difference, Zenon
<1>8. IsFiniteSet(b.part) BY <1>4, <1>5, FS_Subset, Zenon
<1> QED BY <1>5, <1>6, <1>7, <1>8, FS_CardinalityType, FS_EmptySet, Zenon

\* Batches that only move.
LEMMA KeepStep ==
  ASSUME BatchInv, Live' = Live, UNCHANGED <<read, doneVars, history>>,
         consumer = "stopped" => consumer' = "stopped"
  PROVE  BatchInv'
<1> USE DEF doneVars, history
<1>1. \A o : Parts(o)' = Parts(o) BY Zenon DEF Parts
<1>2. \A o : Settled(o)' = Settled(o) BY Zenon DEF Settled
<1>3. LiveInv' BY <1>2, Zenon DEF BatchInv, LiveInv
<1>4. CoverInv' BY <1>1, <1>2, Zenon DEF BatchInv, CoverInv
<1>5. DoneInv' BY <1>2, Zenon DEF BatchInv, DoneInv
<1>6. OutstandingInv' BY <1>1, Zenon DEF BatchInv, OutstandingInv
<1>7. PendingInv' BY Zenon DEF BatchInv, PendingInv
<1> QED BY <1>3, <1>4, <1>5, <1>6, <1>7, Zenon DEF BatchInv

\* A batch of which some events were settled.
LEMMA ChangeStep ==
  ASSUME TypeOK, BatchInv, NEW b \in Live, NEW c,
         c.from = b.from, c.part = b.part, c.split = b.split, c.events \subseteq b.events,
         SplitsWhole /\ "splitRetry" \in Replies => c.events = b.events,
         Live' = (Live \ {b}) \cup {c},
         \A o \in Originals : Settled(o)' = IF o = b.from THEN Settled(o) \cup (b.events \ c.events)
                                             ELSE Settled(o),
         UNCHANGED <<read, consumer, doneVars>>
  PROVE  BatchInv'
<1> USE DEF doneVars
<1>1. ASSUME NEW o PROVE Parts(o)' = Parts(o)
  <2>1. ASSUME NEW e PROVE e \in Parts(o)' <=> e \in Parts(o)
    <3>1. e \in Parts(o) <=> \E x \in Live : x.from = o /\ e \in x.part BY Zenon DEF Parts
    <3>2. e \in Parts(o)' <=> \E x \in Live' : x.from = o /\ e \in x.part BY Zenon DEF Parts
    <3> QED BY <3>1, <3>2, Zenon
  <2> QED BY <2>1 DEF Parts
<1>2. /\ \A x \in Live : x.from \in Originals /\ x.from \in 1 .. read
      /\ \A o \in Originals : Settled(o) \subseteq Events
      /\ 1 .. read \subseteq Originals /\ b.events \subseteq Events
  BY PartTypes, Zenon DEF BatchInv, LiveInv
<1>3. LiveInv'
  <2>1. \A x \in Live \ {b} : x.from = b.from => x.part \cap b.part = {}
    BY Zenon DEF BatchInv, LiveInv
  <2>2. b.events = b.part \ Settled(b.from) BY Zenon DEF BatchInv, LiveInv
  <2>3. ASSUME NEW x \in Live'
        PROVE  /\ x.from \in 1 .. read' /\ x.part # {} /\ (~x.split => x.part = Events)
               /\ x.events = x.part \ Settled(x.from)'
    <3>1. CASE x = c
      <4>1. Settled(c.from)' = Settled(b.from) \cup (b.events \ c.events) BY <1>2, Zenon
      <4>2. c.events = c.part \ Settled(c.from)' BY <2>2, <4>1, Zenon
      <4> QED BY <3>1, <4>2, <1>2, Zenon DEF BatchInv, LiveInv
    <3>2. CASE x \in Live \ {b}
      <4>1. x.events = x.part \ Settled(x.from) BY <3>2, Zenon DEF BatchInv, LiveInv
      <4>2. x.from # b.from => Settled(x.from)' = Settled(x.from) BY <1>2, <3>2, Zenon
      <4>3. x.from = b.from => Settled(x.from)' = Settled(x.from) \cup (b.events \ c.events)
        BY <1>2, <3>2, Zenon
      <4>4. x.events = x.part \ Settled(x.from)' BY <2>1, <2>2, <3>2, <4>1, <4>2, <4>3, Zenon
      <4> QED BY <3>2, <4>4, Zenon DEF BatchInv, LiveInv
    <3> QED BY <3>1, <3>2, Zenon
  <2>4. ASSUME NEW x \in Live', NEW y \in Live', x.from = y.from, x # y
        PROVE  x.part \cap y.part = {}
    <3>1. CASE x = c BY <2>1, <2>4, <3>1, Zenon
    <3>2. CASE y = c BY <2>1, <2>4, <3>2, Zenon
    <3>3. CASE x \in Live /\ y \in Live BY <2>4, <3>3, Zenon DEF BatchInv, LiveInv
    <3> QED BY <3>1, <3>2, <3>3, Zenon
  <2> QED BY <2>3, <2>4, Zenon DEF LiveInv
<1>4. CoverInv'
  <2>1. ASSUME NEW o \in 1 .. read
        PROVE  \/ Events \ Parts(o)' \subseteq Settled(o)'
               \/ consumer' = "stopped" /\ doneCount'[o] = 0 /\ \A x \in Live' : x.from # o
    <3>1. Settled(o) \subseteq Settled(o)' BY <1>2, Zenon
    <3>2. CASE Events \ Parts(o) \subseteq Settled(o) BY <1>1, <3>1, <3>2, Zenon
    <3>3. CASE consumer = "stopped" /\ doneCount[o] = 0 /\ \A x \in Live : x.from # o
      BY <3>3, Zenon
    <3> QED BY <3>2, <3>3, Zenon DEF BatchInv, CoverInv
  <2> QED BY <2>1, Zenon DEF CoverInv
<1>5. DoneInv'
  <2>1. ASSUME NEW o \in Originals
        PROVE  /\ doneCount'[o] \in {0, 1}
               /\ doneCount'[o] = 1 => Settled(o)' = Events /\ \A x \in Live' : x.from # o
               /\ o > read' => doneCount'[o] = 0 /\ Settled(o)' = {}
    <3>1. b.from = o => ~(o > read)
      <4>1. b.from \in 1 .. read /\ read \in Nat BY <1>2, PartTypes, Zenon
      <4> QED BY <4>1
    <3>2. b.from = o => doneCount[o] # 1 BY Zenon DEF BatchInv, DoneInv
    <3> QED BY <1>2, <3>1, <3>2, Zenon DEF BatchInv, DoneInv
  <2> QED BY <2>1, Zenon DEF DoneInv
<1>6. OutstandingInv' BY <1>1, Zenon DEF BatchInv, OutstandingInv
<1>7. PendingInv' BY Zenon DEF BatchInv, PendingInv
<1> QED BY <1>3, <1>4, <1>5, <1>6, <1>7, Zenon DEF BatchInv

\* A batch that is done.
LEMMA RemoveStep ==
  ASSUME TypeOK, BatchInv, NEW b \in Live, Done(b), Live' = Live \ {b},
         \A o \in Originals : Settled(o)' = IF o = b.from THEN Settled(o) \cup b.events
                                             ELSE Settled(o),
         UNCHANGED <<read, consumer>>
  PROVE  BatchInv'
<1>1. /\ \A x \in Live : /\ x.from \in Originals /\ x.from \in 1 .. read
                         /\ x.events = x.part \ Settled(x.from)
                         /\ x.part \subseteq Events /\ x.part # {}
      /\ \A o \in Originals : Settled(o) \subseteq Events
      /\ 1 .. read \subseteq Originals /\ b.events \subseteq Events /\ b.split \in BOOLEAN
      /\ \A x \in Live \ {b} : x.from = b.from => x.part \cap b.part = {}
      /\ ~b.split => b.part = Events
  BY PartTypes, Zenon DEF BatchInv, LiveInv
<1>2. ASSUME NEW o, NEW e
      PROVE  e \in Parts(o)' <=> e \in Parts(o) /\ ~(o = b.from /\ e \in b.part)
  <2>1. e \in Parts(o) <=> \E x \in Live : x.from = o /\ e \in x.part BY Zenon DEF Parts
  <2>2. e \in Parts(o)' <=> \E x \in Live' : x.from = o /\ e \in x.part BY Zenon DEF Parts
  <2> QED BY <1>1, <2>1, <2>2, Zenon
<1>3. Parts(b.from)' = Parts(b.from) \ b.part BY <1>2 DEF Parts
<1>4. \A o : o # b.from => Parts(o)' = Parts(o) BY <1>2 DEF Parts
<1>5. /\ outstanding \in [Originals -> Int] /\ doneCount \in [Originals -> Nat]
  BY Zenon DEF TypeOK
<1>6. /\ \A o \in Originals : o # b.from => outstanding'[o] = outstanding[o]
                                           /\ doneCount'[o] = doneCount[o]
      /\ outstanding[b.from] \in Int
      /\ b.split => outstanding'[b.from] = outstanding[b.from] - Cardinality(b.part)
      /\ doneCount'[b.from] = IF ~b.split \/ outstanding'[b.from] = 0
                              THEN doneCount[b.from] + 1 ELSE doneCount[b.from]
  BY <1>1, <1>5 DEF Done, LastPart
<1>7. doneCount[b.from] = 0 BY <1>1, Zenon DEF BatchInv, DoneInv
<1>8. \A x \in Live' : x \in Live /\ x # b OBVIOUS
<1>9. ~b.split => \A x \in Live' : x.from # b.from BY <1>1, <1>8, Zenon
<1>10. LiveInv'
  <2>1. ASSUME NEW x \in Live'
        PROVE  /\ x.from \in 1 .. read' /\ x.part # {} /\ (~x.split => x.part = Events)
               /\ x.events = x.part \ Settled(x.from)'
    <3>1. x.events = x.part \ Settled(x.from) BY <1>1, <1>8, Zenon
    <3>2. x.from # b.from => Settled(x.from)' = Settled(x.from) BY <1>1, <1>8, Zenon
    <3>3. x.from = b.from => Settled(x.from)' = Settled(x.from) \cup b.events
      BY <1>1, <1>8, Zenon
    <3>4. b.events \subseteq b.part BY <1>1, Zenon
    <3>5. x.from = b.from => x.part \cap b.part = {} BY <1>1, <1>8, Zenon
    <3>6. x.events = x.part \ Settled(x.from)' BY <3>1, <3>2, <3>3, <3>4, <3>5, Zenon
    <3> QED BY <1>8, <3>6, Zenon DEF BatchInv, LiveInv
  <2> QED BY <1>8, <2>1, Zenon DEF BatchInv, LiveInv
<1>11. Events \ Parts(b.from)' \subseteq Settled(b.from)'
  <2>1. Events \ Parts(b.from) \subseteq Settled(b.from) BY <1>1, Zenon DEF BatchInv, CoverInv
  <2>2. Settled(b.from)' = Settled(b.from) \cup b.events BY <1>1, Zenon
  <2> QED BY <1>1, <1>3, <2>1, <2>2, Zenon
<1>12. CoverInv'
  <2>1. ASSUME NEW o \in 1 .. read, o # b.from
        PROVE  \/ Events \ Parts(o)' \subseteq Settled(o)'
               \/ consumer' = "stopped" /\ doneCount'[o] = 0 /\ \A x \in Live' : x.from # o
    <3>1. Settled(o)' = Settled(o) /\ doneCount'[o] = doneCount[o] BY <1>1, <1>6, <2>1, Zenon
    <3>2. CASE Events \ Parts(o) \subseteq Settled(o) BY <1>4, <2>1, <3>1, <3>2, Zenon
    <3>3. CASE consumer = "stopped" /\ doneCount[o] = 0 /\ \A x \in Live : x.from # o
      BY <1>8, <3>1, <3>3, Zenon
    <3> QED BY <3>2, <3>3, Zenon DEF BatchInv, CoverInv
  <2> QED BY <1>11, <2>1, Zenon DEF CoverInv
<1>13. /\ Cardinality(Parts(b.from)') \in Nat /\ Cardinality(b.part) \in Nat
       /\ Cardinality(Parts(b.from)) \in Nat
       /\ Cardinality(Parts(b.from)') = 0 <=> Parts(b.from)' = {}
       /\ Cardinality(Parts(b.from)') = Cardinality(Parts(b.from)) - Cardinality(b.part)
  BY <1>3, PartSizes, Zenon
<1>14. b.split => /\ Cardinality(Parts(b.from)) <= outstanding[b.from]
                  /\ SplitsWhole => Cardinality(Parts(b.from)) = outstanding[b.from]
  BY Zenon DEF BatchInv, OutstandingInv
<1>15. b.split => /\ Cardinality(Parts(b.from)') <= outstanding'[b.from]
                  /\ SplitsWhole => Cardinality(Parts(b.from)') = outstanding'[b.from]
  BY <1>6, <1>13, <1>14
<1>16. (\E x \in Live' : x.from = b.from) <=> Parts(b.from)' # {}
  <2>1. \A e : e \in Parts(b.from)' <=> \E x \in Live' : x.from = b.from /\ e \in x.part
    BY Zenon DEF Parts
  <2>2. \A x \in Live' : x.part # {} BY <1>1, <1>8, Zenon
  <2> QED BY <2>1, <2>2, Zenon
<1>17. DoneInv'
  <2>1. doneCount'[b.from] \in {0, 1} BY <1>6, <1>7
  <2>2. ASSUME doneCount'[b.from] = 1
        PROVE  Settled(b.from)' = Events /\ \A x \in Live' : x.from # b.from
    <3>1. ~b.split \/ outstanding'[b.from] = 0 BY <1>6, <1>7, <2>2
    <3>2. CASE b.split
      <4>1. Cardinality(Parts(b.from)') = 0 BY <1>13, <1>15, <3>1, <3>2
      <4> QED BY <1>13, <1>16, <4>1, <1>11, <1>1, Zenon
    <3>3. CASE ~b.split
      <4>1. Parts(b.from)' = {} BY <1>9, <1>16, <3>3, Zenon
      <4> QED BY <1>9, <3>3, <4>1, <1>11, <1>1, Zenon
    <3> QED BY <3>2, <3>3
  <2>3. ~(b.from > read)
    <3>1. b.from \in 1 .. read /\ read \in Nat BY <1>1, PartTypes, Zenon
    <3> QED BY <3>1
  <2>4. ASSUME NEW o \in Originals, o # b.from
        PROVE  /\ doneCount'[o] \in {0, 1}
               /\ doneCount'[o] = 1 => Settled(o)' = Events /\ \A x \in Live' : x.from # o
               /\ o > read' => doneCount'[o] = 0 /\ Settled(o)' = {}
    <3>1. Settled(o)' = Settled(o) /\ doneCount'[o] = doneCount[o] BY <1>6, <2>4, Zenon
    <3>2. /\ doneCount[o] \in {0, 1}
          /\ doneCount[o] = 1 => Settled(o) = Events /\ \A x \in Live : x.from # o
          /\ o > read => doneCount[o] = 0 /\ Settled(o) = {}
      BY Zenon DEF BatchInv, DoneInv
    <3> QED BY <1>8, <3>1, <3>2, Zenon
  <2> QED BY <2>1, <2>2, <2>3, <2>4, Zenon DEF DoneInv
<1>18. OutstandingInv'
  <2>1. ASSUME NEW x \in Live', x.split
        PROVE  /\ Cardinality(Parts(x.from)') <= outstanding'[x.from]
               /\ SplitsWhole => Cardinality(Parts(x.from)') = outstanding'[x.from]
    <3>1. CASE x.from = b.from BY <1>9, <1>15, <3>1, Zenon
    <3>2. CASE x.from # b.from
      <4>1. /\ Parts(x.from)' = Parts(x.from) /\ outstanding'[x.from] = outstanding[x.from]
        BY <1>1, <1>4, <1>6, <1>8, <3>2, Zenon
      <4> QED BY <1>8, <2>1, <4>1, Zenon DEF BatchInv, OutstandingInv
    <3> QED BY <3>1, <3>2
  <2> QED BY <2>1, Zenon DEF OutstandingInv
<1>19. PendingInv'
  <2>1. ASSUME SplitsWhole, "splitRetry" \in Replies, NEW x \in Live' PROVE x.events = x.part
    BY <1>8, <2>1, Zenon DEF BatchInv, PendingInv
  <2>2. ASSUME SplitsWhole, consumer' # "stopped", NEW o \in 1 .. read, doneCount'[o] = 0
        PROVE  \E x \in Live' : x.from = o
    <3>1. CASE o = b.from
      <4>1. b.split /\ outstanding'[b.from] # 0 BY <1>6, <1>7, <2>2, <3>1
      <4>2. Cardinality(Parts(b.from)') # 0 BY <1>15, <2>2, <4>1, Zenon
      <4> QED BY <1>13, <1>16, <3>1, <4>2, Zenon
    <3>2. CASE o # b.from
      <4>1. doneCount[o] = 0 BY <1>1, <1>6, <2>2, <3>2, Zenon
      <4>2. PICK x \in Live : x.from = o BY <2>2, <4>1, Zenon DEF BatchInv, PendingInv
      <4> QED BY <3>2, <4>2, Zenon
    <3> QED BY <3>1, <3>2
  <2> QED BY <2>1, <2>2, Zenon DEF PendingInv
<1> QED BY <1>10, <1>12, <1>17, <1>18, <1>19, Zenon DEF BatchInv

\* A batch that is split in two.
LEMMA SplitStep ==
  ASSUME TypeOK, BatchInv, "splitRetry" \in Replies, NEW b \in Live, NEW c, NEW d,
         c.from = b.from, c.part = c.events, c.split, c.part # {},
         d.from = b.from, d.part = d.events, d.split, d.part # {},
         c.events \cup d.events = b.events, c.events \cap d.events = {},
         Live' = (Live \ {b}) \cup {c, d},
         outstanding' = IF b.split THEN outstanding
                        ELSE [outstanding EXCEPT ![b.from] = Cardinality(b.events)],
         UNCHANGED <<read, consumer, doneCount, history>>
  PROVE  BatchInv'
<1> USE DEF history
<1>1. /\ \A x \in Live : /\ x.from \in Originals /\ x.from \in 1 .. read
                         /\ x.events = x.part \ Settled(x.from)
                         /\ x.part \subseteq Events /\ x.part # {}
      /\ 1 .. read \subseteq Originals /\ b.split \in BOOLEAN
      /\ \A x \in Live \ {b} : x.from = b.from => x.part \cap b.part = {}
      /\ ~b.split => b.part = Events
  BY PartTypes, Zenon DEF BatchInv, LiveInv
<1>b. /\ b.events = b.part \ Settled(b.from) /\ b.events \subseteq b.part
      /\ b.from \in Originals /\ b.from \in 1 .. read
  BY <1>1, Zenon
<1>2. \A o : Settled(o)' = Settled(o) BY Zenon DEF Settled
<1>3. ASSUME NEW o, NEW e
      PROVE  e \in Parts(o)' <=>
               IF o = b.from THEN e \in (Parts(o) \ b.part) \cup b.events ELSE e \in Parts(o)
  <2>1. e \in Parts(o) <=> \E x \in Live : x.from = o /\ e \in x.part BY Zenon DEF Parts
  <2>2. e \in Parts(o)' <=> \E x \in Live' : x.from = o /\ e \in x.part BY Zenon DEF Parts
  <2>3. ASSUME e \in Parts(o)', o = b.from PROVE e \in (Parts(o) \ b.part) \cup b.events
    <3>1. PICK x \in Live' : x.from = o /\ e \in x.part BY <2>2, <2>3, Zenon
    <3>2. CASE x \in Live \ {b} BY <1>1, <2>1, <2>3, <3>1, <3>2, Zenon
    <3>3. CASE x \in {c, d} BY <3>1, <3>3, Zenon
    <3> QED BY <3>2, <3>3, Zenon
  <2>4. ASSUME e \in (Parts(o) \ b.part) \cup b.events, o = b.from PROVE e \in Parts(o)'
    <3>1. CASE e \in b.events BY <2>2, <2>4, <3>1, Zenon
    <3>2. CASE e \in Parts(o) \ b.part BY <2>1, <2>2, <3>2, Zenon
    <3> QED BY <2>4, <3>1, <3>2, Zenon
  <2>5. o # b.from => (e \in Parts(o)' <=> e \in Parts(o)) BY <2>1, <2>2, Zenon
  <2> QED BY <2>3, <2>4, <2>5, Zenon
<1>4. Parts(b.from)' = (Parts(b.from) \ b.part) \cup b.events BY <1>3, Zenon DEF Parts
<1>5. \A o : o # b.from => Parts(o)' = Parts(o) BY <1>3 DEF Parts
<1>6. doneCount[b.from] = 0 BY <1>1, Zenon DEF BatchInv, DoneInv
<1>7. \A x \in Live' : x \in Live \ {b} \/ x = c \/ x = d BY Zenon
<1>8. LiveInv'
  <2>1. /\ c.events = c.part \ Settled(b.from) /\ d.events = d.part \ Settled(b.from)
        /\ c.part \subseteq b.part /\ d.part \subseteq b.part /\ c.part \cap d.part = {}
    BY <1>1, Zenon
  <2>2. ASSUME NEW x \in Live'
        PROVE  /\ x.from \in 1 .. read' /\ x.part # {} /\ (~x.split => x.part = Events)
               /\ x.events = x.part \ Settled(x.from)'
    <3>1. CASE x \in Live BY <1>2, <3>1, Zenon DEF BatchInv, LiveInv
    <3>2. CASE x = c BY <1>1, <1>2, <2>1, <3>2, Zenon
    <3>3. CASE x = d BY <1>1, <1>2, <2>1, <3>3, Zenon
    <3> QED BY <1>7, <3>1, <3>2, <3>3, Zenon
  <2>3. \A x \in Live \ {b} : x.from = b.from => x.part \cap c.part = {} /\ x.part \cap d.part = {}
    BY <1>1, <2>1, Zenon
  <2>4. ASSUME NEW x \in Live', NEW y \in Live', x.from = y.from, x # y
        PROVE  x.part \cap y.part = {}
    <3>1. CASE x \in Live \ {b} /\ y \in Live \ {b} BY <2>4, <3>1, Zenon DEF BatchInv, LiveInv
    <3>2. CASE x \in Live \ {b} /\ y \in {c, d} BY <2>3, <2>4, <3>2, Zenon
    <3>3. CASE x \in {c, d} /\ y \in Live \ {b} BY <2>3, <2>4, <3>3, Zenon
    <3>4. CASE x \in {c, d} /\ y \in {c, d} BY <2>1, <2>4, <3>4, Zenon
    <3> QED BY <1>7, <3>1, <3>2, <3>3, <3>4, Zenon
  <2> QED BY <2>2, <2>4, Zenon DEF LiveInv
<1>9. CoverInv'
  <2>1. Events \ Parts(b.from)' \subseteq Settled(b.from)'
    <3>1. Events \ Parts(b.from) \subseteq Settled(b.from) BY <1>1, Zenon DEF BatchInv, CoverInv
    <3> QED BY <1>b, <1>2, <1>4, <3>1, Zenon
  <2>2. ASSUME NEW o \in 1 .. read, o # b.from
        PROVE  \/ Events \ Parts(o)' \subseteq Settled(o)'
               \/ consumer' = "stopped" /\ doneCount'[o] = 0 /\ \A x \in Live' : x.from # o
    <3>1. CASE Events \ Parts(o) \subseteq Settled(o) BY <1>2, <1>5, <2>2, <3>1, Zenon
    <3>2. CASE consumer = "stopped" /\ doneCount[o] = 0 /\ \A x \in Live : x.from # o
      BY <1>7, <2>2, <3>2, Zenon
    <3> QED BY <3>1, <3>2, Zenon DEF BatchInv, CoverInv
  <2> QED BY <2>1, <2>2, Zenon DEF CoverInv
<1>10. DoneInv'
  <2>1. ASSUME NEW o \in Originals
        PROVE  /\ doneCount'[o] \in {0, 1}
               /\ doneCount'[o] = 1 => Settled(o)' = Events /\ \A x \in Live' : x.from # o
               /\ o > read' => doneCount'[o] = 0 /\ Settled(o)' = {}
    <3>1. /\ doneCount[o] \in {0, 1}
          /\ doneCount[o] = 1 => Settled(o) = Events /\ \A x \in Live : x.from # o
          /\ o > read => doneCount[o] = 0 /\ Settled(o) = {}
      BY Zenon DEF BatchInv, DoneInv
    <3> QED BY <1>2, <1>7, <3>1, Zenon
  <2> QED BY <2>1, Zenon DEF DoneInv
<1>11. OutstandingInv'
  <2>1. outstanding \in [Originals -> Int] BY Zenon DEF TypeOK
  <2>2. b.from \in Originals BY <1>1, Zenon
  <2>3. /\ \A o \in Originals : o # b.from => outstanding'[o] = outstanding[o]
        /\ outstanding'[b.from] = IF b.split THEN outstanding[b.from] ELSE Cardinality(b.events)
    BY <1>1, <2>1, <2>2
  <2> DEFINE Enough == /\ Cardinality(Parts(b.from)') <= outstanding'[b.from]
                       /\ SplitsWhole => Cardinality(Parts(b.from)') = outstanding'[b.from]
  <2>4. ASSUME ~b.split PROVE Enough
    <3>1. ASSUME NEW x \in Live \ {b} PROVE x.from # b.from
      <4>1. x.part \subseteq b.part /\ x.part # {} BY <1>1, <2>4, Zenon
      <4>2. x.from = b.from => x.part \cap b.part = {} BY <1>1, Zenon
      <4> QED BY <4>1, <4>2, Zenon
    <3>2. Parts(b.from) = b.part
      <4>1. \A e : e \in Parts(b.from) <=> \E x \in Live : x.from = b.from /\ e \in x.part
        BY Zenon DEF Parts
      <4> QED BY <3>1, <4>1 DEF Parts
    <3>3. Parts(b.from)' = b.events BY <1>4, <3>2, Zenon
    <3>4. b.events \subseteq Parts(b.from) BY <1>b, <3>2, Zenon
    <3>5. Cardinality(b.events) \in Nat BY <3>4, PartSizes, FS_Subset, FS_CardinalityType, Zenon
    <3>6. Cardinality(b.events) <= Cardinality(b.events) BY <3>5
    <3> QED BY <2>3, <2>4, <3>3, <3>6, Zenon
  <2>5. ASSUME b.split PROVE Enough
    <3>1. /\ Cardinality(Parts(b.from)) <= outstanding[b.from]
          /\ SplitsWhole => Cardinality(Parts(b.from)) = outstanding[b.from]
      BY <2>5, Zenon DEF BatchInv, OutstandingInv
    <3>2. b.part \subseteq Parts(b.from) BY Zenon DEF Parts
    <3>3. Parts(b.from)' \subseteq Parts(b.from) BY <1>b, <1>4, <3>2, Zenon
    <3>4. SplitsWhole => b.events = b.part BY Zenon DEF BatchInv, PendingInv
    <3>5. SplitsWhole => Parts(b.from)' = Parts(b.from) BY <1>4, <3>2, <3>4, Zenon
    <3>6. IsFiniteSet(Parts(b.from)) /\ Cardinality(Parts(b.from)) \in Nat BY PartSizes, Zenon
    <3>7. /\ IsFiniteSet(Parts(b.from)')
          /\ Cardinality(Parts(b.from)') <= Cardinality(Parts(b.from))
      BY <3>3, <3>6, FS_Subset, Zenon
    <3>8. Cardinality(Parts(b.from)') \in Nat BY <3>7, FS_CardinalityType, Zenon
    <3>9. outstanding[b.from] \in Int BY <2>1, <2>2
    <3>10. Cardinality(Parts(b.from)') <= outstanding[b.from] BY <3>1, <3>6, <3>7, <3>8, <3>9
    <3>11. SplitsWhole => Cardinality(Parts(b.from)') = outstanding[b.from] BY <3>1, <3>5, Zenon
    <3> QED BY <2>3, <2>5, <3>10, <3>11, Zenon
  <2>6. ASSUME NEW x \in Live', x.split, x.from # b.from
        PROVE  /\ Cardinality(Parts(x.from)') <= outstanding'[x.from]
               /\ SplitsWhole => Cardinality(Parts(x.from)') = outstanding'[x.from]
    <3>1. x \in Live BY <1>7, <2>6, Zenon
    <3>2. /\ Parts(x.from)' = Parts(x.from) /\ outstanding'[x.from] = outstanding[x.from]
      BY <1>1, <1>5, <2>3, <2>6, <3>1, Zenon
    <3> QED BY <2>6, <3>1, <3>2, Zenon DEF BatchInv, OutstandingInv
  <2> QED BY <1>1, <2>4, <2>5, <2>6, Zenon DEF OutstandingInv
<1>12. PendingInv'
  <2>1. ASSUME SplitsWhole, NEW x \in Live' PROVE x.events = x.part
    BY <1>7, <2>1, Zenon DEF BatchInv, PendingInv
  <2>2. ASSUME SplitsWhole, consumer' # "stopped", NEW o \in 1 .. read, doneCount'[o] = 0
        PROVE  \E x \in Live' : x.from = o
    <3>1. CASE o = b.from BY <3>1, Zenon
    <3>2. CASE o # b.from
      <4>1. PICK x \in Live : x.from = o BY <2>2, Zenon DEF BatchInv, PendingInv
      <4> QED BY <3>2, <4>1, Zenon
    <3> QED BY <3>1, <3>2
  <2> QED BY <2>1, <2>2, Zenon DEF PendingInv
<1> QED BY <1>8, <1>9, <1>10, <1>11, <1>12, Zenon DEF BatchInv

\* A batch that is new.
LEMMA AddStep ==
  ASSUME TypeOK, BatchInv, read < MaxBatches, read' = read + 1,
         Live' = Live \cup {newBatch(read + 1)},
         UNCHANGED <<consumer, doneVars, history>>
  PROVE  BatchInv'
<1> USE DEF doneVars, history
<1>a. PICK m : m = read + 1 BY Zenon
<1>b. read' = m /\ Live' = Live \cup {newBatch(m)} BY <1>a, Zenon
<1> DEFINE n == newBatch(m)
<1>1. /\ n.from = m /\ n.events = Events /\ n.part = Events /\ n.split = FALSE
  BY Zenon DEF newBatch
<1>2. /\ \A x \in Live : x.from \in Originals /\ x.from \in 1 .. read
      /\ read \in Nat /\ Events # {}
  BY PartTypes, Zenon DEF BatchInv, LiveInv
<1>3. /\ m \in Originals /\ m > read /\ m \notin 1 .. read
      /\ 1 .. m = (1 .. read) \cup {m}
      /\ \A o \in Originals : o > m => o > read
  BY <1>a, <1>2, EventConsumerAssumption DEF Originals
<1>c. 1 .. read' = (1 .. read) \cup {m} BY <1>b, <1>3
<1>4. \A o : Settled(o)' = Settled(o) BY Zenon DEF Settled
<1>5. Settled(m) = {} /\ doneCount[m] = 0 BY <1>3, Zenon DEF BatchInv, DoneInv
<1>6. \A x \in Live : x.from # m BY <1>2, <1>3, Zenon
<1>7. /\ \A x \in Live' : x \in Live \/ x = n
      /\ n \in Live' /\ Live \subseteq Live'
  BY <1>b, Zenon
<1> HIDE DEF n
<1>8. ASSUME NEW o, NEW e
      PROVE  e \in Parts(o)' <=> IF o = m THEN e \in Events ELSE e \in Parts(o)
  <2>1. e \in Parts(o) <=> \E x \in Live : x.from = o /\ e \in x.part BY Zenon DEF Parts
  <2>2. e \in Parts(o)' <=> \E x \in Live' : x.from = o /\ e \in x.part BY Zenon DEF Parts
  <2> QED BY <1>1, <1>6, <1>7, <2>1, <2>2, Zenon
<1>9. /\ Parts(m)' = Events
      /\ \A o : o # m => Parts(o)' = Parts(o)
  <2>1. \A e : e \in Parts(m)' <=> e \in Events BY <1>8, Zenon
  <2>2. ASSUME NEW o, o # m PROVE Parts(o)' = Parts(o)
    <3>1. \A e : e \in Parts(o)' <=> e \in Parts(o) BY <1>8, <2>2, Zenon
    <3> QED BY <3>1 DEF Parts
  <2>3. Parts(m)' = Events BY <2>1 DEF Parts
  <2> QED BY <2>2, <2>3, Zenon
<1>10. LiveInv'
  <2>1. ASSUME NEW x \in Live'
        PROVE  /\ x.from \in 1 .. read' /\ x.part # {} /\ (~x.split => x.part = Events)
               /\ x.events = x.part \ Settled(x.from)'
    <3>1. CASE x \in Live BY <1>b, <1>3, <1>4, <3>1, Zenon DEF BatchInv, LiveInv
    <3>2. CASE x = n BY <1>b, <1>1, <1>2, <1>3, <1>4, <1>5, <3>2, Zenon
    <3> QED BY <1>7, <3>1, <3>2, Zenon
  <2>2. ASSUME NEW x \in Live', NEW y \in Live', x.from = y.from, x # y
        PROVE  x.part \cap y.part = {}
    <3>1. x \in Live /\ y \in Live BY <1>1, <1>6, <1>7, <2>2, Zenon
    <3> QED BY <2>2, <3>1, Zenon DEF BatchInv, LiveInv
  <2> QED BY <2>1, <2>2, Zenon DEF LiveInv
<1>11. CoverInv'
  <2>1. ASSUME NEW o \in 1 .. read
        PROVE  \/ Events \ Parts(o)' \subseteq Settled(o)'
               \/ consumer' = "stopped" /\ doneCount'[o] = 0 /\ \A x \in Live' : x.from # o
    <3>1. o # m BY <1>3, Zenon
    <3>2. CASE Events \ Parts(o) \subseteq Settled(o) BY <1>4, <1>9, <3>1, <3>2, Zenon
    <3>3. CASE consumer = "stopped" /\ doneCount[o] = 0 /\ \A x \in Live : x.from # o
      BY <1>1, <1>7, <3>1, <3>3, Zenon
    <3> QED BY <3>2, <3>3, Zenon DEF BatchInv, CoverInv
  <2>2. Events \ Parts(m)' \subseteq Settled(m)' BY <1>9, Zenon
  <2>3. \A o \in 1 .. read' : o \in 1 .. read \/ o = m BY <1>c, Zenon
  <2> QED BY <2>1, <2>2, <2>3, Zenon DEF CoverInv
<1>12. DoneInv'
  <2>1. ASSUME NEW o \in Originals
        PROVE  /\ doneCount'[o] \in {0, 1}
               /\ doneCount'[o] = 1 => Settled(o)' = Events /\ \A x \in Live' : x.from # o
               /\ o > read' => doneCount'[o] = 0 /\ Settled(o)' = {}
    <3>1. /\ doneCount[o] \in {0, 1}
          /\ doneCount[o] = 1 => Settled(o) = Events /\ \A x \in Live : x.from # o
          /\ o > read => doneCount[o] = 0 /\ Settled(o) = {}
      BY Zenon DEF BatchInv, DoneInv
    <3>2. o = m => doneCount[o] # 1 BY <1>5
    <3> QED BY <1>b, <1>1, <1>3, <1>4, <1>7, <3>1, <3>2, Zenon
  <2> QED BY <2>1, Zenon DEF DoneInv
<1>13. OutstandingInv'
  <2>1. ASSUME NEW x \in Live', x.split
        PROVE  /\ Cardinality(Parts(x.from)') <= outstanding'[x.from]
               /\ SplitsWhole => Cardinality(Parts(x.from)') = outstanding'[x.from]
    <3>1. x \in Live BY <1>1, <1>7, <2>1, Zenon
    <3>2. Parts(x.from)' = Parts(x.from) BY <1>6, <1>9, <3>1, Zenon
    <3> QED BY <2>1, <3>1, <3>2, Zenon DEF BatchInv, OutstandingInv
  <2> QED BY <2>1, Zenon DEF OutstandingInv
<1>14. PendingInv'
  <2>1. ASSUME SplitsWhole, "splitRetry" \in Replies, NEW x \in Live' PROVE x.events = x.part
    BY <1>1, <1>7, <2>1, Zenon DEF BatchInv, PendingInv
  <2>2. ASSUME SplitsWhole, consumer' # "stopped", NEW o \in 1 .. read', doneCount'[o] = 0
        PROVE  \E x \in Live' : x.from = o
    <3>1. CASE o = m BY <1>1, <1>7, <3>1, Zenon
    <3>2. CASE o \in 1 .. read BY <1>7, <2>2, <3>2, Zenon DEF BatchInv, PendingInv
    <3> QED BY <1>c, <3>1, <3>2, Zenon
  <2> QED BY <2>1, <2>2, Zenon DEF PendingInv
<1> QED BY <1>10, <1>11, <1>12, <1>13, <1>14, Zenon DEF BatchInv

\* A new batch that is dropped on the floor: nobody has a part of it, and the queue never
\* hears of it.
LEMMA LoseStep ==
  ASSUME TypeOK, BatchInv, consumer = "stopped", NEW b \in Live, ~b.split, Live' = Live \ {b},
         UNCHANGED <<read, consumer, doneVars, history>>
  PROVE  BatchInv'
<1> USE DEF doneVars, history
<1>1. \A x \in Live' : x \in Live /\ x # b BY Zenon
<1>2. /\ \A x \in Live : x.part \subseteq Events /\ x.part # {}
      /\ b.part = Events
      /\ \A x \in Live' : x.from = b.from => x.part \cap b.part = {}
      /\ b.from \in 1 .. read /\ b.from \in Originals
  BY <1>1, PartTypes, Zenon DEF BatchInv, LiveInv
<1>3. ASSUME NEW x \in Live' PROVE x.from # b.from
  <2>1. x.part \subseteq b.part /\ x.part # {} BY <1>1, <1>2, Zenon
  <2> QED BY <1>2, <2>1, Zenon
<1>4. \A o : Settled(o)' = Settled(o) BY Zenon DEF Settled
<1>5. ASSUME NEW o, o # b.from PROVE Parts(o)' = Parts(o)
  <2>1. ASSUME NEW e PROVE e \in Parts(o)' <=> e \in Parts(o)
    <3>1. e \in Parts(o) <=> \E x \in Live : x.from = o /\ e \in x.part BY Zenon DEF Parts
    <3>2. e \in Parts(o)' <=> \E x \in Live' : x.from = o /\ e \in x.part BY Zenon DEF Parts
    <3> QED BY <1>5, <3>1, <3>2, Zenon
  <2> QED BY <2>1 DEF Parts
<1>6. LiveInv' BY <1>1, <1>4, Zenon DEF BatchInv, LiveInv
<1>7. CoverInv'
  <2>1. doneCount[b.from] = 0 BY <1>2, Zenon DEF BatchInv, DoneInv
  <2>2. ASSUME NEW o \in 1 .. read, o # b.from
        PROVE  \/ Events \ Parts(o)' \subseteq Settled(o)'
               \/ consumer' = "stopped" /\ doneCount'[o] = 0 /\ \A x \in Live' : x.from # o
    <3>1. CASE Events \ Parts(o) \subseteq Settled(o) BY <1>4, <1>5, <2>2, <3>1, Zenon
    <3>2. CASE consumer = "stopped" /\ doneCount[o] = 0 /\ \A x \in Live : x.from # o
      BY <1>1, <3>2, Zenon
    <3> QED BY <3>1, <3>2, Zenon DEF BatchInv, CoverInv
  <2> QED BY <1>3, <2>1, <2>2, Zenon DEF CoverInv
<1>8. DoneInv' BY <1>1, <1>4, Zenon DEF BatchInv, DoneInv
<1>9. OutstandingInv' BY <1>1, <1>3, <1>5, Zenon DEF BatchInv, OutstandingInv
<1>10. PendingInv' BY <1>1, Zenon DEF BatchInv, PendingInv
<1> QED BY <1>6, <1>7, <1>8, <1>9, <1>10, Zenon DEF BatchInv

-----------------------------------------------------------------------------
(* The operators of the model. *)

\* Taking the first element of a sequence.
LEMMA TailAt ==
  ASSUME NEW S, NEW s \in Seq(S), s # <<>>
  PROVE  /\ Tail(s) \in Seq(S) /\ Head(s) = s[1] /\ s[1] \in S
         /\ Len(s) \in Nat /\ 1 <= Len(s) /\ Len(Tail(s)) = Len(s) - 1
         /\ \A i \in 1 .. Len(s) - 1 : Tail(s)[i] = s[i + 1]
OBVIOUS

\* The batches to retry without the first.
LEMMA TailBatches ==
  ASSUME NEW S, NEW s \in Seq(S), s # <<>>, \A i, j \in 1 .. Len(s) : s[i] = s[j] => i = j
  PROVE  /\ {Tail(s)[i] : i \in 1 .. Len(Tail(s))} = {s[i] : i \in 1 .. Len(s)} \ {Head(s)}
         /\ Head(s) \in {s[i] : i \in 1 .. Len(s)}
         /\ \A i, j \in 1 .. Len(Tail(s)) : Tail(s)[i] = Tail(s)[j] => i = j
<1>1. /\ Head(s) = s[1] /\ Len(s) \in Nat /\ 1 <= Len(s) /\ Len(Tail(s)) = Len(s) - 1
      /\ \A i \in 1 .. Len(s) - 1 : Tail(s)[i] = s[i + 1]
  BY TailAt, Zenon
<1>2. /\ 1 \in 1 .. Len(s)
      /\ \A i \in 1 .. Len(s) - 1 : i + 1 \in 1 .. Len(s) /\ i + 1 # 1
      /\ \A i \in 1 .. Len(s) : i # 1 => i - 1 \in 1 .. Len(s) - 1 /\ (i - 1) + 1 = i
      /\ \A i, j \in 1 .. Len(s) - 1 : i + 1 = j + 1 => i = j
  BY <1>1
<1>3. ASSUME NEW i \in 1 .. Len(Tail(s)) PROVE Tail(s)[i] \in {s[k] : k \in 1 .. Len(s)} \ {Head(s)}
  BY <1>1, <1>2, <1>3
<1>4. ASSUME NEW i \in 1 .. Len(s), s[i] # Head(s)
      PROVE  \E k \in 1 .. Len(Tail(s)) : s[i] = Tail(s)[k]
  <2>1. i # 1 BY <1>1, <1>4, Zenon
  <2>2. i - 1 \in 1 .. Len(Tail(s)) /\ Tail(s)[i - 1] = s[i] BY <1>1, <1>2, <2>1, Zenon
  <2> QED BY <2>2, Zenon
<1>5. {Tail(s)[i] : i \in 1 .. Len(Tail(s))} = {s[i] : i \in 1 .. Len(s)} \ {Head(s)}
  BY <1>3, <1>4
<1>6. Head(s) \in {s[i] : i \in 1 .. Len(s)} BY <1>1, <1>2, Zenon
<1>7. ASSUME NEW i \in 1 .. Len(Tail(s)), NEW j \in 1 .. Len(Tail(s)), Tail(s)[i] = Tail(s)[j]
      PROVE  i = j
  BY <1>1, <1>2, <1>7
<1> QED BY <1>5, <1>6, <1>7, Zenon

\* The same for requests.
LEMMA TailRequests ==
  ASSUME NEW S, NEW s \in Seq(S), s # <<>>,
         \A i, j \in 1 .. Len(s) : s[i].batch = s[j].batch => i = j
  PROVE  /\ {Tail(s)[i].batch : i \in 1 .. Len(Tail(s))}
               = {s[i].batch : i \in 1 .. Len(s)} \ {Head(s).batch}
         /\ Head(s).batch \in {s[i].batch : i \in 1 .. Len(s)}
         /\ \A i, j \in 1 .. Len(Tail(s)) : Tail(s)[i].batch = Tail(s)[j].batch => i = j
<1>1. /\ Head(s) = s[1] /\ Len(s) \in Nat /\ 1 <= Len(s) /\ Len(Tail(s)) = Len(s) - 1
      /\ \A i \in 1 .. Len(s) - 1 : Tail(s)[i] = s[i + 1]
  BY TailAt, Zenon
<1>2. /\ 1 \in 1 .. Len(s)
      /\ \A i \in 1 .. Len(s) - 1 : i + 1 \in 1 .. Len(s) /\ i + 1 # 1
      /\ \A i \in 1 .. Len(s) : i # 1 => i - 1 \in 1 .. Len(s) - 1 /\ (i - 1) + 1 = i
      /\ \A i, j \in 1 .. Len(s) - 1 : i + 1 = j + 1 => i = j
  BY <1>1
<1>3. ASSUME NEW i \in 1 .. Len(Tail(s))
      PROVE  Tail(s)[i].batch \in {s[k].batch : k \in 1 .. Len(s)} \ {Head(s).batch}
  BY <1>1, <1>2, <1>3
<1>4. ASSUME NEW i \in 1 .. Len(s), s[i].batch # Head(s).batch
      PROVE  \E k \in 1 .. Len(Tail(s)) : s[i].batch = Tail(s)[k].batch
  <2>1. i # 1 BY <1>1, <1>4, Zenon
  <2>2. i - 1 \in 1 .. Len(Tail(s)) /\ Tail(s)[i - 1] = s[i] BY <1>1, <1>2, <2>1, Zenon
  <2> QED BY <2>2, Zenon
<1>5. {Tail(s)[i].batch : i \in 1 .. Len(Tail(s))}
        = {s[i].batch : i \in 1 .. Len(s)} \ {Head(s).batch}
  <2>1. ASSUME NEW x \in {Tail(s)[i].batch : i \in 1 .. Len(Tail(s))}
        PROVE  x \in {s[i].batch : i \in 1 .. Len(s)} \ {Head(s).batch}
    BY <1>3, Zenon
  <2>2. ASSUME NEW x \in {s[i].batch : i \in 1 .. Len(s)} \ {Head(s).batch}
        PROVE  x \in {Tail(s)[i].batch : i \in 1 .. Len(Tail(s))}
    <3>1. PICK i \in 1 .. Len(s) : x = s[i].batch BY Zenon
    <3>2. PICK k \in 1 .. Len(Tail(s)) : s[i].batch = Tail(s)[k].batch BY <1>4, <3>1, Zenon
    <3> QED BY <3>1, <3>2, Zenon
  <2> QED BY <2>1, <2>2, Zenon
<1>6. Head(s).batch \in {s[i].batch : i \in 1 .. Len(s)} BY <1>1, <1>2, Zenon
<1>7. ASSUME NEW i \in 1 .. Len(Tail(s)), NEW j \in 1 .. Len(Tail(s)),
             Tail(s)[i].batch = Tail(s)[j].batch
      PROVE  i = j
  BY <1>1, <1>2, <1>7
<1> QED BY <1>5, <1>6, <1>7, Zenon

\* A batch to retry goes to the end.
LEMMA AppendBatch ==
  ASSUME NEW S, NEW s \in Seq(S), NEW x \in S, x \notin {s[i] : i \in 1 .. Len(s)},
         \A i, j \in 1 .. Len(s) : s[i] = s[j] => i = j
  PROVE  /\ Append(s, x) \in Seq(S)
         /\ {Append(s, x)[i] : i \in 1 .. Len(Append(s, x))} = {s[i] : i \in 1 .. Len(s)} \cup {x}
         /\ \A i, j \in 1 .. Len(Append(s, x)) : Append(s, x)[i] = Append(s, x)[j] => i = j
<1>1. /\ Append(s, x) \in Seq(S) /\ Len(s) \in Nat /\ Len(Append(s, x)) = Len(s) + 1
      /\ \A i \in 1 .. Len(s) : Append(s, x)[i] = s[i]
      /\ Append(s, x)[Len(s) + 1] = x
  OBVIOUS
<1>2. 1 .. Len(s) + 1 = (1 .. Len(s)) \cup {Len(s) + 1} BY <1>1
<1>3. \A i \in 1 .. Len(Append(s, x)) :
        \/ i \in 1 .. Len(s) /\ Append(s, x)[i] = s[i]
        \/ i = Len(s) + 1 /\ Append(s, x)[i] = x
  BY <1>1, <1>2
<1>4. \A i \in 1 .. Len(s) : i \in 1 .. Len(Append(s, x)) BY <1>1, <1>2, Zenon
<1>5. Len(s) + 1 \in 1 .. Len(Append(s, x)) BY <1>1, <1>2, Zenon
<1>6. {Append(s, x)[i] : i \in 1 .. Len(Append(s, x))} = {s[i] : i \in 1 .. Len(s)} \cup {x}
  BY <1>1, <1>3, <1>4, <1>5
<1>7. ASSUME NEW i \in 1 .. Len(Append(s, x)), NEW j \in 1 .. Len(Append(s, x)),
             Append(s, x)[i] = Append(s, x)[j]
      PROVE  i = j
  BY <1>3, <1>7, Zenon
<1> QED BY <1>1, <1>6, <1>7, Zenon

\* What reduceTTL leaves of a batch; unless nothing is left, it is all of it when SplitsWhole.
LEMMA Reduced ==
  ASSUME NEW b \in Batch
  PROVE  LET c == reduceTTL(b) IN
         /\ c \in Batch /\ c.from = b.from /\ c.part = b.part /\ c.split = b.split
         /\ c.events \subseteq b.events
         /\ (b.events \ c.events) \cap Guaranteed = {}
         /\ Expired(b) => c.events = {}
         /\ ~Expired(b) /\ SplitsWhole /\ "splitRetry" \in Replies => c.events = b.events
<1>1. TimeToLive \in Nat /\ Guaranteed \subseteq Events BY EventConsumerAssumption DEF Events
<1>2. /\ b.ttl \in -1 .. TimeToLive /\ b.events \subseteq Events /\ b.from \in Originals
      /\ b.part \subseteq Events /\ b.split \in BOOLEAN
      /\ b = [from |-> b.from, events |-> b.events, ttl |-> b.ttl, part |-> b.part, split |-> b.split]
  BY DEF Batch
<1>3. CASE b.ttl <= 0
  <2>1. reduceTTL(b) = b /\ ~Expired(b) BY <1>2, <1>3 DEF reduceTTL, Expired
  <2> QED BY <2>1, Zenon
<1>4. CASE b.ttl > 1
  <2>1. reduceTTL(b) = [b EXCEPT !.ttl = @ - 1] /\ ~Expired(b)
    BY <1>2, <1>4 DEF reduceTTL, Expired
  <2>2. b.ttl - 1 \in -1 .. TimeToLive BY <1>1, <1>2, <1>4
  <2>3. [b EXCEPT !.ttl = @ - 1] \in Batch BY <2>2 DEF Batch
  <2>4. /\ reduceTTL(b).from = b.from /\ reduceTTL(b).part = b.part
        /\ reduceTTL(b).split = b.split /\ reduceTTL(b).events = b.events
    BY <1>2, <2>1
  <2> QED BY <2>1, <2>3, <2>4, Zenon
<1>5. CASE b.ttl = 1 /\ GuaranteedEvents(b) = {}
  <2>1. reduceTTL(b) = [b EXCEPT !.ttl = 0, !.events = {}] /\ Expired(b)
    BY <1>2, <1>5 DEF reduceTTL, Expired
  <2>2. 0 \in -1 .. TimeToLive BY <1>1
  <2>3. [b EXCEPT !.ttl = 0, !.events = {}] \in Batch BY <2>2, Zenon DEF Batch
  <2>4. /\ reduceTTL(b).from = b.from /\ reduceTTL(b).part = b.part
        /\ reduceTTL(b).split = b.split /\ reduceTTL(b).events = {}
    BY <1>2, <2>1
  <2>5. b.events \cap Guaranteed = {} BY <1>5, Zenon DEF GuaranteedEvents
  <2> QED BY <2>1, <2>3, <2>4, <2>5, Zenon
<1>6. CASE b.ttl = 1 /\ GuaranteedEvents(b) # {}
  <2>1. reduceTTL(b) = [b EXCEPT !.ttl = -1, !.events = GuaranteedEvents(b)] /\ ~Expired(b)
    BY <1>2, <1>6 DEF reduceTTL, Expired
  <2>2. -1 \in -1 .. TimeToLive BY <1>1
  <2>3. GuaranteedEvents(b) = b.events \cap Guaranteed BY Zenon DEF GuaranteedEvents
  <2>4. GuaranteedEvents(b) \in SUBSET Events BY <1>2, <2>3
  <2>5. [b EXCEPT !.ttl = -1, !.events = GuaranteedEvents(b)] \in Batch BY <2>2, <2>4, Zenon DEF Batch
  <2>6. /\ reduceTTL(b).from = b.from /\ reduceTTL(b).part = b.part
        /\ reduceTTL(b).split = b.split /\ reduceTTL(b).events = GuaranteedEvents(b)
    BY <1>2, <2>1
  <2>7. TimeToLive # 0 BY <1>1, <1>2, <1>6
  <2>8. SplitsWhole /\ "splitRetry" \in Replies => Guaranteed = {} \/ Guaranteed = Events
    BY <2>7, Zenon DEF SplitsWhole
  <2>9. Guaranteed # {} BY <1>6, <2>3, Zenon
  <2>10. Guaranteed = Events => GuaranteedEvents(b) = b.events BY <1>2, <2>3, Zenon
  <2> QED BY <2>1, <2>3, <2>5, <2>6, <2>8, <2>9, <2>10, Zenon
<1>7. b.ttl <= 0 \/ b.ttl > 1 \/ b.ttl = 1 BY <1>1, <1>2
<1> QED BY <1>3, <1>4, <1>5, <1>6, <1>7, Zenon

\* The done callback keeps its counters typed.
LEMMA DoneTypes ==
  ASSUME TypeOK, NEW b \in Batch, Done(b)
  PROVE  doneCount' \in [Originals -> Nat] /\ outstanding' \in [Originals -> Int]
<1>1. b.from \in Originals /\ b.part \subseteq Events BY DEF Batch
<1>2. Cardinality(b.part) \in Nat
  <2>1. Size \in Nat BY EventConsumerAssumption
  <2>2. IsFiniteSet(Events) BY <2>1, FS_Interval DEF Events
  <2> QED BY <1>1, <2>2, FS_Subset, FS_CardinalityType, Zenon
<1>3. doneCount \in [Originals -> Nat] /\ outstanding \in [Originals -> Int]
  BY Zenon DEF TypeOK
<1>4. outstanding[b.from] - Cardinality(b.part) \in Int /\ doneCount[b.from] + 1 \in Nat
  BY <1>1, <1>2, <1>3
<1>5. outstanding' \in [Originals -> Int] BY <1>3, <1>4, Zenon DEF Done
<1>6. doneCount' \in [Originals -> Nat] BY <1>3, <1>4, Zenon DEF Done
<1> QED BY <1>5, <1>6

\* A part of batch b is none of the other batches.
LEMMA PartIsNew ==
  ASSUME LiveInv, NEW b \in Live, NEW c, c.from = b.from, c.part \subseteq b.part, c.part # {}
  PROVE  c \notin Live \ {b}
<1> SUFFICES ASSUME c \in Live \ {b} PROVE FALSE OBVIOUS
<1>1. c.part \cap b.part = {} BY Zenon DEF LiveInv
<1> QED BY <1>1, Zenon

-----------------------------------------------------------------------------
(* The reader and the consumer's loop. *)

\* A step that moves no batch.
LEMMA QuietInv ==
  ASSUME CInv, TypeOK', ReaderInv',
         UNCHANGED <<queueBatch, response, retryBatches, held, requests, read, doneVars, history>>,
         consumer = "stopped" => consumer' = "stopped"
  PROVE  CInv'
<1>1. /\ Incoming' = Incoming /\ Retries' = Retries /\ \A w : With(w)' = With(w)
  BY Zenon DEF Incoming, Retries, With, Returned
<1>2. Live' = Live
  <2>1. /\ \A c : c \in Live <=> c \in Incoming \/ c \in Retries \/ \E w \in Workers : c \in With(w)
        /\ \A c : c \in Live' <=> c \in Incoming' \/ c \in Retries' \/ \E w \in Workers : c \in With(w)'
    BY LiveIs, LiveIsNext, Zenon DEF CInv, LivePlaces, Has
  <2>2. \A c : c \in Live' <=> c \in Live BY <1>1, <2>1, Zenon
  <2> QED BY <2>2 DEF Live
<1>3. PlaceInv' BY <1>1, Zenon DEF CInv, PlaceInv, Apart
<1>4. BatchInv' BY <1>2, KeepStep, Zenon DEF CInv
<1> QED BY <1>3, <1>4, Zenon DEF CInv

\* The consumer starts a read when none is pending.
LEMMA RequestReadInv == ASSUME CInv, RequestRead PROVE CInv'
<1>1. TypeOK' BY Zenon DEF CInv, TypeOK, RequestRead, workerVars, doneVars, history
<1>2. ReaderInv' BY DEF CInv, ReaderInv, RequestRead
<1> QED BY <1>1, <1>2, QuietInv, Zenon DEF RequestRead, workerVars

\* A reload closes the workers and leaves them their batches.
LEMMA PauseInv == ASSUME CInv, Pause PROVE CInv'
<1>1. reloads' \in 0 .. MaxReloads BY EventConsumerAssumption DEF CInv, TypeOK, Pause
<1>2. TypeOK'
  BY <1>1, Zenon DEF CInv, TypeOK, Pause, readerVars, doneVars, history
<1>3. ReaderInv' BY DEF CInv, ReaderInv, Pause, readerVars
<1> QED BY <1>2, <1>3, QuietInv, Zenon DEF Pause, readerVars

\* The reload ends.
LEMMA ResumeInv == ASSUME CInv, Resume PROVE CInv'
<1>1. TypeOK' BY Zenon DEF CInv, TypeOK, Resume, readerVars, workerVars, doneVars, history
<1>2. ReaderInv' BY DEF CInv, ReaderInv, Resume, readerVars
<1> QED BY <1>1, <1>2, QuietInv, Zenon DEF Resume, readerVars, workerVars

\* The consumer is closed, and returns.
LEMMA StopInv == ASSUME CInv, CloseConsumer \/ ConsumerStop PROVE CInv'
<1>1. /\ consumer' \in {"closing", "stopped"}
      /\ consumer = "stopped" => consumer' = "stopped"
      /\ UNCHANGED <<pendingRead, retryBatches, queueBatch, target, reloads, readerVars, workerVars,
                     doneVars, history>>
  BY DEF CloseConsumer, ConsumerStop, Waiting, Running
<1>2. TypeOK' BY <1>1, Zenon DEF CInv, TypeOK, readerVars, workerVars, doneVars, history
<1>3. ReaderInv' BY <1>1 DEF CInv, ReaderInv, readerVars
<1> QED BY <1>1, <1>2, <1>3, QuietInv, Zenon DEF readerVars, workerVars

\* A worker connects, or fails to.
LEMMA ConnectInv ==
  ASSUME CInv, NEW w \in Workers, NEW result \in {"yes", "no"}, Connect(w, result)
  PROVE  CInv'
<1>1. connected' \in [Workers -> {"no", "connecting", "yes"}] BY DEF CInv, TypeOK, Connect
<1>2. TypeOK' BY <1>1, Zenon DEF CInv, TypeOK, Connect, consumerVars, readerVars, doneVars, history
<1>3. ReaderInv' BY DEF CInv, ReaderInv, Connect, consumerVars, readerVars
<1> QED BY <1>2, <1>3, QuietInv, Zenon DEF Connect, consumerVars, readerVars

\* The batch goes from the reader to the consumer.
LEMMA ReceiveBatchInv == ASSUME CInv, ReceiveBatch PROVE CInv'
<1>1. queueBatch = NoBatch BY DEF CInv, ReaderInv, ReceiveBatch
<1>2. TypeOK' BY Zenon DEF CInv, TypeOK, ReceiveBatch, workerVars, doneVars, history
<1>3. ReaderInv' BY DEF CInv, ReaderInv, ReceiveBatch
<1>4. Incoming' = Incoming BY <1>1, Zenon DEF Incoming, ReceiveBatch
<1>5. /\ Retries' = Retries /\ \A w : With(w)' = With(w)
      /\ UNCHANGED <<retryBatches, held, requests>>
  BY Zenon DEF Retries, With, Returned, ReceiveBatch, workerVars
<1>6. PlaceInv' BY <1>4, <1>5, Zenon DEF CInv, PlaceInv, Apart
<1>7. Live' = Live
  <2>1. /\ \A c : c \in Live <=> c \in Incoming \/ c \in Retries \/ \E w \in Workers : c \in With(w)
        /\ \A c : c \in Live' <=> c \in Incoming' \/ c \in Retries' \/ \E w \in Workers : c \in With(w)'
    BY <1>2, LiveIs, LiveIsNext, Zenon DEF CInv, LivePlaces, Has
  <2>2. \A c : c \in Live' <=> c \in Live BY <1>4, <1>5, <2>1, Zenon
  <2> QED BY <2>2 DEF Live
<1>8. BatchInv' BY <1>7, KeepStep, Zenon DEF CInv, ReceiveBatch
<1> QED BY <1>2, <1>3, <1>6, <1>8, Zenon DEF CInv

\* The queue gives the reader a new batch, or none when it is closed.
LEMMA QueueGetInv == ASSUME CInv, QueueGet PROVE CInv'
<1> USE DEF consumerVars, workerVars
<1>1. CASE read = MaxBatches /\ UNCHANGED <<read, response>>
  <2>1. TypeOK' BY <1>1, Zenon DEF CInv, TypeOK, QueueGet, doneVars, history
  <2>2. ReaderInv' BY <1>1 DEF CInv, ReaderInv, QueueGet
  <2> QED BY <1>1, <2>1, <2>2, QuietInv, Zenon DEF QueueGet
<1>2. CASE read < MaxBatches /\ read' = read + 1 /\ response' = newBatch(read + 1)
  <2>1. PICK n : n = newBatch(read + 1) BY Zenon
  <2>2. /\ read \in 0 .. MaxBatches /\ MaxBatches \in Nat /\ TimeToLive \in Nat
    BY EventConsumerAssumption, Zenon DEF CInv, TypeOK
  <2>3. read + 1 \in Originals /\ read + 1 \in 0 .. MaxBatches /\ read + 1 \notin 1 .. read
    BY <1>2, <2>2 DEF Originals
  <2>4. n \in Batch /\ n.split = FALSE /\ n.from = read + 1
    BY <2>1, <2>2, <2>3 DEF newBatch, Batch
  <2>5. n # NoBatch BY <2>4, NoBatchAssumption, Zenon
  <2>6. TypeOK' BY <1>2, <2>1, <2>3, <2>4, Zenon DEF CInv, TypeOK, QueueGet, doneVars, history
  <2>7. ReaderInv'
    <3>1. pendingRead /\ queueBatch = NoBatch BY DEF CInv, ReaderInv, QueueGet
    <3> QED BY <1>2, <2>1, <2>4, <3>1 DEF ReaderInv, QueueGet
  <2>8. response = NoBatch /\ queueBatch = NoBatch BY DEF CInv, ReaderInv, QueueGet
  <2>9. Incoming = {} /\ Incoming' = {n}
    BY <1>2, <2>1, <2>5, <2>8, Zenon DEF Incoming, QueueGet
  <2>10. /\ Retries' = Retries /\ \A w : With(w)' = With(w)
         /\ UNCHANGED <<retryBatches, held, requests>>
    BY Zenon DEF Retries, With, Returned, QueueGet
  <2>11. /\ \A c : c \in Live <=> c \in Incoming \/ c \in Retries \/ \E w \in Workers : c \in With(w)
         /\ \A c : c \in Live' <=> c \in Incoming' \/ c \in Retries' \/ \E w \in Workers : c \in With(w)'
    BY <2>6, LiveIs, LiveIsNext, Zenon DEF CInv, LivePlaces, Has
  <2>12. \A c \in Live : c.from \in 1 .. read BY Zenon DEF CInv, BatchInv, LiveInv
  <2>13. n \notin Live BY <2>3, <2>4, <2>12, Zenon
  <2>14. PlaceInv'
    <3>1. n \notin Retries /\ \A w \in Workers : n \notin With(w) BY <2>11, <2>13, Zenon
    <3>a. /\ \A w \in Workers : Retries \cap With(w) = {}
          /\ \A v, w \in Workers : v # w => With(v) \cap With(w) = {}
      BY Zenon DEF CInv, PlaceInv, Apart
    <3>b. /\ Incoming' \cap Retries' = {} /\ \A w \in Workers : Incoming' \cap With(w)' = {}
      BY <2>9, <2>10, <3>1, Zenon
    <3>2. Apart' BY <2>10, <3>a, <3>b, Zenon DEF Apart
    <3> QED BY <2>10, <3>2, Zenon DEF CInv, PlaceInv
  <2>15. Live' = Live \cup {n}
    <3>1. \A c : c \in Live' <=> c \in Live \/ c = n BY <2>9, <2>10, <2>11, Zenon
    <3> QED BY <3>1 DEF Live
  <2>16. BatchInv' BY <1>2, <2>1, <2>15, AddStep, Zenon DEF CInv, QueueGet
  <2> QED BY <2>6, <2>7, <2>14, <2>16, Zenon DEF CInv
<1> QED BY <1>1, <1>2, Zenon DEF QueueGet

\* The reader drops what it has on the floor.
LEMMA ReaderStopInv == ASSUME CInv, ReaderStop PROVE CInv'
<1> USE DEF consumerVars, workerVars
<1>1. TypeOK' BY Zenon DEF CInv, TypeOK, ReaderStop, doneVars, history
<1>2. ReaderInv' BY DEF CInv, ReaderInv, ReaderStop
<1>3. CASE response = NoBatch
  BY <1>1, <1>2, <1>3, QuietInv, Zenon DEF ReaderStop
<1>4. CASE response # NoBatch
  <2>1. PICK b : b = response BY Zenon
  <2>2. queueBatch = NoBatch /\ ~b.split BY <1>4, <2>1 DEF CInv, ReaderInv
  <2>3. Incoming = {b} /\ Incoming' = {} BY <1>4, <2>1, <2>2, Zenon DEF Incoming, ReaderStop
  <2>4. /\ Retries' = Retries /\ \A w : With(w)' = With(w)
        /\ UNCHANGED <<retryBatches, held, requests>>
    BY Zenon DEF Retries, With, Returned, ReaderStop
  <2>5. b \notin Retries /\ \A w \in Workers : b \notin With(w)
    BY <2>3, Zenon DEF CInv, PlaceInv, Apart
  <2>6. PlaceInv' BY <2>3, <2>4, Zenon DEF CInv, PlaceInv, Apart
  <2>7. /\ \A c : c \in Live <=> c \in Incoming \/ c \in Retries \/ \E w \in Workers : c \in With(w)
        /\ \A c : c \in Live' <=> c \in Incoming' \/ c \in Retries' \/ \E w \in Workers : c \in With(w)'
    BY <1>1, LiveIs, LiveIsNext, Zenon DEF CInv, LivePlaces, Has
  <2>8. b \in Live /\ Live' = Live \ {b}
    <3>1. \A c : c \in Live' <=> c \in Live /\ c # b BY <2>3, <2>4, <2>5, <2>7, Zenon
    <3>2. Live' = Live \ {b} BY <3>1 DEF Live
    <3> QED BY <2>3, <2>7, <3>2, Zenon
  <2>9. BatchInv' BY <2>2, <2>8, LoseStep, Zenon DEF CInv, ReaderStop
  <2> QED BY <1>1, <1>2, <2>6, <2>9, Zenon DEF CInv
<1> QED BY <1>3, <1>4

-----------------------------------------------------------------------------
(* Batches from and to the workers. *)

\* What the other workers have.
LEMMA OtherWorkers ==
  ASSUME NEW u, \A w \in Workers \ {u} : held'[w] = held[w] /\ requests'[w] = requests[w]
  PROVE  \A w \in Workers \ {u} : With(w)' = With(w)
BY Zenon DEF With, Returned

Batches(q) == {q[i].batch : i \in 1 .. Len(q)}

\* Worker u, which holds b, sends the requests q instead of it, or none.
SendsFor(u, b, q) ==
  /\ b = held[u] /\ b # NoBatch
  /\ held' = [held EXCEPT ![u] = NoBatch]
  /\ requests' = [requests EXCEPT ![u] = q]
  /\ \A i, j \in 1 .. Len(q) : q[i].batch = q[j].batch => i = j
  /\ \A i \in 1 .. Len(q) : q[i].batch \notin Live \ {b}
  /\ UNCHANGED <<queueBatch, response, retryBatches>>

\* The requests take the place of the batch.
LEMMA WorkerReplies ==
  ASSUME CInv, TypeOK', NEW u \in Workers, NEW b, NEW q, SendsFor(u, b, q)
  PROVE  /\ PlaceInv' /\ b \in Live
         /\ Live' = (Live \ {b}) \cup Batches(q)
<1> USE DEF SendsFor
<1>1. held \in [Workers -> Batch \cup {NoBatch}] /\ requests \in [Workers -> Seq(Request)]
  BY Zenon DEF CInv, TypeOK
<1>2. /\ held'[u] = NoBatch /\ requests'[u] = q /\ requests[u] = <<>>
      /\ \A w \in Workers \ {u} : held'[w] = held[w] /\ requests'[w] = requests[w]
  BY <1>1, Zenon DEF CInv, PlaceInv
<1>3. With(u) = {b}
  <2>1. Returned(u) = {} BY <1>2 DEF Returned
  <2> QED BY <2>1, Zenon DEF With
<1>b. PICK N : N = Batches(q) BY Zenon
<1>4. N = {q[i].batch : i \in 1 .. Len(q)} BY <1>b, Zenon DEF Batches
<1>5. With(u)' = N
  <2>1. Returned(u)' = N BY <1>2, <1>4 DEF Returned
  <2> QED BY <1>2, <2>1, Zenon DEF With
<1>a. TypeOK /\ Apart BY Zenon DEF CInv, PlaceInv
<1>6. \A w \in Workers \ {u} : With(w)' = With(w) BY <1>2, OtherWorkers, Zenon
<1>7. Incoming' = Incoming /\ Retries' = Retries BY Zenon DEF Incoming, Retries
<1>8. /\ b \notin Incoming /\ b \notin Retries /\ \A w \in Workers \ {u} : b \notin With(w)
  BY <1>3, Zenon DEF CInv, PlaceInv, Apart
<1>9. b \in Live
  <2>1. Has(b) BY <1>3, Zenon DEF Has
  <2> QED BY <2>1, LiveIs, Zenon DEF CInv, LivePlaces
<1>10. N \cap (Live \ {b}) = {} BY <1>4, Zenon
<1>11. /\ Incoming' = Incoming \ {b} /\ Retries' = Retries \ {b}
       /\ With(u)' = (With(u) \ {b}) \cup N
       /\ \A w \in Workers \ {u} : With(w)' = With(w) \ {b}
  <2>1. Incoming' = Incoming \ {b} /\ Retries' = Retries \ {b} BY <1>7, <1>8, Zenon
  <2>2. With(u)' = (With(u) \ {b}) \cup N BY <1>3, <1>5, Zenon
  <2>3. ASSUME NEW w \in Workers \ {u} PROVE With(w)' = With(w) \ {b}
    <3>1. With(w)' = With(w) /\ b \notin With(w) BY <1>6, <1>8, Zenon
    <3> QED BY <3>1, Zenon
  <2> QED BY <2>1, <2>2, <2>3, Zenon
<1>12. Apart' /\ Live' = (Live \ {b}) \cup N
  <2>1. GivesWorker(b, u, N) BY <1>10, <1>11, Zenon DEF GivesWorker
  <2> QED BY <1>a, <2>1, GiveWorker, Zenon
<1>13. PlaceInv'
  <2>1. ASSUME NEW w \in Workers
        PROVE  /\ held'[w] # NoBatch => requests'[w] = <<>>
               /\ \A i, j \in 1 .. Len(requests'[w]) :
                    requests'[w][i].batch = requests'[w][j].batch => i = j
    <3>1. CASE w = u
      <4>1. held'[w] = NoBatch /\ requests'[w] = q BY <1>2, <3>1, Zenon
      <4> QED BY <4>1
    <3>2. CASE w # u
      <4>1. held'[w] = held[w] /\ requests'[w] = requests[w] BY <1>2, <3>2, Zenon
      <4>2. /\ held[w] # NoBatch => requests[w] = <<>>
            /\ \A i, j \in 1 .. Len(requests[w]) :
                 requests[w][i].batch = requests[w][j].batch => i = j
        BY Zenon DEF CInv, PlaceInv
      <4> QED BY <4>1, <4>2
    <3> QED BY <3>1, <3>2
  <2>2. \A i, j \in 1 .. Len(retryBatches') : retryBatches'[i] = retryBatches'[j] => i = j
    BY Zenon DEF CInv, PlaceInv
  <2> QED BY <1>12, <2>1, <2>2, Zenon DEF PlaceInv
<1> QED BY <1>b, <1>9, <1>12, <1>13, Zenon

\* The first request of worker u, with batch b, is taken, and the batches in N, at most one,
\* are appended to those to retry.
TakesRequest(u, b, N) ==
  /\ requests[u] # <<>> /\ b = Head(requests[u]).batch
  /\ held' = held /\ requests' = [requests EXCEPT ![u] = Tail(@)]
  /\ N \cap (Live \ {b}) = {}
  /\ Retries' = Retries \cup N
  /\ \A i, j \in 1 .. Len(retryBatches') : retryBatches'[i] = retryBatches'[j] => i = j
  /\ UNCHANGED <<queueBatch, response>>

\* They take the place of the batch.
LEMMA WorkerReturns ==
  ASSUME CInv, TypeOK', NEW u \in Workers, NEW b, NEW N, TakesRequest(u, b, N)
  PROVE  PlaceInv' /\ b \in Live /\ Live' = (Live \ {b}) \cup N
<1> USE DEF TakesRequest
<1>1. held \in [Workers -> Batch \cup {NoBatch}] /\ requests \in [Workers -> Seq(Request)]
  BY Zenon DEF CInv, TypeOK
<1>2. /\ requests'[u] = Tail(requests[u]) /\ held[u] = NoBatch /\ requests[u] \in Seq(Request)
      /\ \A w \in Workers \ {u} : held'[w] = held[w] /\ requests'[w] = requests[w]
  BY <1>1, Zenon DEF CInv, PlaceInv
<1>3. \A i, j \in 1 .. Len(requests[u]) :
        requests[u][i].batch = requests[u][j].batch => i = j
  BY Zenon DEF CInv, PlaceInv
<1>a. PICK s : s = requests[u] BY Zenon
<1>b. /\ {Tail(s)[i].batch : i \in 1 .. Len(Tail(s))}
            = {s[i].batch : i \in 1 .. Len(s)} \ {Head(s).batch}
      /\ Head(s).batch \in {s[i].batch : i \in 1 .. Len(s)}
      /\ \A i, j \in 1 .. Len(Tail(s)) : Tail(s)[i].batch = Tail(s)[j].batch => i = j
  <2>1. s \in Seq(Request) /\ s # <<>> BY <1>2, <1>a, Zenon
  <2>2. \A i, j \in 1 .. Len(s) : s[i].batch = s[j].batch => i = j BY <1>3, <1>a, Zenon
  <2> QED BY <2>1, <2>2, TailRequests, Zenon
<1>c. requests'[u] = Tail(s) /\ b = Head(s).batch BY <1>2, <1>a, Zenon
<1>4. /\ Returned(u)' = Returned(u) \ {b} /\ b \in Returned(u)
      /\ \A i, j \in 1 .. Len(requests'[u]) :
           requests'[u][i].batch = requests'[u][j].batch => i = j
  <2>1. Returned(u) = {s[i].batch : i \in 1 .. Len(s)} BY <1>a, Zenon DEF Returned
  <2>2. Returned(u)' = {Tail(s)[i].batch : i \in 1 .. Len(Tail(s))} BY <1>c, Zenon DEF Returned
  <2> QED BY <1>b, <1>c, <2>1, <2>2, Zenon
<1>5. With(u) = Returned(u) /\ With(u)' = Returned(u)' BY <1>2, Zenon DEF With
<1>d. b \in With(u) BY <1>4, <1>5, Zenon
<1>e. TypeOK /\ Apart BY Zenon DEF CInv, PlaceInv
<1>6. \A w \in Workers \ {u} : With(w)' = With(w) BY <1>2, OtherWorkers, Zenon
<1>7. Incoming' = Incoming BY Zenon DEF Incoming
<1>8. /\ b \notin Incoming /\ b \notin Retries /\ \A w \in Workers \ {u} : b \notin With(w)
  BY <1>d, Zenon DEF CInv, PlaceInv, Apart
<1>9. b \in Live
  <2>1. Has(b) BY <1>d, Zenon DEF Has
  <2> QED BY <2>1, LiveIs, Zenon DEF CInv, LivePlaces
<1>10. /\ Incoming' = Incoming \ {b} /\ Retries' = (Retries \ {b}) \cup N
       /\ \A w \in Workers : With(w)' = With(w) \ {b}
  <2>1. Incoming' = Incoming \ {b} /\ Retries' = (Retries \ {b}) \cup N BY <1>7, <1>8, Zenon
  <2>2. With(u)' = With(u) \ {b} BY <1>4, <1>5, Zenon
  <2>3. ASSUME NEW w \in Workers, w # u PROVE With(w)' = With(w) \ {b}
    <3>1. With(w)' = With(w) /\ b \notin With(w) BY <1>6, <1>8, <2>3, Zenon
    <3> QED BY <3>1, Zenon
  <2> QED BY <2>1, <2>2, <2>3, Zenon
<1>11. Apart' /\ Live' = (Live \ {b}) \cup N
  BY <1>e, <1>10, GiveRetries, Zenon
<1>12. ASSUME NEW w \in Workers
       PROVE  /\ held'[w] # NoBatch => requests'[w] = <<>>
              /\ \A i, j \in 1 .. Len(requests'[w]) :
                   requests'[w][i].batch = requests'[w][j].batch => i = j
  <2>1. CASE w = u
    <3>1. held'[w] = NoBatch BY <1>2, <2>1, Zenon
    <3>2. \A i, j \in 1 .. Len(requests'[w]) :
            requests'[w][i].batch = requests'[w][j].batch => i = j
      BY <1>4, <2>1, Zenon
    <3> QED BY <3>1, <3>2, Zenon
  <2>2. CASE w # u
    <3> HIDE DEF TakesRequest
    <3>1. held'[w] = held[w] /\ requests'[w] = requests[w] BY <1>2, <2>2, Zenon
    <3>2. /\ held[w] # NoBatch => requests[w] = <<>>
          /\ \A i, j \in 1 .. Len(requests[w]) :
               requests[w][i].batch = requests[w][j].batch => i = j
      BY Zenon DEF CInv, PlaceInv
    <3> QED BY <3>1, <3>2
  <2> QED BY <2>1, <2>2, Zenon
<1> QED BY <1>9, <1>11, <1>12, Zenon DEF PlaceInv

\* The events E of batch b are settled, one way or the other.
LEMMA Settle ==
  ASSUME TypeOK, NEW b \in Batch, NEW E \in SUBSET Events,
         \/ acked' = [acked EXCEPT ![b.from] = @ \cup E] /\ dropped' = dropped
         \/ dropped' = [dropped EXCEPT ![b.from] = @ \cup E] /\ acked' = acked
  PROVE  /\ acked' \in [Originals -> SUBSET Events] /\ dropped' \in [Originals -> SUBSET Events]
         /\ \A o \in Originals : Settled(o)' = IF o = b.from THEN Settled(o) \cup E ELSE Settled(o)
<1>1. acked \in [Originals -> SUBSET Events] /\ dropped \in [Originals -> SUBSET Events]
  BY Zenon DEF TypeOK
<1>2. b.from \in Originals BY DEF Batch
<1>3. acked' \in [Originals -> SUBSET Events] /\ dropped' \in [Originals -> SUBSET Events]
  BY <1>1, <1>2
<1>4. ASSUME NEW o \in Originals
      PROVE  Settled(o)' = IF o = b.from THEN Settled(o) \cup E ELSE Settled(o)
  BY <1>1, <1>2 DEF Settled
<1> QED BY <1>3, <1>4

\* A worker that is done with its batch: ACK, Drop, or a batch that can not be split.
LEMMA FinishInv ==
  ASSUME CInv, NEW u \in Workers, held[u] # NoBatch, held' = [held EXCEPT ![u] = NoBatch],
         Done(held[u]), UNCHANGED <<consumerVars, readerVars, requests, connected>>,
         \/ acked' = [acked EXCEPT ![held[u].from] = @ \cup held[u].events] /\ dropped' = dropped
         \/ dropped' = [dropped EXCEPT ![held[u].from] = @ \cup held[u].events] /\ acked' = acked
  PROVE  CInv'
<1> USE DEF consumerVars, readerVars
<1>1. PICK b : b = held[u] BY Zenon
<1>2. TypeOK BY Zenon DEF CInv
<1>3. b \in Batch /\ b.events \in SUBSET Events
  <2>1. b \in Batch BY <1>1, <1>2, Zenon DEF TypeOK
  <2> QED BY <2>1 DEF Batch
<1>4. doneCount' \in [Originals -> Nat] /\ outstanding' \in [Originals -> Int]
  BY <1>1, <1>2, <1>3, DoneTypes, Zenon
<1>5. /\ acked' \in [Originals -> SUBSET Events] /\ dropped' \in [Originals -> SUBSET Events]
      /\ \A o \in Originals : Settled(o)' = IF o = b.from THEN Settled(o) \cup b.events ELSE Settled(o)
  BY <1>1, <1>2, <1>3, Settle, Zenon
<1>6. held' \in [Workers -> Batch \cup {NoBatch}] BY <1>2, Zenon DEF TypeOK
<1>7. TypeOK' BY <1>2, <1>4, <1>5, <1>6, Zenon DEF TypeOK
<1>8. ReaderInv' BY Zenon DEF CInv, ReaderInv
<1>9. requests' = [requests EXCEPT ![u] = <<>>]
  <2>1. requests \in [Workers -> Seq(Request)] /\ requests[u] = <<>>
    BY Zenon DEF CInv, TypeOK, PlaceInv
  <2> QED BY <2>1
<1>10. PlaceInv' /\ b \in Live /\ Live' = Live \ {b}
  <2>1. PICK q : q = <<>> BY Zenon
  <2>2. Len(q) = 0 /\ 1 .. Len(q) = {} BY <2>1
  <2>a. Batches(q) = {} BY <2>2, Zenon DEF Batches
  <2>3. requests' = [requests EXCEPT ![u] = q] BY <1>9, <2>1, Zenon
  <2>4. /\ PlaceInv' /\ b \in Live
        /\ Live' = (Live \ {b}) \cup Batches(q)
    <3>1. SendsFor(u, b, q) BY <1>1, <2>2, <2>3, Zenon DEF SendsFor
    <3> QED BY <1>7, <3>1, WorkerReplies, Zenon
  <2> QED BY <2>a, <2>4, Zenon
<1>11. BatchInv'
  <2>1. Done(b) /\ BatchInv BY <1>1, Zenon DEF CInv
  <2> QED BY <1>2, <1>5, <1>10, <2>1, RemoveStep, Zenon
<1> QED BY <1>7, <1>8, <1>10, <1>11, Zenon DEF CInv

\* The output got the batch, gives it up, or can not split it.
LEMMA OutputDoneInv ==
  ASSUME CInv, NEW w \in Workers, ACK(w) \/ DropBatch(w) \/ SplitFails(w)
  PROVE  CInv'
BY FinishInv, Zenon DEF ACK, DropBatch, SplitFails, Reply, Drop

\* Worker w sends batch c, what it keeps of its batch b, back to the consumer.
SendsBack(w, b, c, decrease) ==
  /\ b = held[w] /\ b # NoBatch
  /\ c.from = b.from /\ c.part = b.part /\ c.split = b.split /\ c.events \subseteq b.events
  /\ SplitsWhole /\ "splitRetry" \in Replies => c.events = b.events
  /\ SendRetry(w, c, decrease) /\ held' = [held EXCEPT ![w] = NoBatch]
  /\ acked' = [acked EXCEPT ![b.from] = @ \cup (b.events \ c.events)]
  /\ connected' \in [Workers -> {"no", "connecting", "yes"}]
  /\ UNCHANGED <<consumerVars, readerVars, doneVars, dropped>>

\* Nothing but the events it keeps and those that are settled are different.
LEMMA SendBackInv ==
  ASSUME CInv, NEW w \in Workers, NEW b, NEW c \in Batch, NEW decrease \in BOOLEAN,
         SendsBack(w, b, c, decrease)
  PROVE  CInv'
<1> USE DEF consumerVars, readerVars, SendsBack
<1>1. TypeOK BY Zenon DEF CInv
<1>2. b \in Batch /\ b.events \in SUBSET Events
  <2>1. b \in Batch BY <1>1, Zenon DEF TypeOK
  <2> QED BY <2>1 DEF Batch
<1>3. PICK r : r = [batch |-> c, decreaseTTL |-> decrease] BY Zenon
<1>4. r \in Request /\ r.batch = c BY <1>3 DEF Request
<1>5. PICK q : q = <<r>> BY Zenon
<1>6. /\ q \in Seq(Request) /\ Len(q) = 1 /\ q[1] = r /\ 1 .. Len(q) = {1}
  BY <1>4, <1>5
<1>7. requests' = [requests EXCEPT ![w] = q] BY <1>3, <1>5, Zenon DEF SendRetry
<1>8. /\ requests' \in [Workers -> Seq(Request)] /\ held' \in [Workers -> Batch \cup {NoBatch}]
  <2>1. requests \in [Workers -> Seq(Request)] /\ held \in [Workers -> Batch \cup {NoBatch}]
    BY <1>1, Zenon DEF TypeOK
  <2> QED BY <1>6, <1>7, <2>1
<1>9. b.events \ c.events \in SUBSET Events BY <1>2, Zenon
<1>10. /\ acked' \in [Originals -> SUBSET Events] /\ dropped' \in [Originals -> SUBSET Events]
       /\ \A o \in Originals : Settled(o)' = IF o = b.from THEN Settled(o) \cup (b.events \ c.events)
                                              ELSE Settled(o)
  BY <1>1, <1>2, <1>9, Settle, Zenon
<1>11. TypeOK' BY <1>1, <1>8, <1>10, Zenon DEF TypeOK, doneVars
<1>12. ReaderInv' BY Zenon DEF CInv, ReaderInv
<1>13. b \in Live
  <2>1. Has(b) BY Zenon DEF Has, With
  <2> QED BY <1>1, <2>1, LiveIs, Zenon DEF LivePlaces
<1>14. c \notin Live \ {b}
  <2>1. LiveInv /\ b.part # {} BY <1>13, Zenon DEF CInv, BatchInv, LiveInv
  <2> QED BY <1>13, <2>1, PartIsNew, Zenon
<1>15. /\ \A i, j \in 1 .. Len(q) : q[i].batch = q[j].batch => i = j
       /\ \A i \in 1 .. Len(q) : q[i].batch \notin Live \ {b}
  BY <1>4, <1>6, <1>14, Zenon
<1>16. /\ PlaceInv' /\ Live' = (Live \ {b}) \cup Batches(q)
  <2>1. SendsFor(w, b, q) BY <1>7, <1>15, Zenon DEF SendsFor
  <2> QED BY <1>11, <2>1, WorkerReplies, Zenon
<1>17. Live' = (Live \ {b}) \cup {c}
  <2>1. Batches(q) = {c} BY <1>4, <1>6, Zenon DEF Batches
  <2> QED BY <1>16, <2>1, Zenon
<1>18. BatchInv'
  <2>1. BatchInv BY Zenon DEF CInv
  <2> QED BY <1>1, <1>10, <1>13, <1>17, <2>1, ChangeStep, Zenon
<1> QED BY <1>11, <1>12, <1>16, <1>18, Zenon DEF CInv

\* The batch failed, and is sent again.
LEMMA RetryInv ==
  ASSUME CInv, NEW w \in Workers, Retry(w) \/ Cancelled(w)
  PROVE  CInv'
<1>1. PICK b : b = held[w] BY Zenon
<1>2. /\ b # NoBatch /\ held' = [held EXCEPT ![w] = NoBatch]
      /\ \E decrease \in BOOLEAN : SendRetry(w, b, decrease)
      /\ UNCHANGED <<consumerVars, readerVars, doneVars, dropped, acked>>
  BY <1>1, Zenon DEF Retry, Cancelled, Reply, history
<1>3. TypeOK BY Zenon DEF CInv
<1>4. b \in Batch BY <1>1, <1>2, <1>3, Zenon DEF TypeOK
<1>5. acked' = [acked EXCEPT ![b.from] = @ \cup (b.events \ b.events)]
  <2>1. acked \in [Originals -> SUBSET Events] BY <1>3, Zenon DEF TypeOK
  <2>2. b.from \in Originals BY <1>4 DEF Batch
  <2>3. acked[b.from] \cup (b.events \ b.events) = acked[b.from] BY Zenon
  <2> QED BY <1>2, <2>1, <2>2, <2>3
<1>6. connected' \in [Workers -> {"no", "connecting", "yes"}]
  <2>1. connected \in [Workers -> {"no", "connecting", "yes"}] BY <1>3, Zenon DEF TypeOK
  <2>2. connected' \in {connected, [connected EXCEPT ![w] = "no"]} BY Zenon DEF Retry, Cancelled
  <2> QED BY <2>1, <2>2
<1>7. PICK decrease \in BOOLEAN : SendRetry(w, b, decrease) BY <1>2, Zenon
<1>8. SendsBack(w, b, b, decrease) BY <1>1, <1>2, <1>5, <1>6, <1>7, Zenon DEF SendsBack
<1> QED BY <1>4, <1>8, SendBackInv, Zenon

\* Some of its events failed.
LEMMA RetryEventsInv ==
  ASSUME CInv, NEW w \in Workers, RetryEvents(w)
  PROVE  CInv'
<1>1. PICK b : b = held[w] BY Zenon
<1>2. /\ b # NoBatch /\ held' = [held EXCEPT ![w] = NoBatch]
      /\ "retryEvents" \in Replies
      /\ UNCHANGED <<consumerVars, readerVars, doneVars, dropped>>
  BY <1>1, Zenon DEF RetryEvents, Reply
<1>3. PICK rest \in SUBSET b.events :
        /\ SendRetry(w, WithEvents(b, rest), TRUE)
        /\ acked' = [acked EXCEPT ![b.from] = @ \cup (b.events \ rest)]
  BY <1>1, Zenon DEF RetryEvents
<1>4. TypeOK BY Zenon DEF CInv
<1>5. b \in Batch BY <1>1, <1>2, <1>4, Zenon DEF TypeOK
<1>6. PICK c : c = WithEvents(b, rest) BY Zenon
<1>7. /\ c \in Batch /\ c.from = b.from /\ c.part = b.part /\ c.split = b.split
      /\ c.events = rest
  <2>1. c = [b EXCEPT !.events = rest] BY <1>6, Zenon DEF WithEvents
  <2> QED BY <1>5, <2>1 DEF Batch
<1>8. connected' \in [Workers -> {"no", "connecting", "yes"}]
  <2>1. connected \in [Workers -> {"no", "connecting", "yes"}] BY <1>4, Zenon DEF TypeOK
  <2>2. connected' \in {connected, [connected EXCEPT ![w] = "no"]} BY Zenon DEF RetryEvents
  <2> QED BY <2>1, <2>2
<1>9. ~(SplitsWhole /\ "splitRetry" \in Replies) BY <1>2, Zenon DEF SplitsWhole
<1>10. /\ SendRetry(w, c, TRUE) /\ c.events \subseteq b.events
       /\ acked' = [acked EXCEPT ![b.from] = @ \cup (b.events \ c.events)]
  BY <1>3, <1>6, <1>7, Zenon
<1>11. TRUE \in BOOLEAN OBVIOUS
<1>12. SendsBack(w, b, c, TRUE) BY <1>1, <1>2, <1>7, <1>8, <1>9, <1>10, Zenon DEF SendsBack
<1> QED BY <1>7, <1>11, <1>12, SendBackInv, Zenon

\* The halves of a batch that is split.
LEMMA Halves ==
  ASSUME NEW b \in Batch, Cardinality(b.events) >= 2, NEW half \in SUBSET b.events,
         Cardinality(half) = Cardinality(b.events) \div 2
  PROVE  /\ half # {} /\ SecondHalf(b, half) # {}
         /\ half \cup SecondHalf(b, half) = b.events /\ half \cap SecondHalf(b, half) = {}
         /\ Cardinality(b.events) \in Nat
<1>1. IsFiniteSet(Events)
  <2>1. Size \in Nat BY EventConsumerAssumption
  <2> QED BY <2>1, FS_Interval DEF Events
<1>2. b.events \subseteq Events BY DEF Batch
<1>3. IsFiniteSet(b.events) BY <1>1, <1>2, FS_Subset, Zenon
<1>4. Cardinality(b.events) \in Nat BY <1>3, FS_CardinalityType, Zenon
<1>5. Cardinality(half) # 0 /\ Cardinality(half) # Cardinality(b.events) BY <1>4
<1>6. half # {} BY <1>5, FS_EmptySet, Zenon
<1>7. half # b.events BY <1>5, Zenon
<1> QED BY <1>4, <1>6, <1>7, Zenon DEF SecondHalf

\* The batch was too large.
LEMMA SplitRetryInv ==
  ASSUME CInv, NEW w \in Workers, SplitRetry(w)
  PROVE  CInv'
<1> USE DEF consumerVars, readerVars
<1>1. PICK b : b = held[w] BY Zenon
<1>2. /\ b # NoBatch /\ held' = [held EXCEPT ![w] = NoBatch] /\ "splitRetry" \in Replies
      /\ Cardinality(b.events) >= 2
      /\ outstanding' = IF b.split THEN outstanding
                        ELSE [outstanding EXCEPT ![b.from] = Cardinality(b.events)]
      /\ UNCHANGED <<consumerVars, readerVars, connected, doneCount, history>>
  BY <1>1, Zenon DEF SplitRetry, Reply
<1>3. PICK half \in SUBSET b.events :
        /\ Cardinality(half) = Cardinality(b.events) \div 2
        /\ requests' = [requests EXCEPT ![w] =
               <<[batch |-> Part(b, half), decreaseTTL |-> FALSE],
                 [batch |-> Part(b, SecondHalf(b, half)), decreaseTTL |-> FALSE]>>]
  BY <1>1, Zenon DEF SplitRetry
<1>4. TypeOK BY Zenon DEF CInv
<1>5. b \in Batch BY <1>1, <1>2, <1>4, Zenon DEF TypeOK
<1>6. PICK rest : rest = SecondHalf(b, half) BY Zenon
<1>7. /\ half # {} /\ rest # {} /\ half \cup rest = b.events /\ half \cap rest = {}
      /\ Cardinality(b.events) \in Nat
  BY <1>2, <1>3, <1>5, <1>6, Halves, Zenon
<1>8. half \in SUBSET Events /\ rest \in SUBSET Events /\ b.from \in Originals BY <1>5, <1>7 DEF Batch
<1>9. PICK c : c = Part(b, half) BY Zenon
<1>10. PICK d : d = Part(b, rest) BY Zenon
<1>11. c \in Batch /\ c.from = b.from /\ c.events = half /\ c.part = half /\ c.split
  <2>1. c = [b EXCEPT !.events = half, !.part = half, !.split = TRUE] BY <1>9, Zenon DEF Part
  <2> QED BY <1>5, <1>8, <2>1, Zenon DEF Batch
<1>12. d \in Batch /\ d.from = b.from /\ d.events = rest /\ d.part = rest /\ d.split
  <2>1. d = [b EXCEPT !.events = rest, !.part = rest, !.split = TRUE] BY <1>10, Zenon DEF Part
  <2> QED BY <1>5, <1>8, <2>1, Zenon DEF Batch
<1>13. PICK q : q = <<[batch |-> c, decreaseTTL |-> FALSE], [batch |-> d, decreaseTTL |-> FALSE]>>
  BY Zenon
<1>14. /\ q \in Seq(Request) /\ 1 .. Len(q) = {1, 2} /\ q[1].batch = c /\ q[2].batch = d
  <2>1. /\ [batch |-> c, decreaseTTL |-> FALSE] \in Request
        /\ [batch |-> d, decreaseTTL |-> FALSE] \in Request
    BY <1>11, <1>12 DEF Request
  <2> QED BY <1>13, <2>1
<1>15. requests' = [requests EXCEPT ![w] = q] BY <1>3, <1>6, <1>9, <1>10, <1>13, Zenon
<1>16. TypeOK'
  <2>1. /\ requests \in [Workers -> Seq(Request)] /\ held \in [Workers -> Batch \cup {NoBatch}]
        /\ outstanding \in [Originals -> Int]
    BY <1>4, Zenon DEF TypeOK
  <2>2. requests' \in [Workers -> Seq(Request)] BY <1>14, <1>15, <2>1, Zenon
  <2>3. held' \in [Workers -> Batch \cup {NoBatch}] BY <1>2, <2>1, Zenon
  <2>4. outstanding' \in [Originals -> Int]
    <3>1. Cardinality(b.events) \in Int BY <1>7
    <3> QED BY <1>2, <2>1, <3>1, Zenon
  <2> QED BY <1>2, <1>4, <2>2, <2>3, <2>4, Zenon DEF TypeOK, history
<1>17. ReaderInv' BY <1>2, Zenon DEF CInv, ReaderInv
<1>18. b \in Live
  <2>1. Has(b) BY <1>1, <1>2, Zenon DEF Has, With
  <2> QED BY <1>4, <2>1, LiveIs, Zenon DEF LivePlaces
<1>19. c \notin Live \ {b} /\ d \notin Live \ {b} /\ c # d
  <2>1. LiveInv /\ b.events \subseteq b.part BY <1>18, Zenon DEF CInv, BatchInv, LiveInv
  <2>2. c.part \subseteq b.part /\ d.part \subseteq b.part BY <1>7, <1>11, <1>12, <2>1, Zenon
  <2>3. c \notin Live \ {b} BY <1>7, <1>11, <1>18, <2>1, <2>2, PartIsNew, Zenon
  <2>4. d \notin Live \ {b} BY <1>7, <1>12, <1>18, <2>1, <2>2, PartIsNew, Zenon
  <2>5. c # d BY <1>7, <1>11, <1>12, Zenon
  <2> QED BY <2>3, <2>4, <2>5
<1>20. SendsFor(w, b, q)
  <2>1. /\ \A i, j \in 1 .. Len(q) : q[i].batch = q[j].batch => i = j
        /\ \A i \in 1 .. Len(q) : q[i].batch \notin Live \ {b}
    BY <1>14, <1>19, Zenon
  <2> QED BY <1>1, <1>2, <1>15, <2>1, Zenon DEF SendsFor
<1>21. PlaceInv' /\ Live' = (Live \ {b}) \cup Batches(q) BY <1>16, <1>20, WorkerReplies, Zenon
<1>22. Live' = (Live \ {b}) \cup {c, d}
  <2>1. Batches(q) = {c, d} BY <1>14, Zenon DEF Batches
  <2> QED BY <1>21, <2>1, Zenon
<1>23. BatchInv'
  <2>1. BatchInv BY Zenon DEF CInv
  <2>2. /\ c.part = c.events /\ c.part # {} /\ d.part = d.events /\ d.part # {}
        /\ c.events \cup d.events = b.events /\ c.events \cap d.events = {}
    BY <1>7, <1>11, <1>12, Zenon
  <2> QED BY <1>2, <1>4, <1>11, <1>12, <1>18, <1>22, <2>1, <2>2, SplitStep, Zenon
<1> QED BY <1>16, <1>17, <1>21, <1>23, Zenon DEF CInv

\* The batch of the first request of a worker.
LEMMA FirstRequest ==
  ASSUME CInv, NEW u \in Workers, requests[u] # <<>>, NEW b, b = Head(requests[u]).batch
  PROVE  /\ b \in Batch /\ b \in Live /\ b \notin Retries
         /\ [requests EXCEPT ![u] = Tail(@)] \in [Workers -> Seq(Request)]
         /\ Head(requests[u]) \in Request
<1>1. TypeOK BY Zenon DEF CInv
<1>2. requests \in [Workers -> Seq(Request)] BY <1>1, Zenon DEF TypeOK
<1>3. PICK s : s = requests[u] BY Zenon
<1>4. /\ s \in Seq(Request) /\ Tail(s) \in Seq(Request) /\ Head(s) = s[1] /\ Head(s) \in Request
      /\ 1 \in 1 .. Len(s)
  BY <1>2, <1>3
<1>5. [requests EXCEPT ![u] = Tail(@)] \in [Workers -> Seq(Request)] BY <1>2, <1>3, <1>4, Zenon
<1>6. b \in Batch BY <1>3, <1>4, Zenon DEF Request
<1>7. b \in With(u)
  <2>1. b = requests[u][1].batch /\ 1 \in 1 .. Len(requests[u]) BY <1>3, <1>4, Zenon
  <2> QED BY <2>1, Zenon DEF With, Returned
<1>8. b \notin Retries
  <2>1. Apart BY Zenon DEF CInv, PlaceInv
  <2>2. Retries \cap With(u) = {} BY <2>1, Zenon DEF Apart
  <2> QED BY <1>7, <2>2, Zenon
<1>9. b \in Live
  <2>1. Has(b) BY <1>7, Zenon DEF Has
  <2> QED BY <1>1, <2>1, LiveIs, Zenon DEF LivePlaces
<1>10. Head(requests[u]) \in Request BY <1>3, <1>4, Zenon
<1> QED BY <1>5, <1>6, <1>8, <1>9, <1>10, Zenon

\* The first request of worker w is taken, and its batch b dropped.
DropsFirst(w, b) ==
  /\ requests[w] # <<>> /\ b = Head(requests[w]).batch
  /\ Done(b) /\ dropped' = [dropped EXCEPT ![b.from] = @ \cup b.events]
  /\ requests' = [requests EXCEPT ![w] = Tail(@)]
  /\ UNCHANGED <<consumerVars, readerVars, held, connected, acked>>

\* The batch is settled and done.
LEMMA DropFirstInv ==
  ASSUME CInv, NEW w \in Workers, NEW b, DropsFirst(w, b)
  PROVE  CInv'
<1> USE DEF consumerVars, readerVars
<1>1. b = Head(requests[w]).batch BY Zenon DEF DropsFirst
<1>2. /\ requests[w] # <<>> /\ Done(b) /\ dropped' = [dropped EXCEPT ![b.from] = @ \cup b.events]
      /\ requests' = [requests EXCEPT ![w] = Tail(@)]
      /\ UNCHANGED <<consumerVars, readerVars, held, connected, acked>>
  BY Zenon DEF DropsFirst
<1>3. TypeOK BY Zenon DEF CInv
<1>4. b \in Batch /\ requests' \in [Workers -> Seq(Request)] BY <1>1, <1>2, FirstRequest, Zenon
<1>5. b.events \in SUBSET Events BY <1>4 DEF Batch
<1>6. /\ dropped' \in [Originals -> SUBSET Events]
      /\ \A o \in Originals : Settled(o)' = IF o = b.from THEN Settled(o) \cup b.events ELSE Settled(o)
  BY <1>2, <1>3, <1>4, <1>5, Settle, Zenon
<1>7. doneCount' \in [Originals -> Nat] /\ outstanding' \in [Originals -> Int]
  BY <1>2, <1>3, <1>4, DoneTypes, Zenon
<1>8. TypeOK' BY <1>2, <1>3, <1>4, <1>6, <1>7, Zenon DEF TypeOK
<1>9. ReaderInv' BY <1>2, Zenon DEF CInv, ReaderInv
<1>10. TakesRequest(w, b, {})
  <2>1. /\ Retries' = Retries \cup {}
        /\ \A i, j \in 1 .. Len(retryBatches') : retryBatches'[i] = retryBatches'[j] => i = j
    <3>1. \A i, j \in 1 .. Len(retryBatches) : retryBatches[i] = retryBatches[j] => i = j
      BY Zenon DEF CInv, PlaceInv
    <3>2. retryBatches' = retryBatches BY <1>2, Zenon
    <3>3. Retries' = Retries BY <3>2, Zenon DEF Retries
    <3> QED BY <3>1, <3>2, <3>3, Zenon
  <2> QED BY <1>1, <1>2, <2>1, Zenon DEF TakesRequest
<1>11. PlaceInv' /\ b \in Live /\ Live' = Live \ {b}
  <2>1. PlaceInv' /\ b \in Live /\ Live' = (Live \ {b}) \cup {} BY <1>8, <1>10, WorkerReturns, Zenon
  <2> QED BY <2>1, Zenon
<1>12. BatchInv BY Zenon DEF CInv
<1>13. BatchInv' BY <1>2, <1>3, <1>6, <1>11, <1>12, RemoveStep, Zenon
<1> QED BY <1>8, <1>9, <1>11, <1>13, Zenon DEF CInv

\* The consumer is closed: the worker drops the batch it wanted to send back.
LEMMA RetryClosedInv ==
  ASSUME CInv, NEW w \in Workers, RetryClosed(w)
  PROVE  CInv'
<1>1. PICK b : b = Head(requests[w]).batch BY Zenon
<1>2. DropsFirst(w, b) BY <1>1, Zenon DEF RetryClosed, Drop, DropsFirst
<1> QED BY <1>2, DropFirstInv, Zenon

\* The consumer takes a batch back: with its time to live reduced after a failure, when
\* what is filtered out is given up and nothing is left of an expired batch.
LEMMA ReceiveRetryInv ==
  ASSUME CInv, NEW w \in Workers, ReceiveRetry(w)
  PROVE  CInv'
<1> USE DEF readerVars, doneVars
<1>1. PICK b : b = Head(requests[w]).batch BY Zenon
<1>2. PICK decrease : decrease = Head(requests[w]).decreaseTTL BY Zenon
<1>3. PICK c : c = IF decrease THEN reduceTTL(b) ELSE b BY Zenon
<1>4. /\ requests[w] # <<>> /\ requests' = [requests EXCEPT ![w] = Tail(@)]
      /\ dropped' = [dropped EXCEPT ![b.from] = @ \cup (b.events \ c.events)]
      /\ IF decrease /\ Expired(b) THEN Done(b) /\ retryBatches' = retryBatches
         ELSE retryBatches' = Append(retryBatches, c) /\ UNCHANGED doneVars
      /\ UNCHANGED <<consumer, pendingRead, queueBatch, target, reloads, readerVars, held,
                      connected, acked>>
  BY <1>1, <1>2, <1>3, Zenon DEF ReceiveRetry
<1>5. TypeOK BY Zenon DEF CInv
<1>6. /\ b \in Batch /\ b \in Live /\ b \notin Retries
      /\ requests' \in [Workers -> Seq(Request)] /\ Head(requests[w]) \in Request
  BY <1>1, <1>4, FirstRequest, Zenon
<1>7. decrease \in BOOLEAN BY <1>2, <1>6 DEF Request
<1>8. /\ c \in Batch /\ c.from = b.from /\ c.part = b.part /\ c.split = b.split
      /\ c.events \subseteq b.events
      /\ decrease /\ Expired(b) => c.events = {}
      /\ ~(decrease /\ Expired(b)) /\ SplitsWhole /\ "splitRetry" \in Replies => c.events = b.events
  <2>1. CASE decrease
    <3>1. c = reduceTTL(b) BY <1>3, <2>1, Zenon
    <3> QED BY <1>6, <2>1, <3>1, Reduced, Zenon
  <2>2. CASE ~decrease
    <3>1. c = b BY <1>3, <2>2, Zenon
    <3> QED BY <1>6, <2>2, <3>1, Zenon
  <2> QED BY <2>1, <2>2, Zenon
<1>9. CASE decrease /\ Expired(b)
  <2>1. b.events \ c.events = b.events BY <1>8, <1>9, Zenon
  <2>2. DropsFirst(w, b) BY <1>1, <1>4, <1>9, <2>1, Zenon DEF DropsFirst, consumerVars
  <2> QED BY <2>2, DropFirstInv, Zenon
<1>10. CASE ~(decrease /\ Expired(b))
  <2>1. retryBatches' = Append(retryBatches, c) /\ UNCHANGED doneVars BY <1>4, <1>10, Zenon
  <2>2. b.events \ c.events \in SUBSET Events BY <1>6 DEF Batch
  <2>3. /\ dropped' \in [Originals -> SUBSET Events]
        /\ \A o \in Originals :
             Settled(o)' = IF o = b.from THEN Settled(o) \cup (b.events \ c.events) ELSE Settled(o)
    BY <1>4, <1>5, <1>6, <2>2, Settle, Zenon
  <2>4. BatchInv /\ LiveInv /\ b.part # {} BY <1>6, Zenon DEF CInv, BatchInv, LiveInv
  <2>5. c \notin Live \ {b} BY <1>6, <1>8, <2>4, PartIsNew, Zenon
  <2>6. c \notin Retries
    <3>1. Retries \subseteq Live
      <4>1. \A x \in Retries : Has(x) BY Zenon DEF Has
      <4> QED BY <1>5, <4>1, LiveIs, Zenon DEF LivePlaces
    <3> QED BY <1>6, <2>5, <3>1, Zenon
  <2>7. /\ retryBatches \in Seq(Batch)
        /\ \A i, j \in 1 .. Len(retryBatches) : retryBatches[i] = retryBatches[j] => i = j
    BY Zenon DEF CInv, TypeOK, PlaceInv
  <2>8. /\ retryBatches' \in Seq(Batch) /\ Retries' = Retries \cup {c}
        /\ \A i, j \in 1 .. Len(retryBatches') : retryBatches'[i] = retryBatches'[j] => i = j
    <3>1. PICK s : s = retryBatches BY Zenon
    <3>2. /\ s \in Seq(Batch) /\ \A i, j \in 1 .. Len(s) : s[i] = s[j] => i = j
          /\ c \notin {s[i] : i \in 1 .. Len(s)}
      BY <2>6, <2>7, <3>1, Zenon DEF Retries
    <3>3. /\ Append(s, c) \in Seq(Batch)
          /\ {Append(s, c)[i] : i \in 1 .. Len(Append(s, c))} = {s[i] : i \in 1 .. Len(s)} \cup {c}
          /\ \A i, j \in 1 .. Len(Append(s, c)) : Append(s, c)[i] = Append(s, c)[j] => i = j
      BY <1>8, <3>2, AppendBatch, Zenon
    <3>4. retryBatches' = Append(s, c) BY <2>1, <3>1, Zenon
    <3>5. Retries = {s[i] : i \in 1 .. Len(s)} BY <3>1, Zenon DEF Retries
    <3>6. Retries' = {Append(s, c)[i] : i \in 1 .. Len(Append(s, c))} BY <3>4, Zenon DEF Retries
    <3>7. Retries' = Retries \cup {c} BY <3>3, <3>5, <3>6, Zenon
    <3>8. \A i, j \in 1 .. Len(retryBatches') : retryBatches'[i] = retryBatches'[j] => i = j
      BY <3>3, <3>4, Zenon
    <3> QED BY <3>3, <3>4, <3>7, <3>8, Zenon
  <2>9. TypeOK' BY <1>4, <1>5, <1>6, <2>1, <2>3, <2>8, Zenon DEF TypeOK
  <2>10. ReaderInv' BY <1>4, Zenon DEF CInv, ReaderInv
  <2>11. TakesRequest(w, b, {c})
    <3>1. {c} \cap (Live \ {b}) = {} BY <2>5, Zenon
    <3> QED BY <1>1, <1>4, <2>8, <3>1, Zenon DEF TakesRequest
  <2>12. PlaceInv' /\ Live' = (Live \ {b}) \cup {c} BY <2>9, <2>11, WorkerReturns, Zenon
  <2>13. BatchInv'
    <3>1. /\ UNCHANGED <<read, consumer, doneVars>>
          /\ SplitsWhole /\ "splitRetry" \in Replies => c.events = b.events
      BY <1>4, <1>8, <1>10, <2>1, Zenon
    <3> HIDE DEF doneVars
    <3> QED BY <1>5, <1>6, <1>8, <2>3, <2>4, <2>12, <3>1, ChangeStep, Zenon
  <2> QED BY <2>9, <2>10, <2>12, <2>13, Zenon DEF CInv
<1> QED BY <1>7, <1>9, <1>10, Zenon

\* The active batch leaves the consumer.
LEMMA ActiveLeaves ==
  ASSUME CInv, NEW b, b = active, b # NoBatch, response' = response,
         IF retryBatches # <<>>
         THEN retryBatches' = Tail(retryBatches) /\ queueBatch' = queueBatch
         ELSE queueBatch' = NoBatch /\ retryBatches' = retryBatches
  PROVE  /\ b \in Batch /\ b \in Incoming \cup Retries
         /\ Incoming' = Incoming \ {b} /\ Retries' = Retries \ {b}
         /\ retryBatches' \in Seq(Batch) /\ queueBatch' \in {queueBatch, NoBatch}
         /\ \A i, j \in 1 .. Len(retryBatches') : retryBatches'[i] = retryBatches'[j] => i = j
<1>1. /\ retryBatches \in Seq(Batch) /\ queueBatch \in Batch \cup {NoBatch}
      /\ response \in Batch \cup {NoBatch}
  BY Zenon DEF CInv, TypeOK
<1>2. \A i, j \in 1 .. Len(retryBatches) : retryBatches[i] = retryBatches[j] => i = j
  BY Zenon DEF CInv, PlaceInv
<1>3. Incoming \cap Retries = {} BY Zenon DEF CInv, PlaceInv, Apart
<1>4. CASE retryBatches # <<>>
  <2>1. PICK s : s = retryBatches BY Zenon
  <2>2. /\ s \in Seq(Batch) /\ s # <<>> /\ \A i, j \in 1 .. Len(s) : s[i] = s[j] => i = j
    BY <1>1, <1>2, <1>4, <2>1, Zenon
  <2>3. /\ {Tail(s)[i] : i \in 1 .. Len(Tail(s))} = {s[i] : i \in 1 .. Len(s)} \ {Head(s)}
        /\ Head(s) \in {s[i] : i \in 1 .. Len(s)}
        /\ \A i, j \in 1 .. Len(Tail(s)) : Tail(s)[i] = Tail(s)[j] => i = j
    BY <2>2, TailBatches, Zenon
  <2>4. Tail(s) \in Seq(Batch) /\ Head(s) \in Batch BY <2>2
  <2>5. b = Head(s) /\ retryBatches' = Tail(s) /\ queueBatch' = queueBatch
    BY <1>4, <2>1, Zenon DEF active
  <2>6. Retries = {s[i] : i \in 1 .. Len(s)} BY <2>1, Zenon DEF Retries
  <2>7. Retries' = {Tail(s)[i] : i \in 1 .. Len(Tail(s))} BY <2>5, Zenon DEF Retries
  <2>8. b \in Retries /\ Retries' = Retries \ {b} BY <2>3, <2>5, <2>6, <2>7, Zenon
  <2>9. Incoming' = Incoming \ {b}
    <3>1. Incoming' = Incoming BY <2>5, Zenon DEF Incoming
    <3> QED BY <1>3, <2>8, <3>1, Zenon
  <2>10. \A i, j \in 1 .. Len(retryBatches') : retryBatches'[i] = retryBatches'[j] => i = j
    BY <2>3, <2>5, Zenon
  <2> QED BY <2>4, <2>5, <2>8, <2>9, <2>10, Zenon
<1>5. CASE retryBatches = <<>>
  <2>1. b = queueBatch /\ queueBatch' = NoBatch /\ retryBatches' = retryBatches
    BY <1>5, Zenon DEF active
  <2>2. response = NoBatch
    <3>1. /\ pendingRead => queueBatch = NoBatch
          /\ response # NoBatch => reader = "response"
          /\ reader \in {"request", "response"} => pendingRead
      BY Zenon DEF CInv, ReaderInv
    <3> QED BY <2>1, <3>1, Zenon
  <2>3. Incoming = {b} /\ Incoming' = {} BY <2>1, <2>2, Zenon DEF Incoming
  <2>4. Retries' = Retries BY <2>1, Zenon DEF Retries
  <2>5. b \notin Retries BY <1>3, <2>3, Zenon
  <2>6. Retries' = Retries \ {b} BY <2>4, <2>5, Zenon
  <2>7. Incoming' = Incoming \ {b} /\ b \in Incoming BY <2>3, Zenon
  <2>8. b \in Batch BY <1>1, <2>1, Zenon
  <2> QED BY <1>1, <1>2, <2>1, <2>6, <2>7, <2>8, Zenon
<1> QED BY <1>4, <1>5, Zenon

\* Worker w, which had nothing, has batch b: to send it, or to give it back.
LEMMA SendBatchInv ==
  ASSUME CInv, NEW w \in Workers, SendBatch(w)
  PROVE  CInv'
<1> USE DEF readerVars
<1>1. PICK b : b = active BY Zenon
<1>2. PICK r : r = [batch |-> b, decreaseTTL |-> FALSE] BY Zenon
<1>3. /\ b # NoBatch /\ held[w] = NoBatch /\ requests[w] = <<>>
      /\ \/ held' = [held EXCEPT ![w] = b] /\ UNCHANGED <<requests, connected>>
         \/ /\ requests' = [requests EXCEPT ![w] = <<r>>] /\ held' = held
            /\ connected' = [connected EXCEPT ![w] = "connecting"]
      /\ IF retryBatches # <<>>
         THEN retryBatches' = Tail(retryBatches) /\ queueBatch' = queueBatch
         ELSE queueBatch' = NoBatch /\ retryBatches' = retryBatches
      /\ UNCHANGED <<consumer, pendingRead, target, reloads, readerVars, doneVars, history>>
  BY <1>1, <1>2, Zenon DEF SendBatch
<1>4. /\ b \in Batch /\ b \in Incoming \cup Retries
      /\ Incoming' = Incoming \ {b} /\ Retries' = Retries \ {b}
      /\ retryBatches' \in Seq(Batch) /\ queueBatch' \in {queueBatch, NoBatch}
      /\ \A i, j \in 1 .. Len(retryBatches') : retryBatches'[i] = retryBatches'[j] => i = j
  BY <1>1, <1>3, ActiveLeaves, Zenon
<1>5. r \in Request /\ r.batch = b BY <1>2, <1>4 DEF Request
<1>6. <<r>> \in Seq(Request) /\ 1 .. Len(<<r>>) = {1} /\ <<r>>[1] = r BY <1>5
<1>7. TypeOK /\ Apart BY Zenon DEF CInv, PlaceInv
<1>8. /\ held \in [Workers -> Batch \cup {NoBatch}] /\ requests \in [Workers -> Seq(Request)]
      /\ connected \in [Workers -> {"no", "connecting", "yes"}]
      /\ queueBatch \in Batch \cup {NoBatch}
  BY <1>7, Zenon DEF TypeOK
<1>9. /\ held' \in [Workers -> Batch \cup {NoBatch}] /\ requests' \in [Workers -> Seq(Request)]
      /\ connected' \in [Workers -> {"no", "connecting", "yes"}]
      /\ queueBatch' \in Batch \cup {NoBatch}
  <2>1. held' \in [Workers -> Batch \cup {NoBatch}] BY <1>3, <1>4, <1>8, Zenon
  <2>2. requests' \in [Workers -> Seq(Request)] BY <1>3, <1>6, <1>8, Zenon
  <2>3. connected' \in [Workers -> {"no", "connecting", "yes"}] BY <1>3, <1>8, Zenon
  <2> QED BY <1>4, <1>8, <2>1, <2>2, <2>3, Zenon
<1>10. TypeOK'
  <2>1. /\ queueBatch' \in Batch \cup {NoBatch} /\ response' \in Batch \cup {NoBatch}
        /\ pendingRead' \in BOOLEAN /\ target' \in BOOLEAN
    BY <1>3, <1>7, <1>9, Zenon DEF TypeOK
  <2> QED BY <1>3, <1>4, <1>7, <1>9, <2>1, Zenon DEF TypeOK, doneVars, history
<1>11. ReaderInv' BY <1>3, <1>4, Zenon DEF CInv, ReaderInv
<1>12. /\ \/ held'[w] = b /\ requests'[w] = <<>>
          \/ held'[w] = NoBatch /\ requests'[w] = <<r>>
       /\ \A u \in Workers \ {w} : held'[u] = held[u] /\ requests'[u] = requests[u]
  BY <1>3, <1>8, Zenon
<1>13. GivesWorker(b, w, {b})
  <2>1. With(w) = {}
    <3>1. 1 .. Len(<<>>) = {} OBVIOUS
    <3>2. Returned(w) = {} BY <1>3, <3>1, Zenon DEF Returned
    <3> QED BY <1>3, <3>2, Zenon DEF With
  <2>2. With(w)' = {b}
    <3>1. CASE held'[w] = b /\ requests'[w] = <<>>
      <4>1. 1 .. Len(<<>>) = {} OBVIOUS
      <4>2. Returned(w)' = {} BY <3>1, <4>1, Zenon DEF Returned
      <4> QED BY <1>3, <3>1, <4>2, Zenon DEF With
    <3>2. CASE held'[w] = NoBatch /\ requests'[w] = <<r>>
      <4>1. Returned(w)' = {b} BY <1>5, <1>6, <3>2, Zenon DEF Returned
      <4> QED BY <3>2, <4>1, Zenon DEF With
    <3> QED BY <1>12, <3>1, <3>2, Zenon
  <2>3. ASSUME NEW u \in Workers \ {w} PROVE With(u)' = With(u) \ {b}
    <3>1. With(u)' = With(u) BY <1>12, <2>3, OtherWorkers, Zenon
    <3>2. b \notin With(u) BY <1>4, <1>7, <2>3, Zenon DEF Apart
    <3> QED BY <3>1, <3>2, Zenon
  <2> QED BY <1>4, <2>1, <2>2, <2>3, Zenon DEF GivesWorker
<1>14. Apart' /\ Live' = (Live \ {b}) \cup {b} BY <1>7, <1>10, <1>13, GiveWorker, Zenon
<1>15. Live' = Live
  <2>1. Has(b) BY <1>4, Zenon DEF Has
  <2>2. b \in Live BY <1>7, <2>1, LiveIs, Zenon DEF LivePlaces
  <2> QED BY <1>14, <2>2, Zenon
<1>16. ASSUME NEW u \in Workers
       PROVE  /\ held'[u] # NoBatch => requests'[u] = <<>>
              /\ \A i, j \in 1 .. Len(requests'[u]) :
                   requests'[u][i].batch = requests'[u][j].batch => i = j
  <2>1. CASE u = w
    <3>1. \A i, j \in 1 .. Len(<<>>) : i = j OBVIOUS
    <3>2. \A i, j \in 1 .. Len(<<r>>) : i = j BY <1>6, Zenon
    <3>3. PICK q : q = requests'[u] BY Zenon
    <3>4. q = <<>> \/ q = <<r>> BY <1>12, <2>1, <3>3, Zenon
    <3>5. \A i, j \in 1 .. Len(q) : i = j BY <3>1, <3>2, <3>4, Zenon
    <3>6. held'[u] # NoBatch => q = <<>> BY <1>12, <2>1, <3>3, Zenon
    <3> QED BY <3>3, <3>5, <3>6, Zenon
  <2>2. CASE u # w
    <3>1. held'[u] = held[u] /\ requests'[u] = requests[u] BY <1>12, <2>2, Zenon
    <3>2. /\ held[u] # NoBatch => requests[u] = <<>>
          /\ \A i, j \in 1 .. Len(requests[u]) :
               requests[u][i].batch = requests[u][j].batch => i = j
      BY Zenon DEF CInv, PlaceInv
    <3> QED BY <3>1, <3>2
  <2> QED BY <2>1, <2>2, Zenon
<1>17. PlaceInv' BY <1>4, <1>14, <1>16, Zenon DEF PlaceInv
<1>18. BatchInv'
  <2>1. BatchInv /\ UNCHANGED <<read, doneVars, history>> /\ consumer' = consumer
    BY <1>3, Zenon DEF CInv
  <2> QED BY <1>15, <2>1, KeepStep, Zenon
<1> QED BY <1>10, <1>11, <1>17, <1>18, Zenon DEF CInv

-----------------------------------------------------------------------------
(* The invariant. *)

\* At the start nobody has a batch.
LEMMA InitCInv == Init => CInv
<1> SUFFICES ASSUME Init PROVE CInv OBVIOUS
<1>1. /\ MaxBatches \in Nat /\ MaxReloads \in Nat BY EventConsumerAssumption
<1>2. TypeOK
  <2>1. 0 \in 0 .. MaxReloads /\ 0 \in 0 .. MaxBatches /\ 0 \in Nat /\ 0 \in Int BY <1>1
  <2>2. <<>> \in Seq(Batch) /\ <<>> \in Seq(Request) OBVIOUS
  <2> QED BY <2>1, <2>2, Zenon DEF TypeOK, Init
<1>3. ReaderInv BY DEF ReaderInv, Init
<1>4. 1 .. Len(<<>>) = {} OBVIOUS
<1>5. /\ Incoming = {} /\ Retries = {} /\ \A w \in Workers : With(w) = {}
  BY <1>4, Zenon DEF Init, Incoming, Retries, With, Returned
<1>6. PlaceInv
  <2>1. Apart BY <1>5, Zenon DEF Apart
  <2>2. \A w \in Workers : requests[w] = <<>> BY Zenon DEF Init
  <2>3. retryBatches = <<>> BY Zenon DEF Init
  <2> QED BY <1>4, <2>1, <2>2, <2>3, Zenon DEF PlaceInv
<1>7. Live = {}
  <2>1. \A b : ~Has(b) BY <1>5, Zenon DEF Has
  <2> QED BY <1>2, <2>1, LiveIs, Zenon DEF LivePlaces
<1>8. 1 .. read = {} BY DEF Init
<1>9. \A o \in Originals : doneCount[o] = 0 /\ Settled(o) = {} BY Zenon DEF Init, Settled
<1>10. LiveInv /\ CoverInv /\ OutstandingInv /\ PendingInv
  BY <1>7, <1>8, Zenon DEF LiveInv, CoverInv, OutstandingInv, PendingInv
<1>11. DoneInv BY <1>9 DEF DoneInv
<1> QED BY <1>2, <1>3, <1>6, <1>10, <1>11, Zenon DEF CInv, BatchInv

\* No step breaks it.
LEMMA NextCInv == CInv /\ [Next]_vars => CInv'
<1> SUFFICES ASSUME CInv, [Next]_vars PROVE CInv' OBVIOUS
<1>1. CASE UNCHANGED vars
  <2>1. TypeOK' /\ ReaderInv'
    BY <1>1, Zenon DEF CInv, TypeOK, ReaderInv, vars, consumerVars, readerVars, workerVars,
       doneVars, history
  <2>2. /\ UNCHANGED <<queueBatch, response, retryBatches, held, requests, read, doneVars, history>>
        /\ consumer' = consumer
    BY <1>1, Zenon DEF vars, consumerVars, readerVars, workerVars, doneVars, history
  <2> QED BY <2>1, <2>2, QuietInv, Zenon
<1>2. CASE QueueGet BY <1>2, QueueGetInv
<1>3. CASE ReaderStop BY <1>3, ReaderStopInv
<1>4. CASE Consumer
  BY <1>4, RequestReadInv, ReceiveBatchInv, StopInv, ResumeInv, Zenon DEF Consumer
<1>5. CASE Pause BY <1>5, PauseInv
<1>6. CASE CloseConsumer BY <1>6, StopInv
<1>7. ASSUME NEW w \in Workers, Output(w) PROVE CInv'
  BY <1>7, OutputDoneInv, RetryInv, RetryEventsInv, SplitRetryInv, Zenon DEF Output
<1>8. ASSUME NEW w \in Workers,
             SendBatch(w) \/ ReceiveRetry(w) \/ RetryClosed(w)
             \/ Connect(w, "yes") \/ Connect(w, "no")
      PROVE  CInv'
  BY <1>8, SendBatchInv, ReceiveRetryInv, RetryClosedInv, ConnectInv, Zenon
<1> QED BY <1>1, <1>2, <1>3, <1>4, <1>5, <1>6, <1>7, <1>8, Zenon DEF Next

\* The inductive invariant holds in every run.
LEMMA CInvHolds == Spec => []CInv
BY InitCInv, NextCInv, PTL DEF Spec

-----------------------------------------------------------------------------
(* The theorems. *)

\* Every field has its type.
THEOREM ConsumerTypes == Spec => []TypeOK
<1>1. CInv => TypeOK BY Zenon DEF CInv
<1> QED BY <1>1, CInvHolds, PTL

\* The queue's Done is called once for a batch at most, and only when each of its events
\* was sent or given up and no worker, channel or list has a part of it left: whatever is
\* split, retried in part, expired, dropped, reloaded or closed meanwhile.
THEOREM DoneAtMostOnce == Spec => []DoneOnce
<1>1. CInv => DoneOnce
  <2> SUFFICES ASSUME CInv PROVE DoneOnce OBVIOUS
  <2>1. \A o \in Originals :
          /\ doneCount[o] \in {0, 1}
          /\ doneCount[o] = 1 => Settled(o) = Events /\ \A b \in Live : b.from # o
    BY Zenon DEF CInv, BatchInv, DoneInv
  <2>2. \A o \in Originals : doneCount[o] <= 1 BY <2>1
  <2> QED BY <2>1, <2>2, Zenon DEF DoneOnce, Settled
<1> QED BY <1>1, CInvHolds, PTL

\* An event that is neither sent nor given up is in exactly one batch: splitting a batch,
\* sending a part of it again and filtering it neither lose nor duplicate an event.
THEOREM EventsArePartitioned == Spec => []EventsPartitioned
<1>1. CInv => EventsPartitioned
  <2> SUFFICES ASSUME CInv, consumer = "running", NEW o \in 1 .. read,
                      NEW parts, parts = {b \in Live : b.from = o},
                      NEW rest, rest = UNION {b.events : b \in parts}
               PROVE  /\ \A b, c \in parts : b = c \/ b.events \cap c.events = {}
                      /\ rest \cap (acked[o] \cup dropped[o]) = {}
                      /\ rest \cup acked[o] \cup dropped[o] = Events
    BY Zenon DEF EventsPartitioned
  <2>1. /\ \A b \in parts : b.events = b.part \ Settled(o)
        /\ \A b, c \in parts : b # c => b.part \cap c.part = {}
    BY Zenon DEF CInv, BatchInv, LiveInv
  <2>2. Events \ Parts(o) \subseteq Settled(o)
    <3>1. \/ Events \ Parts(o) \subseteq Settled(o)
          \/ consumer = "stopped"
      BY Zenon DEF CInv, BatchInv, CoverInv
    <3> QED BY <3>1
  <2>3. TypeOK BY Zenon DEF CInv
  <2>4. o \in Originals /\ Settled(o) \subseteq Events BY <2>3, PartTypes, Zenon
  <2>5. \A b \in parts : b.part \subseteq Events BY <2>3, PartTypes, Zenon
  <2>6. \A e : e \in Parts(o) <=> \E b \in parts : e \in b.part
    <3>1. Parts(o) = UNION {b.part : b \in parts} BY Zenon DEF Parts
    <3> QED BY <3>1, Zenon
  <2>7. \A e : e \in rest <=> \E b \in parts : e \in b.events BY Zenon
  <2>8. \A e : e \in rest <=> e \in Parts(o) /\ e \notin Settled(o)
    <3>1. \A e : \A b \in parts : e \in b.events <=> e \in b.part /\ e \notin Settled(o)
      BY <2>1, Zenon
    <3> QED BY <2>6, <2>7, <3>1, Zenon
  <2>9. \A b, c \in parts : b = c \/ b.events \cap c.events = {} BY <2>1, Zenon
  <2>10. rest \cap Settled(o) = {} BY <2>8, Zenon
  <2>11. \A e \in Parts(o) : e \in Events BY <2>5, <2>6, Zenon
  <2>12. rest \cup Settled(o) = Events BY <2>2, <2>4, <2>8, <2>11, Zenon
  <2>13. rest \cup acked[o] \cup dropped[o] = rest \cup Settled(o) BY Zenon DEF Settled
  <2> QED BY <2>9, <2>10, <2>12, <2>13, Zenon DEF Settled
<1> QED BY <1>1, CInvHolds, PTL

\* A batch that is not done has a part somewhere, while the pipeline is open: as long as no
\* part that lost events is split again, which leaves the outstanding events too many.
THEOREM BatchesAreNotLost == ASSUME SplitsWhole PROVE Spec => []NothingLost
<1>1. CInv => NothingLost
  BY Zenon DEF CInv, BatchInv, PendingInv, NothingLost
<1> QED BY <1>1, CInvHolds, PTL

\* Outputs that do not drop and do not split, and a pipeline that stays open.
NeverGivesUp == Replies \cap {"drop", "splitRetry"} = {} /\ ~MayClose

\* Nothing with a guarantee is given up.
KeptInv == consumer = "running" /\ \A o \in Originals : dropped[o] \cap Guaranteed = {}

\* Only reduceTTL gives events up then, and it keeps those with a guarantee.
LEMMA NextKept ==
  ASSUME NeverGivesUp, CInv, KeptInv, [Next]_vars
  PROVE  KeptInv'
<1>1. "drop" \notin Replies /\ "splitRetry" \notin Replies /\ ~MayClose
  BY Zenon DEF NeverGivesUp
<1>2. consumer = "running" BY Zenon DEF KeptInv
<1>3. CASE UNCHANGED <<consumer, dropped>> BY <1>3, Zenon DEF KeptInv
<1>4. ASSUME NEW w \in Workers, ReceiveRetry(w) PROVE KeptInv'
  <2>1. PICK b : b = Head(requests[w]).batch BY Zenon
  <2>2. PICK c : c = IF Head(requests[w]).decreaseTTL THEN reduceTTL(b) ELSE b BY Zenon
  <2>3. /\ requests[w] # <<>> /\ consumer' = consumer
        /\ dropped' = [dropped EXCEPT ![b.from] = @ \cup (b.events \ c.events)]
    BY <1>4, <2>1, <2>2, Zenon DEF ReceiveRetry
  <2>4. b \in Batch BY <2>1, <2>3, FirstRequest, Zenon
  <2>5. (b.events \ c.events) \cap Guaranteed = {} BY <2>2, <2>4, Reduced, Zenon
  <2>6. dropped \in [Originals -> SUBSET Events] BY Zenon DEF CInv, TypeOK
  <2>7. ASSUME NEW o \in Originals PROVE dropped'[o] \cap Guaranteed = {}
    <3>1. dropped[o] \cap Guaranteed = {} BY Zenon DEF KeptInv
    <3>2. \/ dropped'[o] = dropped[o]
          \/ dropped'[o] = dropped[o] \cup (b.events \ c.events)
      BY <2>3, <2>6
    <3> QED BY <2>5, <3>1, <3>2, Zenon
  <2> QED BY <1>2, <2>3, <2>7, Zenon DEF KeptInv
<1>5. QueueGet \/ ReaderStop \/ Pause \/ RequestRead \/ ReceiveBatch \/ Resume
        => UNCHANGED <<consumer, dropped>>
  BY Zenon DEF QueueGet, ReaderStop, Pause, RequestRead, ReceiveBatch, Resume, consumerVars, history
<1>6. ~CloseConsumer /\ ~ConsumerStop
  BY <1>1, <1>2 DEF CloseConsumer, ConsumerStop
<1>7. ASSUME NEW w \in Workers
      PROVE  /\ ~RetryClosed(w) /\ ~DropBatch(w) /\ ~SplitRetry(w) /\ ~SplitFails(w)
             /\ SendBatch(w) \/ Connect(w, "yes") \/ Connect(w, "no")
                  => UNCHANGED <<consumer, dropped>>
             /\ ACK(w) \/ Retry(w) \/ Cancelled(w) \/ RetryEvents(w)
                  => UNCHANGED <<consumer, dropped>>
  <2>1. ~RetryClosed(w) BY <1>2, Zenon DEF RetryClosed
  <2>2. ~DropBatch(w) /\ ~SplitRetry(w) /\ ~SplitFails(w)
    BY <1>1, Zenon DEF DropBatch, SplitRetry, SplitFails, Reply
  <2>3. SendBatch(w) \/ Connect(w, "yes") \/ Connect(w, "no") => UNCHANGED <<consumer, dropped>>
    BY Zenon DEF SendBatch, Connect, consumerVars, history
  <2>4. ACK(w) \/ Retry(w) \/ Cancelled(w) \/ RetryEvents(w) => UNCHANGED <<consumer, dropped>>
    BY Zenon DEF ACK, Retry, Cancelled, RetryEvents, Reply, consumerVars, history
  <2> QED BY <2>1, <2>2, <2>3, <2>4, Zenon
<1>8. UNCHANGED vars => UNCHANGED <<consumer, dropped>>
  BY Zenon DEF vars, consumerVars, history
<1>9. Next => \/ UNCHANGED <<consumer, dropped>>
              \/ \E w \in Workers : ReceiveRetry(w)
  BY <1>5, <1>6, <1>7, Zenon DEF Next, Consumer, Output
<1> QED BY <1>3, <1>4, <1>8, <1>9, Zenon

\* An event with a guarantee was sent when the queue hears that its batch is done, however
\* often the batch fails, is cancelled or is retried in part.
THEOREM GuaranteedAreSent == ASSUME NeverGivesUp PROVE Spec => []GuaranteedSent
<1>1. Init => KeptInv BY Zenon DEF Init, KeptInv
<1>2. CInv /\ KeptInv /\ [Next]_vars => KeptInv' BY NextKept, Zenon
<1>3. CInv /\ KeptInv => GuaranteedSent
  <2> SUFFICES ASSUME CInv, KeptInv, NEW o \in Originals, doneCount[o] > 0
               PROVE  Guaranteed \subseteq acked[o]
    BY Zenon DEF GuaranteedSent
  <2>1. /\ doneCount[o] \in {0, 1}
        /\ doneCount[o] = 1 => Settled(o) = Events
    BY Zenon DEF CInv, BatchInv, DoneInv
  <2>2. doneCount[o] = 1
    <3>1. doneCount[o] # 0 OBVIOUS
    <3> QED BY <2>1, <3>1, Zenon
  <2>3. acked[o] \cup dropped[o] = Events /\ dropped[o] \cap Guaranteed = {}
    BY <2>1, <2>2, Zenon DEF Settled, KeptInv
  <2>4. Guaranteed \subseteq Events BY EventConsumerAssumption, Zenon DEF Events
  <2> QED BY <2>3, <2>4, Zenon
<1> QED BY <1>1, <1>2, <1>3, CInvHolds, PTL DEF Spec
==============================================================================
