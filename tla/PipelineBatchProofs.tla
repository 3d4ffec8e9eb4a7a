-------------------------- MODULE PipelineBatchProofs --------------------------
(***************************************************************************)
(* No batch is lost or duplicated between the consumer and the output, for *)
(* any number of events, outputs, senders, tries and errors: BatchKept and *)
(* PipelineTypeOK.                                                         *)
(***************************************************************************)
EXTENDS PipelineProofs

(* The parts of Places *)
OnWorkers(b) == {<<"worker", o>> : o \in {x \in Outputs : held[x] = <<b>>}}
InChannel(b) == {<<"channel", i>> : i \in {x \in 1 .. Len(channel) : channel[x] = b}}
InSending(b) == {<<"sending", w>> :
                   w \in {x \in CLSWorkers : sending[x] # <<>> /\ Head(sending[x]).batch = b}}
InRetry(b) == {<<"retry", 0>> : x \in retryBatches \cap {b}}
InDone(b) == {<<"done", 0>> : x \in done \cap {b}}

Job == [batch : Event, tries : Nat, decision : {"", "ack", "drop", "retry"}]

Busy == {"check", "send", "panic"}

WorkersInv ==
    /\ worker \in [Outputs -> {"none", "idle", "check", "send", "ended", "panic"}]
    /\ held \in [Outputs -> Seq(Event)]
    /\ \A o \in Outputs : worker[o] \in Busy => \E b \in Event : held[o] = <<b>>
    /\ \A o \in Outputs : worker[o] \notin Busy => held[o] = <<>>

SendersInv ==
    /\ channel \in Seq(Event)
    /\ sending \in [CLSWorkers -> Seq(Job)]
    /\ \A w \in CLSWorkers : sending[w] # <<>> => \E s \in Job : sending[w] = <<s>>

(* Every batch that was handed out has one place, any other has none. *)
PlacesInv ==
    \A b \in Event : IF b \in handedOut THEN \E p \in Places(b) : Places(b) = {p}
                                        ELSE Places(b) = {}

SettledInv ==
    /\ handedOut \subseteq Event
    /\ retryBatches \cup done \cup answered \subseteq handedOut

BatchInv == WorkersInv /\ SendersInv /\ SettledInv /\ PlacesInv

(* The output that Set is about to start has no worker yet. *)
OutputsInv ==
    /\ output \in 0 .. MaxOutputs
    /\ controller \in {"idle", "set", "setEmpty", "close", "closed"}
    /\ connect \in {"no", "waiting", "connected", "failed"}
    /\ controller = "set" => output + 1 \in Outputs
    /\ \A o \in Outputs : o > output => worker[o] = "none"

(* No Publish is past its first select when the channel is closed. *)
SelectInv ==
    /\ clsState \in [Outputs -> {"none", "open", "done", "cancelled", "closed", "ended"}]
    /\ \A o \in Outputs :
         /\ worker[o] # "panic"
         /\ worker[o] = "send" => clsState[o] \in {"open", "done", "cancelled"}

ChannelInv == Len(channel) <= WriteQueueSize

-----------------------------------------------------------------------------
(* How a place changes when a batch comes or goes *)

LEMMA HeldPut ==
  ASSUME WorkersInv, NEW o \in Outputs, NEW b \in Event, held[o] = <<>>,
         held' = [held EXCEPT ![o] = <<b>>]
  PROVE  /\ OnWorkers(b)' = OnWorkers(b) \cup {<<"worker", o>>}
         /\ \A c \in Event : c # b => OnWorkers(c)' = OnWorkers(c)
<1>1. \A x \in Outputs : held'[x] = IF x = o THEN <<b>> ELSE held[x]
  BY DEF WorkersInv
<1>2. ASSUME NEW c \in Event
      PROVE  {x \in Outputs : held'[x] = <<c>>}
               = {x \in Outputs : held[x] = <<c>>} \cup (IF c = b THEN {o} ELSE {})
  BY <1>1
<1> QED
  BY <1>2 DEF OnWorkers

LEMMA HeldTake ==
  ASSUME WorkersInv, NEW o \in Outputs, NEW b \in Event, held[o] = <<b>>,
         held' = [held EXCEPT ![o] = <<>>]
  PROVE  /\ OnWorkers(b)' = OnWorkers(b) \ {<<"worker", o>>}
         /\ <<"worker", o>> \in OnWorkers(b)
         /\ \A c \in Event : c # b => OnWorkers(c)' = OnWorkers(c)
<1>1. \A x \in Outputs : held'[x] = IF x = o THEN <<>> ELSE held[x]
  BY DEF WorkersInv
<1>2. ASSUME NEW c \in Event
      PROVE  {x \in Outputs : held'[x] = <<c>>}
               = {x \in Outputs : held[x] = <<c>>} \ (IF c = b THEN {o} ELSE {})
  BY <1>1
<1> QED
  BY <1>2 DEF OnWorkers

LEMMA ChannelPut ==
  ASSUME SendersInv, NEW b \in Event, channel' = Append(channel, b)
  PROVE  /\ InChannel(b)' = InChannel(b) \cup {<<"channel", Len(channel) + 1>>}
         /\ \A c \in Event : c # b => InChannel(c)' = InChannel(c)
<1>1. /\ Len(channel') = Len(channel) + 1 /\ Len(channel) \in Nat
      /\ \A i \in 1 .. Len(channel) + 1 :
           channel'[i] = IF i = Len(channel) + 1 THEN b ELSE channel[i]
  BY DEF SendersInv
<1>2. ASSUME NEW c \in Event
      PROVE  {x \in 1 .. Len(channel') : channel'[x] = c}
               = {x \in 1 .. Len(channel) : channel[x] = c}
                   \cup (IF c = b THEN {Len(channel) + 1} ELSE {})
  BY <1>1
<1> QED
  BY <1>2 DEF InChannel

LEMMA ChannelTake ==
  ASSUME SendersInv, channel # <<>>, channel' = Tail(channel)
  PROVE  /\ Head(channel) \in Event
         /\ <<"channel", 1>> \in InChannel(Head(channel))
         /\ \A c \in Event : InChannel(c) = {} => InChannel(c)' = {}
         /\ \A c \in Event : \A p \in InChannel(c) : InChannel(c) = {p} =>
              \/ c = Head(channel) /\ InChannel(c)' = {}
              \/ c # Head(channel) /\ \E q \in InChannel(c)' : InChannel(c)' = {q}
<1>1. /\ Len(channel) \in Nat /\ Len(channel) > 0 /\ Len(channel') = Len(channel) - 1
      /\ \A i \in 1 .. Len(channel') : channel'[i] = channel[i + 1]
      /\ Head(channel) = channel[1] /\ Head(channel) \in Event
  BY DEF SendersInv
<1>2. <<"channel", 1>> \in InChannel(Head(channel))
  BY <1>1 DEF InChannel
<1>3. ASSUME NEW c \in Event
      PROVE  \A i \in Int : <<"channel", i>> \in InChannel(c)'
                              <=> i > 0 /\ <<"channel", i + 1>> \in InChannel(c)
  BY <1>1 DEF InChannel
<1>4. ASSUME NEW c \in Event
      PROVE  \A p \in InChannel(c)' : \E i \in Int : p = <<"channel", i>>
  BY <1>1 DEF InChannel
<1>5. ASSUME NEW c \in Event
      PROVE  \A p \in InChannel(c) : \E i \in Int : i > 0 /\ p = <<"channel", i>>
  BY <1>1 DEF InChannel
<1>6. ASSUME NEW c \in Event, InChannel(c) = {}
      PROVE  InChannel(c)' = {}
  BY Zenon, <1>3, <1>4, <1>6
<1>7. ASSUME NEW c \in Event, NEW p \in InChannel(c), InChannel(c) = {p}
      PROVE  \/ c = Head(channel) /\ InChannel(c)' = {}
             \/ c # Head(channel) /\ \E q \in InChannel(c)' : InChannel(c)' = {q}
  <2>1. CASE c = Head(channel)
    <3>1. p = <<"channel", 1>>
      BY <1>2, <1>7, <2>1
    <3>2. ASSUME NEW i \in Int, <<"channel", i>> \in InChannel(c)' PROVE FALSE
      <4>1. i > 0 /\ <<"channel", i + 1>> = <<"channel", 1>>
        BY Zenon, <1>3, <1>7, <3>1, <3>2
      <4> QED
        BY <4>1
    <3> QED
      BY <1>4, <2>1, <3>2
  <2>2. CASE c # Head(channel)
    <3>1. PICK i \in Int : i > 0 /\ p = <<"channel", i>>
      BY <1>5
    <3>2. i # 1
      BY <1>1, <2>2, <3>1 DEF InChannel
    <3>3. <<"channel", i - 1>> \in InChannel(c)'
      BY <1>3, <3>1, <3>2
    <3>4. ASSUME NEW j \in Int, <<"channel", j>> \in InChannel(c)' PROVE j = i - 1
      <4>1. <<"channel", j + 1>> = <<"channel", i>>
        BY Zenon, <1>3, <1>7, <3>1, <3>4
      <4> QED
        BY <4>1
    <3> QED
      BY <1>4, <2>2, <3>3, <3>4
  <2> QED
    BY <2>1, <2>2
<1> QED
  BY <1>1, <1>2, <1>6, <1>7

LEMMA SendingPut ==
  ASSUME SendersInv, NEW w \in CLSWorkers, NEW s \in Job, sending[w] = <<>>,
         sending' = [sending EXCEPT ![w] = <<s>>]
  PROVE  /\ InSending(s.batch)' = InSending(s.batch) \cup {<<"sending", w>>}
         /\ \A c \in Event : c # s.batch => InSending(c)' = InSending(c)
<1>1. \A x \in CLSWorkers : sending'[x] = IF x = w THEN <<s>> ELSE sending[x]
  BY DEF SendersInv
<1>2. ASSUME NEW c \in Event
      PROVE  {x \in CLSWorkers : sending'[x] # <<>> /\ Head(sending'[x]).batch = c}
               = {x \in CLSWorkers : sending[x] # <<>> /\ Head(sending[x]).batch = c}
                   \cup (IF c = s.batch THEN {w} ELSE {})
  BY <1>1
<1>3. s.batch \in Event
  BY Zenon DEF Job
<1> QED
  BY <1>2, <1>3 DEF InSending

LEMMA SendingTake ==
  ASSUME SendersInv, NEW w \in CLSWorkers, NEW s \in Job, sending[w] = <<s>>,
         sending' = [sending EXCEPT ![w] = <<>>]
  PROVE  /\ InSending(s.batch)' = InSending(s.batch) \ {<<"sending", w>>}
         /\ <<"sending", w>> \in InSending(s.batch)
         /\ \A c \in Event : c # s.batch => InSending(c)' = InSending(c)
<1>1. \A x \in CLSWorkers : sending'[x] = IF x = w THEN <<>> ELSE sending[x]
  BY DEF SendersInv
<1>2. ASSUME NEW c \in Event
      PROVE  {x \in CLSWorkers : sending'[x] # <<>> /\ Head(sending'[x]).batch = c}
               = {x \in CLSWorkers : sending[x] # <<>> /\ Head(sending[x]).batch = c}
                   \ (IF c = s.batch THEN {w} ELSE {})
  BY <1>1
<1>3. s.batch \in Event
  BY Zenon DEF Job
<1> QED
  BY <1>2, <1>3 DEF InSending

LEMMA SendingKeep ==
  ASSUME SendersInv, NEW w \in CLSWorkers, NEW s \in Job, NEW t \in Job,
         sending[w] = <<s>>, t.batch = s.batch, sending' = [sending EXCEPT ![w] = <<t>>]
  PROVE  \A c \in Event : InSending(c)' = InSending(c)
<1>1. \A x \in CLSWorkers : sending'[x] = IF x = w THEN <<t>> ELSE sending[x]
  BY DEF SendersInv
<1>2. ASSUME NEW c \in Event
      PROVE  {x \in CLSWorkers : sending'[x] # <<>> /\ Head(sending'[x]).batch = c}
               = {x \in CLSWorkers : sending[x] # <<>> /\ Head(sending[x]).batch = c}
  BY <1>1
<1> QED
  BY <1>2 DEF InSending

LEMMA RetryAdd ==
  ASSUME NEW b, retryBatches' = retryBatches \cup {b}
  PROVE  /\ InRetry(b)' = {<<"retry", 0>>}
         /\ \A c : c # b => InRetry(c)' = InRetry(c)
  BY DEF InRetry

LEMMA RetryRemove ==
  ASSUME NEW b, retryBatches' = retryBatches \ {b}
  PROVE  /\ InRetry(b)' = {}
         /\ \A c : c # b => InRetry(c)' = InRetry(c)
  BY DEF InRetry

LEMMA DoneAdd ==
  ASSUME NEW b, done' = done \cup {b}
  PROVE  /\ InDone(b)' = {<<"done", 0>>}
         /\ \A c : c # b => InDone(c)' = InDone(c)
  BY DEF InDone

-----------------------------------------------------------------------------
(* A batch that moves from one place to another *)

LEMMA PlacesUnion ==
  \A b : Places(b) = OnWorkers(b) \cup InChannel(b) \cup InSending(b) \cup InRetry(b) \cup InDone(b)
  BY DEF Places, OnWorkers, InChannel, InSending, InRetry, InDone

LEMMA PlacesUnionPrime ==
  \A b : Places(b)' = OnWorkers(b)' \cup InChannel(b)' \cup InSending(b)' \cup InRetry(b)' \cup InDone(b)'
  BY DEF Places, OnWorkers, InChannel, InSending, InRetry, InDone

LEMMA Untouched ==
  /\ held' = held => \A c : OnWorkers(c)' = OnWorkers(c)
  /\ channel' = channel => \A c : InChannel(c)' = InChannel(c)
  /\ sending' = sending => \A c : InSending(c)' = InSending(c)
  /\ retryBatches' = retryBatches => \A c : InRetry(c)' = InRetry(c)
  /\ done' = done => \A c : InDone(c)' = InDone(c)
  BY DEF OnWorkers, InChannel, InSending, InRetry, InDone

LEMMA PlacesSame ==
  ASSUME PlacesInv, handedOut' = handedOut, \A c \in Event : Places(c)' = Places(c)
  PROVE  PlacesInv'
  BY DEF PlacesInv

LEMMA HandedOut ==
  ASSUME PlacesInv, NEW b \in Event, NEW p \in Places(b)
  PROVE  b \in handedOut
  BY DEF PlacesInv

LEMMA Moved ==
  ASSUME PlacesInv, handedOut' = handedOut, NEW b \in Event, NEW p \in Places(b), NEW q,
         Places(b)' = (Places(b) \ {p}) \cup {q},
         \A c \in Event : c # b => Places(c)' = Places(c)
  PROVE  PlacesInv'
<1>1. b \in handedOut /\ Places(b) = {p}
  BY DEF PlacesInv
<1>2. Places(b)' = {q}
  BY <1>1
<1> QED
  BY <1>1, <1>2 DEF PlacesInv

-----------------------------------------------------------------------------
(* The steps of the output *)

LEMMA PublishCancelledInv ==
  ASSUME BatchInv, NEW o \in Outputs, PublishCancelled(o), handedOut' = handedOut
  PROVE  BatchInv'
<1> USE DEF BatchInv
<1>1. PICK b \in Event : held[o] = <<b>>
  BY DEF PublishCancelled, WorkersInv, Busy
<1>2. /\ channel' = channel /\ sending' = sending
      /\ held' = [held EXCEPT ![o] = <<>>] /\ worker' = [worker EXCEPT ![o] = "ended"]
      /\ answered' = answered
      /\ \/ retryBatches' = retryBatches \cup {b} /\ done' = done
         \/ done' = done \cup {b} /\ retryBatches' = retryBatches
  <2>1. Head(held[o]) = b
    BY <1>1
  <2> QED
    BY <2>1 DEF PublishCancelled, Cancelled, retry, retryRequest, Drop
<1>3. WorkersInv' /\ SendersInv'
  BY <1>2 DEF WorkersInv, SendersInv, Busy
<1>4. /\ OnWorkers(b)' = OnWorkers(b) \ {<<"worker", o>>} /\ <<"worker", o>> \in OnWorkers(b)
      /\ \A c \in Event : c # b => OnWorkers(c)' = OnWorkers(c)
  BY Zenon, <1>1, <1>2, HeldTake
<1>5. PlacesInv'
  <2>1. CASE retryBatches' = retryBatches \cup {b} /\ done' = done
    <3>1. Places(b)' = (Places(b) \ {<<"worker", o>>}) \cup {<<"retry", 0>>}
      BY <1>2, <1>4, <2>1, RetryAdd, Untouched, PlacesUnion, PlacesUnionPrime
         DEF InChannel, InSending, InDone, InRetry
    <3>2. \A c \in Event : c # b => Places(c)' = Places(c)
      BY Zenon, <1>2, <1>4, <2>1, RetryAdd, Untouched, PlacesUnion, PlacesUnionPrime
    <3> QED
      BY Zenon, <1>4, <3>1, <3>2, PlacesUnion, Moved
  <2>2. CASE done' = done \cup {b} /\ retryBatches' = retryBatches
    <3>1. Places(b)' = (Places(b) \ {<<"worker", o>>}) \cup {<<"done", 0>>}
      BY <1>2, <1>4, <2>2, DoneAdd, Untouched, PlacesUnion, PlacesUnionPrime
         DEF InChannel, InSending, InDone, InRetry
    <3>2. \A c \in Event : c # b => Places(c)' = Places(c)
      BY Zenon, <1>2, <1>4, <2>2, DoneAdd, Untouched, PlacesUnion, PlacesUnionPrime
    <3> QED
      BY Zenon, <1>4, <3>1, <3>2, PlacesUnion, Moved
  <2> QED
    BY <1>2, <2>1, <2>2
<1>6. SettledInv'
  BY <1>2, <1>4, HandedOut, PlacesUnion DEF SettledInv
<1> QED
  BY <1>3, <1>5, <1>6

LEMMA PublishSendInv ==
  ASSUME BatchInv, NEW o \in Outputs, PublishSend(o), handedOut' = handedOut
  PROVE  BatchInv'
<1> USE DEF BatchInv
<1>1. PICK b \in Event : held[o] = <<b>>
  BY DEF PublishSend, WorkersInv, Busy
<1>2. UNCHANGED <<sending, retryBatches, done, answered>>
  BY DEF PublishSend, batchVars
<1>3. SettledInv'
  BY <1>2 DEF SettledInv
<1>4. CASE clsState[o] \in {"closed", "ended"}
  <2>1. /\ held' = held /\ channel' = channel /\ worker' = [worker EXCEPT ![o] = "panic"]
        /\ worker[o] = "send"
    BY <1>4 DEF PublishSend
  <2>2. WorkersInv' /\ SendersInv'
    BY <1>2, <2>1 DEF WorkersInv, SendersInv, Busy
  <2>3. \A c \in Event : Places(c)' = Places(c)
    BY Zenon, <1>2, <2>1, Untouched, PlacesUnion, PlacesUnionPrime
  <2> QED
    BY <1>3, <2>2, <2>3, PlacesSame
<1>5. CASE clsState[o] \notin {"closed", "ended"}
  <2>1. /\ channel' = Append(channel, b) /\ held' = [held EXCEPT ![o] = <<>>]
        /\ worker' = [worker EXCEPT ![o] = "idle"]
    BY <1>1, <1>5 DEF PublishSend
  <2>2. WorkersInv'
    BY <2>1 DEF WorkersInv, Busy
  <2>3. SendersInv'
    BY <1>2, <2>1 DEF SendersInv
  <2>4. /\ OnWorkers(b)' = OnWorkers(b) \ {<<"worker", o>>} /\ <<"worker", o>> \in OnWorkers(b)
        /\ \A c \in Event : c # b => OnWorkers(c)' = OnWorkers(c)
    BY Zenon, <1>1, <2>1, HeldTake
  <2>5. /\ InChannel(b)' = InChannel(b) \cup {<<"channel", Len(channel) + 1>>}
        /\ \A c \in Event : c # b => InChannel(c)' = InChannel(c)
    BY <2>1, ChannelPut
  <2>6. Places(b)' = (Places(b) \ {<<"worker", o>>}) \cup {<<"channel", Len(channel) + 1>>}
    BY <1>2, <2>4, <2>5, Untouched, PlacesUnion, PlacesUnionPrime
       DEF InChannel, InSending, InDone, InRetry
  <2>7. \A c \in Event : c # b => Places(c)' = Places(c)
    BY Zenon, <1>2, <2>4, <2>5, Untouched, PlacesUnion, PlacesUnionPrime
  <2>8. PlacesInv'
    BY Zenon, <2>4, <2>6, <2>7, PlacesUnion, Moved
  <2> QED
    BY <1>3, <2>2, <2>3, <2>8
<1> QED
  BY <1>4, <1>5

LEMMA TakeInv ==
  ASSUME BatchInv, NEW w \in CLSWorkers, Take(w), handedOut' = handedOut
  PROVE  BatchInv'
<1> USE DEF BatchInv
<1>1. Head(channel) \in Event
  <2>1. channel # <<>> /\ channel \in Seq(Event)
    BY Zenon DEF Take, SendersInv
  <2> QED
    BY <2>1
<1>2. PICK b \in Event : b = Head(channel)
  BY <1>1
<1>3. PICK s \in Job : s = [batch |-> b, tries |-> 0, decision |-> ""]
  BY Zenon DEF Job
<1>4. /\ sending[w] = <<>> /\ channel # <<>> /\ channel' = Tail(channel)
      /\ sending' = [sending EXCEPT ![w] = <<s>>]
      /\ UNCHANGED <<worker, held, retryBatches, done, answered>>
  BY Zenon, <1>2, <1>3 DEF Take, batchVars
<1>5. s.batch = b
  BY Zenon, <1>3
<1>6. WorkersInv' /\ SendersInv'
  BY <1>4, <1>5 DEF WorkersInv, SendersInv
<1>7. /\ InSending(b)' = InSending(b) \cup {<<"sending", w>>}
      /\ \A c \in Event : c # b => InSending(c)' = InSending(c)
  BY Zenon, <1>4, <1>5, SendingPut
<1>8. /\ <<"channel", 1>> \in InChannel(b)
      /\ \A c \in Event : InChannel(c) = {} => InChannel(c)' = {}
      /\ \A c \in Event : \A p \in InChannel(c) : InChannel(c) = {p} =>
           \/ c = b /\ InChannel(c)' = {}
           \/ c # b /\ \E q \in InChannel(c)' : InChannel(c)' = {q}
  BY <1>4, <1>2, ChannelTake
<1>9. \A c : OnWorkers(c)' = OnWorkers(c) /\ InRetry(c)' = InRetry(c) /\ InDone(c)' = InDone(c)
  BY <1>4, Untouched
<1>10. PlacesInv'
  <2> SUFFICES ASSUME NEW c \in Event
               PROVE  IF c \in handedOut' THEN \E p \in Places(c)' : Places(c)' = {p}
                                          ELSE Places(c)' = {}
    BY DEF PlacesInv
  <2>1. CASE c = b
    <3>1. c \in handedOut /\ Places(c) = {<<"channel", 1>>}
      BY <1>8, <2>1, PlacesUnion DEF PlacesInv
    <3>2. /\ InChannel(c) = {<<"channel", 1>>}
          /\ InSending(c) = {} /\ OnWorkers(c) = {} /\ InRetry(c) = {} /\ InDone(c) = {}
      BY <1>8, <2>1, <3>1, PlacesUnion DEF InSending, OnWorkers, InRetry, InDone
    <3>3. InChannel(c)' = {}
      BY <1>8, <2>1, <3>2
    <3>4. Places(c)' = {<<"sending", w>>}
      <4>1. InSending(c)' = {<<"sending", w>>}
        BY <1>7, <2>1, <3>2
      <4> QED
        BY <1>9, <3>2, <3>3, <4>1, PlacesUnionPrime
    <3> QED
      BY <3>1, <3>4
  <2>2. CASE c # b /\ InChannel(c) = {}
    <3>1. Places(c)' = Places(c)
      BY Zenon, <1>7, <1>8, <1>9, <2>2, PlacesUnion, PlacesUnionPrime
    <3> QED
      BY <3>1 DEF PlacesInv
  <2>3. CASE c # b /\ InChannel(c) # {}
    <3>1. PICK p \in InChannel(c) : TRUE
      BY <2>3
    <3>2. c \in handedOut /\ Places(c) = {p}
      BY <3>1, PlacesUnion DEF PlacesInv
    <3>3. \E i : p = <<"channel", i>>
      BY <3>1 DEF InChannel
    <3>4. /\ InChannel(c) = {p}
          /\ InSending(c) = {} /\ OnWorkers(c) = {} /\ InRetry(c) = {} /\ InDone(c) = {}
      <4>1. p \notin OnWorkers(c) \cup InSending(c) \cup InRetry(c) \cup InDone(c)
        BY <3>3 DEF InSending, OnWorkers, InRetry, InDone
      <4> QED
        BY <3>1, <3>2, <4>1, PlacesUnion
    <3>5. PICK q \in InChannel(c)' : InChannel(c)' = {q}
      BY <1>8, <2>3, <3>1, <3>4
    <3>6. Places(c)' = {q}
      BY <1>7, <1>9, <2>3, <3>4, <3>5, PlacesUnionPrime
    <3> QED
      BY <3>2, <3>6
  <2> QED
    BY <2>1, <2>2, <2>3
<1>11. SettledInv'
  BY <1>4 DEF SettledInv
<1> QED
  BY <1>6, <1>10, <1>11

LEMMA DecisionValues == \A d \in Decisions : d[1] \in {"ack", "drop", "retry"}
<1> SUFFICES ASSUME NEW d \in Decisions PROVE d[1] \in {"ack", "drop", "retry"}
  OBVIOUS
<1>1. \/ d = <<"ack", FALSE>> \/ d = <<"drop", FALSE>>
      \/ d = <<"retry", FALSE>> \/ d = <<"retry", TRUE>>
  BY Zenon DEF Decisions
<1>2. CASE d = <<"ack", FALSE>>
  BY <1>2
<1>3. CASE d = <<"drop", FALSE>>
  BY <1>3
<1>4. CASE d = <<"retry", FALSE>>
  BY <1>4
<1>5. CASE d = <<"retry", TRUE>>
  BY <1>5
<1> QED
  BY Zenon, <1>1, <1>2, <1>3, <1>4, <1>5

LEMMA JobChanges ==
  ASSUME NEW s \in Job
  PROVE  /\ [s EXCEPT !.tries = @ + 1] \in Job /\ [s EXCEPT !.tries = @ + 1].batch = s.batch
         /\ \A d \in {"ack", "drop", "retry"} :
              [s EXCEPT !.decision = d] \in Job /\ [s EXCEPT !.decision = d].batch = s.batch
<1>1. s.tries \in Nat
  BY Zenon DEF Job
<1>2. s.tries + 1 \in Nat
  BY <1>1
<1> QED
  BY Zenon, <1>2 DEF Job

LEMMA TryPublishInv ==
  ASSUME BatchInv, NEW w \in CLSWorkers, TryPublish(w), handedOut' = handedOut
  PROVE  BatchInv'
<1> USE DEF BatchInv
<1>1. /\ sending[w] # <<>>
      /\ UNCHANGED <<worker, held, channel, retryBatches, done, answered>>
  BY Zenon DEF TryPublish, batchVars
<1>2. PICK s \in Job : sending[w] = <<s>>
  BY <1>1 DEF SendersInv
<1>3. Head(sending[w]) = s
  BY <1>2
<1>4. PICK d \in Decisions :
        sending' = [sending EXCEPT ![w] = <<
          IF d[2] /\ s.tries + 1 < MaxTries
          THEN [s EXCEPT !.tries = @ + 1] ELSE [s EXCEPT !.decision = d[1]]>>]
  BY Zenon, <1>3 DEF TryPublish
<1>5. d[1] \in {"ack", "drop", "retry"}
  BY DecisionValues
<1>6. PICK t \in Job : t.batch = s.batch /\ sending' = [sending EXCEPT ![w] = <<t>>]
  <2>1. [s EXCEPT !.tries = @ + 1] \in Job /\ [s EXCEPT !.tries = @ + 1].batch = s.batch
    BY Zenon, JobChanges
  <2>2. [s EXCEPT !.decision = d[1]] \in Job /\ [s EXCEPT !.decision = d[1]].batch = s.batch
    BY Zenon, <1>5, JobChanges
  <2>3. CASE d[2] /\ s.tries + 1 < MaxTries
    BY Zenon, <1>4, <2>1, <2>3
  <2>4. CASE ~(d[2] /\ s.tries + 1 < MaxTries)
    BY Zenon, <1>4, <2>2, <2>4
  <2> QED
    BY <2>3, <2>4
<1>7. WorkersInv' /\ SendersInv'
  BY <1>1, <1>6 DEF WorkersInv, SendersInv
<1>8. \A c \in Event : InSending(c)' = InSending(c)
  BY Zenon, <1>2, <1>6, SendingKeep
<1>9. \A c \in Event : Places(c)' = Places(c)
  BY Zenon, <1>1, <1>8, Untouched, PlacesUnion, PlacesUnionPrime
<1>10. SettledInv'
  BY <1>1 DEF SettledInv
<1> QED
  BY <1>7, <1>9, <1>10, PlacesSame

(* The loop of publish ends with a decision unless it has no turn at all.  *)
LEMMA ReportInv ==
  ASSUME BatchInv, MaxTries # 0, NEW w \in CLSWorkers, Report(w), handedOut' = handedOut
  PROVE  BatchInv'
<1> USE DEF BatchInv
<1>1. /\ sending[w] # <<>> /\ sending' = [sending EXCEPT ![w] = <<>>]
      /\ UNCHANGED <<worker, held, channel>>
  BY Zenon DEF Report
<1>2. PICK s \in Job : sending[w] = <<s>>
  BY <1>1 DEF SendersInv
<1>3. Head(sending[w]) = s
  BY <1>2
<1>4. PICK b \in Event : b = s.batch
  BY Zenon DEF Job
<1>5. s.decision \in {"ack", "drop", "retry"}
  BY Zenon, <1>3 DEF Report, Job
<1>6. /\ \/ retryBatches' = retryBatches \cup {b} /\ done' = done
         \/ done' = done \cup {b} /\ retryBatches' = retryBatches
      /\ answered' \subseteq answered \cup {b}
  BY Zenon, <1>3, <1>4, <1>5 DEF Report, Decide, retry, retryRequest, Drop
<1>7. WorkersInv' /\ SendersInv'
  BY <1>1 DEF WorkersInv, SendersInv
<1>8. /\ InSending(b)' = InSending(b) \ {<<"sending", w>>} /\ <<"sending", w>> \in InSending(b)
      /\ \A c \in Event : c # b => InSending(c)' = InSending(c)
  BY Zenon, <1>1, <1>2, <1>4, SendingTake
<1>9. <<"sending", w>> \notin OnWorkers(b) \cup InChannel(b) \cup InRetry(b) \cup InDone(b)
  BY DEF OnWorkers, InChannel, InRetry, InDone
<1>10. PlacesInv'
  <2>1. CASE retryBatches' = retryBatches \cup {b} /\ done' = done
    <3>1. Places(b)' = (Places(b) \ {<<"sending", w>>}) \cup {<<"retry", 0>>}
      <4>1. InRetry(b) \subseteq {<<"retry", 0>>} /\ InRetry(b)' = {<<"retry", 0>>}
        BY Zenon, <2>1, RetryAdd DEF InRetry
      <4> QED
        BY <1>1, <1>8, <1>9, <2>1, <4>1, Untouched, PlacesUnion, PlacesUnionPrime
    <3>2. \A c \in Event : c # b => Places(c)' = Places(c)
      BY Zenon, <1>1, <1>8, <2>1, RetryAdd, Untouched, PlacesUnion, PlacesUnionPrime
    <3> QED
      BY Zenon, <1>8, <3>1, <3>2, PlacesUnion, Moved
  <2>2. CASE done' = done \cup {b} /\ retryBatches' = retryBatches
    <3>1. Places(b)' = (Places(b) \ {<<"sending", w>>}) \cup {<<"done", 0>>}
      <4>1. InDone(b) \subseteq {<<"done", 0>>} /\ InDone(b)' = {<<"done", 0>>}
        BY Zenon, <2>2, DoneAdd DEF InDone
      <4> QED
        BY Zenon, <1>1, <1>8, <1>9, <2>2, <4>1, Untouched, PlacesUnion, PlacesUnionPrime
    <3>2. \A c \in Event : c # b => Places(c)' = Places(c)
      BY Zenon, <1>1, <1>8, <2>2, DoneAdd, Untouched, PlacesUnion, PlacesUnionPrime
    <3> QED
      BY Zenon, <1>8, <3>1, <3>2, PlacesUnion, Moved
  <2> QED
    BY <1>6, <2>1, <2>2
<1>11. SettledInv'
  BY <1>6, <1>8, HandedOut, PlacesUnion DEF SettledInv
<1> QED
  BY <1>7, <1>10, <1>11

LEMMA OutputStepInv ==
  ASSUME BatchInv, MaxTries # 0, OutputStep, handedOut' = handedOut
  PROVE  BatchInv'
<1>1. ASSUME NEW o \in Outputs, WorkerDone(o) \/ PublishCheck(o)
      PROVE  BatchInv'
  <2>1. /\ UNCHANGED <<held, channel, sending, retryBatches, done, answered>>
        /\ \/ worker[o] = "idle" /\ worker' = [worker EXCEPT ![o] = "ended"]
           \/ worker[o] = "check" /\ worker' = [worker EXCEPT ![o] = "send"]
    BY <1>1 DEF WorkerDone, PublishCheck, batchVars
  <2>2. WorkersInv' /\ SendersInv' /\ SettledInv'
    BY Zenon, <2>1 DEF BatchInv, WorkersInv, SendersInv, SettledInv, Busy
  <2>3. \A c \in Event : Places(c)' = Places(c)
    BY Zenon, <2>1, Untouched, PlacesUnion, PlacesUnionPrime
  <2> QED
    BY <2>2, <2>3, PlacesSame DEF BatchInv
<1>2. ASSUME NEW o \in Outputs, CloseCancel(o) \/ CloseQueue(o) \/ CloseWait(o)
      PROVE  BatchInv'
  <2>1. UNCHANGED <<worker, held, channel, sending, retryBatches, done, answered>>
    BY <1>2 DEF CloseCancel, CloseQueue, CloseWait, CloseStep, batchVars
  <2>2. WorkersInv' /\ SendersInv' /\ SettledInv'
    BY <2>1 DEF BatchInv, WorkersInv, SendersInv, SettledInv
  <2>3. \A c \in Event : Places(c)' = Places(c)
    BY <2>1, Untouched, PlacesUnion, PlacesUnionPrime
  <2> QED
    BY <2>2, <2>3, PlacesSame DEF BatchInv
<1> QED
  BY <1>1, <1>2, PublishCancelledInv, PublishSendInv, TakeInv, TryPublishInv, ReportInv
     DEF OutputStep

-----------------------------------------------------------------------------
(* The steps of the consumer and the controller *)

LEMMA HandOutInv ==
  ASSUME BatchInv, NEW b \in Event, HandOut(b), b \in retryBatches \/ b \notin handedOut
  PROVE  BatchInv'
<1> USE DEF BatchInv
<1>1. PICK o \in Outputs : Receive(o, b)
  BY DEF HandOut
<1>2. /\ worker[o] = "idle" /\ worker' = [worker EXCEPT ![o] = "check"]
      /\ held' = [held EXCEPT ![o] = <<b>>] /\ retryBatches' = retryBatches \ {b}
      /\ UNCHANGED <<channel, sending, done, answered>>
      /\ handedOut' = handedOut \cup {b}
  BY Zenon, <1>1 DEF Receive, HandOut
<1>3. held[o] = <<>>
  BY <1>2 DEF WorkersInv, Busy
<1>4. WorkersInv' /\ SendersInv' /\ SettledInv'
  BY <1>2 DEF WorkersInv, SendersInv, SettledInv, Busy
<1>5. /\ OnWorkers(b)' = OnWorkers(b) \cup {<<"worker", o>>}
      /\ \A c \in Event : c # b => OnWorkers(c)' = OnWorkers(c)
  BY Zenon, <1>2, <1>3, HeldPut
<1>6. \A c \in Event : c # b => Places(c)' = Places(c)
  BY Zenon, <1>2, <1>5, RetryRemove, Untouched, PlacesUnion, PlacesUnionPrime
<1>7. Places(b)' = {<<"worker", o>>}
  <2>1. Places(b) \subseteq {<<"retry", 0>>}
    <3>1. CASE b \in retryBatches
      <4>1. <<"retry", 0>> \in Places(b)
        BY <3>1, PlacesUnion DEF InRetry
      <4> QED
        BY <4>1 DEF PlacesInv
    <3>2. CASE b \notin handedOut
      BY <3>2 DEF PlacesInv
    <3> QED
      BY <3>1, <3>2
  <2>2. OnWorkers(b) = {} /\ InChannel(b) = {} /\ InSending(b) = {} /\ InDone(b) = {}
    <3>1. OnWorkers(b) = {}
      BY <2>1, PlacesUnion DEF OnWorkers
    <3>2. InChannel(b) = {}
      BY <2>1, PlacesUnion DEF InChannel
    <3>3. InSending(b) = {}
      BY <2>1, PlacesUnion DEF InSending
    <3>4. InDone(b) = {}
      BY <2>1, PlacesUnion DEF InDone
    <3> QED
      BY <3>1, <3>2, <3>3, <3>4
  <2> QED
    BY <1>2, <1>5, <2>2, RetryRemove, Untouched, PlacesUnionPrime
<1>8. PlacesInv'
  BY Zenon, <1>2, <1>6, <1>7 DEF PlacesInv
<1> QED
  BY <1>4, <1>8

LEMMA ToWorkerInv ==
  ASSUME BatchInv, queue \in Seq(Event), ToWorker
  PROVE  BatchInv'
<1>1. ASSUME NEW b \in retryBatches, HandOut(b)
      PROVE  BatchInv'
  <2>1. b \in Event
    BY <1>1 DEF BatchInv, SettledInv
  <2> QED
    BY <1>1, <2>1, HandOutInv
<1>2. ASSUME HandOutUnread
      PROVE  BatchInv'
  <2>1. PICK i \in DOMAIN queue : Unread(i) /\ HandOut(queue[i])
    BY <1>2 DEF HandOutUnread
  <2>2. PICK b \in Event : b = queue[i]
    BY <2>1
  <2>3. HandOut(b) /\ b \notin handedOut
    BY Zenon, <2>1, <2>2 DEF HandOut, Receive, Unread
  <2> QED
    BY <2>3, HandOutInv
<1> QED
  BY <1>1, <1>2 DEF ToWorker

LEMMA SetWorkersInv ==
  ASSUME BatchInv, OutputsInv, SetWorkers
  PROVE  BatchInv'
<1> USE DEF BatchInv
<1>1. PICK o \in Outputs : o = output + 1
  BY DEF SetWorkers, OutputsInv
<1>2. /\ worker' = [worker EXCEPT ![o] = "idle"]
      /\ UNCHANGED <<held, channel, sending, retryBatches, done, answered, handedOut>>
  BY <1>1 DEF SetWorkers, StartOutput, batchVars
<1>3. worker[o] = "none"
  BY <1>1 DEF OutputsInv
<1>4. WorkersInv' /\ SendersInv' /\ SettledInv'
  BY <1>2, <1>3 DEF WorkersInv, SendersInv, SettledInv, Busy
<1>5. \A c \in Event : Places(c)' = Places(c)
  BY <1>2, Untouched, PlacesUnion, PlacesUnionPrime
<1> QED
  BY <1>2, <1>4, <1>5, PlacesSame

LEMMA BatchInvStutters ==
  ASSUME BatchInv,
         UNCHANGED <<worker, held, channel, sending, retryBatches, done, answered, handedOut>>
  PROVE  BatchInv'
<1> USE DEF BatchInv
<1>1. WorkersInv' /\ SendersInv' /\ SettledInv'
  BY DEF WorkersInv, SendersInv, SettledInv
<1>2. \A c \in Event : Places(c)' = Places(c)
  BY Untouched, PlacesUnion, PlacesUnionPrime
<1> QED
  BY <1>1, <1>2, PlacesSame

LEMMA BatchInvStep ==
  ASSUME BatchInv, OutputsInv, queue \in Seq(Event), MaxTries # 0,
         [PipelineNext]_pipelineAll
  PROVE  BatchInv'
<1>1. CASE UNCHANGED pipelineAll \/ UNCHANGED <<clsVars, controllerVars, handedOut>>
  BY <1>1, BatchInvStutters DEF pipelineAll, clsVars, batchVars
<1>2. CASE OutputStep /\ UNCHANGED <<vars, controllerVars, handedOut>>
  BY <1>2, OutputStepInv
<1>3. CASE \/ queueProducer \/ Set \/ SetEmpty \/ SetNoWorkers
           \/ ControllerClose \/ ControllerClosed
  BY Zenon, <1>3, BatchInvStutters DEF queueProducer, Set, SetEmpty, SetStart, SetNoWorkers,
                                ControllerClose, ControllerClosed, clsVars, batchVars
<1> QED
  BY <1>1, <1>2, <1>3, ToWorkerInv, SetWorkersInv, StepKinds DEF ControllerMove

-----------------------------------------------------------------------------
(* The outputs *)

LEMMA OutputsInvStep ==
  ASSUME OutputsInv, WorkersInv, [PipelineNext]_pipelineAll
  PROVE  OutputsInv'
<1> USE CLSAssumption DEF OutputsInv, Outputs
<1>1. CASE UNCHANGED pipelineAll \/ UNCHANGED <<clsVars, controllerVars, handedOut>>
  BY Zenon, <1>1 DEF pipelineAll, clsVars, controllerVars
<1>2. CASE OutputStep /\ UNCHANGED <<vars, controllerVars, handedOut>>
  <2>1. \/ worker' = worker
        \/ \E o \in Outputs, m \in {"idle", "check", "send", "ended", "panic"} :
              worker[o] # "none" /\ worker' = [worker EXCEPT ![o] = m]
    BY Zenon, <1>2 DEF OutputStep, WorkerDone, PublishCancelled, PublishCheck, PublishSend,
                CloseCancel, CloseQueue, CloseWait, CloseStep, Take, TryPublish, Report
  <2> QED
    BY <1>2, <2>1 DEF controllerVars, WorkersInv
<1>3. CASE SetWorkers
  BY <1>3 DEF SetWorkers, StartOutput, WorkersInv
<1>4. CASE ToWorker
  <2>1. \E o \in Outputs : worker[o] = "idle" /\ worker' = [worker EXCEPT ![o] = "check"]
    BY Zenon, <1>4 DEF ToWorker, HandOutUnread, HandOut, Receive
  <2>2. UNCHANGED controllerVars
    BY Zenon, <1>4 DEF ToWorker, HandOutUnread, HandOut
  <2> QED
    BY <2>1, <2>2 DEF controllerVars, WorkersInv
<1>5. CASE \/ queueProducer \/ Set \/ SetEmpty \/ SetNoWorkers
           \/ ControllerClose \/ ControllerClosed
  BY Zenon, <1>5 DEF queueProducer, Set, SetEmpty, SetStart, createQueueIfNeeded, Answer,
              SetNoWorkers, ControllerClose, ControllerClosed, clsVars
<1> QED
  BY Zenon, <1>1, <1>2, <1>3, <1>4, <1>5, StepKinds DEF ControllerMove

LEMMA InitBatchInv ==
  ASSUME PipelineInit
  PROVE  BatchInv /\ OutputsInv
<1>1. WorkersInv /\ SendersInv /\ SettledInv
  BY DEF PipelineInit, CLSInit, WorkersInv, SendersInv, SettledInv, Busy
<1>2. PlacesInv
  <2> SUFFICES ASSUME NEW b \in Event
               PROVE  Places(b) = {} /\ b \notin handedOut
    BY DEF PlacesInv
  <2>1. OnWorkers(b) = {}
    BY Zenon DEF PipelineInit, CLSInit, OnWorkers
  <2>2. InChannel(b) = {} /\ InRetry(b) = {} /\ InDone(b) = {}
    BY DEF PipelineInit, CLSInit, InChannel, InRetry, InDone
  <2>3. InSending(b) = {}
    BY DEF PipelineInit, CLSInit, InSending
  <2> QED
    BY <2>1, <2>2, <2>3, PlacesUnion DEF PipelineInit
<1>3. OutputsInv
  BY CLSAssumption DEF PipelineInit, CLSInit, OutputsInv, Outputs
<1> QED
  BY <1>1, <1>2, <1>3 DEF BatchInv

LEMMA PipelineBatchInv ==
  ASSUME MaxTries # 0
  PROVE  PipelineSpec => [](BatchInv /\ OutputsInv)
<1>1. ClientInv => queue \in Seq(Event)
  BY ClientInvTypeOK DEF TypeOK
<1>2. BatchInv => WorkersInv
  BY DEF BatchInv
<1>3. ClientInv /\ BatchInv /\ OutputsInv /\ [PipelineNext]_pipelineAll
        => BatchInv' /\ OutputsInv'
  BY <1>1, <1>2, BatchInvStep, OutputsInvStep
<1> QED
  BY <1>3, InitBatchInv, PipelineClientInv, PTL DEF PipelineSpec

(* Unless max_retries is negative, a batch that the consumer handed out is *)
(* in one place: with the worker, in the channel, with a sender, back at   *)
(* the consumer, or done.  With a negative max_retries publish reports     *)
(* nothing, and the batch is lost.                                         *)
THEOREM NoBatchIsLost ==
  ASSUME MaxTries # 0
  PROVE  PipelineSpec => []BatchKept
<1>1. BatchInv => BatchKept
  BY DEF BatchInv, SettledInv, PlacesInv, BatchKept
<1> QED
  BY <1>1, PipelineBatchInv, PTL

-----------------------------------------------------------------------------
(* No send to a closed channel *)

LEMMA SelectInvOutputStep ==
  ASSUME SelectInv, WorkersInv, ~SlowPublish, OutputStep
  PROVE  SelectInv'
<1> USE DEF SelectInv
<1>1. ASSUME NEW o \in Outputs,
             WorkerDone(o) \/ PublishCancelled(o) \/ PublishCheck(o) \/ PublishSend(o)
      PROVE  SelectInv'
  <2>1. clsState' = clsState
    BY <1>1 DEF WorkerDone, PublishCancelled, PublishCheck, PublishSend
  <2>2. \/ worker' = [worker EXCEPT ![o] = "ended"] \/ worker' = [worker EXCEPT ![o] = "idle"]
        \/ clsState[o] \in {"open", "done"} /\ worker' = [worker EXCEPT ![o] = "send"]
    BY Zenon, <1>1 DEF WorkerDone, PublishCancelled, PublishCheck, PublishSend
  <2> QED
    BY <2>1, <2>2 DEF WorkersInv
<1>2. ASSUME NEW o \in Outputs, CloseCancel(o) \/ CloseQueue(o) \/ CloseWait(o)
      PROVE  SelectInv'
  <2>1. /\ worker' = worker
        /\ \/ clsState' = [clsState EXCEPT ![o] = "cancelled"]
           \/ worker[o] # "send" /\ clsState' = [clsState EXCEPT ![o] = "closed"]
           \/ clsState[o] = "closed" /\ clsState' = [clsState EXCEPT ![o] = "ended"]
    BY Zenon, <1>2 DEF CloseCancel, CloseQueue, CloseWait, CloseStep
  <2> QED
    BY <2>1
<1>3. ASSUME NEW w \in CLSWorkers, Take(w) \/ TryPublish(w) \/ Report(w)
      PROVE  SelectInv'
  BY Zenon, <1>3 DEF Take, TryPublish, Report
<1> QED
  BY Zenon, <1>1, <1>2, <1>3 DEF OutputStep

LEMMA SelectInvStep ==
  ASSUME SelectInv, WorkersInv, OutputsInv, ~SlowPublish, [PipelineNext]_pipelineAll
  PROVE  SelectInv'
<1> USE DEF SelectInv
<1>1. CASE UNCHANGED pipelineAll \/ UNCHANGED <<clsVars, controllerVars, handedOut>>
  BY <1>1 DEF pipelineAll, clsVars
<1>2. CASE OutputStep
  BY <1>2, SelectInvOutputStep
<1>3. CASE SetWorkers
  <2>1. PICK o \in Outputs : o = output + 1
    BY <1>3 DEF SetWorkers, OutputsInv
  <2>2. /\ worker' = [worker EXCEPT ![o] = "idle"]
        /\ clsState' = [clsState EXCEPT ![o] = "open"]
    BY <1>3, <2>1 DEF SetWorkers, StartOutput
  <2> QED
    BY <2>2 DEF WorkersInv
<1>4. CASE ToWorker
  <2>1. /\ \E o \in Outputs : worker' = [worker EXCEPT ![o] = "check"]
        /\ clsState' = clsState
    BY Zenon, <1>4 DEF ToWorker, HandOutUnread, HandOut, Receive
  <2> QED
    BY <2>1 DEF WorkersInv
<1>5. CASE queueProducer \/ SetNoWorkers \/ ControllerClosed
  BY Zenon, <1>5 DEF queueProducer, SetNoWorkers, ControllerClosed, clsVars
<1>6. CASE Set \/ SetEmpty \/ ControllerClose
  <2>1. worker' = worker /\ CloseWorkers
    BY Zenon, <1>6 DEF Set, SetEmpty, SetStart, ControllerClose
  <2> QED
    BY <2>1 DEF CloseWorkers
<1> QED
  BY Zenon, <1>1, <1>2, <1>3, <1>4, <1>5, <1>6, StepKinds DEF ControllerMove

LEMMA ChannelInvStep ==
  ASSUME ChannelInv, SendersInv, [PipelineNext]_pipelineAll
  PROVE  ChannelInv'
<1> USE CLSAssumption DEF ChannelInv
<1>1. CASE UNCHANGED pipelineAll \/ UNCHANGED <<clsVars, controllerVars, handedOut>>
  BY <1>1 DEF pipelineAll, clsVars
<1>2. CASE OutputStep
  <2>1. CASE \E o \in Outputs : PublishSend(o)
    <3>1. \/ channel' = channel
          \/ Len(channel) < WriteQueueSize
             /\ \E o \in Outputs : channel' = Append(channel, Head(held[o]))
      BY Zenon, <2>1 DEF PublishSend
    <3>2. \A b : Len(Append(channel, b)) = Len(channel) + 1 /\ Len(channel) \in Nat
      BY DEF SendersInv
    <3> QED
      BY <3>1, <3>2
  <2>2. CASE \E w \in CLSWorkers : Take(w)
    <3>1. channel # <<>> /\ channel' = Tail(channel)
      BY Zenon, <2>2 DEF Take
    <3>2. Len(Tail(channel)) = Len(channel) - 1 /\ Len(channel) \in Nat
      BY <3>1 DEF SendersInv
    <3> QED
      BY <3>1, <3>2
  <2>3. CASE \/ \E o \in Outputs : \/ WorkerDone(o) \/ PublishCancelled(o) \/ PublishCheck(o)
                                   \/ CloseCancel(o) \/ CloseQueue(o) \/ CloseWait(o)
             \/ \E w \in CLSWorkers : TryPublish(w) \/ Report(w)
    <3>1. channel' = channel
      BY Zenon, <2>3 DEF WorkerDone, PublishCancelled, PublishCheck, CloseCancel, CloseQueue,
                  CloseWait, CloseStep, TryPublish, Report
    <3> QED
      BY <3>1
  <2> QED
    BY <1>2, <2>1, <2>2, <2>3 DEF OutputStep
<1>3. CASE ControllerMove
  BY Zenon, <1>3 DEF ControllerMove, queueProducer, Set, SetEmpty, SetStart, SetWorkers, StartOutput,
              SetNoWorkers, ControllerClose, ControllerClosed, ToWorker, HandOutUnread, HandOut,
              Receive, clsVars
<1> QED
  BY <1>1, <1>2, <1>3, StepKinds

(* If no Publish takes longer than the second that cls.Close sleeps, none  *)
(* sends to the channel that Close closed, and the channel and the workers *)
(* never hold more than they may, for any number of reloads.               *)
THEOREM NoSendOnClosedChannel ==
  ASSUME ~SlowPublish, MaxTries # 0
  PROVE  PipelineSpec => []PipelineTypeOK
<1>1. PipelineInit => SelectInv /\ ChannelInv
  BY CLSAssumption DEF PipelineInit, CLSInit, SelectInv, ChannelInv
<1>2. BatchInv => WorkersInv /\ SendersInv
  BY DEF BatchInv
<1>3. SelectInv /\ ChannelInv /\ BatchInv /\ OutputsInv /\ [PipelineNext]_pipelineAll
        => SelectInv' /\ ChannelInv'
  BY <1>2, SelectInvStep, ChannelInvStep
<1>4. ClientInv /\ SelectInv /\ ChannelInv /\ BatchInv /\ OutputsInv => PipelineTypeOK
  <2> SUFFICES ASSUME ClientInv, SelectInv, ChannelInv, BatchInv, OutputsInv
               PROVE  PipelineTypeOK
    OBVIOUS
  <2>1. worker \in [Outputs -> {"none", "idle", "check", "send", "ended"}]
    BY DEF SelectInv, BatchInv, WorkersInv
  <2>2. ASSUME NEW o \in Outputs
        PROVE  Len(held[o]) = IF worker[o] \in {"check", "send"} THEN 1 ELSE 0
    <3>1. CASE worker[o] \in {"check", "send"}
      <4>1. \E b \in Event : held[o] = <<b>>
        BY <3>1 DEF BatchInv, WorkersInv, Busy
      <4> QED
        BY <3>1, <4>1
    <3>2. CASE worker[o] \notin {"check", "send"}
      <4>1. worker[o] \notin Busy
        BY <3>2 DEF SelectInv, Busy
      <4>2. held[o] = <<>>
        BY <4>1 DEF BatchInv, WorkersInv
      <4> QED
        BY <3>2, <4>2
    <3> QED
      BY <3>1, <3>2
  <2>3. done \cup answered \cup retryBatches \subseteq handedOut
    BY DEF BatchInv, SettledInv
  <2>4. output \in {0} \cup Outputs
    BY CLSAssumption DEF OutputsInv, Outputs
  <2> QED
    BY Zenon, <2>1, <2>2, <2>3, <2>4, ClientInvTypeOK
       DEF PipelineTypeOK, SelectInv, ChannelInv, OutputsInv
<1> QED
  BY <1>1, <1>3, <1>4, PipelineBatchInv, PipelineClientInv, PTL DEF PipelineSpec
================================================================================
