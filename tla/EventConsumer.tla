----------------------------- MODULE EventConsumer -----------------------------
(***************************************************************************)
(* The output side of the publisher pipeline (libbeat/publisher/pipeline): *)
(* the queue reader, the event consumer, the batches it hands out and what *)
(* output workers do with them.                                            *)
(*                                                                         *)
(* A batch is owned by one goroutine at a time, so it is a record that     *)
(* moves from place to place.  The unbuffered channels between the         *)
(* goroutines are joint steps of sender and receiver.                      *)
(***************************************************************************)
EXTENDS Integers, Sequences, FiniteSets

CONSTANTS
    Workers,      \* output workers, each with at most one batch
    MaxBatches,   \* bound: batches the queue returns before it is closed
    Size,         \* events of a batch when it leaves the queue
    Guaranteed,   \* the events of a batch that have the GuaranteedSend flag
    TimeToLive,   \* outGrp.Retry + 1; 0 retries without a limit
    Replies,      \* what the output may do with a batch
    MaxReloads,   \* bound: output reloads
    MayClose,     \* whether the pipeline may be closed
    NoBatch

ReplyKinds == {"ack", "drop", "retry", "retryEvents", "splitRetry", "cancelled"}

ASSUME EventConsumerAssumption ==
    /\ MaxBatches \in Nat
    /\ Size \in Nat \ {0}
    /\ Guaranteed \subseteq 1 .. Size
    /\ TimeToLive \in Nat
    /\ Replies \subseteq ReplyKinds
    /\ MaxReloads \in Nat
    /\ MayClose \in BOOLEAN

VARIABLES
    \* eventConsumer.run
    consumer,       \* "running", "closing" (done is closed) or "stopped"
    pendingRead,
    retryBatches,
    queueBatch,
    target,         \* whether target.ch is set
    reloads,
    \* queueReader.run
    reader,         \* "idle", "request" in its channel, "response" to be sent, "stopped"
    response,
    \* output workers
    held,           \* the batch a worker has, or NoBatch
    requests,       \* the retry requests the worker still has to send
    connected,      \* "no", "yes", or "connecting" once the first batch came
    \* the queue, and the metadata split batches share
    read,           \* batches read from the queue so far
    doneCount,      \* how often the queue's Done was called for a batch
    outstanding,    \* batchSplitData.outstandingEvents
    \* history
    acked, dropped  \* the events of a batch the output got, or that were given up

consumerVars == <<consumer, pendingRead, retryBatches, queueBatch, target, reloads>>
readerVars == <<reader, response, read>>
workerVars == <<held, requests, connected>>
doneVars == <<doneCount, outstanding>>
history == <<acked, dropped>>
vars == <<consumerVars, readerVars, workerVars, doneVars, history>>

Originals == 1 .. MaxBatches
Events == 1 .. Size

(* ttlBatch: "from" is the queue's batch, "part" the events it was made    *)
(* of: when it is part of a split batch, its done callback takes their     *)
(* number off the outstanding events, whatever a retry has left of them.   *)
Batch == [from : Originals, events : SUBSET Events, ttl : -1 .. TimeToLive,
          part : SUBSET Events, split : BOOLEAN]

(* retryRequest *)
Request == [batch : Batch, decreaseTTL : BOOLEAN]

(* A nil pointer is not a batch. *)
ASSUME NoBatchAssumption == NoBatch \notin Batch

newBatch(o) ==
    [from |-> o, events |-> Events, ttl |-> TimeToLive, part |-> Events, split |-> FALSE]

Init ==
    /\ consumer = "running" /\ pendingRead = FALSE
    /\ retryBatches = <<>> /\ queueBatch = NoBatch
    /\ target = FALSE /\ reloads = 0
    /\ reader = "idle" /\ response = NoBatch /\ read = 0
    /\ held = [w \in Workers |-> NoBatch]
    /\ requests = [w \in Workers |-> <<>>]
    /\ connected = [w \in Workers |-> "no"]
    /\ doneCount = [o \in Originals |-> 0]
    /\ outstanding = [o \in Originals |-> 0]
    /\ acked = [o \in Originals |-> {}]
    /\ dropped = [o \in Originals |-> {}]

(* The done callback of a batch: a part of a split batch calls the         *)
(* original one once nothing is outstanding.                               *)
LastPartNegative(remaining) == remaining < 0
LastPart(remaining) == remaining = 0
Done(b) ==
    /\ outstanding' = IF b.split THEN [outstanding EXCEPT ![b.from] = @ - Cardinality(b.part)]
                      ELSE outstanding
    /\ doneCount' = IF ~b.split \/ LastPart(outstanding'[b.from])
                    THEN [doneCount EXCEPT ![b.from] = @ + 1] ELSE doneCount

(* ttlBatch.Drop *)
Drop(b) == Done(b) /\ dropped' = [dropped EXCEPT ![b.from] = @ \cup b.events]

-----------------------------------------------------------------------------
(* The queue reader *)

QueueGet ==
    /\ reader = "request"
    /\ \/ /\ read < MaxBatches
          /\ read' = read + 1
          /\ response' = newBatch(read + 1)
       \/ /\ read = MaxBatches       \* the queue is closed: no batch
          /\ UNCHANGED <<read, response>>
    /\ reader' = "response"
    /\ UNCHANGED <<consumerVars, workerVars, doneVars, history>>

(* The request channel is closed: the reader returns, and drops what it    *)
(* has on the floor.                                                       *)
ReaderStop ==
    /\ consumer = "stopped"
    /\ reader \in {"idle", "response"}
    /\ reader' = "stopped"
    /\ response' = NoBatch
    /\ UNCHANGED <<read, consumerVars, workerVars, doneVars, history>>

-----------------------------------------------------------------------------
(* The event consumer *)

Running == consumer # "stopped"

(* Start the next read in the background. *)
RequestRead ==
    /\ Running
    /\ queueBatch = NoBatch /\ ~pendingRead /\ target
    /\ pendingRead' = TRUE
    /\ reader' = "request"
    /\ UNCHANGED <<consumer, retryBatches, queueBatch, target, reloads, response, read,
                   workerVars, doneVars, history>>

(* The loop waits in its select statement only after the read was started. *)
Waiting == Running /\ ~(queueBatch = NoBatch /\ ~pendingRead /\ target)

ReceiveBatch ==
    /\ Waiting
    /\ reader = "response"
    /\ queueBatch' = response
    /\ pendingRead' = FALSE
    /\ reader' = "idle" /\ response' = NoBatch
    /\ UNCHANGED <<consumer, retryBatches, target, reloads, read, workerVars, doneVars, history>>

(* The first batch to retry goes before a new one. *)
activeNew == queueBatch
active ==
    IF retryBatches # <<>> THEN Head(retryBatches) ELSE queueBatch

(* A worker takes the active batch; one that is not connected gives it     *)
(* back before it tries to connect.                                        *)
SendBatch(w) ==
    /\ Waiting
    /\ target
    /\ active # NoBatch
    /\ held[w] = NoBatch /\ requests[w] = <<>>
    /\ \/ /\ connected[w] = "yes"
          /\ held' = [held EXCEPT ![w] = active]
          /\ UNCHANGED <<requests, connected>>
       \/ /\ connected[w] = "no"
          /\ requests' = [requests EXCEPT ![w] = <<[batch |-> active, decreaseTTL |-> FALSE]>>]
          /\ connected' = [connected EXCEPT ![w] = "connecting"]
          /\ held' = held
    /\ IF retryBatches # <<>>
       THEN retryBatches' = Tail(retryBatches) /\ queueBatch' = queueBatch
       ELSE queueBatch' = NoBatch /\ retryBatches' = retryBatches
    /\ UNCHANGED <<consumer, pendingRead, target, reloads, readerVars, doneVars, history>>

(* reduceTTL: the last attempt keeps the guaranteed events only, and those *)
(* without a limit.                                                        *)
GuaranteedNone(b) == {}
GuaranteedEvents(b) == b.events \cap Guaranteed
reduceTTLNegative(b) ==
    IF b.ttl # 1 THEN [b EXCEPT !.ttl = @ - 1]
    ELSE IF GuaranteedEvents(b) = {} THEN [b EXCEPT !.ttl = 0, !.events = {}]
    ELSE [b EXCEPT !.ttl = -1, !.events = GuaranteedEvents(b)]
reduceTTL(b) ==
    IF b.ttl <= 0 THEN b
    ELSE IF b.ttl > 1 THEN [b EXCEPT !.ttl = @ - 1]
    ELSE IF GuaranteedEvents(b) = {} THEN [b EXCEPT !.ttl = 0, !.events = {}]
    ELSE [b EXCEPT !.ttl = -1, !.events = GuaranteedEvents(b)]

(* Nothing is left of the batch. *)
ExpiredEarly(b) == b.ttl = 1
Expired(b) == b.ttl = 1 /\ GuaranteedEvents(b) = {}

ReceiveRetry(w) ==
    /\ Waiting
    /\ requests[w] # <<>>
    /\ LET b == Head(requests[w]).batch
           reduced == IF Head(requests[w]).decreaseTTL THEN reduceTTL(b) ELSE b
       IN  /\ dropped' = [dropped EXCEPT ![b.from] = @ \cup (b.events \ reduced.events)]
           /\ IF Head(requests[w]).decreaseTTL /\ Expired(b)
              THEN Done(b) /\ retryBatches' = retryBatches
              ELSE retryBatches' = Append(retryBatches, reduced) /\ UNCHANGED doneVars
    /\ requests' = [requests EXCEPT ![w] = Tail(@)]
    /\ UNCHANGED <<consumer, pendingRead, queueBatch, target, reloads, readerVars, held,
                   connected, acked>>

(* retry finds the consumer shut down and drops the batch. *)
RetryClosed(w) ==
    /\ consumer # "running"
    /\ requests[w] # <<>>
    /\ Drop(Head(requests[w]).batch)
    /\ requests' = [requests EXCEPT ![w] = Tail(@)]
    /\ UNCHANGED <<consumerVars, readerVars, held, connected, acked>>

(* outputController.Set pauses the consumer, closes the workers and starts *)
(* new ones, which are not connected; busy ones go on with their batch.    *)
Pause ==
    /\ Waiting
    /\ target
    /\ reloads < MaxReloads
    /\ reloads' = reloads + 1
    /\ target' = FALSE
    /\ connected' = [w \in Workers |-> "no"]
    /\ UNCHANGED <<consumer, pendingRead, retryBatches, queueBatch, readerVars, held, requests,
                   doneVars, history>>

Resume ==
    /\ Waiting
    /\ ~target
    /\ target' = TRUE
    /\ UNCHANGED <<consumer, pendingRead, retryBatches, queueBatch, reloads, readerVars,
                   workerVars, doneVars, history>>

CloseConsumer ==
    /\ MayClose
    /\ consumer = "running"
    /\ consumer' = "closing"
    /\ UNCHANGED <<pendingRead, retryBatches, queueBatch, target, reloads, readerVars, workerVars,
                   doneVars, history>>

(* The loop sees the closed channel and returns. *)
ConsumerStop ==
    /\ Waiting
    /\ consumer = "closing"
    /\ consumer' = "stopped"
    /\ UNCHANGED <<pendingRead, retryBatches, queueBatch, target, reloads, readerVars, workerVars,
                   doneVars, history>>

-----------------------------------------------------------------------------
(* The output workers *)

(* Connect follows the batch that was given back. *)
Connect(w, result) ==
    /\ connected[w] = "connecting"
    /\ requests[w] = <<>>
    /\ connected' = [connected EXCEPT ![w] = result]
    /\ UNCHANGED <<consumerVars, readerVars, held, requests, doneVars, history>>

Reply(w, kind) ==
    /\ kind \in Replies
    /\ held[w] # NoBatch
    /\ held' = [held EXCEPT ![w] = NoBatch]
    /\ UNCHANGED <<consumerVars, readerVars>>

ACK(w) ==
    /\ Reply(w, "ack")
    /\ Done(held[w])
    /\ acked' = [acked EXCEPT ![held[w].from] = @ \cup held[w].events]
    /\ UNCHANGED <<requests, connected, dropped>>

DropBatch(w) ==
    /\ Reply(w, "drop")
    /\ Drop(held[w])
    /\ UNCHANGED <<requests, connected, acked>>

SendRetry(w, b, decrease) ==
    requests' = [requests EXCEPT ![w] = <<[batch |-> b, decreaseTTL |-> decrease]>>]

(* A failed batch; with an error the client has to connect again. *)
Retry(w) ==
    /\ Reply(w, "retry")
    /\ SendRetry(w, held[w], TRUE)
    /\ connected' \in {connected, [connected EXCEPT ![w] = "no"]}
    /\ UNCHANGED <<doneVars, history>>

Cancelled(w) ==
    /\ Reply(w, "cancelled")
    /\ SendRetry(w, held[w], FALSE)
    /\ UNCHANGED <<connected, doneVars, history>>

(* Some events are to be sent again, the output got the others. *)
WithAllEvents(b, rest) == b
WithEvents(b, rest) == [b EXCEPT !.events = rest]
RetryEvents(w) ==
    /\ Reply(w, "retryEvents")
    /\ \E rest \in SUBSET held[w].events :
           /\ SendRetry(w, WithEvents(held[w], rest), TRUE)
           /\ acked' = [acked EXCEPT ![held[w].from] = @ \cup (held[w].events \ rest)]
    /\ connected' \in {connected, [connected EXCEPT ![w] = "no"]}
    /\ UNCHANGED <<doneVars, dropped>>

(* The two halves of a batch that was too large, each a batch of its own.  *)
Part(b, half) == [b EXCEPT !.events = half, !.part = half, !.split = TRUE]

SecondHalf(b, half) == b.events \ half

SplitRetry(w) ==
    LET b == held[w] IN
    /\ Reply(w, "splitRetry")
    /\ Cardinality(b.events) >= 2
    /\ outstanding' = IF b.split THEN outstanding
                      ELSE [outstanding EXCEPT ![b.from] = Cardinality(b.events)]
    /\ \E half \in SUBSET b.events :
           /\ Cardinality(half) = Cardinality(b.events) \div 2
           /\ \A e \in half, f \in b.events \ half : e < f
           /\ requests' = [requests EXCEPT ![w] =
                  <<[batch |-> Part(b, half), decreaseTTL |-> FALSE],
                    [batch |-> Part(b, SecondHalf(b, half)), decreaseTTL |-> FALSE]>>]
    /\ UNCHANGED <<connected, doneCount, history>>

(* A batch of one event can not be split, and is dropped. *)
SplitFails(w) ==
    /\ Reply(w, "splitRetry")
    /\ Cardinality(held[w].events) < 2
    /\ Drop(held[w])
    /\ UNCHANGED <<requests, connected, acked>>

Output(w) ==
    ACK(w) \/ DropBatch(w) \/ Retry(w) \/ Cancelled(w) \/ RetryEvents(w) \/ SplitRetry(w) \/ SplitFails(w)

Consumer == RequestRead \/ ReceiveBatch \/ ConsumerStop \/ Resume

Next ==
    \/ QueueGet \/ ReaderStop
    \/ Consumer
    \/ Pause \/ CloseConsumer
    \/ \E w \in Workers :
           SendBatch(w) \/ ReceiveRetry(w) \/ RetryClosed(w) \/ Output(w)
           \/ Connect(w, "yes") \/ Connect(w, "no")

Spec == Init /\ [][Next]_vars

(* Goroutines run and a reload ends; select chooses among the cases that   *)
(* are ready at random, so none is passed over forever; connecting again   *)
(* and again, or sending again and again, succeeds some time.              *)
Fairness ==
    /\ WF_vars(QueueGet)
    /\ WF_vars(Consumer)
    /\ \A w \in Workers :
           /\ SF_vars(SendBatch(w)) /\ SF_vars(ReceiveRetry(w))
           /\ SF_vars(Connect(w, "yes")) /\ SF_vars(ACK(w))

FairSpec == Spec /\ Fairness

-----------------------------------------------------------------------------
(* Properties *)

Places == {queueBatch, response} \cup {retryBatches[i] : i \in DOMAIN retryBatches}
              \cup {held[w] : w \in Workers}
              \cup {r.batch : r \in UNION {{requests[w][i] : i \in DOMAIN requests[w]} : w \in Workers}}

(* The batches somebody still has. *)
Live == Places \ {NoBatch}

(* Every field has its type. *)
TypeOK ==
    /\ consumer \in {"running", "closing", "stopped"}
    /\ {pendingRead, target} \subseteq BOOLEAN
    /\ retryBatches \in Seq(Batch)
    /\ {queueBatch, response} \subseteq Batch \cup {NoBatch}
    /\ reloads \in 0 .. MaxReloads
    /\ reader \in {"idle", "request", "response", "stopped"}
    /\ held \in [Workers -> Batch \cup {NoBatch}]
    /\ requests \in [Workers -> Seq(Request)]
    /\ connected \in [Workers -> {"no", "connecting", "yes"}]
    /\ read \in 0 .. MaxBatches
    /\ doneCount \in [Originals -> Nat]
    /\ outstanding \in [Originals -> Int]
    /\ acked \in [Originals -> SUBSET Events]
    /\ dropped \in [Originals -> SUBSET Events]

(* The queue is told once that a batch is done, and only when each of its  *)
(* events was sent or given up and nobody will send a part of it again.    *)
DoneOnce ==
    \A o \in Originals :
        /\ doneCount[o] <= 1
        /\ doneCount[o] = 1 =>
               /\ acked[o] \cup dropped[o] = Events
               /\ \A b \in Live : b.from # o

(* "In normal operation every batch will eventually receive an ACK() or a  *)
(* Drop()": while the pipeline is open, a batch the queue has not been     *)
(* told about is still in somebody's hands.                                *)
NothingLost ==
    consumer = "running" =>
        \A o \in 1 .. read : doneCount[o] = 0 => \E b \in Live : b.from = o

(* An event the output has not confirmed is in exactly one live batch, so  *)
(* a split or a partial retry neither loses nor duplicates one.            *)
EventsPartitioned ==
    consumer = "running" =>
        \A o \in 1 .. read :
            LET parts == {b \in Live : b.from = o}
                rest == UNION {b.events : b \in parts}
            IN
            /\ \A b, c \in parts : b = c \/ b.events \cap c.events = {}
            /\ rest \cap (acked[o] \cup dropped[o]) = {}
            /\ rest \cup acked[o] \cup dropped[o] = Events

(* "GuaranteedSend ensures events are retried until acknowledged by the    *)
(* output": the queue, which passes it on to the input that keeps track of *)
(* the sending status, does not hear that a batch is done before.          *)
GuaranteedSent == \A o \in Originals : doneCount[o] > 0 => Guaranteed \subseteq acked[o]

(* Every batch is done some time: retries, splits, reloads and lost        *)
(* connections do not leave one behind.                                    *)
EventuallyDone == \A o \in Originals : (read >= o) ~> (doneCount[o] > 0)
===============================================================================
