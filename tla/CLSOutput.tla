------------------------------- MODULE CLSOutput -------------------------------
(***************************************************************************)
(* The CLS output (outputs/cls/cls.go) and the output worker that calls    *)
(* it.  The worker (clientWorker.run) takes one batch at a time, and       *)
(* Publish puts it into a channel of the output; a number of goroutines    *)
(* send the batches to the service, try again while the error is one that  *)
(* recovers fast, and report the result to the batch.  Close blocks        *)
(* Publish, closes the channel a second later and waits for them.          *)
(*                                                                         *)
(* Outputs are replaced when they are reloaded, one after the other; the   *)
(* worker of an output that is closed may be slow to notice.  The channel  *)
(* and the senders are those of the one output that is not closed.         *)
(***************************************************************************)
EXTENDS Integers, Sequences, FiniteSets

CONSTANTS
    MaxOutputs,         \* bound: the outputs that are started, one after the other
    CLSWorkers,         \* the goroutines of startWorkers: write_concurrency
    WriteQueueSize,
    MaxTries,           \* max_retries + 1, where max_retries is -1 or positive
    Guaranteed,         \* whether the events are sent with GuaranteedSend
    SlowPublish,        \* whether Publish may spend a second between its two selects
    MaxErrors           \* bound: errors of the service

ASSUME CLSAssumption ==
    /\ MaxOutputs \in Nat
    /\ WriteQueueSize \in Nat \ {0} /\ MaxTries \in Nat \ {1} /\ MaxErrors \in Nat
    /\ IsFiniteSet(CLSWorkers) /\ {Guaranteed, SlowPublish} \subseteq BOOLEAN

VARIABLES
    worker,     \* clientWorker.run: "none", "idle", "check", "send" or "ended", or it has a "panic"
    held,       \* the batch it publishes: a sequence of at most one
    clsState,   \* "none", "open", "done" (the worker's), "cancelled", "closed" or "ended"
    channel,    \* cls.queue
    sending,    \* what each goroutine sends: its batch, the tries so far and the decision
    consumer,   \* whether the eventConsumer is "running" or "closed"
    retryBatches, \* the batches it got back
    done,       \* the batches whose done callback was called
    answered,   \* history: the batches the service took, or will not have
    errors      \* history: the errors of the service so far

Outputs == 1 .. MaxOutputs

batchVars == <<retryBatches, done, answered>>
clsVars == <<worker, held, clsState, channel, sending, batchVars, consumer, errors>>

CLSInit ==
    /\ worker = [o \in Outputs |-> "none"] /\ held = [o \in Outputs |-> <<>>]
    /\ clsState = [o \in Outputs |-> "none"]
    /\ channel = <<>> /\ sending = [w \in CLSWorkers |-> <<>>]
    /\ consumer = "running"
    /\ retryBatches = {} /\ done = {} /\ answered = {} /\ errors = 0

(* makeCLS and makeClientWorker *)
StartOutput(o) ==
    /\ clsState' = [clsState EXCEPT ![o] = "open"]
    /\ worker' = [worker EXCEPT ![o] = "idle"]
    /\ UNCHANGED <<held, channel, sending>>

-----------------------------------------------------------------------------
(* What the output reports to the batch *)

(* makeCLS leaves the pipeline no try of its own, so that Retry drops the  *)
(* events that are not guaranteed, except if max_retries is negative.      *)
reduceTTLOfAll == MaxTries = 0
reduceTTL == Guaranteed \/ MaxTries = 0

Drop(b) == done' = done \cup {b} /\ UNCHANGED retryBatches

(* What the consumer does with a retryRequest *)
retryRequest(b, decreaseTTL) ==
    IF decreaseTTL => reduceTTL
    THEN retryBatches' = retryBatches \cup {b} /\ UNCHANGED done
    ELSE Drop(b)

(* A consumer that was closed drops what it should send again. *)
retryLost(b, decreaseTTL) ==
    IF consumer = "running" THEN retryRequest(b, decreaseTTL) ELSE UNCHANGED <<done, retryBatches>>
retryWaits(b, decreaseTTL) == consumer = "running" /\ retryRequest(b, decreaseTTL)
retry(b, decreaseTTL) ==
    IF consumer = "running" THEN retryRequest(b, decreaseTTL) ELSE Drop(b)

Cancelled(b) == retry(b, FALSE) /\ UNCHANGED answered

Decide(b, decision) ==
    CASE decision = "retry" -> retry(b, TRUE) /\ UNCHANGED answered
      [] decision \in {"ack", "drop"} ->
            Drop(b) /\ answered' = answered \cup {b}
      [] OTHER -> UNCHANGED batchVars

-----------------------------------------------------------------------------
(* The output worker *)

Receive(o, b) ==
    /\ worker[o] = "idle"
    /\ worker' = [worker EXCEPT ![o] = "check"]
    /\ held' = [held EXCEPT ![o] = <<b>>]
    /\ retryBatches' = retryBatches \ {b}
    /\ UNCHANGED <<clsState, channel, sending, consumer, done, answered, errors>>

WorkerDone(o) ==
    /\ worker[o] = "idle" /\ clsState[o] # "open"
    /\ worker' = [worker EXCEPT ![o] = "ended"]
    /\ UNCHANGED <<held, clsState, channel, sending, batchVars, consumer, errors>>

(* A Publish that fails ends the worker. *)
PublishCancelled(o) ==
    /\ worker[o] \in {"check", "send"}
    /\ clsState[o] \in {"cancelled", "closed", "ended"}
    /\ Cancelled(Head(held[o]))
    /\ held' = [held EXCEPT ![o] = <<>>]
    /\ worker' = [worker EXCEPT ![o] = "ended"]
    /\ UNCHANGED <<clsState, channel, sending, consumer, errors>>

PublishCheck(o) ==
    /\ worker[o] = "check" /\ clsState[o] \in {"open", "done"}
    /\ worker' = [worker EXCEPT ![o] = "send"]
    /\ UNCHANGED <<held, clsState, channel, sending, batchVars, consumer, errors>>

(* The second select of Publish takes any case that is ready.  A send to a *)
(* closed channel is ready too, and panics.                                *)
PublishSend(o) ==
    /\ worker[o] = "send"
    /\ IF clsState[o] \in {"closed", "ended"}
       THEN /\ worker' = [worker EXCEPT ![o] = "panic"]
            /\ UNCHANGED <<channel, held>>
       ELSE /\ Len(channel) < WriteQueueSize
            /\ channel' = Append(channel, Head(held[o]))
            /\ held' = [held EXCEPT ![o] = <<>>]
            /\ worker' = [worker EXCEPT ![o] = "idle"]
    /\ UNCHANGED <<clsState, sending, batchVars, consumer, errors>>

-----------------------------------------------------------------------------
(* The goroutines of the output *)

Take(w) ==
    /\ sending[w] = <<>> /\ channel # <<>>
    /\ sending' = [sending EXCEPT ![w] = <<[batch |-> Head(channel), tries |-> 0, decision |-> ""]>>]
    /\ channel' = Tail(channel)
    /\ UNCHANGED <<worker, held, clsState, batchVars, consumer, errors>>

(* publishEvents: what becomes of the batch, and whether to try again soon. *)
Decisions ==
    {<<"ack", FALSE>>} \cup
    IF errors < MaxErrors THEN {<<"drop", FALSE>>, <<"retry", FALSE>>, <<"retry", TRUE>>} ELSE {}

(* One turn of the loop of publish.  The last one leaves a decision; with  *)
(* max_retries of -1 there is none, as the loop ends before the first try. *)
TryPublish(w) ==
    /\ sending[w] # <<>> /\ MaxTries # 0
    /\ LET s == Head(sending[w])
       IN  /\ s.decision = ""
           /\ \E d \in Decisions :
                LET decision == d[1]  fastRecover == d[2]
                IN  /\ errors' = IF decision = "ack" THEN errors ELSE errors + 1
                    /\ sending' = [sending EXCEPT ![w] = <<
                           IF fastRecover /\ s.tries + 1 < MaxTries
                           THEN [s EXCEPT !.tries = @ + 1] ELSE [s EXCEPT !.decision = decision]>>]
    /\ UNCHANGED <<worker, held, clsState, channel, batchVars, consumer>>

(* The switch at the end of publish reports no decision to nobody. *)
Report(w) ==
    /\ sending[w] # <<>>
    /\ LET s == Head(sending[w])
       IN  /\ s.decision # "" \/ MaxTries = 0
           /\ Decide(s.batch, s.decision)
    /\ sending' = [sending EXCEPT ![w] = <<>>]
    /\ UNCHANGED <<worker, held, clsState, channel, consumer, errors>>

-----------------------------------------------------------------------------
(* clientWorker.Close and cls.Close *)

(* The worker in use, if any, is told to end. *)
CloseWorkers == clsState' = [o \in Outputs |-> IF clsState[o] = "open" THEN "done" ELSE clsState[o]]
WorkersClosed == \A o \in Outputs : clsState[o] \in {"none", "ended"}

CloseStep(o, from, to) ==
    /\ clsState[o] = from
    /\ clsState' = [clsState EXCEPT ![o] = to]
    /\ UNCHANGED <<worker, held, channel, sending, batchVars, consumer, errors>>

CloseCancel(o) == CloseStep(o, "done", "cancelled")

CloseQueueAtOnce(o) == CloseStep(o, "cancelled", "closed")
(* The second that Close sleeps is enough for a Publish under way. *)
CloseQueue(o) == (SlowPublish \/ worker[o] # "send") /\ CloseStep(o, "cancelled", "closed")

CloseWait(o) ==
    /\ channel = <<>> /\ \A w \in CLSWorkers : sending[w] = <<>>
    /\ CloseStep(o, "closed", "ended")

OutputStep ==
    \/ \E o \in Outputs :
        \/ WorkerDone(o) \/ PublishCancelled(o) \/ PublishCheck(o) \/ PublishSend(o)
        \/ CloseCancel(o) \/ CloseQueue(o) \/ CloseWait(o)
    \/ \E w \in CLSWorkers : Take(w) \/ TryPublish(w) \/ Report(w)
================================================================================
