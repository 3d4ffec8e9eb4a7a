------------------------------- MODULE Pipeline -------------------------------
(***************************************************************************)
(* The publisher pipeline as a whole: a client (PipelineClient), the       *)
(* outputController that creates the queue and replaces the outputs        *)
(* (controller.go), the consumer, and the CLS output (CLSOutput).          *)
(*                                                                         *)
(* A batch is one event.  The consumer gives out the next event of the     *)
(* queue or a batch it got back; EventConsumer has its details.  Whoever   *)
(* reloads the outputs does not do so twice at the same time, nor while    *)
(* the pipeline is closed.                                                 *)
(***************************************************************************)
EXTENDS PipelineClient, CLSOutput

VARIABLES
    connect,    \* ConnectWith: "no", "waiting" for a producer, "connected" or "failed"
    hasQueue,   \* whether the queue was created
    target,     \* whether the consumer has a channel to send to
    output,     \* the output in use, the last one started: 0 before the first
    controller, \* the goroutine in the controller: "idle", "set", "setEmpty", "close" or "closed"
    handedOut   \* history: the batches the consumer gave to a worker

controllerVars == <<connect, hasQueue, target, output, controller>>
pipelineAll == <<vars, clsVars, controllerVars, handedOut>>

PipelineInit ==
    /\ Init /\ CLSInit
    /\ connect = "no" /\ hasQueue = FALSE /\ target = FALSE /\ output = 0 /\ controller = "idle"
    /\ handedOut = {}

-----------------------------------------------------------------------------
(* The outputController *)

(* queueProducer leaves a request behind while there is no queue. *)
queueProducer ==
    /\ connect = "no" /\ pipeline = "open"
    /\ connect' = IF hasQueue THEN "connected" ELSE "waiting"
    /\ UNCHANGED <<vars, clsVars, hasQueue, target, output, controller, handedOut>>

Answer(answer) == connect' = IF connect = "waiting" THEN answer ELSE connect

createQueueIfNeededOnly ==
    /\ hasQueue' = TRUE /\ UNCHANGED connect
createQueueIfNeeded ==
    /\ hasQueue' = TRUE
    /\ IF hasQueue THEN UNCHANGED connect ELSE Answer("connected")

SetStart(to) ==
    /\ controller = "idle" /\ pipeline = "open"
    /\ controller' = to
    /\ target' = FALSE
    /\ CloseWorkers
    /\ UNCHANGED <<vars, worker, held, channel, sending, batchVars, consumer, errors, output, handedOut>>

Set == output + 1 \in Outputs /\ createQueueIfNeeded /\ SetStart("set")
SetEmpty == target /\ SetStart("setEmpty") /\ UNCHANGED <<connect, hasQueue>>

SetWorkers ==
    /\ controller = "set" /\ WorkersClosed
    /\ controller' = "idle" /\ target' = TRUE /\ output' = output + 1
    /\ StartOutput(output')
    /\ UNCHANGED <<vars, batchVars, consumer, errors, connect, hasQueue, handedOut>>

SetNoWorkers ==
    /\ controller = "setEmpty" /\ WorkersClosed
    /\ controller' = "idle"
    /\ UNCHANGED <<vars, clsVars, connect, hasQueue, target, output, handedOut>>

ControllerClose ==
    /\ pipeline = "stopping" /\ controller = "idle"
    /\ controller' = "close"
    /\ consumer' = "closed"
    /\ CloseWorkers
    /\ UNCHANGED <<vars, worker, held, channel, sending, batchVars, errors,
                   connect, hasQueue, target, output, handedOut>>

ControllerClosed ==
    /\ controller = "close" /\ WorkersClosed
    /\ QueueClose
    /\ Answer("failed")
    /\ controller' = "closed"
    /\ UNCHANGED <<clsVars, hasQueue, target, output, handedOut>>

-----------------------------------------------------------------------------
(* The consumer and the queue *)

(* The first event of the queue that was not handed out yet *)
Unread(i) == queue[i] \notin handedOut /\ \A j \in 1 .. i - 1 : queue[j] \in handedOut

HandOut(b) ==
    /\ \E o \in Outputs : Receive(o, b)
    /\ handedOut' = handedOut \cup {b}
    /\ UNCHANGED <<vars, controllerVars>>

HandOutUnread == \E i \in DOMAIN queue : Unread(i) /\ HandOut(queue[i])

ToWorkerUnread == consumer = "running" /\ target /\ HandOutUnread
ToWorker ==
    /\ consumer = "running" /\ target
    /\ \/ \E b \in retryBatches : HandOut(b)
       \/ retryBatches = {} /\ HandOutUnread

(* The queue acknowledges its events in order. *)
AckDone == onACK /\ acked' \subseteq acked \cup done

-----------------------------------------------------------------------------

ClientSystem == Publisher \/ AckDone \/ ACKEvents \/ SendSignalAll \/ Closing \/ ReceiveSignalAll
ClientStep(A) == connect = "connected" /\ A /\ UNCHANGED <<clsVars, controllerVars, handedOut>>

ClosePipeline ==
    /\ connect = "connected" => closer = "closed"
    /\ controller = "idle"
    /\ PipelineClose
    /\ UNCHANGED <<clsVars, controllerVars, handedOut>>

Waited(A) == A /\ UNCHANGED <<clsVars, controllerVars, handedOut>>

(* What runs by itself.  Connecting, setting outputs, closing and timeouts *)
(* happen or not.                                                          *)
System ==
    /\ eventWaitGroup >= 0
    /\ \/ ClientStep(ClientSystem) \/ Waited(PipelineWaited)
       \/ SetWorkers \/ SetNoWorkers \/ ControllerClose \/ ControllerClosed \/ ToWorker
       \/ OutputStep /\ UNCHANGED <<vars, controllerVars, handedOut>>

Environment ==
    /\ eventWaitGroup >= 0
    /\ \/ queueProducer \/ Set \/ SetEmpty \/ ClosePipeline
       \/ ClientStep(Close) \/ ClientStep(WaitTimeout) \/ Waited(PipelineTimeout)

PipelineNext == System \/ Environment

PipelineSpec == PipelineInit /\ [][PipelineNext]_pipelineAll /\ WF_pipelineAll(System)

-----------------------------------------------------------------------------
(* Properties *)

(* The variables have their types, and no Publish sends to the channel     *)
(* that cls.Close has closed.                                              *)
PipelineTypeOK ==
    /\ TypeOK
    /\ worker \in [Outputs -> {"none", "idle", "check", "send", "ended"}]
    /\ \A o \in Outputs : Len(held[o]) = IF worker[o] \in {"check", "send"} THEN 1 ELSE 0
    /\ clsState \in [Outputs -> {"none", "open", "done", "cancelled", "closed", "ended"}]
    /\ Len(channel) <= WriteQueueSize
    /\ done \cup answered \cup retryBatches \subseteq handedOut
    /\ connect \in {"no", "waiting", "connected", "failed"}
    /\ controller \in {"idle", "set", "setEmpty", "close", "closed"}
    /\ output \in {0} \cup Outputs

Places(b) ==
    {<<"worker", o>> : o \in {x \in Outputs : held[x] = <<b>>}} \cup
    {<<"channel", i>> : i \in {x \in 1 .. Len(channel) : channel[x] = b}} \cup
    {<<"sending", w>> : w \in {x \in CLSWorkers : sending[x] # <<>> /\ Head(sending[x]).batch = b}} \cup
    {<<"retry", 0>> : x \in retryBatches \cap {b}} \cup {<<"done", 0>> : x \in done \cap {b}}

(* "A client must synchronously or asynchronously ACK the given batch ...  *)
(* Using Retry/Cancelled a client can return a batch": a batch the output  *)
(* was given is with it, was returned, or is done, and only one of these,  *)
(* through errors, reloads, and the close of the output and the pipeline.  *)
BatchKept == \A b \in handedOut : \E p \in Places(b) : Places(b) = {p}

(* "GuaranteedSend ensures events are retried until acknowledged by the    *)
(* output": an event of a client that asked for it is acknowledged to the  *)
(* client only after the service took or refused it, unless the pipeline   *)
(* was closed before.                                                      *)
GuaranteedAnswered == Guaranteed /\ consumer = "running" => acked \subseteq answered

(* "any prior calls to outputController.queueProducer from incoming        *)
(* pipeline connections will be unblocked": once there is a queue, or the  *)
(* pipeline is closed, nobody waits for a producer.                        *)
NoRequestStranded == connect = "waiting" => ~hasQueue /\ pipeline # "closed"

(* While there is an output and the pipeline is not closed, the queue is   *)
(* emptied over and over: no batch is stuck behind a full channel, in an   *)
(* output that was replaced, or before an event that is done.  The one     *)
(* exception is the ack loop that AckLoopReturns is about.                 *)
QueueDrains ==
    []<>(\/ queue = <<>> \/ ~target \/ consumer = "closed"
         \/ eventWaitGroup < 0 \/ (ackLoop = "zero" /\ closing /\ signalAll = 1))

(* outputController.Close returns: the output's goroutines that report to  *)
(* the consumer, which is gone, do not keep cls.Close waiting.             *)
PipelineCloseReturns == []<>(pipeline # "stopping" \/ eventWaitGroup < 0)

(* Unless the queue refused an event, or there is no output, Close of the  *)
(* client needs no timeout.                                                *)
ClientCloseReturns ==
    []<>(closer \in {"no", "closed"} \/ refused \/ ~target \/ eventWaitGroup < 0)
===============================================================================
