---------------------------- MODULE PipelineClient ----------------------------
(***************************************************************************)
(* A client of the publisher pipeline (client.go), from the Publish call   *)
(* to the acknowledgment, and how it and the pipeline are closed while     *)
(* events are on their way.                                                *)
(*                                                                         *)
(* Four goroutines meet here: the input that publishes, the one that       *)
(* closes, the ack loop of the queue, and the one clientCloseWaiter starts *)
(* to wait for the last acknowledgment or for a timeout.  The queue is the *)
(* sequence of the events it accepted and has not acknowledged.            *)
(***************************************************************************)
EXTENDS Integers, Sequences

CONSTANTS
    MaxEvents,             \* bound: events the input publishes
    MayFilter,             \* whether the processors drop events
    MayRefuse,             \* whether the queue refuses events (DropIfFull, queue full)
    MayTimeout,            \* whether the WaitClose timeouts can expire
    WaitOnPipelineClose    \* Settings.WaitCloseMode: whether there is an eventWaitGroup

ASSUME PipelineClientAssumption ==
    /\ MaxEvents \in Nat
    /\ {MayFilter, MayRefuse, MayTimeout, WaitOnPipelineClose} \subseteq BOOLEAN

VARIABLES
    \* client, and the goroutine in publish
    isOpen,
    pub,           \* "idle", "open" (in the processors), "added", or "accepted" by the queue
    next,          \* the event publish works on, or will
    producerOpen,  \* FALSE after producer.Cancel
    \* clientCloseWaiter
    events, closing, signalAll, signalDone,
    waitRoutine,   \* the goroutine of signalClose: "none", "running" or "ended"
    \* the goroutine in Close: "no", "signal", "stored", "waiting", "closed"
    closer,
    \* Pipeline.eventWaitGroup and the goroutine in Pipeline.Close
    eventWaitGroup, pipeline,
    \* the queue and its ack loop: "idle", "onACK" was called, or "zero" was left
    queue, ackLoop, ackCount,
    \* history
    published,     \* events whose Publish call returned after the queue accepted them
    acked,         \* events acknowledged to the client
    refused,       \* whether the queue refused an event
    timedOut       \* which of the closes ran into its timeout

clientVars == <<isOpen, pub, next, producerOpen>>
waiterVars == <<events, closing, signalAll, signalDone, waitRoutine, closer>>
pipelineVars == <<eventWaitGroup, pipeline>>
queueVars == <<queue, ackLoop, ackCount>>
vars == <<clientVars, waiterVars, pipelineVars, queueVars, published, acked, refused, timedOut>>

Event == 1 .. MaxEvents

(* Pipeline.ConnectWith and newClientCloseWaiter *)
Init ==
    /\ isOpen = TRUE /\ pub = "idle" /\ next = 1 /\ producerOpen = TRUE
    /\ events = 0 /\ closing = FALSE /\ signalAll = 0 /\ signalDone = FALSE
    /\ waitRoutine = "none" /\ closer = "no"
    /\ eventWaitGroup = 0 /\ pipeline = "open"
    /\ queue = <<>> /\ ackLoop = "idle" /\ ackCount = 0
    /\ published = {} /\ acked = {} /\ refused = FALSE /\ timedOut = {}

-----------------------------------------------------------------------------
(* publish *)

(* A closed client reports the event as dropped. *)
publish ==
    /\ pub = "idle" /\ next \in Event
    /\ IF isOpen THEN pub' = "open" /\ next' = next ELSE next' = next + 1 /\ pub' = pub
    /\ UNCHANGED <<isOpen, producerOpen, waiterVars, pipelineVars, queueVars,
                   published, acked, refused, timedOut>>

(* The processors have run; clientCloseWaiter.AddEvent counts what they    *)
(* did not drop.                                                           *)
Inc(count) == count + 1
AddEvent ==
    /\ pub = "open"
    /\ \/ events' = Inc(events) /\ pub' = "added" /\ next' = next
       \/ MayFilter /\ pub' = "idle" /\ next' = next + 1 /\ events' = events
    /\ UNCHANGED <<isOpen, producerOpen, closing, signalAll, signalDone, waitRoutine, closer,
                   pipelineVars, queueVars, published, acked, refused, timedOut>>

(* producer.Publish.  After Cancel it may still accept the event: its      *)
(* select statement finds both the request channel and done ready.         *)
ProducerPublish ==
    /\ pub = "added"
    /\ queue' = Append(queue, next)
    /\ pub' = "accepted"
    /\ UNCHANGED <<isOpen, next, producerOpen, waiterVars, pipelineVars, ackLoop, ackCount,
                   published, acked, refused, timedOut>>

onDroppedOnPublish ==
    /\ pub = "added"
    /\ MayRefuse \/ ~producerOpen
    /\ pub' = "idle" /\ next' = next + 1
    /\ refused' = TRUE
    /\ UNCHANGED <<isOpen, producerOpen, waiterVars, pipelineVars, queueVars,
                   published, acked, timedOut>>

WaitGroupAddNone == 0
WaitGroupAdd == IF WaitOnPipelineClose THEN 1 ELSE 0
onPublished ==
    /\ pub = "accepted"
    /\ eventWaitGroup' = eventWaitGroup + WaitGroupAdd
    /\ published' = published \cup {next}
    /\ pub' = "idle" /\ next' = next + 1
    /\ UNCHANGED <<isOpen, producerOpen, waiterVars, pipeline, queueVars, acked, refused, timedOut>>

-----------------------------------------------------------------------------
(* The ack loop of the queue *)

(* outputController.onACK, which the queue calls before the ACK callbacks  *)
(* of the producers.                                                       *)
onACK ==
    /\ ackLoop = "idle"
    /\ pipeline # "closed"
    /\ \E n \in 1 .. Len(queue) :
           /\ ackCount' = n
           /\ queue' = SubSeq(queue, n + 1, Len(queue))
           /\ acked' = acked \cup {queue[i] : i \in 1 .. n}
           /\ eventWaitGroup' = eventWaitGroup - (IF WaitOnPipelineClose THEN n ELSE 0)
    /\ ackLoop' = "onACK"
    /\ UNCHANGED <<clientVars, waiterVars, pipeline, published, refused, timedOut>>

(* clientCloseWaiter.ACKEvents *)
ACKEvents ==
    /\ ackLoop = "onACK"
    /\ events' = events - ackCount
    /\ ackCount' = 0
    /\ ackLoop' = IF events' = 0 THEN "zero" ELSE "idle"
    /\ UNCHANGED <<clientVars, closing, signalAll, signalDone, waitRoutine, closer, pipelineVars,
                   queue, published, acked, refused, timedOut>>

(* signalAll has room for one signal. *)
SendSignalAll ==
    /\ ackLoop = "zero"
    /\ \/ ~closing /\ signalAll' = signalAll
       \/ closing /\ signalAll = 0 /\ signalAll' = 1
    /\ ackLoop' = "idle"
    /\ UNCHANGED <<clientVars, events, closing, signalDone, waitRoutine, closer, pipelineVars,
                   queue, ackCount, published, acked, refused, timedOut>>

-----------------------------------------------------------------------------
(* Close *)

Close ==
    /\ closer = "no"
    /\ isOpen' = FALSE
    /\ closer' = "signal"
    /\ UNCHANGED <<pub, next, producerOpen, events, closing, signalAll, signalDone, waitRoutine,
                   pipelineVars, queueVars, published, acked, refused, timedOut>>

(* signalClose announces itself first and looks at the counter second. *)
signalClose ==
    /\ closer = "signal"
    /\ closing' = TRUE
    /\ closer' = "stored"
    /\ UNCHANGED <<clientVars, events, signalAll, signalDone, waitRoutine, pipelineVars, queueVars,
                   published, acked, refused, timedOut>>

finishOrWaitAlways ==
    /\ closer = "stored"
    /\ waitRoutine' = "running"
    /\ closer' = "waiting"
    /\ UNCHANGED <<clientVars, events, closing, signalAll, signalDone, pipelineVars, queueVars,
                   published, acked, refused, timedOut>>
finishOrWait ==
    /\ closer = "stored"
    /\ IF events = 0
       THEN signalDone' = TRUE /\ waitRoutine' = waitRoutine
       ELSE waitRoutine' = "running" /\ signalDone' = signalDone
    /\ closer' = "waiting"
    /\ UNCHANGED <<clientVars, events, closing, signalAll, pipelineVars, queueVars,
                   published, acked, refused, timedOut>>

WaitEnds ==
    /\ waitRoutine = "running"
    /\ waitRoutine' = "ended"
    /\ signalDone' = TRUE
    /\ UNCHANGED <<clientVars, events, closing, closer, pipelineVars, queueVars,
                   published, acked, refused>>

ReceiveSignalAll == WaitEnds /\ signalAll = 1 /\ signalAll' = 0 /\ timedOut' = timedOut

WaitTimeout ==
    MayTimeout /\ WaitEnds /\ timedOut' = timedOut \cup {"client"} /\ signalAll' = signalAll

(* The rest of Close once wait returned.  No client sets DropOnCancel, so  *)
(* Cancel removes nothing from the queue.                                  *)
FinishClose ==
    /\ closer = "waiting"
    /\ signalDone
    /\ closer' = "closed"
    /\ producerOpen' = FALSE
    /\ UNCHANGED <<isOpen, pub, next, events, closing, signalAll, signalDone, waitRoutine,
                   pipelineVars, queueVars, published, acked, refused, timedOut>>

(* Pipeline.Close waits for the group; "clients must be closed before".    *)
PipelineClose ==
    /\ pipeline = "open"
    /\ pipeline' = "waiting"
    /\ UNCHANGED <<clientVars, waiterVars, eventWaitGroup, queueVars, published, acked, refused, timedOut>>

WaitGroupWait ==
    /\ pipeline = "waiting"
    /\ pipeline' = "stopping"
    /\ UNCHANGED <<clientVars, waiterVars, eventWaitGroup, queueVars, published, acked, refused>>

PipelineWaited == WaitGroupWait /\ eventWaitGroup = 0 /\ timedOut' = timedOut

(* Without a wait group there is nothing to wait for, and no timeout. *)
PipelineTimeout ==
    WaitOnPipelineClose /\ MayTimeout /\ WaitGroupWait /\ timedOut' = timedOut \cup {"pipeline"}

(* The end of outputController.Close.  A queue that is closed reports      *)
(* nothing any more.                                                       *)
QueueClose ==
    /\ pipeline = "stopping"
    /\ pipeline' = "closed"
    /\ UNCHANGED <<clientVars, waiterVars, eventWaitGroup, queueVars, published, acked, refused, timedOut>>

-----------------------------------------------------------------------------

Publisher == publish \/ AddEvent \/ ProducerPublish \/ onDroppedOnPublish \/ onPublished
Acknowledge == onACK \/ ACKEvents \/ SendSignalAll
Closing == signalClose \/ finishOrWait \/ FinishClose
Waiter == ReceiveSignalAll \/ WaitTimeout

(* A negative WaitGroup counter is a panic, which ends the program. *)
Next ==
    /\ eventWaitGroup >= 0
    /\ Publisher \/ Acknowledge \/ Close \/ Closing \/ Waiter
       \/ (closer = "closed" /\ PipelineClose) \/ PipelineWaited
       \/ PipelineTimeout \/ QueueClose

Spec == Init /\ [][Next]_vars

(* Goroutines run, and the outputs get every batch done some time.  The    *)
(* timeouts need not ever expire.                                          *)
FairSpec ==
    /\ Spec
    /\ WF_vars(Publisher) /\ WF_vars(Acknowledge) /\ WF_vars(Closing) /\ WF_vars(ReceiveSignalAll)

-----------------------------------------------------------------------------
(* Properties *)

(* The counters have their types, and the unsigned counter of the close    *)
(* waiter never wraps: no event is acknowledged before it was added.       *)
TypeOK ==
    /\ {isOpen, producerOpen, closing, signalDone} \subseteq BOOLEAN
    /\ pub \in {"idle", "open", "added", "accepted"}
    /\ next \in 1 .. MaxEvents + 1
    /\ events \in 0 .. MaxEvents
    /\ signalAll \in 0 .. 1
    /\ waitRoutine \in {"none", "running", "ended"}
    /\ closer \in {"no", "signal", "stored", "waiting", "closed"}
    /\ eventWaitGroup \in -MaxEvents .. MaxEvents
    /\ pipeline \in {"open", "waiting", "stopping", "closed"}
    /\ queue \in Seq(Event)
    /\ ackLoop \in {"idle", "onACK", "zero"}
    /\ ackCount \in 0 .. MaxEvents
    /\ published \cup acked \subseteq Event
    /\ timedOut \subseteq {"client", "pipeline"}

(* A Pipeline.Close that did not time out stops the outputs after every    *)
(* event whose Publish call returned before was acknowledged, also the     *)
(* events of a client whose own Close did not wait long enough.            *)
PipelineWaitsForAcks ==
    [][pipeline' = "stopping" /\ timedOut' = timedOut => pipeline = "stopping" \/ published \subseteq acked]_vars

(* "Once a consumer has finished processing a batch, ... it will send an   *)
(* ACK signal with the number of ACKed events to the Producer": the ack    *)
(* loop gets back from every callback, also those of a client that closes. *)
AckLoopReturns == []<>(ackLoop = "idle")
===============================================================================
