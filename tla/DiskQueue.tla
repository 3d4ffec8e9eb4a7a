------------------------------- MODULE DiskQueue -------------------------------
(***************************************************************************)
(* The disk queue (libbeat/publisher/queue/diskqueue): a core loop that    *)
(* owns the lists of segments, helper loops that write, read and delete    *)
(* segment files, and the position of the first frame without              *)
(* acknowledgment, which the consumers advance.                            *)
(*                                                                         *)
(* The core loop never blocks, so one case of its select is one step.  Its *)
(* state is the record q, and its helpers are operators from q to q.  A    *)
(* frame is an event number and a size; files hold frames, and the bytes   *)
(* of headers and frames are counted as in the code.                       *)
(***************************************************************************)
EXTENDS Integers, Sequences, SequencesExt, FiniteSets, TLC

CONSTANTS
    HeaderSize,       \* segmentHeaderSize
    MaxSegmentSize,   \* settings.MaxSegmentSize
    MaxBufferSize,    \* settings.MaxBufferSize, 0 if there is no limit
    WriteAheadLimit,  \* settings.WriteAheadLimit
    ReadAheadLimit,   \* settings.ReadAheadLimit
    FrameSizes,       \* the sizes of frames producers write
    Producers,        \* the number of producers: as many requests can be blocked
    GetSizes,         \* the eventCounts consumers ask for
    Consumers,        \* the number of batches that can be out at a time
    MaxFrames,        \* bound on the number of frames
    MaxSessions,      \* bound on the number of times the queue is opened
    MayClose,
    Faults,           \* what may go wrong outside the queue
    MaxFaults         \* bound on the number of times it does

FaultKinds == {"crash", "torn", "tornPosition", "remove"}

ASSUME DiskQueueAssumption ==
    /\ HeaderSize \in Nat \ {0}
    /\ MaxSegmentSize \in Nat /\ MaxSegmentSize > HeaderSize
    /\ MaxBufferSize \in Nat
    /\ MaxBufferSize = 0 \/ MaxBufferSize >= 2 * MaxSegmentSize
    /\ WriteAheadLimit \in Nat \ {0} /\ ReadAheadLimit \in Nat \ {0}
    /\ FrameSizes \subseteq Nat \ {0} /\ GetSizes \subseteq Nat \ {0}
    /\ {Producers, Consumers, MaxFrames, MaxSessions, MaxFaults} \subseteq Nat
    /\ MayClose \in BOOLEAN
    /\ Faults \subseteq FaultKinds

VARIABLES
    q,           \* the core loop: segment lists, pending frames, requests under way
    writer,      \* the writer loop
    reader,      \* the reader loop
    results,     \* the deleter loop: the results of the request so far
    output,      \* readerLoop.output
    batches,     \* the batches the consumers hold
    acks,        \* diskQueueACKs
    segmentACK,  \* acks.segmentACKChan
    phase,       \* where the queue is between NewQueue and the end of Close
    closed,      \* dq.done is closed
    files,       \* the segment files: id -> frames
    position,    \* the position file
    published,   \* the number of frames that came in
    faults,
    sessions,
    \* history
    saved,       \* the events confirmed to their producers, or found by NewQueue
    consumed,    \* the events acknowledged by consumers
    lastRead     \* the last event the reader has put into output in this session

helpers == <<writer, reader, results>>
consumer == <<batches, acks, segmentACK>>
disk == <<files, position>>
session == <<phase, closed, sessions>>
history == <<saved, consumed, lastRead>>

vars == <<q, helpers, output, consumer, disk, session, published, faults, history>>

--------------------------------------------------------------------------------
(* Frames, files and positions *)

SizeOf(frames) == FoldLeft(LAMBDA sum, f : sum + f.size, 0, frames)

Offset(frames, i) == HeaderSize + SizeOf(SubSeq(frames, 1, i - 1))

(* The part of a frame that a crash left at the end of a file: one byte. *)
Torn == [event |-> 0, size |-> 1]

Whole(frames) == SelectSeq(frames, LAMBDA f : f # Torn)

QueuePosition(segment, bytes, frames) ==
    [segmentID |-> segment, byteIndex |-> bytes, frameIndex |-> frames]

NewSegment(id, bytes) == [id |-> id, byteCount |-> bytes, firstFrameID |-> 0]

sizeOnDisk(s) ==
    FoldLeft(LAMBDA sum, segment : sum + segment.byteCount, 0,
             s.writing \o s.reading \o s.acking \o s.acked)

NoSegment == -1

WriterIdle == [written |-> 0, current |-> NoSegment, response |-> <<0>>,
               stop |-> FALSE, responding |-> FALSE]

ReaderIdle == [frameCount |-> 0, byteCount |-> 0, state |-> "reading"]

AcksAt(p) == [nextFrameID |-> 0, nextPosition |-> p, oldSegmentID |-> 0, arrived |-> {},
              stage |-> "free"]

EmptyQueue ==
    [writing |-> <<>>, reading |-> <<>>, acking |-> <<>>, acked |-> <<>>, nextID |-> 0,
     writingSegmentSize |-> 0, nextReadFrameID |-> 0, nextReadPosition |-> 0,
     pendingFrames |-> <<>>, blockedProducers |-> <<>>,
     writeRequest |-> <<>>, readRequest |-> <<>>, deleteRequest |-> 0]

--------------------------------------------------------------------------------
(* The helpers of the core loop *)

(* Mutant: one more pending frame than the limit. *)
canAcceptFrameOverLimit(s, size) ==
    /\ Len(s.pendingFrames) <= WriteAheadLimit
    /\ \/ MaxBufferSize = 0
       \/ SizeOf(s.pendingFrames) + SizeOf(s.writeRequest) + sizeOnDisk(s) + size
            <= MaxBufferSize

canAcceptFrameOfSize(s, size) ==
    /\ Len(s.pendingFrames) < WriteAheadLimit
    /\ \/ MaxBufferSize = 0
       \/ SizeOf(s.pendingFrames) + SizeOf(s.writeRequest) + sizeOnDisk(s) + size
            <= MaxBufferSize

enqueueWriteFrame(s, frame) ==
    LET newSegmentSize == s.writingSegmentSize + frame.size
        fits == s.writing # <<>> /\ newSegmentSize <= MaxSegmentSize
        t == IF fits THEN [s EXCEPT !.writingSegmentSize = newSegmentSize]
             ELSE [s EXCEPT !.writing = Append(@, NewSegment(s.nextID, 0)),
                            !.nextID = @ + 1,
                            !.writingSegmentSize = HeaderSize]
    IN  [t EXCEPT !.pendingFrames =
            Append(@, [event |-> frame.event, size |-> frame.size,
                       segment |-> Last(t.writing).id])]

maybeWritePending(s) ==
    IF s.writeRequest # <<>> THEN s
    ELSE [s EXCEPT !.writeRequest = s.pendingFrames, !.pendingFrames = <<>>]

readingSegments(s) == s.reading \o s.writing

maybeAdvanceReadingList(s) ==
    IF s.reading # <<>> /\ s.nextReadPosition >= Head(s.reading).byteCount
    THEN [s EXCEPT !.acking = Append(@, Head(s.reading)),
                   !.reading = Tail(@),
                   !.nextReadPosition = 0]
    ELSE s

(* The first read of a segment gives it its firstFrameID. *)
startSegment(s) ==
    IF s.reading # <<>>
    THEN [s EXCEPT !.reading[1].firstFrameID = s.nextReadFrameID,
                   !.nextReadPosition = HeaderSize]
    ELSE [s EXCEPT !.writing[1].firstFrameID = s.nextReadFrameID,
                   !.nextReadPosition = HeaderSize]

maybeReadPending(s) ==
    IF s.readRequest # <<>> THEN s
    ELSE LET t == maybeAdvanceReadingList(s)
             u == IF t.nextReadPosition = 0 THEN startSegment(t) ELSE t
             segment == Head(readingSegments(u))
         IN  IF \/ readingSegments(t) = <<>>
                \/ t.nextReadPosition >= Head(readingSegments(t)).byteCount
             THEN t
             ELSE [u EXCEPT !.readRequest =
                     <<[segment |-> segment, startFrameID |-> u.nextReadFrameID,
                        startPosition |-> u.nextReadPosition,
                        endPosition |-> segment.byteCount]>>]

maybeDeleteACKed(s) ==
    IF s.deleteRequest # 0 THEN s ELSE [s EXCEPT !.deleteRequest = Len(s.acked)]

maybeUnblockProducers(s) ==
    FoldLeft(LAMBDA t, frame :
                IF /\ Head(t.blockedProducers) = frame
                   /\ canAcceptFrameOfSize(t, frame.size)
                THEN [enqueueWriteFrame(t, frame) EXCEPT !.blockedProducers = Tail(@)]
                ELSE t,
             s, s.blockedProducers)

handleProducerWriteRequest(s, frame, shouldBlock) ==
    IF frame.size > MaxSegmentSize - HeaderSize THEN s
    ELSE IF s.blockedProducers = <<>> /\ canAcceptFrameOfSize(s, frame.size)
    THEN enqueueWriteFrame(s, frame)
    ELSE IF shouldBlock THEN [s EXCEPT !.blockedProducers = Append(@, frame)]
    ELSE s

(* Mutant: the segment still being written is closed as well. *)
handleWriterLoopResponseAll(s, response) ==
    LET grown == [i \in DOMAIN s.writing |->
                    IF i \in DOMAIN response
                    THEN [s.writing[i] EXCEPT !.byteCount = @ + response[i]]
                    ELSE s.writing[i]]
    IN  [s EXCEPT !.writeRequest = <<>>,
                  !.reading = @ \o SubSeq(grown, 1, Len(response)),
                  !.writing = SubSeq(grown, Len(response) + 1, Len(grown))]

handleWriterLoopResponse(s, response) ==
    LET closedCount == Len(response) - 1
        grown == [i \in DOMAIN s.writing |->
                    IF i \in DOMAIN response
                    THEN [s.writing[i] EXCEPT !.byteCount = @ + response[i]]
                    ELSE s.writing[i]]
    IN  [s EXCEPT !.writeRequest = <<>>,
                  !.reading = @ \o SubSeq(grown, 1, closedCount),
                  !.writing = SubSeq(grown, closedCount + 1, Len(grown))]

(* Mutant: what was written during the read counts as read. *)
handleReaderLoopResponseEnd(s, response) ==
    [s EXCEPT !.readRequest = <<>>,
              !.nextReadFrameID = @ + response.frameCount,
              !.nextReadPosition = Head(readingSegments(s)).byteCount]

handleReaderLoopResponse(s, response) ==
    [s EXCEPT !.readRequest = <<>>,
              !.nextReadFrameID = @ + response.frameCount,
              !.nextReadPosition = IF response.state = "error"
                                   THEN Head(readingSegments(s)).byteCount
                                   ELSE @ + response.byteCount]

(* Segments that could not be deleted stay, as do those that came later.   *)
handleDeleterLoopResponse(s, deleted) ==
    LET tried == SubSeq(s.acked, 1, Len(deleted))
        kept == SelectSeq(Zip(tried, deleted), LAMBDA pair : ~pair[2])
    IN  [s EXCEPT !.deleteRequest = 0,
                  !.acked = [i \in DOMAIN kept |-> kept[i][1]]
                              \o SubSeq(@, Len(deleted) + 1, Len(@))]

handleSegmentACK(s, id) ==
    LET later == SelectInSeq(s.acking, LAMBDA segment : segment.id > id)
        count == IF later = 0 THEN Len(s.acking) ELSE later - 1
    IN  [s EXCEPT !.acked = @ \o SubSeq(s.acking, 1, count),
                  !.acking = SubSeq(@, count + 1, Len(@))]

--------------------------------------------------------------------------------
(* The cases of diskQueue.run *)

Running == phase = "running"

Publish(size, shouldBlock) ==
    LET frame == [event |-> published + 1, size |-> size]
        s == handleProducerWriteRequest(q, frame, shouldBlock)
    IN  /\ Running
        /\ published < MaxFrames
        /\ Len(q.blockedProducers) < Producers
        /\ q' = maybeWritePending(s)
        /\ published' = IF s = q THEN published ELSE published + 1
        /\ UNCHANGED <<helpers, output, consumer, disk, session, faults, history>>

ReceiveSegmentACK ==
    /\ Running
    /\ segmentACK # <<>>
    /\ q' = maybeDeleteACKed(handleSegmentACK(q, Head(segmentACK)))
    /\ segmentACK' = <<>>
    /\ UNCHANGED <<helpers, output, batches, acks, disk, session, published, faults, history>>

(* Mutant: nothing asks the reader for what was written. *)
ReceiveWriterResponseUnread ==
    /\ Running
    /\ writer.responding
    /\ q' = maybeUnblockProducers(maybeWritePending(
               handleWriterLoopResponse(q, writer.response)))
    /\ writer' = [WriterIdle EXCEPT !.current = writer.current]
    /\ UNCHANGED <<reader, results, output, consumer, disk, session, published, faults, history>>

ReceiveWriterResponse ==
    /\ Running
    /\ writer.responding
    /\ q' = maybeUnblockProducers(maybeReadPending(maybeWritePending(
               handleWriterLoopResponse(q, writer.response))))
    /\ writer' = [WriterIdle EXCEPT !.current = writer.current]
    /\ UNCHANGED <<reader, results, output, consumer, disk, session, published, faults, history>>

ReceiveReaderResponse ==
    /\ Running
    /\ reader.state # "reading"
    /\ q' = maybeReadPending(handleReaderLoopResponse(q, reader))
    /\ reader' = ReaderIdle
    /\ UNCHANGED <<writer, results, output, consumer, disk, session, published, faults, history>>

DeleterResponds == q.deleteRequest > 0 /\ Len(results) = q.deleteRequest

ReceiveDeleterResponse ==
    /\ Running
    /\ DeleterResponds
    /\ q' = maybeUnblockProducers(maybeDeleteACKed(handleDeleterLoopResponse(q, results)))
    /\ results' = <<>>
    /\ UNCHANGED <<writer, reader, output, consumer, disk, session, published, faults, history>>

--------------------------------------------------------------------------------
(* The writer loop *)

WriterClosed == phase \in {"writer", "deleter", "acks", "delete"}

(* The current segment's entry is the last of the response.  A new file    *)
(* replaces what an older, empty one left behind.                          *)
WriteFrame ==
    LET frame == q.writeRequest[writer.written + 1]
        new == frame.segment # writer.current
        response == IF new /\ writer.current # NoSegment
                    THEN Append(writer.response, HeaderSize)
                    ELSE IF new THEN <<HeaderSize>> ELSE writer.response
    IN  /\ ~writer.responding /\ ~writer.stop
        /\ writer.written < Len(q.writeRequest)
        /\ writer' = [writer EXCEPT
              !.written = @ + 1,
              !.current = frame.segment,
              !.response = [response EXCEPT ![Len(response)] = @ + frame.size],
              !.stop = WriterClosed]
        /\ files' = frame.segment :>
              Append(IF new THEN <<>> ELSE files[frame.segment],
                     [event |-> frame.event, size |-> frame.size]) @@ files
        /\ UNCHANGED <<q, reader, results, output, consumer, position, session,
                       published, faults, history>>

(* The file is synchronised and the producers are told. *)
FinishWrite ==
    /\ writer.written > 0 /\ ~writer.responding
    /\ writer.stop \/ writer.written = Len(q.writeRequest)
    /\ writer' = [writer EXCEPT !.responding = TRUE]
    /\ saved' = saved \cup {q.writeRequest[i].event : i \in 1 .. writer.written}
    /\ UNCHANGED <<q, reader, results, output, consumer, disk, session, published,
                   faults, consumed, lastRead>>

--------------------------------------------------------------------------------
(* The reader loop *)

ReaderClosed == WriterClosed \/ phase = "reader"

(* The index of the frame at a position, 0 if nextFrame finds none there.  *)
FrameAt(frames, bytes, end) ==
    SelectInSeq([i \in DOMAIN frames |-> i],
                LAMBDA i : /\ Offset(frames, i) = bytes
                           /\ bytes + frames[i].size <= end
                           /\ frames[i] # Torn)

(* The next frame of the request under way. *)
NextFrame ==
    LET request == Head(q.readRequest)
    IN  FrameAt(files[request.segment.id],
                request.startPosition + reader.byteCount, request.endPosition)

Reading == q.readRequest # <<>> /\ reader.state = "reading"

ReadFrame ==
    LET request == Head(q.readRequest)
        frame == files[request.segment.id][NextFrame]
        id == request.startFrameID + reader.frameCount
        bytes == reader.byteCount + frame.size
    IN  /\ Reading
        /\ NextFrame # 0
        /\ Len(output) < ReadAheadLimit
        /\ output' = Append(output,
              [id |-> id, event |-> frame.event, size |-> frame.size,
               segment |-> request.segment.id, first |-> id = request.segment.firstFrameID])
        /\ reader' = [frameCount |-> reader.frameCount + 1, byteCount |-> bytes,
                      state |-> IF \/ ReaderClosed
                                   \/ request.startPosition + bytes >= request.endPosition
                                THEN "ok" ELSE "reading"]
        /\ lastRead' = frame.event
        /\ UNCHANGED <<q, writer, results, consumer, disk, session, published, faults,
                       saved, consumed>>

ReadError ==
    /\ Reading
    /\ NextFrame = 0
    /\ reader' = [reader EXCEPT !.state = "error"]
    /\ UNCHANGED <<q, writer, results, output, consumer, disk, session, published,
                   faults, history>>

AbortRead ==
    /\ Reading
    /\ NextFrame # 0
    /\ ReaderClosed
    /\ reader' = [reader EXCEPT !.state = "ok"]
    /\ UNCHANGED <<q, writer, results, output, consumer, disk, session, published,
                   faults, history>>

--------------------------------------------------------------------------------
(* The deleter loop: a failed removal is reported and tried again later.   *)

Deleting == Len(results) < q.deleteRequest

RemoveFile ==
    /\ Deleting
    /\ files' = [id \in DOMAIN files \ {q.acked[Len(results) + 1].id} |-> files[id]]
    /\ results' = Append(results, TRUE)
    /\ UNCHANGED <<q, writer, reader, output, consumer, position, session, published,
                   faults, history>>

RemoveFails ==
    /\ Deleting
    /\ "remove" \in Faults /\ faults < MaxFaults
    /\ faults' = faults + 1
    /\ results' = Append(results, FALSE)
    /\ UNCHANGED <<q, writer, reader, output, consumer, disk, session, published, history>>

--------------------------------------------------------------------------------
(* Consumers *)

Get(eventCount) ==
    LET n == IF eventCount < Len(output) THEN eventCount ELSE Len(output)
    IN  /\ output # <<>>
        /\ Cardinality(batches) < Consumers
        /\ batches' = batches \cup {SubSeq(output, 1, n)}
        /\ output' = SubSeq(output, n + 1, Len(output))
        /\ UNCHANGED <<q, helpers, acks, segmentACK, disk, session, published, faults, history>>

(* Mutant: acks.done is closed once the core loop has the lock. *)
AcksDoneLate == phase = "delete"

(* acks.done is closed before the core loop takes the lock. *)
AcksDone == phase \in {"acks", "delete"}

(* The frame behind position p has been acknowledged. *)
Advance(p, frame) ==
    LET start == IF frame.first /\ frame.id # 0
                 THEN QueuePosition(frame.segment, 0, 0) ELSE p
        bytes == IF frame.first /\ start.byteIndex = 0
                 THEN HeaderSize ELSE start.byteIndex
    IN  QueuePosition(start.segmentID, bytes + frame.size, start.frameIndex + 1)

(* Mutant: a gap is passed over. *)
ContiguousAll(arrived, next) == SetToSortSeq(arrived, LAMBDA f, g : f.id < g.id)

(* The frames that are acknowledged without a gap. *)
Contiguous(arrived, next) ==
    SetToSortSeq({f \in arrived : \A i \in next .. f.id : \E g \in arrived : g.id = i},
                 LAMBDA f, g : f.id < g.id)

addFrames(batch) ==
    LET arrived == acks.arrived \cup ToSet(batch)
        run == Contiguous(arrived, acks.nextFrameID)
    IN  /\ acks.stage = "free"
        /\ batch \in batches
        /\ batches' = batches \ {batch}
        /\ IF AcksDone THEN UNCHANGED <<acks, consumed>>
           ELSE /\ acks' = [nextFrameID |-> acks.nextFrameID + Len(run),
                            nextPosition |-> FoldLeft(Advance, acks.nextPosition, run),
                            oldSegmentID |-> acks.nextPosition.segmentID,
                            arrived |-> arrived \ ToSet(run),
                            stage |-> IF run = <<>> THEN "free" ELSE "write"]
                /\ consumed' = consumed \cup {f.event : f \in ToSet(batch)}
        /\ UNCHANGED <<q, helpers, output, segmentACK, disk, session, published, faults,
                       saved, lastRead>>

writeQueuePosition ==
    /\ acks.stage = "write"
    /\ position' = acks.nextPosition
    /\ acks' = [acks EXCEPT !.stage =
          IF acks.oldSegmentID # acks.nextPosition.segmentID THEN "send" ELSE "free"]
    /\ UNCHANGED <<q, helpers, output, batches, segmentACK, files, session, published,
                   faults, history>>

SendSegmentACK ==
    /\ acks.stage = "send"
    /\ \/ segmentACK = <<>> /\ segmentACK' = <<acks.nextPosition.segmentID - 1>>
       \/ AcksDone /\ UNCHANGED segmentACK
    /\ acks' = [acks EXCEPT !.stage = "free"]
    /\ UNCHANGED <<q, helpers, output, batches, disk, session, published, faults, history>>

--------------------------------------------------------------------------------
(* Close *)

Close ==
    /\ MayClose
    /\ Running /\ ~closed
    /\ closed' = TRUE
    /\ UNCHANGED <<q, helpers, output, consumer, disk, phase, sessions, published, faults,
                   history>>

(* diskQueue.handleShutdown, from one wait to the next *)
ShutdownReader ==
    /\ Running /\ closed
    /\ phase' = "reader"
    /\ UNCHANGED <<q, helpers, output, consumer, disk, closed, sessions, published, faults,
                   history>>

ShutdownWriter ==
    /\ phase = "reader"
    /\ \/ q.readRequest = <<>> /\ UNCHANGED q
       \/ reader.state # "reading" /\ q' = handleReaderLoopResponse(q, reader)
    /\ reader' = ReaderIdle
    /\ phase' = "writer"
    /\ UNCHANGED <<writer, results, output, consumer, disk, closed, sessions, published,
                   faults, history>>

ShutdownDeleter ==
    /\ phase = "writer"
    /\ \/ q.writeRequest = <<>> /\ UNCHANGED q
       \/ writer.responding /\ q' = handleWriterLoopResponse(q, writer.response)
    /\ writer' = WriterIdle
    /\ phase' = "deleter"
    /\ UNCHANGED <<reader, results, output, consumer, disk, closed, sessions, published,
                   faults, history>>

(* Blocked producers are refused. *)
ShutdownAcks ==
    /\ phase = "deleter"
    /\ \/ q.deleteRequest = 0 /\ q' = [q EXCEPT !.blockedProducers = <<>>]
       \/ /\ DeleterResponds
          /\ q' = [handleDeleterLoopResponse(q, results) EXCEPT !.blockedProducers = <<>>]
    /\ results' = <<>>
    /\ phase' = "acks"
    /\ UNCHANGED <<writer, reader, output, consumer, disk, closed, sessions, published,
                   faults, history>>

(* The core loop needs the lock of acks here. *)
FinalPosition ==
    LET final == acks.nextPosition
        allACKed == /\ q.writing # <<>>
                    /\ final.segmentID = Head(q.writing).id
                    /\ final.byteIndex >= Head(q.writing).byteCount
    IN  /\ phase = "acks"
        /\ acks.stage = "free"
        /\ q' = maybeDeleteACKed(
                   handleSegmentACK(q, IF allACKed THEN final.segmentID
                                       ELSE final.segmentID - 1))
        /\ phase' = "delete"
        /\ UNCHANGED <<helpers, output, consumer, disk, closed, sessions, published,
                       faults, history>>

(* Nothing of the session is left in memory. *)
Forget ==
    /\ q' = EmptyQueue
    /\ writer' = WriterIdle /\ reader' = ReaderIdle /\ results' = <<>>
    /\ output' = <<>> /\ batches' = {} /\ segmentACK' = <<>>
    /\ acks' = AcksAt(QueuePosition(0, 0, 0))
    /\ lastRead' = 0

ShutdownEnds ==
    /\ phase = "delete"
    /\ q.deleteRequest = 0 \/ DeleterResponds
    /\ Forget
    /\ phase' = "closed"
    /\ UNCHANGED <<disk, closed, sessions, published, faults, saved, consumed>>

--------------------------------------------------------------------------------
(* The process is killed.  It may have written a part of a frame, or of    *)
(* the position, whose fields are written one after the other.             *)

TornFiles ==
    IF writer.responding \/ writer.written = Len(q.writeRequest) THEN {files}
    ELSE LET next == q.writeRequest[writer.written + 1].segment
         IN  {files, next :> Append(IF next = writer.current THEN files[next] ELSE <<>>,
                                    Torn) @@ files}

TornPositions ==
    IF acks.stage # "write" THEN {position}
    ELSE {position,
          [position EXCEPT !.segmentID = acks.nextPosition.segmentID],
          [acks.nextPosition EXCEPT !.frameIndex = position.frameIndex]}

Crash ==
    /\ "crash" \in Faults /\ faults < MaxFaults
    /\ phase \notin {"closed", "down"}
    /\ files' \in IF "torn" \in Faults THEN TornFiles ELSE {files}
    /\ position' \in IF "tornPosition" \in Faults THEN TornPositions ELSE {position}
    /\ Forget
    /\ phase' = "down" /\ closed' = FALSE
    /\ faults' = faults + 1
    /\ UNCHANGED <<sessions, published, saved, consumed>>

--------------------------------------------------------------------------------
(* NewQueue *)

(* scanExistingSegments leaves out a file without a whole frame. *)
ExistingSegments ==
    LET ids == {id \in DOMAIN files : Whole(files[id]) # <<>>}
        segments == {NewSegment(id, Offset(files[id], Len(files[id]) + 1)) : id \in ids}
    IN  SetToSortSeq(segments, LAMBDA r, t : r.id < t.id)

LoadedPosition ==
    IF position.frameIndex = 0 THEN [position EXCEPT !.byteIndex = 0] ELSE position

IsACKed(segment) == segment.id < LoadedPosition.segmentID

InitialSegments == SelectSeq(ExistingSegments, LAMBDA segment : ~IsACKed(segment))

StartPosition ==
    LET initial == InitialSegments
    IN  IF initial # <<>> /\ LoadedPosition.segmentID < Head(initial).id
        THEN QueuePosition(Head(initial).id, 0, 0)
        ELSE LoadedPosition

LoadedQueue ==
    [EmptyQueue EXCEPT
       !.reading = InitialSegments,
       !.acked = SelectSeq(ExistingSegments, IsACKed),
       !.nextID = IF ExistingSegments = <<>> THEN 0 ELSE Last(ExistingSegments).id + 1,
       !.nextReadPosition = StartPosition.byteIndex]

(* The events that a session starting now would read from a segment: from  *)
(* a position that is no frame's, nextFrame returns an error.              *)
ReadableFrom(id, bytes) ==
    LET frames == Whole(files[id])
        start == FrameAt(frames, IF bytes = 0 THEN HeaderSize ELSE bytes,
                         Offset(frames, Len(frames) + 1))
    IN  IF start = 0 THEN {} ELSE {frames[i].event : i \in start .. Len(frames)}

Readable ==
    LET start == StartPosition
    IN  UNION {ReadableFrom(segment.id, IF segment.id = start.segmentID
                                        THEN start.byteIndex ELSE 0) :
                 segment \in ToSet(InitialSegments)}

(* The queue is created and its core loop starts. *)
NewQueue ==
    /\ phase \in {"closed", "down"}
    /\ sessions < MaxSessions
    /\ q' = maybeDeleteACKed(maybeReadPending(LoadedQueue))
    /\ acks' = AcksAt(StartPosition)
    /\ phase' = "running" /\ closed' = FALSE
    /\ sessions' = sessions + 1
    /\ saved' = saved \cup Readable
    /\ lastRead' = Max({0} \cup {e \in saved' : \A r \in Readable : e < r})
    /\ UNCHANGED <<helpers, output, batches, segmentACK, disk, published, faults, consumed>>

--------------------------------------------------------------------------------
Init ==
    /\ q = EmptyQueue
    /\ writer = WriterIdle /\ reader = ReaderIdle /\ results = <<>>
    /\ output = <<>> /\ batches = {} /\ segmentACK = <<>>
    /\ acks = AcksAt(QueuePosition(0, 0, 0))
    /\ phase = "running" /\ closed = FALSE
    /\ files = <<>> /\ position = QueuePosition(0, 0, 0)
    /\ published = 0 /\ faults = 0 /\ sessions = 1
    /\ saved = {} /\ consumed = {} /\ lastRead = 0

CoreLoop == \/ ReceiveSegmentACK \/ ReceiveWriterResponse \/ ReceiveReaderResponse
            \/ ReceiveDeleterResponse

Shutdown == \/ ShutdownReader \/ ShutdownWriter \/ ShutdownDeleter \/ ShutdownAcks
            \/ FinalPosition \/ ShutdownEnds

Done == \E batch \in batches : addFrames(batch)

Next ==
    \/ \E size \in FrameSizes, shouldBlock \in BOOLEAN : Publish(size, shouldBlock)
    \/ CoreLoop
    \/ WriteFrame \/ FinishWrite
    \/ ReadFrame \/ ReadError \/ AbortRead
    \/ RemoveFile \/ RemoveFails
    \/ \E eventCount \in GetSizes : Get(eventCount)
    \/ Done \/ writeQueuePosition \/ SendSegmentACK
    \/ Close \/ Shutdown \/ Crash \/ NewQueue

Spec == Init /\ [][Next]_vars

(* The loops run.  The outputs behind the consumers come back for more and *)
(* acknowledge what they took; an acknowledgment under way goes on.        *)
Fairness ==
    /\ WF_vars(CoreLoop \/ Shutdown)
    /\ WF_vars(WriteFrame \/ FinishWrite)
    /\ WF_vars(ReadFrame \/ ReadError \/ AbortRead)
    /\ WF_vars(RemoveFile)
    /\ WF_vars((\E eventCount \in GetSizes : Get(eventCount)) \/ Done)
    /\ WF_vars(writeQueuePosition \/ SendSegmentACK)

FairSpec == Spec /\ Fairness

--------------------------------------------------------------------------------
(* The state the loops and the consumers can be in. *)
TypeOK ==
    /\ phase \in {"running", "reader", "writer", "deleter", "acks", "delete", "closed", "down"}
    /\ q.nextReadFrameID \in 0 .. MaxFrames
    /\ \A segment \in ToSet(q.writing \o q.reading \o q.acking \o q.acked) :
         segment.id \in 0 .. q.nextID /\ segment.byteCount \in Nat
    /\ Len(q.pendingFrames) <= WriteAheadLimit
    /\ Len(q.blockedProducers) <= Producers
    /\ acks.stage \in {"free", "write", "send"}
    /\ Len(segmentACK) <= 1
    /\ Len(output) <= ReadAheadLimit

(* acks.go: "the next session will restart at the first missing frame ...  *)
(* it guarantees that we don't drop any data".  At every moment, a session *)
(* started on the files and the position that are on disk would read every *)
(* event that was confirmed to its producer and that no consumer has       *)
(* acknowledged.                                                           *)
NothingLost == saved \subseteq consumed \cup Readable

(* The lists of segments continue each other, in the order the segments    *)
(* were created, and pending frames belong to the segments being written:  *)
(* writerLoopRequest's "segment ids are sorted", and what handleSegmentACK *)
(* and the boundaries in acks rely on.                                     *)
SegmentsSorted ==
    LET segments == q.acked \o q.acking \o q.reading \o q.writing
        frames == q.writeRequest \o q.pendingFrames
    IN  /\ \A i, j \in DOMAIN segments : i < j => segments[i].id < segments[j].id
        /\ \A i, j \in DOMAIN frames : i < j => frames[i].segment <= frames[j].segment
        /\ \A i \in DOMAIN frames :
             \E segment \in ToSet(q.writing) : segment.id = frames[i].segment

(* The queue behaves like the DurableQueue: within a session every stored  *)
(* event is read, once and in order, and the next session starts at or     *)
(* before the first event that is not acknowledged.                        *)
Queue == INSTANCE DurableQueue WITH
    Event <- 1 .. MaxFrames, stored <- saved, handed <- lastRead, settled <- consumed

DeliversInOrder == Queue!AbstractSpec

(* Close comes back: no loop, and no consumer that reports an acknowledged *)
(* segment, waits for another one that is already gone.                    *)
CloseReturns == closed ~> phase \in {"closed", "down"}

(* A stored event reaches a consumer and is acknowledged, unless the queue *)
(* is closed first.                                                        *)
StoredDelivered ==
    \A e \in 1 .. MaxFrames : e \in saved ~> e \in consumed \/ closed \/ phase = "down"
================================================================================
