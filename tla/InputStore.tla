------------------------------- MODULE InputStore -------------------------------
(***************************************************************************)
(* The registry side of the filestream input, for one file identity: the   *)
(* store of input-logfile with its resources, the harvester group, the     *)
(* prospector's file events, the update channel and its writer, and the    *)
(* cleaner.  It extends the event listener (Acker) that connects the       *)
(* acknowledgements of the pipeline with the update operations.            *)
(*                                                                         *)
(* A resource is an object: when an entry is removed or collected a new    *)
(* object takes its place in the table, while harvesters and update        *)
(* operations keep their pointer to the old one.  A cursor is the number   *)
(* of lines of the file read so far, and 0 also stands for nil.  A counter *)
(* of the code that wraps below zero is negative here: the code adds to    *)
(* it, subtracts from it and compares it with zero.                        *)
(***************************************************************************)
EXTENDS Acker, FiniteSets

CONSTANTS
    MaxOffset,      \* lines of a file that are published
    IgnoredSizes,   \* sizes a file may have when it is ignored
    MaxFiles,       \* bound: files that get this identity, one after another
    MaxObjects,     \* bound: resource objects
    MaxEvents,      \* bound: file events other than the creation of a file
    MaxFaults,      \* bound: crashes of the Beat and events the queue refuses
    CloseRemoved,   \* close.on_state_change.removed
    Races           \* what may meet update operations that are still pending:
                    \* "filter", "reset", "recreate"

ASSUME InputAssumption ==
    /\ Clients \subseteq Nat \ {0}
    /\ {MaxOffset, MaxFiles, MaxObjects, MaxEvents, MaxFaults} \subseteq Nat
    /\ IgnoredSizes \subseteq 1 .. MaxOffset
    /\ CloseRemoved \in BOOLEAN
    /\ Races \subseteq {"filter", "reset", "recreate"}

VARIABLES
    store,      \* [res: all resource objects, table: the object of the key or 0,
                \*  disk: what the persistent store holds for the key]
    updates,    \* updateChan.updates: at most one scheduled update for the key
    executing,  \* what the writer has received and not executed yet
    hv,         \* the harvester of each client
    reader,     \* readerGroup.table: the client registered for the source, or 0
    stops,      \* tasks of the group that Stop has added
    queue,      \* events the pipeline's queue holds
    file,       \* the file, as the prospector knows it
    settled,    \* history: lines the outputs acknowledged, or that were dropped
    faults      \* history: [events, crashes, refused], for the bounds

storeVars == <<store, updates, executing>>
groupVars == <<hv, reader, stops>>
pipeVars == <<queue, settled>>
vars == <<ackerVars, storeVars, groupVars, pipeVars, file, faults>>

NoEntry == [known |-> FALSE, ttl |-> 0, updated |-> FALSE, cursor |-> 0]

newResource ==
    [pending |-> 0, version |-> 0, lockedVersion |-> 0, lock |-> 0,
     stored |-> FALSE, invalid |-> FALSE, active |-> 0, ttl |-> 0,
     updated |-> FALSE, cursor |-> 0, pendingCursorValue |-> 0, pendingUpdate |-> 0]

Idle == [pc |-> "idle", obj |-> 0, cancelled |-> FALSE, truncated |-> FALSE,
         file |-> 0, offset |-> 0]

Init ==
    /\ AckerInit
    /\ store = [res |-> <<>>, table |-> 0, disk |-> NoEntry]
    /\ updates = <<>> /\ executing = <<>>
    /\ hv = [c \in Clients |-> Idle] /\ reader = 0 /\ stops = 0
    /\ queue = <<>>
    /\ file = [id |-> 0, exists |-> FALSE, seen |-> FALSE]
    /\ settled = {}
    /\ faults = [events |-> 0, crashes |-> 0, refused |-> 0]

--------------------------------------------------------------------------------
(* The store: functions of its state. *)

isDeleted(r) == r.updated /\ r.ttl = 0

(* pendingCursor and activeCursor, which fold the latest update into the value *)
pendingCursor(r) ==
    IF r.pendingUpdate = 0 THEN r
    ELSE [r EXCEPT !.pendingCursorValue = r.pendingUpdate, !.pendingUpdate = 0]

unpackCursor(r) == IF r.active # 0 THEN pendingCursor(r) ELSE r

activeCursor(r) == IF r.active # 0 THEN pendingCursor(r).pendingCursorValue ELSE r.cursor

inSyncStateSnapshot(r) ==
    [known |-> TRUE, ttl |-> r.ttl, updated |-> r.updated, cursor |-> r.cursor]

(* persistentStore.Set with the snapshot of object o, now r *)
Set(s, o, r) ==
    [s EXCEPT !.res[o] = [r EXCEPT !.stored = TRUE], !.disk = inSyncStateSnapshot(r)]

writeState(s, o, r) == IF r.invalid THEN [s EXCEPT !.res[o] = r] ELSE Set(s, o, r)

(* The object Find returns without creating one, or 0 *)
Known(s) == IF s.table # 0 /\ ~isDeleted(s.res[s.table]) THEN s.table ELSE 0

(* Find with create set: the object is the table's one afterwards. *)
Find(s) ==
    LET t == IF Known(s) # 0 THEN s
             ELSE [s EXCEPT !.res = Append(@, newResource), !.table = Len(s.res) + 1]
    IN  [t EXCEPT !.res[t.table].pending = @ + 1]

updateMetadata(s) ==
    LET t == Find(s)
    IN  writeState(t, t.table, [t.res[t.table] EXCEPT !.pending = @ - 1])

resetCursor(s, cur) ==
    IF Known(s) = 0 THEN s
    ELSE LET r == s.res[s.table]
         IN  writeState(s, s.table,
               [r EXCEPT !.version = @ + 1, !.pending = @ - r.active, !.active = 0,
                         !.pendingCursorValue = 0, !.pendingUpdate = 0, !.cursor = cur])

UpdateTTL(s, o, ttl) ==
    LET r == [s.res[o] EXCEPT !.ttl = ttl, !.updated = TRUE]
        t == writeState(s, o, r)
    IN  IF s.res[o].stored /\ s.res[o].ttl = ttl THEN s
        ELSE IF isDeleted(r)
        THEN [t EXCEPT !.res[o].version = @ + 1, !.res[o].invalid = TRUE]
        ELSE t

remove(s) == IF Known(s) = 0 THEN s ELSE UpdateTTL(s, s.table, 0)

(* findCursorMeta retains the resource it finds, and does not release it. *)
findCursorMeta(s) ==
    IF Known(s) = 0 THEN s ELSE [s EXCEPT !.res[s.table].pending = @ + 1]

(* readStates *)
readStates(disk) ==
    IF ~disk.known THEN [res |-> <<>>, table |-> 0, disk |-> disk]
    ELSE [res |-> <<[newResource EXCEPT !.stored = TRUE, !.ttl = disk.ttl,
                       !.updated = disk.updated, !.cursor = disk.cursor]>>,
          table |-> 1, disk |-> disk]

--------------------------------------------------------------------------------
(* What is pending: the operations of object o on their way, and its owners. *)

OpsOf(o, ops) == Cardinality({i \in 1 .. Len(ops) : ops[i].obj = o})

Outstanding(o) ==
    LET sent(s) == IF s # <<>> /\ Head(s).op.obj = o THEN Head(s).n ELSE 0
    IN  FoldSet(LAMBDA c, n : OpsOf(o, data[c]) + n, 0, Clients)
          + sent(updates) + sent(executing)

Owning == {"waiting", "blocked", "locked", "running", "queueing", "leaving", "closing"}

Owners(o) == Cardinality({c \in Clients : hv[c].obj = o /\ hv[c].pc \in Owning})

Quiet ==
    /\ \A c \in Clients : hv[c].pc \in {"idle", "done"} /\ data[c] = <<>>
    /\ updates = <<>> /\ executing = <<>>

(* A new file takes over an identity whose entry has no cursor.  (A harvester *)
(* that waits for a resource while it is removed brings it back, invalid.)    *)
Fresh ==
    /\ Quiet
    /\ Known(store) # 0 =>
         LET r == store.res[store.table] IN r.cursor = 0 /\ r.active = 0 /\ ~r.invalid

--------------------------------------------------------------------------------
(* The prospector: onFSEvent. *)

CanFind == Known(store) # 0 \/ Len(store.res) < MaxObjects

(* hg.Start and hg.Restart hand a task to the group. *)
Spawn(kind) ==
    \E c \in Clients :
      /\ hv[c].pc = "idle" /\ \A d \in Clients : d < c => hv[d].pc # "idle"
      /\ hv' = [hv EXCEPT ![c].pc = kind, ![c].truncated = (kind = "restart")]
      /\ UNCHANGED <<reader, stops>>

FileEvent ==
    /\ file.seen /\ faults.events < MaxEvents
    /\ faults' = [faults EXCEPT !.events = @ + 1]
    /\ UNCHANGED <<ackerVars, updates, executing, queue>>

(* OpCreate: the watcher finds a file it has not seen, a new one or, after a *)
(* restart, the old one.                                                     *)
Found ==
    /\ ~file.seen
    /\ \/ file.exists /\ file' = [file EXCEPT !.seen = TRUE]
       \/ /\ ~file.exists /\ file.id < MaxFiles
          /\ Fresh \/ "recreate" \in Races
          /\ file' = [id |-> file.id + 1, exists |-> TRUE, seen |-> TRUE]
    /\ UNCHANGED <<ackerVars, updates, executing, queue, faults>>

OpCreate ==
    /\ Found /\ CanFind
    /\ store' = updateMetadata(store)
    /\ Spawn("start")
    /\ UNCHANGED settled

(* The file is ignored: its cursor is set to its size, n lines. *)
Ignore(s, n) ==
    /\ Quiet \/ "reset" \in Races
    /\ store' = resetCursor(s, n)
    /\ settled' = settled \cup {<<file'.id, i>> : i \in 1 .. n}
    /\ UNCHANGED groupVars

OpCreateIgnored ==
    /\ Found /\ CanFind
    /\ \E n \in IgnoredSizes : Ignore(updateMetadata(store), n)

OpWrite ==
    /\ FileEvent /\ Spawn("start")
    /\ UNCHANGED <<store, file, settled>>

OpWriteIgnored ==
    /\ FileEvent /\ UNCHANGED file
    /\ \E n \in IgnoredSizes : Ignore(store, n)

(* The lines of the file are replaced by new ones. *)
OpTruncate ==
    /\ FileEvent /\ file.id < MaxFiles
    /\ Quiet \/ "reset" \in Races
    /\ file' = [file EXCEPT !.id = @ + 1]
    /\ store' = resetCursor(store, 0)
    /\ Spawn("restart")
    /\ UNCHANGED settled

OpDelete ==
    /\ FileEvent
    /\ file' = [file EXCEPT !.exists = FALSE, !.seen = FALSE]
    /\ store' = remove(store)
    /\ stops' = stops + IF CloseRemoved THEN 1 ELSE 0
    /\ UNCHANGED <<hv, reader, settled>>

(* With a file identity that follows renames *)
OpRename ==
    /\ FileEvent /\ CanFind
    /\ store' = updateMetadata(findCursorMeta(store))
    /\ UNCHANGED <<groupVars, file, settled>>

--------------------------------------------------------------------------------
(* The harvester group. *)

Go(c, pc) == hv' = [hv EXCEPT ![c].pc = pc]

(* readerGroup.remove, by a goroutine that is client c's and goes on at pc *)
RemoveReader(c, pc) ==
    /\ hv' = [d \in Clients |->
                [hv[d] EXCEPT !.cancelled = @ \/ d = reader, !.pc = IF d = c THEN pc ELSE @]]
    /\ reader' = 0

Stop ==
    /\ stops > 0 /\ stops' = stops - 1
    /\ RemoveReader(0, "")
    /\ UNCHANGED <<ackerVars, storeVars, pipeVars, file, faults>>

InGroup == UNCHANGED <<ackerVars, updates, executing, pipeVars, file, faults, stops>>

(* startHarvester up to the call of lockResource *)
Restart(c) ==
    /\ hv[c].pc = "restart"
    /\ RemoveReader(c, "start")
    /\ UNCHANGED store /\ InGroup

Start(c) ==
    /\ hv[c].pc = "start"
    /\ \/ /\ reader # 0 /\ Go(c, "done")
          /\ UNCHANGED <<store, reader>>
       \/ /\ reader = 0 /\ reader' = c
          /\ CanFind
          /\ store' = Find(store)
          /\ hv' = [hv EXCEPT ![c].pc = "waiting", ![c].obj = store'.table]
    /\ InGroup

(* Mutant of Lock: the version at the time of the lock is not recorded. *)
LockStale(c) ==
    store' = [store EXCEPT !.res[hv[c].obj].lock = c] /\ Go(c, "locked")

Lock(c) ==
    /\ store' = [store EXCEPT !.res[hv[c].obj].lock = c,
                              !.res[hv[c].obj].lockedVersion = store.res[hv[c].obj].version]
    /\ Go(c, "locked")

TryLock(c) ==
    /\ hv[c].pc = "waiting"
    /\ IF store.res[hv[c].obj].lock = 0 THEN Lock(c)
       ELSE Go(c, "blocked") /\ UNCHANGED store
    /\ UNCHANGED reader /\ InGroup

LockContext(c) ==
    /\ hv[c].pc = "blocked"
    /\ \/ store.res[hv[c].obj].lock = 0 /\ Lock(c)
       \/ /\ hv[c].cancelled /\ Go(c, "failed")
          /\ store' = [store EXCEPT !.res[hv[c].obj].pending = @ - 1]
    /\ UNCHANGED reader /\ InGroup

LockFailed(c) ==
    /\ hv[c].pc = "failed"
    /\ RemoveReader(c, "done")
    /\ UNCHANGED store /\ InGroup

(* UpdateTTL, and the harvester reads its cursor, unless it has been told of a *)
(* truncation, and opens the file.                                             *)
Run(c) ==
    LET o == hv[c].obj
        s == UpdateTTL(store, o, 1)
    IN  /\ hv[c].pc = "locked"
        /\ store' = IF hv[c].truncated THEN s
                    ELSE [s EXCEPT !.res[o] = unpackCursor(s.res[o])]
        /\ hv' = [hv EXCEPT ![c].pc = IF file.exists THEN "running" ELSE "leaving",
                            ![c].file = file.id,
                            ![c].offset = IF hv[c].truncated THEN 0
                                          ELSE activeCursor(s.res[o])]
        /\ UNCHANGED reader /\ InGroup

(* The harvester stops by itself, unless it has been cancelled. *)
Finish(c) ==
    /\ hv[c].pc = "running"
    /\ Go(c, IF hv[c].cancelled THEN "closing" ELSE "leaving")
    /\ UNCHANGED <<store, reader>> /\ InGroup

Leave(c) ==
    /\ hv[c].pc = "leaving"
    /\ RemoveReader(c, "closing")
    /\ UNCHANGED store /\ InGroup

releaseResource(c) ==
    /\ hv[c].pc = "closing"
    /\ store' = [store EXCEPT !.res[hv[c].obj].lock = 0, !.res[hv[c].obj].pending = @ - 1]
    /\ Go(c, "done")
    /\ UNCHANGED reader /\ InGroup

--------------------------------------------------------------------------------
(* A line on its way to the queue: cursorPublisher.Publish and client.publish. *)

Line(c) == <<hv[c].file, hv[c].offset>>

InPublish == UNCHANGED <<updates, executing, reader, stops, file, ack>>

(* Mutant of createUpdateOp: the operation does not retain the resource. *)
createUpdateOpUnretained(c) ==
    LET o == hv[c].obj
    IN  /\ hv[c].pc = "running" /\ hv[c].offset < MaxOffset
        /\ store' = [store EXCEPT !.res[o].pendingUpdate = hv[c].offset + 1,
                                  !.res[o].active = @ + 1]

(* createUpdateOp, for the next line *)
createUpdateOp(c) ==
    LET o == hv[c].obj
    IN  /\ hv[c].pc = "running" /\ hv[c].offset < MaxOffset
        /\ store' = [store EXCEPT !.res[o].pendingUpdate = hv[c].offset + 1,
                                  !.res[o].pending = @ + 1, !.res[o].active = @ + 1]

UpdateOp(c) == [obj |-> hv[c].obj, offset |-> hv[c].offset + 1]

(* forward returns the canceler's error. *)
AfterForward(c) == IF hv[c].cancelled THEN "closing" ELSE "running"

(* The listener has added the event, and the queue has not. *)
Publish(c) ==
    /\ createUpdateOp(c)
    /\ AddData(c, UpdateOp(c)) /\ addPublishedEvent(c)
    /\ hv' = [hv EXCEPT ![c].pc = "queueing", ![c].offset = @ + 1]
    /\ UNCHANGED <<queue, settled, faults>> /\ InPublish

Enqueue(c) ==
    /\ hv[c].pc = "queueing"
    /\ \/ /\ queue' = Append(queue, [client |-> c, line |-> Line(c)])
          /\ UNCHANGED <<settled, faults>>
       \/ /\ faults.crashes + faults.refused < MaxFaults
          /\ faults' = [faults EXCEPT !.refused = @ + 1]
          /\ settled' = settled \cup {Line(c)}
          /\ UNCHANGED queue
    /\ Go(c, AfterForward(c))
    /\ UNCHANGED <<store, data, gaps>> /\ InPublish

(* Mutant of Send: updates for one key are not merged. *)
SendAppend(ops) ==
    updates' = IF ops = <<>> THEN updates
               ELSE Append(updates, [op |-> Last(ops), n |-> Len(ops)])

(* updateChan.Send of the last of the operations reported *)
Send(ops) ==
    updates' = IF ops = <<>> THEN updates
               ELSE <<[op |-> Last(ops),
                       n |-> Len(ops) + IF updates = <<>> THEN 0 ELSE Head(updates).n]>>

(* The processors drop the event: the listener adds it, and reports at once *)
(* if it tracks no other, an event whose report is under way not included.  *)
PublishDropped(c) ==
    LET all == Append(data[c], UpdateOp(c))
    IN  /\ "filter" \in Races \/ \A d \in Clients \ {c} : OpsOf(hv[c].obj, data[d]) = 0
        /\ createUpdateOp(c)
        /\ addDropEvent(c)
        /\ IF Untracked(c)
           THEN data' = [data EXCEPT ![c] = Tail(all)] /\ Send(<<Head(all)>>)
           ELSE AddData(c, UpdateOp(c)) /\ UNCHANGED updates
        /\ hv' = [hv EXCEPT ![c].pc = AfterForward(c), ![c].offset = @ + 1]
        /\ settled' = settled \cup {<<hv[c].file, hv[c].offset + 1>>}
        /\ UNCHANGED <<executing, reader, stops, file, ack, queue, faults>>

--------------------------------------------------------------------------------
(* Acknowledgements: the queue reports a prefix of its events, client by     *)
(* client in some order, and the listener reports their operations to the    *)
(* update channel.                                                           *)

InACK == UNCHANGED <<store, executing, groupVars, file, faults>>

QueueACK(n) ==
    LET count(c) == Cardinality({i \in 1 .. n : queue[i].client = c})
    IN  /\ ack = <<>>
        /\ \E order \in SetToSeqs({queue[i].client : i \in 1 .. n}) :
             ack' = [i \in DOMAIN order |-> ACKEvents(order[i], count(order[i]))]
        /\ settled' = settled \cup {queue[i].line : i \in 1 .. n}
        /\ queue' = SubSeq(queue, n + 1, Len(queue))
        /\ UNCHANGED <<data, gaps, updates>> /\ InACK

ACKCount == ACKGap /\ UNCHANGED <<updates, pipeVars>> /\ InACK

ACKReport ==
    /\ ACKCounted
    /\ LET call == Head(ack)
       IN  Report(call.client, call.total) /\ Send(Reported(call.client, call.total))
    /\ ack' = Tail(ack)
    /\ UNCHANGED <<gaps, pipeVars>> /\ InACK

--------------------------------------------------------------------------------
(* The update writer and the cleaner. *)

Recv ==
    /\ updates # <<>> /\ executing = <<>>
    /\ executing' = updates /\ updates' = <<>>
    /\ UNCHANGED <<ackerVars, store, groupVars, pipeVars, file, faults>>

(* Mutant of Executed: the cursor is the pending one, whatever is acknowledged. *)
ExecutedPending(r, op, n) ==
    LET q == pendingCursor(r)
    IN  [q EXCEPT !.active = @ - n, !.pending = @ - n, !.updated = TRUE,
                  !.cursor = q.pendingCursorValue]

(* updateOp.Execute on the resource r, for n operations *)
Executed(r, op, n) ==
    LET active == r.active - n
        q == pendingCursor(r)
    IN  IF active = 0
        THEN [q EXCEPT !.active = 0, !.pending = @ - n, !.updated = TRUE,
                       !.cursor = q.pendingCursorValue, !.pendingCursorValue = 0]
        ELSE [r EXCEPT !.active = active, !.pending = @ - n, !.updated = TRUE,
                       !.cursor = op.offset]

Execute ==
    /\ executing # <<>> /\ executing' = <<>>
    /\ LET upd == Head(executing)
           r == store.res[upd.op.obj]
       IN  store' = IF r.lockedVersion # r.version \/ isDeleted(r) THEN store
                    ELSE Set(store, upd.op.obj, Executed(r, upd.op, upd.n))
    /\ UNCHANGED <<ackerVars, updates, groupVars, pipeVars, file, faults>>

(* gcStore.  Time is left out: a TTL other than zero may have expired. *)
Collect ==
    /\ store.table # 0
    /\ LET r == store.res[store.table] IN r.pending = 0 /\ r.stored
    /\ store' = [store EXCEPT !.table = 0, !.disk = NoEntry]
    /\ UNCHANGED <<ackerVars, updates, executing, groupVars, pipeVars, file, faults>>

(* The Beat crashes and starts again: openStore, and the prospector's Init   *)
(* marks the entries of files that are gone for removal (CleanIf).           *)
CrashAndReopen ==
    /\ faults.crashes + faults.refused < MaxFaults
    /\ faults' = [faults EXCEPT !.crashes = @ + 1]
    /\ LET s == readStates(store.disk)
       IN  store' = IF s.table # 0 /\ ~file.exists THEN UpdateTTL(s, s.table, 0) ELSE s
    /\ hv' = [c \in Clients |-> IF hv[c].pc = "idle" THEN Idle ELSE [Idle EXCEPT !.pc = "done"]]
    /\ reader' = 0 /\ stops' = 0
    /\ updates' = <<>> /\ executing' = <<>>
    /\ queue' = <<>>
    /\ data' = [c \in Clients |-> <<>>] /\ ack' = <<>>
    /\ gaps' = [c \in Clients |-> <<[send |-> 0, dropped |-> 0]>>]
    /\ file' = [file EXCEPT !.seen = FALSE]
    /\ UNCHANGED settled

--------------------------------------------------------------------------------
Prospector ==
    OpCreate \/ OpCreateIgnored \/ OpWrite \/ OpWriteIgnored \/ OpTruncate \/ OpDelete \/ OpRename

Harvester(c) ==
    \/ Restart(c) \/ Start(c) \/ TryLock(c) \/ LockContext(c) \/ LockFailed(c) \/ Run(c)
    \/ Publish(c) \/ PublishDropped(c) \/ Enqueue(c)
    \/ Finish(c) \/ Leave(c) \/ releaseResource(c)

Acks == (\E n \in 1 .. Len(queue) : QueueACK(n)) \/ ACKCount \/ ACKReport

Writer == Recv \/ Execute

Goroutines == Stop \/ (\E c \in Clients : Harvester(c)) \/ Acks \/ Writer

Next == Prospector \/ Goroutines \/ Collect \/ CrashAndReopen

Spec == Init /\ [][Next]_vars

(* As long as some goroutine can run, one does.  No goroutine runs for ever  *)
(* on its own, so all get their turn; files, faults and the cleaner's clock  *)
(* are the environment's.                                                    *)
FairSpec == Spec /\ WF_vars(Goroutines)

--------------------------------------------------------------------------------
(* Every record and counter has the shape the code gives it. *)
TypeOK ==
    /\ store.table \in 0 .. Len(store.res)
    /\ \A o \in DOMAIN store.res :
         /\ store.res[o].lock \in {0} \cup Clients
         /\ {store.res[o].cursor, store.res[o].pendingCursorValue, store.res[o].pendingUpdate}
              \subseteq 0 .. MaxOffset
    /\ store.disk.cursor \in 0 .. MaxOffset
    /\ reader \in {0} \cup Clients /\ stops \in Nat
    /\ \A c \in Clients : hv[c].obj \in 0 .. Len(store.res) /\ hv[c].offset \in 0 .. MaxOffset
    /\ Len(updates) <= 1 /\ Len(executing) <= 1

(* The cursor in the registry never gets past a line that is neither          *)
(* acknowledged nor dropped: a Beat that stops at any moment and continues    *)
(* from the registry skips no line of the file.                               *)
NoLineSkipped ==
    file.exists => \A i \in 1 .. store.disk.cursor : <<file.id, i>> \in settled

(* resource.pending counts at least the harvesters that own the resource and  *)
(* its operations on their way, so that the cleaner removes no entry in use.  *)
PendingCovers ==
    LET o == Known(store)
    IN  o # 0 => store.res[o].pending >= Owners(o) + Outstanding(o)

(* Again and again no operation is pending, and the cursor in the registry is *)
(* the resource's: what is published is acknowledged and gets into the        *)
(* registry, unless the queue refused an event, which the listener has        *)
(* counted and waits for, or the file is gone.                                *)
CursorCatchesUp ==
    []<>(LET o == Known(store)
         IN  o = 0 \/ ~file.seen \/ faults.refused > 0
               \/ (store.res[o].active = 0 /\ store.disk.cursor = store.res[o].cursor))
================================================================================
