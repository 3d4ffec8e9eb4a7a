-------------------------------- MODULE MemLog --------------------------------
(***************************************************************************)
(* The memlog backend of the state store (libbeat/statestore/backend/      *)
(* memlog): a table in memory, an update log and numbered checkpoint files.*)
(*                                                                         *)
(* The store's lock is held for the whole of an update, so only a crash    *)
(* can come between two steps of one.  Every step here is one file         *)
(* operation (or several that nobody can tell apart), with the outcomes    *)
(* the code distinguishes.  Sizes are counted in log entries.              *)
(***************************************************************************)
EXTENDS Integers, Sequences

CONSTANTS
    Keys,
    Values,
    NoValue,    \* a key without a value
    Torn,       \* an incomplete log entry, a damaged data file
    TxMod,      \* transaction ids are counted modulo TxMod (2^64 in the code)
    MaxAge,     \* bound: no id on disk is MaxAge or more behind the next one
    LogLimit,   \* the checkpoint predicate holds from this log size on
    Faults,     \* what may go wrong outside the store
    MaxFaults   \* bound on the number of failed file operations

FaultKinds == {"crash", "outage", "tmp", "open", "write", "sync", "truncate",
               "remove", "read", "corrupt"}

ASSUME MemLogAssumption ==
    /\ NoValue \notin Keys \cup Values
    /\ TxMod \in Nat /\ TxMod >= 4 /\ TxMod % 2 = 0
    /\ MaxAge \in 1 .. TxMod
    /\ LogLimit \in Nat \ {0}
    /\ MaxFaults \in Nat
    /\ Faults \subseteq FaultKinds

VARIABLES
    \* store and diskstore
    pc,          \* the step the store is in, see TypeOK
    mem,         \* memstore.table
    op,          \* the operation being logged, or NoOp
    failed,      \* its checkpoint failed: the caller will get an error
    nextTxID,
    active,      \* activeDataFile.txid, or NoFile
    old,         \* the txids of oldDataFiles, which are kept in order of age
    logOpen,     \* logFile # nil
    logError,    \* the error logBuf remembers
    logInvalid,
    logNeedsTruncate,
    logFileSize,
    pos,         \* loadLogFile: the next log entry to read
    \* on disk
    files,       \* the checkpoint files: txid -> table, or Torn if damaged
    log,         \* log.json
    \* history
    confirmed,   \* the tables a restart of the process may come back with
    stored,      \* the tables a restart of the machine may come back with
    synced,      \* how many log entries are known to be on stable storage
    outage,      \* the machine went down since the store was last opened
    damaged,     \* whether a file was damaged and no checkpoint has replaced it all
    faults       \* the number of failed file operations

memory == <<mem, op, failed, nextTxID, active, old, pos>>
logState == <<logOpen, logError, logInvalid, logNeedsTruncate, logFileSize>>
disk == <<files, log>>
history == <<confirmed, stored, synced, outage, damaged>>
vars == <<pc, memory, logState, disk, history, faults>>

Table == [Keys -> Values \cup {NoValue}]
EmptyTable == [k \in Keys |-> NoValue]
TxID == 0 .. TxMod - 1
Operation == [key : Keys, val : Values \cup {NoValue}]
LogEntry == [id : TxID, op : Operation]
NoOp == [key |-> NoValue, val |-> NoValue]
NoFile == -1

ASSUME TornAssumption == Torn \notin Table \cup LogEntry

NextIDUnbounded(id) == id + 1
NextID(id) == (id + 1) % TxMod

(* int64(a - b) <= 0 *)
isTxIDLessEqualPlain(a, b) == a <= b
isTxIDLessEqual(a, b) ==
    LET d == (a - b) % TxMod IN d = 0 \/ d >= TxMod \div 2

(* opSet stores a value, opRemove stores none. *)
Apply(t, o) == [t EXCEPT ![o.key] = o.val]

StoredIDs == DOMAIN files \cup {log[i].id : i \in {j \in DOMAIN log : log[j] # Torn}}

(* The ids in use span less than half of the id space.  With 64 bit ids    *)
(* they always do.                                                         *)
InWindow == \A id \in StoredIDs : (nextTxID - id) % TxMod < MaxAge

Fault(kind) ==
    /\ kind \in Faults
    /\ faults < MaxFaults
    /\ faults' = faults + 1

mustCheckpointBySize == logFileSize >= LogLimit
mustCheckpoint == logInvalid \/ logFileSize >= LogLimit

Init ==
    /\ pc = "closed"
    /\ mem = EmptyTable /\ op = NoOp /\ failed = FALSE /\ pos = 1
    /\ nextTxID = 1 /\ active = NoFile /\ old = {}
    /\ logOpen = FALSE /\ logError = FALSE /\ logInvalid = FALSE
    /\ logNeedsTruncate = FALSE /\ logFileSize = 0
    /\ files = <<>> /\ log = <<>>
    /\ confirmed = {EmptyTable} /\ stored = {EmptyTable} /\ synced = 0
    /\ outage = FALSE /\ damaged = FALSE /\ faults = 0

-----------------------------------------------------------------------------
(* Opening a store *)

(* A stopped store has no memory. *)
Stopped ==
    /\ pc' = "closed"
    /\ mem' = EmptyTable /\ op' = NoOp /\ failed' = FALSE /\ pos' = 1
    /\ nextTxID' = 1 /\ active' = NoFile /\ old' = {}
    /\ logOpen' = FALSE /\ logError' = FALSE /\ logInvalid' = FALSE
    /\ logNeedsTruncate' = FALSE /\ logFileSize' = 0

Newest == CHOOSE id \in DOMAIN files : \A o \in DOMAIN files : isTxIDLessEqual(o, id)

(* openStore lists the data files and reads the newest.  One that can not  *)
(* be decoded is moved away, and the log applied to an empty table.        *)
loadDataFile ==
    /\ pc = "closed"
    /\ pc' = "load"
    /\ pos' = 1
    /\ logInvalid' = FALSE
    /\ IF DOMAIN files = {}
       THEN /\ active' = NoFile /\ old' = {} /\ nextTxID' = NextID(0)
            /\ mem' = EmptyTable
            /\ UNCHANGED <<files, faults>>
       ELSE /\ active' = Newest /\ old' = DOMAIN files \ {Newest}
            /\ nextTxID' = NextID(Newest)
            /\ IF files[Newest] = Torn
               THEN /\ mem' = EmptyTable
                    /\ \/ /\ files' = [id \in DOMAIN files \ {Newest} |-> files[id]]
                          /\ faults' = faults
                       \/ files' = files /\ Fault("corrupt")
               ELSE mem' = files[Newest] /\ UNCHANGED <<files, faults>>
    /\ UNCHANGED <<op, failed, logOpen, logError, logNeedsTruncate, logFileSize, log,
                   history>>

(* loadLogFile takes the next entry: it skips the ones the data file       *)
(* covers and stops at an incomplete one or a gap in the ids.              *)
loadLogEntry ==
    /\ pc = "load"
    /\ pos <= Len(log)
    /\ LET e == log[pos]
           txid == (nextTxID - 1) % TxMod
           skip == e # Torn /\ isTxIDLessEqual(e.id, txid)
           bad == e = Torn \/ (~skip /\ e.id # NextID(txid))
       IN  /\ pc' = IF bad THEN "open" ELSE "load"
           /\ logInvalid' = bad
           /\ pos' = IF bad THEN pos ELSE pos + 1
           /\ mem' = IF bad \/ skip THEN mem ELSE Apply(mem, e.op)
           /\ nextTxID' = IF bad \/ skip THEN nextTxID ELSE NextID(e.id)
    /\ UNCHANGED <<op, failed, active, old, logOpen, logError, logNeedsTruncate,
                   logFileSize, disk, history, faults>>

(* The end of the file.  readLogFile takes a file it can not open or read  *)
(* for one that ends there.                                                *)
loadLogEnd ==
    /\ pc = "load"
    /\ \/ pos > Len(log) /\ UNCHANGED <<damaged, faults>>
       \/ pos <= Len(log) /\ Fault("read") /\ damaged' = TRUE
    /\ pc' = "open"
    /\ UNCHANGED <<memory, logState, disk, confirmed, stored, synced, outage>>

(* newDiskStore: what opening the log gives is ignored, it is tried again  *)
(* before the first write.                                                 *)
newDiskStore ==
    /\ pc = "open"
    /\ \/ logOpen' = TRUE /\ logFileSize' = Len(log) /\ faults' = faults
       \/ logOpen' = FALSE /\ logFileSize' = 0 /\ Fault("open")
    /\ pc' = "idle"
    /\ logError' = FALSE /\ logNeedsTruncate' = FALSE
    /\ confirmed' = {mem}
    /\ stored' = IF outage THEN {mem} ELSE stored \cup {mem}
    /\ outage' = FALSE
    /\ UNCHANGED <<memory, logInvalid, disk, synced, damaged>>

(* ... or the temporary files of an earlier run can not be removed, and    *)
(* the store is not opened.                                                *)
openStoreFails ==
    /\ pc = "open"
    /\ Fault("remove")
    /\ Stopped
    /\ UNCHANGED <<disk, history>>

-----------------------------------------------------------------------------
(* Updating the store *)

(* The end of a call: without an error the table is stored. *)
Return(ok) ==
    /\ pc' = "idle"
    /\ op' = NoOp
    /\ failed' = FALSE
    /\ confirmed' = IF ok THEN {mem} ELSE confirmed

(* Set and Remove: memory first, then the log or a checkpoint. *)
Update(k, v) ==
    /\ pc = "idle"
    /\ InWindow
    /\ op' = [key |-> k, val |-> v]
    /\ mem' = Apply(mem, op')
    /\ confirmed' = confirmed \cup {mem'}
    /\ stored' = stored \cup {mem'}
    /\ pc' = IF mustCheckpoint THEN "checkpoint" ELSE "log"
    /\ UNCHANGED <<failed, nextTxID, active, old, pos, logState, disk, synced, outage,
                   damaged, faults>>

Checkpoint ==
    /\ pc = "idle"
    /\ InWindow
    /\ pc' = "checkpoint"
    /\ UNCHANGED <<memory, logState, disk, history, faults>>

(* LogOperation on an invalid log, the fallback of a failed checkpoint. *)
LogRefused ==
    /\ pc = "log"
    /\ logInvalid
    /\ Return(FALSE)
    /\ UNCHANGED <<mem, nextTxID, active, old, pos, logState, disk, stored, synced, outage,
                   damaged, faults>>

(* LogOperation opens the log first if it is not open.  The call may fail  *)
(* after the file was truncated.                                           *)
tryOpenLog ==
    /\ pc = "log"
    /\ ~logInvalid /\ ~logOpen
    /\ LET truncated == IF logNeedsTruncate THEN <<>> ELSE log IN
       \/ /\ log' = truncated
          /\ synced' = IF logNeedsTruncate THEN 0 ELSE synced
          /\ logOpen' = TRUE /\ logError' = FALSE
          /\ logNeedsTruncate' = FALSE
          /\ logFileSize' = Len(log')
          /\ UNCHANGED <<pc, op, failed, confirmed, logInvalid, faults>>
       \/ /\ Fault("open")
          /\ log' \in {log, truncated}
          /\ synced' = IF log' = log THEN synced ELSE 0
          /\ logInvalid' = TRUE
          /\ Return(FALSE)
          /\ UNCHANGED <<logOpen, logError, logNeedsTruncate, logFileSize>>
    /\ UNCHANGED <<mem, nextTxID, active, old, pos, files, stored, outage, damaged>>

Entry == [id |-> nextTxID, op |-> op]

(* LogOperation writes the entry and flushes it. *)
LogWrite ==
    /\ pc = "log"
    /\ ~logInvalid /\ logOpen /\ ~logError
    /\ log' = Append(log, Entry)
    /\ logFileSize' = logFileSize + 1
    /\ nextTxID' = NextID(nextTxID)
    /\ Return(~failed)
    /\ UNCHANGED <<mem, active, old, pos, logOpen, logError, logInvalid,
                   logNeedsTruncate, files, stored, synced, outage, damaged, faults>>

(* The write fails, with nothing, a part or all of the entry in the file,  *)
(* or logBuf still has the error of an earlier write.                      *)
LogWriteFails ==
    /\ pc = "log"
    /\ ~logInvalid /\ logOpen
    /\ \/ logError /\ UNCHANGED <<log, logFileSize, faults>>
       \/ /\ ~logError /\ Fault("write")
          /\ log' \in {log, Append(log, Torn), Append(log, Entry)}
          /\ logFileSize' = logFileSize + 1
    /\ logError' = TRUE
    /\ logInvalid' = TRUE
    /\ Return(FALSE)
    /\ UNCHANGED <<mem, nextTxID, active, old, pos, logOpen, logNeedsTruncate, files, stored,
                   synced, outage, damaged>>

(* The name of the checkpoint: an id of its own, after all log entries. *)
fileTxIDLast == (nextTxID - 1) % TxMod
fileTxID == nextTxID

(* WriteCheckpoint: the synchronised temporary file gets its name. *)
CheckpointRename ==
    /\ pc = "checkpoint"
    /\ files' = [id \in DOMAIN files \cup {fileTxID} |-> IF id = fileTxID THEN mem ELSE files[id]]
    /\ confirmed' = {mem}
    /\ stored' = {mem}
    /\ pc' = "clear"
    /\ UNCHANGED <<memory, logState, log, synced, outage, damaged, faults>>

(* The temporary file can not be written or renamed.  An update falls back *)
(* on the log and returns the error whatever comes of it.                  *)
CheckpointFails ==
    /\ pc = "checkpoint"
    /\ Fault("tmp")
    /\ pc' = IF op = NoOp THEN "idle" ELSE "log"
    /\ failed' = (op # NoOp)
    /\ UNCHANGED <<mem, op, nextTxID, active, old, pos, logState, disk, history>>

(* The files the new checkpoint makes superfluous. *)
superfluousNew == old \cup {fileTxID}
superfluous == old \cup ({active} \ {NoFile})

(* checkpointClearLog, and the bookkeeping after it. *)
CheckpointClear ==
    /\ pc = "clear"
    /\ \/ /\ ~logOpen
          /\ logNeedsTruncate' = TRUE
          /\ UNCHANGED <<log, synced, logOpen, logError, logInvalid, logFileSize, faults>>
       \/ /\ logOpen
          /\ log' = <<>> /\ synced' = 0
          /\ logInvalid' = FALSE
          /\ logFileSize' = 0
          /\ UNCHANGED <<logOpen, logError, logNeedsTruncate, faults>>
       \/ /\ logOpen /\ Fault("truncate")
          /\ log' \in {log, <<>>}
          /\ synced' = IF log' = log THEN synced ELSE 0
          /\ logOpen' = FALSE /\ logError' = FALSE
          /\ logNeedsTruncate' = TRUE
          /\ logInvalid' = TRUE
          /\ logFileSize' = 0
    /\ nextTxID' = NextID(nextTxID)
    /\ old' = superfluous
    /\ active' = fileTxID
    /\ pc' = "remove"
    /\ damaged' = (damaged /\ log' # <<>>)
    /\ UNCHANGED <<mem, op, failed, pos, files, confirmed, stored, outage>>

(* removeOldDataFiles goes from the oldest to the newest and gives up at   *)
(* the first file it can not remove.                                       *)
removeOldDataFiles ==
    /\ pc = "remove"
    /\ \/ old' = {} /\ faults' = faults
       \/ /\ Fault("remove")
          /\ \E f \in old \cap DOMAIN files : old' = {g \in old : isTxIDLessEqual(f, g)}
    /\ files' = [id \in DOMAIN files \ (old \ old') |-> files[id]]
    /\ Return(TRUE)
    /\ UNCHANGED <<mem, nextTxID, active, pos, logState, log, stored, synced, outage, damaged>>

(* The part of the log that syncFile puts on stable storage. *)
syncFileSkipped == synced
syncFile == Len(log)

(* Close flushes and synchronises the log. *)
Close ==
    /\ pc = "idle"
    /\ \/ /\ logOpen /\ ~logError
          /\ synced' = syncFile
          /\ stored' = confirmed
          /\ faults' = faults
       \/ /\ ~logOpen \/ logError
          /\ UNCHANGED <<synced, stored, faults>>
       \/ logOpen /\ ~logError /\ Fault("sync") /\ UNCHANGED <<synced, stored>>
    /\ Stopped
    /\ UNCHANGED <<disk, confirmed, outage, damaged>>

-----------------------------------------------------------------------------
(* What happens to the store *)

(* The process is killed, perhaps in the middle of writing an entry. *)
Crash ==
    /\ "crash" \in Faults
    /\ pc # "closed"
    /\ \/ log' = log
       \/ /\ pc = "log" /\ ~logInvalid /\ logOpen /\ ~logError
          /\ log' \in {Append(log, Torn), Append(log, Entry)}
    /\ Stopped
    /\ UNCHANGED <<files, history, faults>>

(* The machine goes down: what the log got since it was last synchronised  *)
(* may be lost, from some byte on.                                         *)
Outage ==
    /\ "outage" \in Faults
    /\ \E n \in synced .. Len(log) :
           \/ log' = SubSeq(log, 1, n) /\ synced' = n
           \/ n < Len(log) /\ log' = Append(SubSeq(log, 1, n), Torn) /\ synced' = n + 1
    /\ Stopped
    /\ confirmed' = stored
    /\ outage' = TRUE
    /\ UNCHANGED <<files, stored, damaged, faults>>

(* A data file is damaged.  Nobody reads it before the next start. *)
Corrupt ==
    /\ pc = "closed"
    /\ Fault("corrupt")
    /\ \E f \in DOMAIN files : files' = [files EXCEPT ![f] = Torn]
    /\ damaged' = TRUE
    /\ UNCHANGED <<pc, memory, logState, log, confirmed, stored, synced, outage>>

LogOperation == LogRefused \/ tryOpenLog \/ LogWrite \/ LogWriteFails

WriteCheckpoint == CheckpointRename \/ CheckpointFails \/ CheckpointClear \/ removeOldDataFiles

openStore == loadDataFile \/ loadLogEntry \/ loadLogEnd \/ newDiskStore \/ openStoreFails

AnyUpdate == \E k \in Keys, v \in Values \cup {NoValue} : Update(k, v)

Next ==
    \/ openStore
    \/ AnyUpdate
    \/ Checkpoint
    \/ LogOperation
    \/ WriteCheckpoint
    \/ Close
    \/ Crash
    \/ Outage
    \/ Corrupt

Spec == Init /\ [][Next]_vars

(* A started call returns, and updates keep coming. *)
Fairness == WF_vars(openStore) /\ WF_vars(LogOperation) /\ WF_vars(WriteCheckpoint) /\ WF_vars(AnyUpdate)

FairSpec == Spec /\ Fairness

-----------------------------------------------------------------------------
(* Properties *)

(* Every field has its type: ids stay within their width, and the positions*)
(* in the log within the log.                                              *)
TypeOK ==
    /\ pc \in {"closed", "load", "open", "idle", "log", "checkpoint", "clear", "remove"}
    /\ mem \in Table
    /\ op \in Operation \cup {NoOp}
    /\ failed \in BOOLEAN
    /\ nextTxID \in TxID
    /\ active \in TxID \cup {NoFile}
    /\ old \subseteq TxID
    /\ {logOpen, logError, logInvalid, logNeedsTruncate, outage} \subseteq BOOLEAN
    /\ damaged \in BOOLEAN
    /\ logFileSize \in Nat
    /\ pos \in 1 .. Len(log) + 1 \/ pc # "load"
    /\ DOMAIN files \subseteq TxID
    /\ \A f \in DOMAIN files : files[f] \in Table \cup {Torn}
    /\ log \in Seq(LogEntry \cup {Torn})
    /\ confirmed \subseteq Table
    /\ stored \subseteq Table
    /\ synced \in 0 .. Len(log)
    /\ faults \in 0 .. MaxFaults

(* The store is open. *)
Ready == pc \in {"idle", "log", "checkpoint", "clear", "remove"}

Durable == INSTANCE DurableStore WITH
    table <- IF Ready THEN mem ELSE EmptyTable,
    up <- Ready,
    candidates <- confirmed,
    unsynced <- stored

(* Restarts in order, crashes and failed file operations at any step: the  *)
(* store comes back with what it confirmed last, or with an update it was  *)
(* working on; after an outage of the machine, with a table it had since   *)
(* the last checkpoint or Close.                                           *)
Durability == Durable!AbstractSpec

(* "No files are overwritten or replaced. Instead the change sequence      *)
(* number is used for the filename": the id of a new checkpoint is later   *)
(* than that of every data file, across a wrap of the ids, failed removals *)
(* and restarts.                                                           *)
CheckpointNewest ==
    pc = "checkpoint" =>
        \A f \in DOMAIN files : f # fileTxID /\ isTxIDLessEqual(f, fileTxID)

(* The file the next start will read is the one the store believes in, so  *)
(* removing the old ones never removes the current table.                  *)
ActiveIsNewest ==
    (Ready /\ pc # "clear" /\ active # NoFile) => active \in DOMAIN files /\ Newest = active

(* An update that could not be stored does not stay that way: the store    *)
(* catches up with a later one, as long as its ids are not used up.        *)
CatchesUp == [](Ready => <>(confirmed = {mem} \/ ~InWindow))

(* Damage does not outlive the next checkpoint that emptied the log: from  *)
(* then on every start finds what the store confirmed.                     *)
DamageHeals == pc = "open" /\ ~damaged => mem \in confirmed
===============================================================================
