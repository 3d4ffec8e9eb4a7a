----------------------------- MODULE MemLogProofs -----------------------------
(***************************************************************************)
(* The memlog store implements DurableStore, for any keys and values, any  *)
(* length of the log, and crashes, outages and failing file operations at  *)
(* any step, as long as no file is damaged.  MemLogReplay has the          *)
(* invariant and the steps that open the store and write the log; here are *)
(* the checkpoint, the faults and the theorems.                            *)
(***************************************************************************)
EXTENDS MemLogReplay

-----------------------------------------------------------------------------
(* The checkpoint *)

(* In the window, the id of the checkpoint is later than all data files. *)
LEMMA NewestCheckpoint ==
  ASSUME Types, Intact, NEW B \in TxID, NEW s \in Nat, NEW t, Good(B, s, t),
         pc = "checkpoint", InWindow
  PROVE  /\ \A f \in DOMAIN files : f # nextTxID /\ Dist(nextTxID, f) < Half
         /\ \A i \in 1 .. Len(log) : log[i] # Torn => Dist(nextTxID, log[i].id) < Half
<1>1. nextTxID \in TxID /\ nextTxID # B /\ DOMAIN files \subseteq TxID
  BY DEF Types, Good, InStep
<1>2. MaxAge <= Half /\ MaxAge \in Int /\ Half \in Int
  BY ModulusFacts, MemLogAssumption DEF Intact, Half
<1>3. ASSUME NEW f \in StoredIDs
      PROVE  Dist(nextTxID, f) < MaxAge
  BY <1>3 DEF InWindow, Dist
<1>4. ASSUME NEW f \in DOMAIN files
      PROVE  Dist(nextTxID, f) < Half
  <2>1. f \in StoredIDs /\ f \in TxID
    BY <1>1 DEF StoredIDs
  <2> QED
    BY <1>1, <1>2, <1>3, <2>1, DistFacts
<1>5. ASSUME NEW f \in DOMAIN files
      PROVE  f # nextTxID
  <2>1. B \in DOMAIN files /\ Dist(B, f) < Half
    BY <1>5 DEF Good, Replay, Base
  <2>2. Dist(nextTxID, B) < Half
    BY <1>4, <2>1
  <2>3. Dist(B, nextTxID) = TxMod - Dist(nextTxID, B) /\ Dist(nextTxID, B) \in Int
    BY <1>1, DistFacts
  <2> QED
    BY <1>1, <2>1, <2>2, <2>3, ModulusFacts
<1>6. ASSUME NEW i \in 1 .. Len(log), log[i] # Torn
      PROVE  Dist(nextTxID, log[i].id) < Half
  <2>1. log[i].id \in TxID
    BY <1>6, EntryType
  <2>2. log[i].id \in StoredIDs
    <3>1. i \in DOMAIN log
      BY DEF Types
    <3> QED
      BY <1>6, <3>1 DEF StoredIDs
  <2> QED
    BY <1>1, <1>2, <1>3, <2>1, <2>2, DistFacts
<1> QED
  BY <1>4, <1>5, <1>6

LEMMA CheckpointRenameInv ==
  ASSUME Types, StateInv, Intact, LogInv, CheckpointRename
  PROVE  LogInv'
<1>1. PICK B \in TxID, s \in Nat, t \in Tables : Good(B, s, t)
  BY DEF LogInv
<1>2. /\ pc = "checkpoint" /\ pc' = "clear" /\ confirmed' = {mem} /\ stored' = {mem}
      /\ UNCHANGED <<mem, nextTxID, active, old, logState, log, synced>>
      /\ files' = [id \in DOMAIN files \cup {nextTxID} |->
                     IF id = nextTxID THEN mem ELSE files[id]]
  BY DEF CheckpointRename, memory, fileTxID
<1>3. /\ \A f \in DOMAIN files : f # nextTxID /\ Dist(nextTxID, f) < Half
      /\ \A i \in 1 .. Len(log) : log[i] # Torn => Dist(nextTxID, log[i].id) < Half
  BY <1>1, <1>2, NewestCheckpoint DEF StateInv
<1>4. PICK C \in TxID : C = nextTxID
  BY DEF Types
<1>5. PICK u \in Table : u = mem
  BY DEF Types
<1>6. PICK n \in Nat : n = Len(log)
  BY DEF Types
<1>7. PICK t1 \in Tables : t1 = [i \in Nat |-> u]
  BY Zenon DEF Tables
<1>8. DOMAIN files' = DOMAIN files \cup {C} /\ files'[C] = u
  BY <1>2, <1>4, <1>5
<1>9. Replay(C, n, t1)'
  <2>1. Base(C)'
    <3>1. \A f \in DOMAIN files \cup {C} : Dist(C, f) < Half
      BY <1>3, <1>4, DistFacts, ModulusFacts
    <3> QED
      BY <1>8, <3>1 DEF Base
  <2>2. BaseTable(C)' = u
    BY <1>8 DEF BaseTable
  <2>3. Covered(C, n, t1)'
    BY <1>2, <1>3, <1>4, <1>6, <1>7, <2>2 DEF Covered
  <2>4. Following(C, n, t1)'
    BY <1>2, <1>6 DEF Following
  <2>5. \A i \in 1 .. Len(log) : log[i] = Torn => i = Len(log)
    BY <1>1 DEF Good, Replay
  <2> QED
    BY <1>2, <1>6, <2>1, <2>3, <2>4, <2>5, ModulusFacts DEF Replay
<1>10. Kept(t1)'
  <2>1. synced \in 0 .. n
    BY <1>6 DEF Types
  <2> QED
    BY <1>2, <1>5, <1>6, <1>7, <2>1 DEF Kept
<1>11. Known(C)'
  <2>1. superfluous \subseteq DOMAIN files
    BY <1>1, <1>2 DEF Good, Known, Replay, Base, superfluous
  <2>2. superfluous' = superfluous
    BY <1>2 DEF superfluous
  <2> QED
    BY <1>2, <1>3, <1>4, <1>8, <2>1, <2>2 DEF Known
<1>12. Loading(C, n, t1)' /\ InStep(C, n, t1)'
  BY <1>2 DEF Loading, InStep
<1>13. Checkpointed(C, n)'
  <2>1. BaseTable(C)' = mem' /\ n = Len(log')
    BY <1>2, <1>5, <1>6, <1>8 DEF BaseTable
  <2>2. ~logInvalid' => \A i \in 1 .. Len(log') : log'[i] # Torn
    BY <1>1, <1>2 DEF Good, InStep, logState
  <2> QED
    BY <2>1, <2>2 DEF Checkpointed
<1> QED
  BY <1>9, <1>10, <1>11, <1>12, <1>13 DEF LogInv, Good

LEMMA CheckpointClearInv ==
  ASSUME Types, StateInv, LogInv, CheckpointClear
  PROVE  LogInv' /\ nextTxID' \in TxID
<1>1. PICK B \in TxID, s \in Nat, t \in Tables : Good(B, s, t)
  BY DEF LogInv
<1>2. /\ pc = "clear" /\ pc' = "remove" /\ nextTxID' = NextID(nextTxID)
      /\ old' = superfluous /\ active' = nextTxID
      /\ UNCHANGED <<mem, files, confirmed, stored>>
  BY DEF CheckpointClear, fileTxID
<1>3. \/ log' = <<>> /\ synced' = 0
      \/ log' = log /\ synced' = synced /\ (logInvalid' = logInvalid \/ logInvalid')
  BY DEF CheckpointClear
<1>4. /\ B = nextTxID /\ DOMAIN files # {} /\ superfluous \subseteq DOMAIN files \ {B}
      /\ s = Len(log) /\ mem = BaseTable(B) /\ Len(log) \in Nat
      /\ ~logInvalid => \A i \in 1 .. Len(log) : log[i] # Torn
  BY <1>1, <1>2 DEF Good, Known, Checkpointed, Types
<1>5. nextTxID' \in TxID /\ nextTxID' # B /\ Dist(nextTxID', B) = 1
  <2>1. Dist(B, B) = 0
    BY DistFacts
  <2>2. Dist(NextID(B), B) = 1 /\ NextID(B) \in TxID
    BY <2>1, NextDist, ModulusFacts
  <2>3. NextID(B) # B
    BY <2>1, <2>2
  <2> QED
    BY <1>2, <1>4, <2>2, <2>3
<1>6. Known(B)'
  BY <1>2, <1>4 DEF Known
<1>7. t[0] = BaseTable(B) /\ t[s] = BaseTable(B)
  BY <1>1 DEF Good, Replay, Covered
<1>8. BaseTable(B)' = BaseTable(B)
  BY <1>2 DEF BaseTable
<1>9. CASE log' = <<>> /\ synced' = 0
  <2>1. Replay(B, 0, t)' /\ Kept(t)' /\ Len(log') = 0
    BY <1>1, <1>2, <1>4, <1>9, EmptiedInv DEF Good
  <2>2. Loading(B, 0, t)' /\ Checkpointed(B, 0)'
    BY <1>2, <1>4, <1>8, <2>1 DEF Loading, Checkpointed
  <2>3. InStep(B, 0, t)'
    BY <1>2, <1>4, <1>5, <1>7, <2>1 DEF InStep
  <2> QED
    BY <1>5, <1>6, <2>1, <2>2, <2>3 DEF LogInv, Good
<1>10. CASE log' = log /\ synced' = synced /\ (logInvalid' = logInvalid \/ logInvalid')
  <2>1. Replay(B, s, t)' /\ Kept(t)'
    BY <1>1, <1>2, <1>10, ReplaySame DEF Good, Kept, disk
  <2>2. Loading(B, s, t)' /\ Checkpointed(B, s)'
    BY <1>2, <1>4, <1>8, <1>10 DEF Loading, Checkpointed
  <2>3. InStep(B, s, t)'
    BY <1>2, <1>4, <1>5, <1>7, <1>10 DEF InStep
  <2> QED
    BY <1>5, <1>6, <2>1, <2>2, <2>3 DEF LogInv, Good
<1> QED
  BY <1>3, <1>9, <1>10

LEMMA removeOldDataFilesInv ==
  ASSUME Types, StateInv, LogInv, removeOldDataFiles
  PROVE  LogInv' /\ old' \subseteq old /\ files' = [id \in DOMAIN files \ (old \ old') |-> files[id]]
<1>1. PICK B \in TxID, s \in Nat, t \in Tables : Good(B, s, t)
  BY DEF LogInv
<1>2. /\ pc = "remove" /\ pc' = "idle" /\ confirmed' = {mem} /\ op' = NoOp
      /\ files' = [id \in DOMAIN files \ (old \ old') |-> files[id]]
      /\ UNCHANGED <<mem, nextTxID, active, logState, log, stored, synced>>
  BY DEF removeOldDataFiles, Return
<1>3. old' \subseteq old
  BY DEF removeOldDataFiles
<1>4. /\ old \subseteq DOMAIN files \ {B} /\ active = IF DOMAIN files = {} THEN NoFile ELSE B
      /\ s = Len(log) /\ mem = BaseTable(B) /\ Len(log) \in Nat /\ mem \in Table
  BY <1>1, <1>2 DEF Good, Known, Checkpointed, Types
<1>5. /\ DOMAIN files' = DOMAIN files \ (old \ old')
      /\ DOMAIN files = {} <=> DOMAIN files' = {}
      /\ DOMAIN files # {} => B \in DOMAIN files' /\ files'[B] = files[B]
  <2>1. DOMAIN files # {} => B \in DOMAIN files
    BY <1>1 DEF Good, Replay, Base
  <2> QED
    BY <1>2, <1>4, <2>1
<1>6. BaseTable(B)' = BaseTable(B)
  BY <1>5 DEF BaseTable
<1>7. Base(B)'
  BY <1>1, <1>5 DEF Good, Replay, Base
<1>8. Replay(B, s, t)'
  <2>1. Covered(B, s, t)' /\ Following(B, s, t)'
    BY <1>1, <1>2, <1>6 DEF Good, Replay, Covered, Following
  <2> QED
    BY <1>1, <1>2, <1>7, <2>1 DEF Good, Replay
<1>9. t[Len(log)] = mem
  BY <1>1, <1>4 DEF Good, Replay, Covered
<1>10. Kept(t)'
  BY <1>1, <1>2, <1>9 DEF Good, Kept
<1>11. Known(B)'
  BY <1>2, <1>3, <1>4, <1>5 DEF Known
<1>12. Loading(B, s, t)' /\ Checkpointed(B, s)'
  BY <1>1, <1>2 DEF Good, Loading, Checkpointed, logState
<1>13. InStep(B, s, t)'
  BY <1>1, <1>2, <1>9 DEF Good, InStep, logState
<1> QED
  BY <1>2, <1>3, <1>8, <1>10, <1>11, <1>12, <1>13 DEF LogInv, Good

-----------------------------------------------------------------------------
(* The end of a run *)

LEMMA CloseInv ==
  ASSUME Types, LogInv, Close
  PROVE  LogInv'
<1>1. PICK B \in TxID, s \in Nat, t \in Tables : Good(B, s, t)
  BY DEF LogInv
<1>2. /\ Stopped /\ UNCHANGED <<disk, confirmed>>
      /\ \/ synced' = Len(log) /\ stored' = confirmed
         \/ UNCHANGED <<synced, stored>>
  BY DEF Close, syncFile
<1>3. Replay(B, s, t)'
  BY <1>1, <1>2, ReplaySame DEF Good
<1>4. Kept(t)'
  <2>1. Kept(t) /\ log' = log /\ Len(log) \in Nat
    BY <1>1, <1>2, LogLength DEF Good, disk
  <2>2. \A n \in Len(log) .. Len(log) : n = Len(log)
    BY <2>1
  <2> QED
    BY <1>2, <2>1, <2>2 DEF Kept
<1> QED
  BY <1>2, <1>3, <1>4, StoppedInv

LEMMA CrashInv ==
  ASSUME Types, StateInv, Intact, LogInv, Crash
  PROVE  LogInv'
<1>1. PICK B \in TxID, s \in Nat, t \in Tables : Good(B, s, t)
  BY DEF LogInv
<1>2. /\ Stopped /\ UNCHANGED <<files, confirmed, stored, synced>>
      /\ \/ log' = log
         \/ /\ pc = "log" /\ ~logInvalid /\ logOpen
            /\ log' = Append(log, Torn) \/ log' = Append(log, Entry)
  BY DEF Crash, history
<1>3. PICK t1 \in Tables : Replay(B, s, t1)' /\ Kept(t1)'
  <2>1. CASE log' = log
    <3>1. Replay(B, s, t)' /\ Kept(t)'
      BY <1>1, <1>2, <2>1, ReplaySame DEF Good, Kept, disk
    <3> QED
      BY <3>1
  <2>2. CASE log' # log
    <3>1. /\ pc = "log" /\ ~logInvalid /\ logOpen
          /\ log' = Append(log, Torn) \/ log' = Append(log, Entry)
      BY <1>2, <2>2
    <3> QED
      BY <1>1, <1>2, <3>1, WrittenInv
  <2> QED
    BY <2>1, <2>2
<1> QED
  BY <1>2, <1>3, StoppedInv

LEMMA CutLog ==
  ASSUME Types, NEW n \in synced .. Len(log),
         \/ log' = SubSeq(log, 1, n) /\ synced' = n
         \/ n < Len(log) /\ log' = Append(SubSeq(log, 1, n), Torn) /\ synced' = n + 1
  PROVE  /\ Len(log) \in Nat /\ n \in 0 .. Len(log) /\ n \in Nat /\ synced' = Len(log')
         /\ Len(log') = n \/ Len(log') = n + 1
         /\ \A i \in 1 .. n : log'[i] = log[i]
         /\ Len(log') = n + 1 => n < Len(log) /\ log'[n + 1] = Torn
         /\ log' \in Seq(LogEntry \cup {Torn})
<1>1. log \in Seq(LogEntry \cup {Torn}) /\ Len(log) \in Nat /\ n \in 0 .. Len(log) /\ n \in Nat
  BY DEF Types
<1>2. PICK c : c = SubSeq(log, 1, n)
  BY Zenon
<1>3. /\ c \in Seq(LogEntry \cup {Torn}) /\ Len(c) = n
      /\ \A i \in 1 .. n : c[i] = log[i]
  BY <1>1, <1>2
<1>4. CASE log' = c /\ synced' = n
  BY <1>1, <1>3, <1>4
<1>5. CASE n < Len(log) /\ log' = Append(c, Torn) /\ synced' = n + 1
  BY <1>1, <1>3, <1>5
<1> QED
  BY <1>2, <1>4, <1>5

(* A part of the log, perhaps with an incomplete entry after it, is        *)
(* replayed like the log up to there.                                      *)
LEMMA CutInv ==
  ASSUME Types, NEW B \in TxID, NEW s \in Nat, NEW t \in Tables, Good(B, s, t),
         NEW n \in synced .. Len(log), UNCHANGED <<files, stored>>, confirmed' = stored,
         \/ log' = SubSeq(log, 1, n) /\ synced' = n
         \/ n < Len(log) /\ log' = Append(SubSeq(log, 1, n), Torn) /\ synced' = n + 1
  PROVE  \E s1 \in Nat, t1 \in Tables : Replay(B, s1, t1)' /\ Kept(t1)'
<1>1. /\ Len(log) \in Nat /\ n \in 0 .. Len(log) /\ n \in Nat /\ synced' = Len(log')
      /\ Len(log') = n \/ Len(log') = n + 1
      /\ \A i \in 1 .. n : log'[i] = log[i]
      /\ Len(log') = n + 1 => n < Len(log) /\ log'[n + 1] = Torn
  BY CutLog
<1>2. PICK s1 \in Nat : s1 = IF s <= n THEN s ELSE n
  BY <1>1
<1>3. PICK t1 : t1 = [t EXCEPT ![n + 1] = t[n]]
  BY Zenon
<1>4. t1 \in Tables /\ t1[n + 1] = t[n] /\ \A i \in 0 .. n : t1[i] = t[i]
  BY <1>1, <1>3 DEF Tables
<1>5. PICK m \in Nat : m = Len(log')
  BY <1>1
<1>6. Base(B)' /\ BaseTable(B)' = BaseTable(B)
  BY DEF Good, Replay, Base, BaseTable
<1>7. Covered(B, s1, t1)'
  <2>1. \A i \in 0 .. s1 : i \in 0 .. s /\ i \in 0 .. n
    BY <1>1, <1>2
  <2>2. \A i \in 1 .. s1 : i \in 1 .. s /\ i \in 1 .. n
    BY <1>1, <1>2
  <2> QED
    BY Zenon, <1>1, <1>4, <1>6, <2>1, <2>2 DEF Good, Replay, Covered
<1>8. ASSUME NEW i \in 1 .. m, log'[i] = Torn
      PROVE  i = m
  <2>1. CASE i \in 1 .. n
    <3>1. log[i] = Torn /\ i \in 1 .. Len(log)
      BY <1>1, <1>8, <2>1
    <3>2. i = Len(log)
      BY <3>1 DEF Good, Replay
    <3> QED
      BY <1>1, <1>5, <2>1, <3>2
  <2>2. CASE i = n + 1
    BY <1>1, <1>5, <2>2
  <2> QED
    BY <1>1, <1>5, <2>1, <2>2
<1>9. Following(B, s1, t1)'
  <2> SUFFICES ASSUME NEW i \in s1 + 1 .. m
               PROVE  IF log'[i] = Torn THEN t1[i] = t1[i - 1]
                      ELSE Dist(log'[i].id, B) = i - s1 /\ t1[i] = Apply(t1[i - 1], log'[i].op)
    BY <1>5 DEF Following
  <2>1. CASE i = n + 1
    <3>1. log'[i] = Torn /\ i - 1 = n /\ n \in 0 .. n
      BY <1>1, <1>5, <2>1
    <3> QED
      BY <1>4, <2>1, <3>1
  <2>2. CASE i <= n
    <3>1. /\ s1 = s /\ i \in s + 1 .. Len(log) /\ log'[i] = log[i]
          /\ i \in 0 .. n /\ i - 1 \in 0 .. n
      <4>1. s1 < n
        BY <1>1, <2>2
      <4>2. s1 = s
        BY <1>1, <1>2, <4>1
      <4>3. i \in 1 .. n /\ i \in s + 1 .. Len(log) /\ i \in 0 .. n /\ i - 1 \in 0 .. n
        BY <1>1, <2>2, <4>2
      <4> QED
        BY <1>1, <4>2, <4>3
    <3> QED
      BY Zenon, <1>4, <3>1 DEF Good, Replay, Following
  <2> QED
    BY <1>1, <1>5, <2>1, <2>2
<1>10. Replay(B, s1, t1)'
  <2>1. s1 <= m /\ m - s1 <= Half
    <3>1. Len(log) - s <= Half /\ s <= Len(log)
      BY Zenon DEF Good, Replay
    <3>2. m <= Len(log) /\ n <= m /\ m - n <= 1
      BY <1>1, <1>5
    <3> QED
      BY <1>1, <1>2, <1>5, <3>1, <3>2, ModulusFacts
  <2> QED
    BY <1>5, <1>6, <1>7, <1>8, <1>9, <2>1 DEF Replay
<1>11. Kept(t1)'
  <2>1. t[n] \in stored
    BY DEF Good, Kept
  <2>2. n \in 0 .. n
    BY <1>1
  <2>3. t1[m] = t[n]
    BY <1>1, <1>4, <1>5, <2>2
  <2>4. \A i \in m .. m : i = m
    OBVIOUS
  <2> QED
    BY Zenon, <1>1, <1>5, <2>1, <2>3, <2>4 DEF Kept
<1> QED
  BY <1>4, <1>10, <1>11

LEMMA OutageInv ==
  ASSUME Types, LogInv, Outage
  PROVE  LogInv' /\ log' \in Seq(LogEntry \cup {Torn}) /\ synced' = Len(log')
<1>1. PICK B \in TxID, s \in Nat, t \in Tables : Good(B, s, t)
  BY DEF LogInv
<1>2. Stopped /\ UNCHANGED <<files, stored>> /\ confirmed' = stored
  BY DEF Outage
<1>3. PICK n \in synced .. Len(log) :
         \/ log' = SubSeq(log, 1, n) /\ synced' = n
         \/ n < Len(log) /\ log' = Append(SubSeq(log, 1, n), Torn) /\ synced' = n + 1
  BY DEF Outage
<1>4. PICK s1 \in Nat, t1 \in Tables : Replay(B, s1, t1)' /\ Kept(t1)'
  BY <1>1, <1>2, <1>3, CutInv
<1>5. log' \in Seq(LogEntry \cup {Torn}) /\ synced' = Len(log')
  BY <1>3, CutLog
<1> QED
  BY <1>2, <1>4, <1>5, StoppedInv

LEMMA InitInv ==
  ASSUME Init
  PROVE  LogInv
<1>1. PICK t \in Tables : t = [n \in Nat |-> EmptyTable]
  BY Zenon DEF Tables, Table, EmptyTable
<1>2. 0 \in TxID /\ 0 \in Nat /\ Len(log) = 0 /\ DOMAIN files = {}
  BY ModulusFacts DEF TxID, Init
<1>3. Replay(0, 0, t)
  <2>1. Base(0) /\ BaseTable(0) = EmptyTable
    BY Zenon, <1>2 DEF Base, BaseTable
  <2>2. 1 .. 0 = {} /\ 0 .. 0 = {0} /\ 0 + 1 .. Len(log) = {} /\ 1 .. Len(log) = {}
    BY <1>2
  <2>3. Covered(0, 0, t)
    BY <1>1, <2>1, <2>2 DEF Covered
  <2>4. Following(0, 0, t)
    BY Zenon, <2>2 DEF Following
  <2>5. 0 <= Len(log) /\ Len(log) - 0 <= Half
    BY <1>2, ModulusFacts
  <2> QED
    BY Zenon, <2>1, <2>2, <2>3, <2>4, <2>5 DEF Replay
<1>4. Kept(t) /\ Known(0) /\ Loading(0, 0, t) /\ InStep(0, 0, t) /\ Checkpointed(0, 0)
  BY <1>1, <1>2 DEF Init, Kept, Known, Loading, InStep, Checkpointed
<1> QED
  BY <1>2, <1>3, <1>4 DEF LogInv, Good

-----------------------------------------------------------------------------
(* All steps *)

LEMMA LogStep ==
  ASSUME Types, StateInv, Intact, LogInv, [Next]_vars
  PROVE  LogInv'
<1>1. CASE openStore
  BY <1>1, loadDataFileInv, loadLogEntryInv, loadLogEndInv, newDiskStoreInv, openStoreFailsInv
     DEF openStore
<1>2. CASE AnyUpdate
  BY <1>2, UpdateInv DEF AnyUpdate
<1>3. CASE LogOperation
  BY <1>3, NoWriteInv, tryOpenLogInv, LogWriteInv, LogWriteFailsInv DEF LogOperation
<1>4. CASE WriteCheckpoint
  BY <1>4, NoWriteInv, CheckpointRenameInv, CheckpointClearInv, removeOldDataFilesInv
     DEF WriteCheckpoint
<1>5. CASE Checkpoint
  BY <1>5, NoWriteInv
<1>6. CASE Close \/ Crash \/ Outage
  BY <1>6, CloseInv, CrashInv, OutageInv
<1>7. CASE Corrupt
  BY <1>7 DEF Corrupt, Fault, Intact
<1>8. CASE UNCHANGED vars
  <2>1. PICK B \in TxID, s \in Nat, t \in Tables : Good(B, s, t)
    BY DEF LogInv
  <2>2. UNCHANGED <<pc, memory, logState, disk, confirmed, stored, synced>>
    BY <1>8 DEF vars, history
  <2>3. Replay(B, s, t)' /\ Kept(t)' /\ Known(B)' /\ Loading(B, s, t)'
    BY Zenon, <2>1, <2>2, ReplaySame DEF Good, Kept, Known, Loading, superfluous, disk, memory, logState
  <2>4. InStep(B, s, t)' /\ Checkpointed(B, s)'
    BY Zenon, <2>1, <2>2 DEF Good, InStep, Checkpointed, BaseTable, disk, memory, logState
  <2> QED
    BY <2>3, <2>4 DEF LogInv, Good
<1> QED
  BY <1>1, <1>2, <1>3, <1>4, <1>5, <1>6, <1>7, <1>8 DEF Next

LEMMA StoppedTypes ==
  ASSUME Types, Stopped, files' = files, confirmed' \subseteq Table, stored' \subseteq Table,
         log' \in Seq(LogEntry \cup {Torn}), synced' \in 0 .. Len(log')
  PROVE  Types'
<1>1. EmptyTable \in Table /\ 1 \in TxID
  BY ModulusFacts DEF EmptyTable, Table, TxID
<1> QED
  BY Zenon, <1>1 DEF Types, Stopped

LEMMA KeptOrEmptied ==
  ASSUME Types, (log' = log /\ synced' = synced) \/ (log' = <<>> /\ synced' = 0)
  PROVE  log' \in Seq(LogEntry \cup {Torn}) /\ synced' \in 0 .. Len(log')
<1>1. CASE log' = log /\ synced' = synced
  BY <1>1 DEF Types
<1>2. CASE log' = <<>> /\ synced' = 0
  <2>1. <<>> \in Seq(LogEntry \cup {Torn}) /\ Len(<<>>) = 0
    OBVIOUS
  <2> QED
    BY <1>2, <2>1
<1> QED
  BY <1>1, <1>2

LEMMA TypesStep ==
  ASSUME Types, StateInv, Intact, LogInv, [Next]_vars
  PROVE  Types'
<1>1. CASE loadDataFile
  <2>1. /\ UNCHANGED files /\ mem' \in Table /\ nextTxID' \in TxID
        /\ active' \in TxID \cup {NoFile}
    BY <1>1, loadDataFileInv
  <2>2. old' \subseteq DOMAIN files
    BY <1>1 DEF loadDataFile
  <2> QED
    BY <1>1, <2>1, <2>2 DEF Types, loadDataFile, history
<1>2. CASE loadLogEntry
  <2>1. mem' \in Table /\ nextTxID' \in TxID
    BY <1>2, loadLogEntryInv
  <2> QED
    BY Zenon, <1>2, <2>1 DEF Types, loadLogEntry, history, disk
<1>3. CASE loadLogEnd
  BY <1>3 DEF Types, loadLogEnd, memory, disk
<1>4. CASE newDiskStore
  BY <1>4 DEF Types, newDiskStore, memory, disk
<1>5. CASE openStoreFails
  BY Zenon, <1>5, StoppedTypes DEF openStoreFails, disk, history, Types
<1>6. CASE AnyUpdate
  <2>1. PICK k \in Keys, v \in Values \cup {NoValue} : Update(k, v)
    BY <1>6 DEF AnyUpdate
  <2>2. op' = [key |-> k, val |-> v] /\ op' \in Operation /\ mem' \in Table
    BY Zenon, <2>1 DEF Update, Operation, Apply, Types, Table
  <2> QED
    BY Zenon, <2>1, <2>2 DEF Types, Update, disk
<1>7. CASE Checkpoint
  BY <1>7 DEF Types, Checkpoint, memory, disk, history
<1>8. CASE LogRefused
  BY <1>8 DEF Types, LogRefused, Return, disk
<1>9. CASE tryOpenLog
  <2>1. /\ UNCHANGED <<mem, nextTxID, active, old, files, stored, confirmed>>
        /\ pc' \in {"log", "idle"} /\ op' \in {op, NoOp} /\ pc = "log"
    BY <1>9 DEF tryOpenLog, Return
  <2>2. (log' = log /\ synced' = synced) \/ (log' = <<>> /\ synced' = 0)
    BY Zenon, <1>9 DEF tryOpenLog
  <2>3. log' \in Seq(LogEntry \cup {Torn}) /\ synced' \in 0 .. Len(log')
    BY <2>2, KeptOrEmptied
  <2> QED
    BY <2>1, <2>3 DEF Types
<1>10. CASE LogWrite \/ LogWriteFails
  <2>1. /\ UNCHANGED <<mem, active, old, files, stored, synced>> /\ pc' = "idle" /\ op' = NoOp
        /\ confirmed' \in {{mem}, confirmed} /\ nextTxID' \in {nextTxID, NextID(nextTxID)}
        /\ pc = "log" /\ log' \in {log, Append(log, Torn), Append(log, Entry)}
    BY <1>10 DEF LogWrite, LogWriteFails, Return
  <2>2. NextID(nextTxID) \in TxID
    BY NextDist DEF Types
  <2>3. Entry \in LogEntry
    BY <2>1 DEF Entry, LogEntry, Types, StateInv
  <2>4. log' \in Seq(LogEntry \cup {Torn}) /\ synced' \in 0 .. Len(log')
    BY <2>1, <2>3 DEF Types
  <2> QED
    BY <2>1, <2>2, <2>4 DEF Types
<1>11. CASE CheckpointRename
  BY Zenon, <1>11 DEF Types, CheckpointRename, fileTxID, memory
<1>12. CASE CheckpointFails
  BY <1>12 DEF Types, CheckpointFails, disk, history
<1>13. CASE CheckpointClear
  <2>1. (log' = log /\ synced' = synced) \/ (log' = <<>> /\ synced' = 0)
    BY <1>13 DEF CheckpointClear
  <2>2. log' \in Seq(LogEntry \cup {Torn}) /\ synced' \in 0 .. Len(log')
    BY <2>1, KeptOrEmptied
  <2>3. nextTxID' \in TxID
    BY <1>13, CheckpointClearInv
  <2>4. /\ UNCHANGED <<mem, op, files, confirmed, stored>> /\ old' = superfluous
        /\ active' = nextTxID /\ pc' = "remove"
    BY <1>13 DEF CheckpointClear, fileTxID
  <2> QED
    BY <2>2, <2>3, <2>4 DEF Types, superfluous
<1>14. CASE removeOldDataFiles
  <2>1. /\ old' \subseteq old
        /\ files' = [id \in DOMAIN files \ (old \ old') |-> files[id]]
    BY <1>14, removeOldDataFilesInv
  <2> QED
    BY <1>14, <2>1 DEF Types, removeOldDataFiles, Return
<1>15. CASE Close
  <2>1. Stopped /\ UNCHANGED <<files, log, confirmed>>
    BY <1>15 DEF Close, disk
  <2>2. synced' \in {synced, Len(log)} /\ stored' \in {stored, confirmed}
    BY <1>15 DEF Close, syncFile
  <2>3. synced' \in 0 .. Len(log')
    BY <2>1, <2>2, LogLength
  <2>4. log' \in Seq(LogEntry \cup {Torn}) /\ confirmed' \subseteq Table /\ stored' \subseteq Table
    BY <2>1, <2>2 DEF Types
  <2> QED
    BY <2>1, <2>3, <2>4, StoppedTypes
<1>16. CASE Crash
  <2>1. Entry \in LogEntry \/ log' = log \/ log' = Append(log, Torn)
    BY <1>16 DEF Crash, Entry, LogEntry, Types, StateInv
  <2>2. log' \in Seq(LogEntry \cup {Torn}) /\ Len(log) <= Len(log')
    BY <1>16, <2>1 DEF Crash, Types
  <2> QED
    <3>1. Stopped /\ UNCHANGED <<files, confirmed, stored, synced>>
      BY <1>16 DEF Crash, history
    <3>2. Len(log') \in Nat
      BY <2>2
    <3>3. synced' \in 0 .. Len(log')
      BY <2>2, <3>1, <3>2, LogLength
    <3>4. confirmed' \subseteq Table /\ stored' \subseteq Table
      BY <3>1 DEF Types
    <3> QED
      BY <2>2, <3>1, <3>3, <3>4, StoppedTypes
<1>17. CASE Outage
  <2>1. log' \in Seq(LogEntry \cup {Torn}) /\ synced' = Len(log')
    BY <1>17, OutageInv
  <2> QED
    <3>1. Stopped /\ UNCHANGED <<files, stored>> /\ confirmed' = stored
      BY <1>17 DEF Outage
    <3>2. Len(log') \in Nat
      BY <2>1
    <3>3. synced' \in 0 .. Len(log')
      BY <2>1, <3>2
    <3>4. confirmed' \subseteq Table /\ stored' \subseteq Table
      BY <3>1 DEF Types
    <3> QED
      BY <2>1, <3>1, <3>3, <3>4, StoppedTypes
<1>18. CASE Corrupt
  BY <1>18 DEF Corrupt, Fault, Intact
<1>19. CASE UNCHANGED vars
  BY <1>19 DEF Types, vars, memory, disk, history
<1> QED
  BY <1>1, <1>2, <1>3, <1>4, <1>5, <1>6, <1>7, <1>8, <1>9, <1>10, <1>11, <1>12, <1>13, <1>14,
     <1>15, <1>16, <1>17, <1>18, <1>19
     DEF Next, openStore, LogOperation, WriteCheckpoint

LEMMA StoppedState ==
  ASSUME Stopped, outage' => synced' = Len(log')
  PROVE  StateInv'
  BY DEF Stopped, StateInv, Ready

(* A step of an open store that starts no update *)
LEMMA OpenState ==
  ASSUME StateInv, Ready, Ready', outage' = outage, mem' = mem,
         mem \in confirmed' \cap stored', logOpen' => ~logNeedsTruncate',
         pc' \in {"log", "checkpoint"} => InWindow',
         pc' = "log" => op' # NoOp, pc' = "idle" => op' = NoOp
  PROVE  StateInv'
<1>1. ~outage'
  BY DEF StateInv
<1>2. pc' \notin {"closed", "load", "open"}
  BY DEF Ready
<1> QED
  BY <1>1, <1>2 DEF StateInv

LEMMA WindowKept ==
  ASSUME InWindow, UNCHANGED <<nextTxID, files>>, log' = log \/ log' = <<>>
  PROVE  InWindow'
<1>1. StoredIDs' \subseteq StoredIDs
  <2>1. CASE log' = log
    BY <2>1 DEF StoredIDs
  <2>2. CASE log' = <<>>
    <3>1. DOMAIN (log') = {}
      BY <2>2
    <3> QED
      BY <3>1 DEF StoredIDs
  <2> QED
    BY <2>1, <2>2
<1> QED
  BY <1>1 DEF InWindow

LEMMA StateStep ==
  ASSUME Types, StateInv, LogInv, [Next]_vars
  PROVE  StateInv'
<1>1. CASE loadDataFile \/ loadLogEntry \/ loadLogEnd
  <2>1. /\ pc \in {"closed", "load"} /\ pc' \in {"load", "open"}
        /\ UNCHANGED <<op, logOpen, logNeedsTruncate, log, synced, outage>>
    BY Zenon, <1>1 DEF loadDataFile, loadLogEntry, loadLogEnd, memory, logState, disk, history
  <2> QED
    BY <2>1 DEF StateInv, Ready
<1>2. CASE newDiskStore
  <2>1. /\ pc = "open" /\ pc' = "idle" /\ op' = op /\ mem' = mem /\ outage' = FALSE
        /\ logNeedsTruncate' = FALSE /\ mem \in confirmed' /\ mem \in stored'
    BY <1>2 DEF newDiskStore, memory
  <2> QED
    BY <2>1 DEF StateInv, Ready
<1>3. CASE openStoreFails
  BY <1>3, StoppedState DEF openStoreFails, StateInv, disk, history
<1>4. CASE AnyUpdate
  <2>1. PICK k \in Keys, v \in Values \cup {NoValue} : Update(k, v)
    BY <1>4 DEF AnyUpdate
  <2>2. /\ pc = "idle" /\ pc' \in {"log", "checkpoint"} /\ op' = [key |-> k, val |-> v]
        /\ mem' \in confirmed' /\ mem' \in stored' /\ InWindow
        /\ UNCHANGED <<nextTxID, files, log, outage, logOpen, logNeedsTruncate>>
    BY Zenon, <2>1 DEF Update, logState, disk
  <2>3. op' # NoOp
    BY <2>2, MemLogAssumption DEF NoOp
  <2>4. InWindow'
    BY <2>2, WindowKept
  <2> QED
    BY <2>2, <2>3, <2>4 DEF StateInv, Ready
<1>5. CASE Checkpoint
  <2>1. /\ pc = "idle" /\ pc' = "checkpoint" /\ InWindow
        /\ UNCHANGED <<mem, nextTxID, files, log, outage, confirmed, stored, logOpen,
                       logNeedsTruncate>>
    BY <1>5 DEF Checkpoint, memory, logState, disk, history
  <2>2. InWindow'
    BY <2>1, WindowKept
  <2> QED
    BY Zenon, <2>1, <2>2, OpenState DEF StateInv, Ready
<1>6. CASE LogRefused \/ LogWrite \/ LogWriteFails
  <2>1. /\ pc = "log" /\ pc' = "idle" /\ op' = NoOp
        /\ UNCHANGED <<mem, outage, stored, logOpen, logNeedsTruncate>>
        /\ confirmed' \in {{mem}, confirmed}
    BY Zenon, <1>6 DEF LogRefused, LogWrite, LogWriteFails, Return, logState
  <2> QED
    BY Zenon, <2>1, OpenState DEF StateInv, Ready
<1>7. CASE tryOpenLog
  <2>1. /\ pc = "log"
        /\ (pc' = "log" /\ op' = op) \/ (pc' = "idle" /\ op' = NoOp)
        /\ UNCHANGED <<mem, nextTxID, files, outage, stored, confirmed>>
        /\ log' = log \/ log' = <<>>
    BY Zenon, <1>7 DEF tryOpenLog, Return
  <2>2. logOpen' => ~logNeedsTruncate'
    BY Zenon, <1>7 DEF tryOpenLog, StateInv
  <2>3. InWindow'
    BY <2>1, WindowKept DEF StateInv
  <2> QED
    BY Zenon, <2>1, <2>2, <2>3, OpenState DEF StateInv, Ready
<1>8. CASE CheckpointRename
  <2>1. /\ pc = "checkpoint" /\ pc' = "clear" /\ confirmed' = {mem} /\ stored' = {mem}
        /\ UNCHANGED <<mem, outage, logOpen, logNeedsTruncate>>
    BY <1>8 DEF CheckpointRename, memory, logState
  <2> QED
    BY Zenon, <2>1, OpenState DEF StateInv, Ready
<1>9. CASE CheckpointFails
  <2>1. /\ pc = "checkpoint" /\ pc' = IF op = NoOp THEN "idle" ELSE "log"
        /\ UNCHANGED <<mem, op, nextTxID, files, log, confirmed, stored, outage, logOpen,
                       logNeedsTruncate>>
    BY <1>9 DEF CheckpointFails, logState, disk, history
  <2>2. InWindow'
    BY <2>1, WindowKept DEF StateInv
  <2> QED
    BY Zenon, <2>1, <2>2, OpenState DEF StateInv, Ready
<1>10. CASE CheckpointClear
  <2>1. /\ pc = "clear" /\ pc' = "remove"
        /\ UNCHANGED <<mem, outage, confirmed, stored>>
    BY Zenon, <1>10 DEF CheckpointClear
  <2>2. logOpen' => ~logNeedsTruncate'
    BY Zenon, <1>10 DEF CheckpointClear, StateInv
  <2> QED
    BY Zenon, <2>1, <2>2, OpenState DEF StateInv, Ready
<1>11. CASE removeOldDataFiles
  <2>1. /\ pc = "remove" /\ pc' = "idle" /\ op' = NoOp /\ confirmed' = {mem}
        /\ UNCHANGED <<mem, outage, stored, logOpen, logNeedsTruncate>>
    BY <1>11 DEF removeOldDataFiles, Return, logState
  <2> QED
    BY Zenon, <2>1, OpenState DEF StateInv, Ready
<1>12. CASE Close
  BY <1>12, StoppedState DEF Close, StateInv, Ready
<1>13. CASE Crash
  <2>1. UNCHANGED <<synced, outage>> /\ (log' = log \/ pc = "log") /\ Stopped
    BY <1>13 DEF Crash, history
  <2> QED
    BY <2>1, StoppedState DEF StateInv, Ready
<1>14. CASE Outage
  <2>1. synced' = Len(log') /\ Stopped
    BY <1>14, OutageInv DEF Outage
  <2> QED
    BY <2>1, StoppedState
<1>15. CASE Corrupt
  BY Zenon, <1>15 DEF Corrupt, StateInv, Ready, memory, logState
<1>16. CASE UNCHANGED vars
  <2>1. UNCHANGED <<pc, mem, op, nextTxID, logOpen, logNeedsTruncate, files, log, confirmed,
                    stored, synced, outage>>
    BY <1>16 DEF vars, memory, logState, disk, history
  <2>2. InWindow => InWindow'
    BY <2>1, WindowKept
  <2> QED
    BY <2>1, <2>2 DEF StateInv, Ready
<1> QED
  BY <1>1, <1>2, <1>3, <1>4, <1>5, <1>6, <1>7, <1>8, <1>9, <1>10, <1>11, <1>12, <1>13, <1>14,
     <1>15, <1>16 DEF Next, openStore, LogOperation, WriteCheckpoint

-----------------------------------------------------------------------------
(* The theorems *)

StoreInv == Types /\ StateInv /\ LogInv

LEMMA StoreInvInit ==
  ASSUME Init
  PROVE  StoreInv
<1>1. EmptyTable \in Table /\ 1 \in TxID
  BY ModulusFacts DEF EmptyTable, Table, TxID
<1>2. log = <<>> /\ Len(log) = 0 /\ log \in Seq(LogEntry \cup {Torn}) /\ DOMAIN files = {}
  BY DEF Init
<1>3. Types
  BY <1>1, <1>2 DEF Init, Types
<1>4. StateInv
  BY DEF Init, StateInv, Ready
<1> QED
  BY <1>3, <1>4, InitInv DEF StoreInv

LEMMA StoreInvHolds ==
  ASSUME Intact
  PROVE  Spec => []StoreInv
<1>1. Init => StoreInv
  BY StoreInvInit
<1>2. StoreInv /\ [Next]_vars => StoreInv'
  BY TypesStep, StateStep, LogStep DEF StoreInv
<1> QED
  BY <1>1, <1>2, PTL DEF Spec

Flags ==
    /\ failed \in BOOLEAN /\ logOpen \in BOOLEAN /\ logError \in BOOLEAN
    /\ logInvalid \in BOOLEAN /\ logNeedsTruncate \in BOOLEAN
    /\ outage \in BOOLEAN /\ damaged \in BOOLEAN

LEMMA StoppedFlags ==
  ASSUME Flags, Stopped, outage' \in BOOLEAN, damaged' \in BOOLEAN
  PROVE  Flags'
  BY Zenon DEF Flags, Stopped

LEMMA FlagsStep ==
  ASSUME Flags, [Next]_vars
  PROVE  Flags'
<1>1. CASE loadDataFile
  BY <1>1, Zenon DEF Flags, loadDataFile, history
<1>2. CASE loadLogEntry
  <2>1. logInvalid' \in BOOLEAN
    BY Zenon, <1>2 DEF loadLogEntry
  <2> QED
    BY <1>2, <2>1, Zenon DEF Flags, loadLogEntry, history
<1>3. CASE loadLogEnd
  BY <1>3, Zenon DEF Flags, loadLogEnd, memory, logState
<1>4. CASE newDiskStore
  BY <1>4, Zenon DEF Flags, newDiskStore, memory
<1>5. CASE openStoreFails
  BY <1>5, StoppedFlags, Zenon DEF Flags, openStoreFails, history
<1>6. CASE AnyUpdate
  BY <1>6, Zenon DEF Flags, AnyUpdate, Update, logState
<1>7. CASE Checkpoint
  BY <1>7, Zenon DEF Flags, Checkpoint, memory, logState, history
<1>8. CASE LogRefused
  BY <1>8, Zenon DEF Flags, LogRefused, Return, logState
<1>9. CASE tryOpenLog
  BY <1>9, Zenon DEF Flags, tryOpenLog, Return
<1>10. CASE LogWrite
  BY <1>10, Zenon DEF Flags, LogWrite, Return
<1>11. CASE LogWriteFails
  BY <1>11, Zenon DEF Flags, LogWriteFails, Return
<1>12. CASE CheckpointRename
  BY <1>12, Zenon DEF Flags, CheckpointRename, memory, logState
<1>13. CASE CheckpointFails
  BY <1>13, Zenon DEF Flags, CheckpointFails, logState, history
<1>14. CASE CheckpointClear
  BY <1>14, Zenon DEF Flags, CheckpointClear
<1>15. CASE removeOldDataFiles
  BY <1>15, Zenon DEF Flags, removeOldDataFiles, Return, logState
<1>16. CASE Close
  BY <1>16, StoppedFlags, Zenon DEF Flags, Close
<1>17. CASE Crash
  BY <1>17, StoppedFlags, Zenon DEF Flags, Crash, history
<1>18. CASE Outage
  BY <1>18, StoppedFlags, Zenon DEF Flags, Outage
<1>19. CASE Corrupt
  BY <1>19, Zenon DEF Flags, Corrupt, memory, logState
<1>20. CASE UNCHANGED vars
  BY <1>20, Zenon DEF Flags, vars, memory, logState, history
<1> QED
  BY <1>1, <1>2, <1>3, <1>4, <1>5, <1>6, <1>7, <1>8, <1>9, <1>10, <1>11, <1>12, <1>13, <1>14,
     <1>15, <1>16, <1>17, <1>18, <1>19, <1>20, Zenon
     DEF Next, openStore, LogOperation, WriteCheckpoint

Counters == logFileSize \in Nat /\ faults \in 0 .. MaxFaults

LEMMA CountersStep ==
  ASSUME Types, Types', Counters, [Next]_vars
  PROVE  Counters'
<1>1. MaxFaults \in Nat /\ Len(log) \in Nat /\ Len(log') \in Nat
  <2>1. log' \in Seq(LogEntry \cup {Torn})
    BY Zenon DEF Types
  <2>2. Len(log') \in Nat
    BY <2>1
  <2> QED
    BY <2>2, LogLength, MemLogAssumption
<1>2. ASSUME faults' = faults \/ (\E kind : Fault(kind))
      PROVE  faults' \in 0 .. MaxFaults
  BY <1>1, <1>2 DEF Counters, Fault
<1>3. faults' = faults \/ (\E kind : Fault(kind))
  <2>1. CASE openStore
    BY <2>1, Zenon DEF openStore, loadDataFile, loadLogEntry, loadLogEnd, newDiskStore, openStoreFails
  <2>2. CASE AnyUpdate \/ Checkpoint
    BY <2>2, Zenon DEF AnyUpdate, Update, Checkpoint
  <2>3. CASE LogOperation
    BY <2>3, Zenon DEF LogOperation, LogRefused, tryOpenLog, LogWrite, LogWriteFails
  <2>4. CASE WriteCheckpoint
    BY <2>4, Zenon DEF WriteCheckpoint, CheckpointRename, CheckpointFails, CheckpointClear,
                       removeOldDataFiles
  <2>5. CASE Close \/ Crash \/ Outage \/ Corrupt
    BY <2>5, Zenon DEF Close, Crash, Outage, Corrupt
  <2>6. CASE UNCHANGED vars
    BY <2>6, Zenon DEF vars
  <2> QED
    BY <2>1, <2>2, <2>3, <2>4, <2>5, <2>6, Zenon DEF Next
<1>4. \/ logFileSize' = logFileSize \/ logFileSize' = 0 \/ logFileSize' = logFileSize + 1
      \/ logFileSize' = Len(log) \/ logFileSize' = Len(log')
  <2>1. CASE openStore
    BY <2>1, Zenon DEF openStore, loadDataFile, loadLogEntry, loadLogEnd, newDiskStore,
                       openStoreFails, Stopped, logState
  <2>2. CASE AnyUpdate \/ Checkpoint
    BY <2>2, Zenon DEF AnyUpdate, Update, Checkpoint, logState
  <2>3. CASE LogOperation
    BY <2>3, Zenon DEF LogOperation, LogRefused, tryOpenLog, LogWrite, LogWriteFails, logState
  <2>4. CASE WriteCheckpoint
    BY <2>4, Zenon DEF WriteCheckpoint, CheckpointRename, CheckpointFails, CheckpointClear,
                       removeOldDataFiles, logState
  <2>5. CASE Close \/ Crash \/ Outage \/ Corrupt
    BY <2>5, Zenon DEF Close, Crash, Outage, Corrupt, Stopped, logState
  <2>6. CASE UNCHANGED vars
    BY <2>6, Zenon DEF vars, logState
  <2> QED
    BY <2>1, <2>2, <2>3, <2>4, <2>5, <2>6, Zenon DEF Next
<1> QED
  BY <1>1, <1>2, <1>3, <1>4 DEF Counters

(* Every field of the store keeps its type while no file is damaged: ids   *)
(* stay within their width, loadLogFile within the log.                    *)
THEOREM StoreTypeCorrect ==
  ASSUME Intact
  PROVE  Spec => []TypeOK
<1>1. Init => Flags /\ Counters
  <2>1. Init => Flags
    BY Zenon DEF Init, Flags
  <2>2. Init => Counters
    BY MemLogAssumption DEF Init, Counters
  <2> QED
    BY <2>1, <2>2
<1>2. StoreInv /\ StoreInv' /\ Flags /\ Counters /\ [Next]_vars => Flags' /\ Counters'
  BY FlagsStep, CountersStep DEF StoreInv
<1>3. StoreInv /\ Flags /\ Counters => TypeOK
  <2> SUFFICES ASSUME StoreInv, Flags, Counters
               PROVE  TypeOK
    OBVIOUS
  <2>1. pos \in 1 .. Len(log) + 1 \/ pc # "load"
    BY DEF StoreInv, LogInv, Good, Loading
  <2>2. failed \in BOOLEAN /\ damaged \in BOOLEAN
        /\ {logOpen, logError, logInvalid, logNeedsTruncate, outage} \subseteq BOOLEAN
    BY Zenon DEF Flags
  <2>3. logFileSize \in Nat /\ faults \in 0 .. MaxFaults
    BY DEF Counters
  <2>4. Types
    BY DEF StoreInv
  <2> QED
    BY Zenon, <2>1, <2>2, <2>3, <2>4 DEF TypeOK, Types
<1>4. Spec => []StoreInv
  BY StoreInvHolds
<1> QED
  BY <1>1, <1>2, <1>3, <1>4, PTL DEF Spec

(* WriteCheckpoint never overwrites a data file, and its file is later     *)
(* than all others, however often the ids wrapped around and whatever      *)
(* removals and restarts came before.                                      *)
THEOREM CheckpointIsNewest ==
  ASSUME Intact
  PROVE  Spec => []CheckpointNewest
<1>1. StoreInv => CheckpointNewest
  <2> SUFFICES ASSUME StoreInv, pc = "checkpoint", NEW f \in DOMAIN files
               PROVE  f # nextTxID /\ isTxIDLessEqual(f, nextTxID)
    BY DEF CheckpointNewest, fileTxID
  <2>1. PICK B \in TxID, s \in Nat, t \in Tables : Good(B, s, t)
    BY DEF StoreInv, LogInv
  <2>2. Types /\ InWindow
    BY DEF StoreInv, StateInv
  <2>3. f # nextTxID /\ Dist(nextTxID, f) < Half
    BY <2>1, <2>2, NewestCheckpoint
  <2>4. f \in TxID /\ nextTxID \in TxID
    BY <2>2 DEF Types
  <2>5. Dist(nextTxID, f) <= Half
    BY <2>3, <2>4, DistFacts, ModulusFacts
  <2> QED
    BY <2>3, <2>4, <2>5, LessEqualValue
<1>2. Spec => []StoreInv
  BY StoreInvHolds
<1> QED
  BY <1>1, <1>2, PTL

(* The data file an open store takes for the active one is the one the     *)
(* next openStore will read, so removeOldDataFiles keeps it.               *)
THEOREM ActiveStaysNewest ==
  ASSUME Intact
  PROVE  Spec => []ActiveIsNewest
<1>1. StoreInv => ActiveIsNewest
  <2> SUFFICES ASSUME StoreInv, Ready, pc # "clear", active # NoFile
               PROVE  active \in DOMAIN files /\ Newest = active
    BY DEF ActiveIsNewest
  <2>1. PICK B \in TxID, s \in Nat, t \in Tables : Good(B, s, t)
    BY DEF StoreInv, LogInv
  <2>2. DOMAIN files # {} /\ active = B
    BY Zenon, <2>1 DEF Good, Known, Ready
  <2>3. Base(B) /\ DOMAIN files \subseteq TxID
    BY <2>1 DEF Good, Replay, StoreInv, Types
  <2>4. B \in DOMAIN files
    BY <2>2, <2>3 DEF Base
  <2> QED
    BY <2>2, <2>3, <2>4, NewestIsBase
<1>2. Spec => []StoreInv
  BY StoreInvHolds
<1> QED
  BY <1>1, <1>2, PTL

-----------------------------------------------------------------------------
(* The refinement *)

LEMMA StopRefined ==
  ASSUME Stopped,
         \/ UNCHANGED <<confirmed, stored>>
         \/ stored' = confirmed /\ confirmed' = confirmed
         \/ confirmed' = stored /\ stored' = stored
  PROVE  Durable!Stop
<1>1. Ready' = FALSE
  BY DEF Stopped, Ready
<1> QED
  BY <1>1 DEF Durable!Stop, EmptyTable, Durable!EmptyTable

LEMMA StutterRefined ==
  ASSUME Ready' = Ready, Ready => mem' = mem, UNCHANGED <<confirmed, stored>>
  PROVE  UNCHANGED Durable!abstractVars
  BY DEF Durable!abstractVars

LEMMA ConfirmRefined ==
  ASSUME Ready, Ready', mem' = mem, confirmed' = {mem}, stored' = stored \/ stored' = {mem}
  PROVE  Durable!Confirm
<1>1. Ready' = Ready
  BY DEF Ready
<1> QED
  BY <1>1 DEF Durable!Confirm

LEMMA StepRefined ==
  ASSUME StoreInv, Intact, [Next]_vars
  PROVE  [Durable!AbstractNext]_Durable!abstractVars
<1> USE DEF Durable!AbstractNext
<1>1. CASE loadDataFile \/ loadLogEntry \/ loadLogEnd
  <2>1. Ready = FALSE /\ Ready' = FALSE /\ UNCHANGED <<confirmed, stored>>
    <3>1. CASE loadDataFile
      <4>1. pc = "closed" /\ pc' = "load" /\ UNCHANGED <<confirmed, stored>>
        BY Zenon, <3>1 DEF loadDataFile, history
      <4> QED
        BY <4>1 DEF Ready
    <3>2. CASE loadLogEntry
      <4>1. pc = "load" /\ pc' \in {"load", "open"} /\ UNCHANGED <<confirmed, stored>>
        BY Zenon, <3>2 DEF loadLogEntry, history
      <4> QED
        BY <4>1 DEF Ready
    <3>3. CASE loadLogEnd
      BY <3>3 DEF loadLogEnd, Ready
    <3> QED
      BY Zenon, <1>1, <3>1, <3>2, <3>3
  <2> QED
    BY Zenon, <2>1, StutterRefined
<1>2. CASE newDiskStore
  <2>1. mem \in confirmed /\ mem \in stored
    BY <1>2, newDiskStoreInv DEF StoreInv
  <2>2. /\ Ready = FALSE /\ Ready' = TRUE /\ mem' = mem
        /\ confirmed' = {mem} /\ (stored' = stored \cup {mem} \/ stored' = {mem})
    BY <1>2 DEF newDiskStore, Ready, memory
  <2>3. stored' = stored \/ stored' = {mem}
    BY <2>1, <2>2
  <2>4. Durable!Recover
    BY <2>1, <2>2, <2>3 DEF Durable!Recover
  <2> QED
    BY <2>4
<1>3. CASE openStoreFails
  BY <1>3, StopRefined DEF openStoreFails, history
<1>4. CASE AnyUpdate
  <2>1. PICK k \in Keys, v \in Values \cup {NoValue} : Update(k, v)
    BY <1>4 DEF AnyUpdate
  <2>2. /\ Ready = TRUE /\ Ready' = TRUE /\ mem' = [mem EXCEPT ![k] = v]
        /\ confirmed' = confirmed \cup {mem'} /\ stored' = stored \cup {mem'}
    BY Zenon, <2>1 DEF Update, Ready, Apply
  <2>3. Durable!Change
    BY Zenon, <2>2 DEF Durable!Change
  <2> QED
    BY <2>3
<1>5. CASE Checkpoint \/ LogRefused \/ tryOpenLog \/ LogWriteFails \/ CheckpointFails \/ CheckpointClear
  <2>1. Ready = TRUE /\ Ready' = TRUE /\ UNCHANGED <<mem, confirmed, stored>>
    BY Zenon, <1>5 DEF Checkpoint, LogRefused, tryOpenLog, LogWriteFails, CheckpointFails,
                CheckpointClear, Return, Ready, memory, history
  <2> QED
    BY <2>1, StutterRefined
<1>6. CASE LogWrite
  <2>1. /\ Ready = TRUE /\ Ready' = TRUE /\ UNCHANGED <<mem, stored>>
        /\ confirmed' = {mem} \/ confirmed' = confirmed
    BY <1>6 DEF LogWrite, Return, Ready
  <2> QED
    BY <2>1, ConfirmRefined, StutterRefined
<1>7. CASE CheckpointRename \/ removeOldDataFiles
  <2>1. /\ Ready = TRUE /\ Ready' = TRUE /\ mem' = mem /\ confirmed' = {mem}
        /\ stored' = stored \/ stored' = {mem}
    BY Zenon, <1>7 DEF CheckpointRename, removeOldDataFiles, Return, Ready, memory
  <2> QED
    BY <2>1, ConfirmRefined
<1>8. CASE Close
  BY <1>8, StopRefined DEF Close
<1>9. CASE Crash
  BY <1>9, StopRefined DEF Crash, history
<1>10. CASE Outage
  BY <1>10, StopRefined DEF Outage
<1>11. CASE Corrupt
  BY <1>11 DEF Corrupt, Fault, Intact
<1>12. CASE UNCHANGED vars
  <2>1. Ready' = Ready /\ UNCHANGED <<mem, confirmed, stored>>
    BY Zenon, <1>12 DEF vars, memory, history, Ready
  <2> QED
    BY <2>1, StutterRefined
<1> QED
  BY <1>1, <1>2, <1>3, <1>4, <1>5, <1>6, <1>7, <1>8, <1>9, <1>10, <1>11, <1>12, Zenon
     DEF Next, openStore, LogOperation, WriteCheckpoint

(* The store implements DurableStore: after a restart, a crash at any step *)
(* or a failed file operation openStore comes back with the table that was *)
(* confirmed last or an update in progress; after an outage of the machine *)
(* with a table the store had since the last checkpoint or Close.          *)
THEOREM StoreIsDurable ==
  ASSUME Intact
  PROVE  Spec => Durability
<1>1. Init => Durable!AbstractInit
  <2> SUFFICES ASSUME Init
               PROVE  Durable!AbstractInit
    OBVIOUS
  <2>1. Ready = FALSE
    BY DEF Init, Ready
  <2> QED
    BY <2>1 DEF Init, Durable!AbstractInit, Durable!EmptyTable, EmptyTable
<1>2. StoreInv /\ [Next]_vars => [Durable!AbstractNext]_Durable!abstractVars
  BY StepRefined
<1>3. Spec => []StoreInv
  BY StoreInvHolds
<1> QED
  BY <1>1, <1>2, <1>3, PTL DEF Spec, Durability, Durable!AbstractSpec
===============================================================================
