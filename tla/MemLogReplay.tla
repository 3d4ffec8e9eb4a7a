----------------------------- MODULE MemLogReplay -----------------------------
(***************************************************************************)
(* What loading the files of a memlog store gives, and that every step of  *)
(* the store keeps it: the invariant behind the theorems of MemLogProofs.  *)
(*                                                                         *)
(* The newest data file B is the base.  The first s entries of the log are *)
(* covered by it, the others follow one another; only the last one can be  *)
(* incomplete.  t[n] is the table after the first n entries.               *)
(***************************************************************************)
EXTENDS MemLog, RingArithmetic

(* The id a is Dist(a, b) after the id b. *)
Dist(a, b) == (a - b) % TxMod
Half == TxMod \div 2

Tables == [Nat -> Table]

Base(B) ==
    IF DOMAIN files = {}
    THEN B = 0
    ELSE B \in DOMAIN files /\ \A f \in DOMAIN files : Dist(B, f) < Half

BaseTable(B) == IF DOMAIN files = {} THEN EmptyTable ELSE files[B]

Covered(B, s, t) ==
    /\ \A i \in 0 .. s : t[i] = BaseTable(B)
    /\ \A i \in 1 .. s : log[i] # Torn => Dist(B, log[i].id) < Half

Following(B, s, t) ==
    \A i \in s + 1 .. Len(log) :
        IF log[i] = Torn THEN t[i] = t[i - 1]
        ELSE Dist(log[i].id, B) = i - s /\ t[i] = Apply(t[i - 1], log[i].op)

Replay(B, s, t) ==
    /\ Base(B)
    /\ s <= Len(log) /\ Len(log) - s <= Half
    /\ Covered(B, s, t)
    /\ Following(B, s, t)
    /\ \A i \in 1 .. Len(log) : log[i] = Torn => i = Len(log)

(* A start finds a table it may come back with, also after an outage. *)
Kept(t) ==
    /\ t[Len(log)] \in confirmed
    /\ \A n \in synced .. Len(log) : t[n] \in stored

(* The data files the store knows *)
Known(B) ==
    /\ pc \notin {"closed", "clear"} =>
         /\ active = IF DOMAIN files = {} THEN NoFile ELSE B
         /\ old \subseteq DOMAIN files \ {B}
    /\ pc = "clear" =>
         /\ B = nextTxID /\ DOMAIN files # {}
         /\ superfluous \subseteq DOMAIN files \ {B}

Loading(B, s, t) ==
    /\ pc = "load" =>
         /\ pos \in 1 .. Len(log) + 1 /\ mem = t[pos - 1] /\ ~logInvalid
         /\ Dist(nextTxID, B) = IF pos <= s THEN 1 ELSE pos - s
         /\ \A i \in 1 .. pos - 1 : log[i] # Torn
    /\ pc = "open" => mem = t[Len(log)]

(* While the log is valid, the store appends to what a start would load. *)
InStep(B, s, t) ==
    pc \in {"open", "idle", "log", "checkpoint", "remove"} =>
        /\ nextTxID # B
        /\ ~logInvalid =>
             /\ \A i \in 1 .. Len(log) : log[i] # Torn
             /\ Dist(nextTxID, B) = Len(log) - s + 1
             /\ mem = IF pc \in {"log", "checkpoint"} /\ op # NoOp
                      THEN Apply(t[Len(log)], op) ELSE t[Len(log)]

Checkpointed(B, s) ==
    /\ pc \in {"clear", "remove"} => s = Len(log) /\ mem = BaseTable(B)
    /\ pc = "clear" /\ ~logInvalid => \A i \in 1 .. Len(log) : log[i] # Torn
    /\ logNeedsTruncate => s = Len(log)

Good(B, s, t) ==
    /\ Replay(B, s, t) /\ Kept(t) /\ Known(B)
    /\ Loading(B, s, t) /\ InStep(B, s, t) /\ Checkpointed(B, s)

LogInv == \E B \in TxID, s \in Nat, t \in Tables : Good(B, s, t)

Types ==
    /\ pc \in {"closed", "load", "open", "idle", "log", "checkpoint", "clear", "remove"}
    /\ mem \in Table /\ op \in Operation \cup {NoOp}
    /\ nextTxID \in TxID /\ active \in TxID \cup {NoFile} /\ old \subseteq TxID
    /\ DOMAIN files \subseteq TxID /\ \A f \in DOMAIN files : files[f] \in Table
    /\ log \in Seq(LogEntry \cup {Torn})
    /\ confirmed \subseteq Table /\ stored \subseteq Table
    /\ synced \in 0 .. Len(log)

(* No file is damaged, and the ids in use span at most half of all ids. *)
Intact == Faults \cap {"read", "corrupt"} = {} /\ MaxAge <= TxMod \div 2

StateInv ==
    /\ pc \in {"closed", "load", "open"} => ~logOpen /\ ~logNeedsTruncate
    /\ logOpen => ~logNeedsTruncate
    /\ Ready => mem \in confirmed \cap stored /\ ~outage
    /\ outage => synced = Len(log)
    /\ pc \in {"log", "checkpoint"} => InWindow
    /\ pc = "log" => op # NoOp
    /\ pc \in {"closed", "load", "open", "idle"} => op = NoOp

-----------------------------------------------------------------------------
(* Transaction ids *)

LEMMA ModulusFacts ==
  /\ TxMod \in Nat \ {0} /\ TxMod >= 4
  /\ Half \in Nat /\ TxMod = Half + Half
<1>1. TxMod \in Nat /\ TxMod >= 4 /\ TxMod % 2 = 0
  BY MemLogAssumption
<1>2. TxMod = 2 * (TxMod \div 2) + (TxMod % 2) /\ TxMod \div 2 \in Int
  BY <1>1, ModDef, DivInt
<1> QED
  BY <1>1, <1>2 DEF Half

(* The remainder of a number that is less than one turn off *)
LEMMA ModTurn ==
  ASSUME NEW E \in Nat \ {0}, NEW a \in Int, -E < a, a < E
  PROVE  a % E = IF a >= 0 THEN a ELSE a + E
<1>1. a \div E \in Int /\ a = E * (a \div E) + (a % E) /\ a % E \in 0 .. E - 1
  BY ModDef, DivInt, ModRange
<1>2. CASE a >= 0
  <2>1. E * 0 + a = E * (a \div E) + (a % E)
    BY <1>1
  <2>2. a \in 0 .. E - 1
    BY <1>2
  <2> QED
    BY <1>1, <1>2, <2>1, <2>2, ModUnique
<1>3. CASE a < 0
  <2>1. E * (-1) + (a + E) = E * (a \div E) + (a % E)
    BY <1>1
  <2>2. a + E \in 0 .. E - 1
    BY <1>3
  <2>3. -1 \in Int /\ 0 \in Int
    OBVIOUS
  <2> QED
    BY <1>1, <1>3, <2>1, <2>2, <2>3, ModUnique
<1> QED
  BY <1>2, <1>3

LEMMA DistValue ==
  ASSUME NEW a \in TxID, NEW b \in TxID
  PROVE  Dist(a, b) = IF b <= a THEN a - b ELSE a - b + TxMod
<1>1. a - b \in Int /\ -TxMod < a - b /\ a - b < TxMod
  BY ModulusFacts DEF TxID
<1>2. (a - b) % TxMod = IF a - b >= 0 THEN a - b ELSE (a - b) + TxMod
  BY <1>1, ModulusFacts, ModTurn, Zenon
<1> QED
  BY <1>2, ModulusFacts DEF Dist, TxID

LEMMA NextValue ==
  ASSUME NEW a \in TxID
  PROVE  NextID(a) = IF a + 1 = TxMod THEN 0 ELSE a + 1
<1>1. CASE a + 1 = TxMod
  <2>1. TxMod % TxMod = 0
    <3>1. TxMod \div TxMod \in Int /\ TxMod = TxMod * (TxMod \div TxMod) + (TxMod % TxMod)
          /\ TxMod % TxMod \in 0 .. TxMod - 1
      BY ModulusFacts, ModDef, DivInt, ModRange
    <3>2. TxMod * 1 + 0 = TxMod * (TxMod \div TxMod) + (TxMod % TxMod)
      BY <3>1, ModulusFacts
    <3>3. 0 \in 0 .. TxMod - 1 /\ 1 \in Int
      BY ModulusFacts
    <3> QED
      BY <3>1, <3>2, <3>3, ModulusFacts, ModUnique
  <2> QED
    BY <1>1, <2>1 DEF NextID
<1>2. CASE a + 1 # TxMod
  <2>1. a + 1 \in Int /\ -TxMod < a + 1 /\ a + 1 < TxMod /\ a + 1 >= 0
    BY <1>2, ModulusFacts DEF TxID
  <2> QED
    BY <1>2, <2>1, ModulusFacts, ModTurn DEF NextID
<1> QED
  BY <1>1, <1>2

LEMMA PreviousValue ==
  ASSUME NEW a \in TxID
  PROVE  (a - 1) % TxMod = IF a = 0 THEN TxMod - 1 ELSE a - 1
<1>1. a - 1 \in Int /\ -TxMod < a - 1 /\ a - 1 < TxMod
  BY ModulusFacts DEF TxID
<1>2. (a - 1) % TxMod = IF a - 1 >= 0 THEN a - 1 ELSE (a - 1) + TxMod
  BY <1>1, ModulusFacts, ModTurn, Zenon
<1> QED
  BY <1>2, ModulusFacts DEF TxID

(* The signed difference of two ids tells which one is earlier. *)
LEMMA LessEqualValue ==
  ASSUME NEW a \in TxID, NEW b \in TxID
  PROVE  isTxIDLessEqual(a, b) <=> Dist(b, a) <= Half
<1>1. isTxIDLessEqual(a, b) <=> Dist(a, b) = 0 \/ Dist(a, b) >= Half
  BY DEF isTxIDLessEqual, Dist, Half
<1> QED
  BY <1>1, DistValue, ModulusFacts DEF TxID

LEMMA DistFacts ==
  ASSUME NEW a \in TxID, NEW b \in TxID
  PROVE  /\ Dist(a, b) \in 0 .. TxMod - 1
         /\ Dist(a, b) = 0 <=> a = b
         /\ a # b => Dist(b, a) = TxMod - Dist(a, b)
  BY DistValue, ModulusFacts DEF TxID

LEMMA SameDist ==
  ASSUME NEW a \in TxID, NEW b \in TxID, NEW c \in TxID, Dist(a, c) = Dist(b, c)
  PROVE  a = b
  BY DistValue, ModulusFacts DEF TxID

LEMMA DistLess ==
  ASSUME NEW a \in TxID, NEW b \in TxID, NEW c \in TxID, Dist(b, c) <= Dist(a, c)
  PROVE  Dist(a, b) = Dist(a, c) - Dist(b, c)
  BY DistValue, ModulusFacts DEF TxID

LEMMA NextDist ==
  ASSUME NEW a \in TxID
  PROVE  /\ NextID(a) \in TxID
         /\ \A b \in TxID : Dist(a, b) + 1 < TxMod => Dist(NextID(a), b) = Dist(a, b) + 1
<1> DEFINE n == NextID(a)
<1>1. n = IF a + 1 = TxMod THEN 0 ELSE a + 1
  BY NextValue
<1> HIDE DEF n
<1>2. n \in TxID
  BY <1>1, ModulusFacts DEF TxID
<1>3. \A b \in TxID : Dist(a, b) + 1 < TxMod => Dist(n, b) = Dist(a, b) + 1
  BY <1>1, <1>2, DistValue, ModulusFacts DEF TxID
<1> QED
  BY <1>2, <1>3 DEF n

LEMMA PreviousDist ==
  ASSUME NEW a \in TxID
  PROVE  /\ (a - 1) % TxMod \in TxID
         /\ NextID((a - 1) % TxMod) = a
         /\ \A b \in TxID : Dist(a, b) > 0 => Dist((a - 1) % TxMod, b) = Dist(a, b) - 1
<1> DEFINE p == (a - 1) % TxMod
<1>1. p \in TxID
  BY PreviousValue, ModulusFacts DEF TxID
<1>2. p = IF a = 0 THEN TxMod - 1 ELSE a - 1
  BY PreviousValue
<1> HIDE DEF p
<1>3. NextID(p) = a
  BY <1>1, <1>2, NextValue, ModulusFacts DEF TxID
<1>4. \A b \in TxID : Dist(a, b) > 0 => Dist(p, b) = Dist(a, b) - 1
  BY <1>1, <1>2, DistValue, ModulusFacts DEF TxID
<1> QED
  BY <1>1, <1>3, <1>4 DEF p

LEMMA NewestIsBase ==
  ASSUME NEW B \in TxID, Base(B), DOMAIN files # {}, DOMAIN files \subseteq TxID
  PROVE  Newest = B
<1>1. B \in DOMAIN files /\ \A f \in DOMAIN files : Dist(B, f) < Half
  BY DEF Base
<1>2. \A f \in DOMAIN files : isTxIDLessEqual(f, B)
  BY <1>1, LessEqualValue, DistFacts, ModulusFacts
<1>3. ASSUME NEW c \in DOMAIN files, \A f \in DOMAIN files : isTxIDLessEqual(f, c)
      PROVE  c = B
  <2>1. Dist(c, B) <= Half
    BY <1>1, <1>3, LessEqualValue
  <2>2. Dist(B, c) < Half
    BY <1>1
  <2> QED
    BY <2>1, <2>2, DistFacts, ModulusFacts
<1> QED
  BY <1>1, <1>2, <1>3 DEF Newest

-----------------------------------------------------------------------------
(* Opening a store *)

LEMMA LogLength ==
  ASSUME Types
  PROVE  /\ log \in Seq(LogEntry \cup {Torn})
         /\ Len(log) \in Nat /\ synced \in 0 .. Len(log) /\ synced \in Nat
<1>1. log \in Seq(LogEntry \cup {Torn}) /\ synced \in 0 .. Len(log)
  BY DEF Types
<1>2. Len(log) \in Nat
  BY <1>1
<1> QED
  BY <1>1, <1>2

LEMMA ReplaySame ==
  ASSUME NEW B, NEW s, NEW t, Replay(B, s, t), UNCHANGED disk
  PROVE  Replay(B, s, t)'
  BY DEF Replay, Base, BaseTable, Covered, Following, disk

LEMMA loadDataFileInv ==
  ASSUME Types, LogInv, loadDataFile
  PROVE  /\ LogInv' /\ UNCHANGED files
         /\ mem' \in Table /\ nextTxID' \in TxID /\ active' \in TxID \cup {NoFile}
<1>1. PICK B \in TxID, s \in Nat, t \in Tables : Good(B, s, t)
  BY DEF LogInv
<1>2. /\ pc' = "load" /\ pos' = 1 /\ logInvalid' = FALSE
      /\ UNCHANGED <<log, confirmed, stored, synced, logNeedsTruncate>>
  BY DEF loadDataFile, history
<1>3. DOMAIN files # {} => Newest = B /\ B \in DOMAIN files
  BY <1>1, NewestIsBase DEF Good, Replay, Types, Base
<1>4. /\ files' = files
      /\ active' = IF DOMAIN files = {} THEN NoFile ELSE B
      /\ old' = DOMAIN files \ {B}
      /\ nextTxID' = NextID(B)
      /\ mem' = BaseTable(B)
  <2>1. CASE DOMAIN files = {}
    <3>1. B = 0
      BY <1>1, <2>1 DEF Good, Replay, Base
    <3> QED
      BY <2>1, <3>1 DEF loadDataFile, BaseTable
  <2>2. CASE DOMAIN files # {}
    <3>1. files[B] # Torn
      BY <1>3, <2>2, TornAssumption DEF Types
    <3> QED
      BY <1>3, <2>2, <3>1 DEF loadDataFile, BaseTable
  <2> QED
    BY Zenon, <2>1, <2>2
<1>5. Dist(NextID(B), B) = 1 /\ NextID(B) \in TxID
  BY NextDist, DistFacts, ModulusFacts
<1>6. Replay(B, s, t)'
  BY <1>1, <1>2, <1>4, ReplaySame DEF Good, disk
<1>7. Kept(t)' /\ Known(B)' /\ InStep(B, s, t)' /\ Checkpointed(B, s)'
  BY <1>1, <1>2, <1>4 DEF Good, Kept, Known, InStep, Checkpointed
<1>8. Loading(B, s, t)'
  <2>1. mem' = t[0] /\ s <= Len(log) /\ Len(log) \in Nat
    BY <1>1, <1>4 DEF Good, Replay, Covered, Types
  <2>2. IF 1 <= s THEN TRUE ELSE s = 0
    OBVIOUS
  <2> QED
    BY <1>2, <1>4, <1>5, <2>1, <2>2 DEF Loading
<1>9. BaseTable(B) \in Table
  BY Zenon, <1>3 DEF BaseTable, Types, Table, EmptyTable
<1> QED
  BY <1>4, <1>5, <1>6, <1>7, <1>8, <1>9 DEF LogInv, Good

LEMMA EntryType ==
  ASSUME Types, NEW i \in 1 .. Len(log), log[i] # Torn
  PROVE  log[i] \in LogEntry /\ log[i].id \in TxID /\ log[i].op \in Operation
  BY DEF Types, LogEntry

LEMMA loadLogEntryInv ==
  ASSUME Types, LogInv, loadLogEntry
  PROVE  LogInv' /\ mem' \in Table /\ nextTxID' \in TxID
<1>1. PICK B \in TxID, s \in Nat, t \in Tables : Good(B, s, t)
  BY DEF LogInv
<1>2. /\ pos \in 1 .. Len(log) /\ mem = t[pos - 1] /\ Len(log) \in Nat
      /\ Dist(nextTxID, B) = IF pos <= s THEN 1 ELSE pos - s
      /\ \A i \in 1 .. pos - 1 : log[i] # Torn
      /\ s <= Len(log) /\ Len(log) - s <= Half
  <2>1. Loading(B, s, t) /\ Replay(B, s, t)
    BY <1>1 DEF Good
  <2>2. pc = "load" /\ pos <= Len(log)
    BY DEF loadLogEntry
  <2>3. s <= Len(log) /\ Len(log) - s <= Half
    BY <2>1 DEF Replay
  <2>4. /\ pos \in 1 .. Len(log) + 1 /\ mem = t[pos - 1]
        /\ Dist(nextTxID, B) = IF pos <= s THEN 1 ELSE pos - s
        /\ \A i \in 1 .. pos - 1 : log[i] # Torn
    BY <2>1, <2>2 DEF Loading
  <2>5. Len(log) \in Nat /\ pos \in 1 .. Len(log)
    BY <2>2, <2>4, LogLength
  <2> QED
    BY <2>3, <2>4, <2>5
<1>3. UNCHANGED <<active, old, disk, confirmed, stored, synced, logNeedsTruncate>>
  BY DEF loadLogEntry, history
<1> DEFINE txid == (nextTxID - 1) % TxMod
<1>4. txid \in TxID /\ NextID(txid) = nextTxID /\ Dist(txid, B) = Dist(nextTxID, B) - 1
  <2>1. nextTxID \in TxID /\ Dist(nextTxID, B) > 0
    BY <1>2 DEF Types
  <2> QED
    BY <2>1, PreviousDist
<1>5. Replay(B, s, t)' /\ Kept(t)' /\ Checkpointed(B, s)'
  <2>1. Replay(B, s, t)' /\ Kept(t)'
    BY <1>1, <1>3, ReplaySame DEF Good, Kept, disk
  <2>2. pc' \in {"load", "open"}
    BY DEF loadLogEntry
  <2>3. Checkpointed(B, s)'
    BY <1>1, <1>3, <2>2 DEF Good, Checkpointed, disk
  <2> QED
    BY <2>1, <2>3
<1>6. Known(B)'
  BY Zenon, <1>1, <1>3 DEF Good, Known, disk, loadLogEntry
<1>7. CASE log[pos] = Torn
  <2>1. /\ pc' = "open" /\ logInvalid' = TRUE /\ mem' = mem /\ nextTxID' = nextTxID
    BY Zenon, <1>7 DEF loadLogEntry
  <2>2. pos = Len(log)
    BY <1>1, <1>2, <1>7 DEF Good, Replay
  <2>3. t[Len(log)] = t[pos - 1]
    <3>1. CASE pos <= s
      <4>1. pos \in 0 .. s /\ pos - 1 \in 0 .. s
        BY <1>2, <3>1
      <4> QED
        BY <1>1, <2>2, <4>1 DEF Good, Replay, Covered
    <3>2. CASE pos > s
      <4>1. pos \in s + 1 .. Len(log)
        BY <1>2, <3>2
      <4> QED
        BY <1>1, <1>7, <2>2, <4>1 DEF Good, Replay, Following
    <3> QED
      BY <1>2, <3>1, <3>2
  <2>4. nextTxID # B
    BY <1>2, DistFacts
  <2>5. Loading(B, s, t)' /\ InStep(B, s, t)'
    BY <1>2, <1>3, <2>1, <2>3, <2>4 DEF Loading, InStep, disk
  <2> QED
    BY <1>5, <1>6, <2>1, <2>5 DEF LogInv, Good, Types
<1>8. CASE log[pos] # Torn
  <2>1. log[pos].id \in TxID /\ log[pos].op \in Operation
    BY <1>2, <1>8, EntryType
  <2>2. CASE pos <= s
    <3>1. txid = B
      BY <1>2, <1>4, <2>2, DistFacts
    <3>2. isTxIDLessEqual(log[pos].id, txid)
      <4>1. Dist(B, log[pos].id) < Half
        BY <1>1, <1>2, <1>8, <2>2 DEF Good, Replay, Covered
      <4> QED
        BY <2>1, <3>1, <4>1, LessEqualValue, DistFacts, ModulusFacts
    <3>3. /\ pc' = "load" /\ logInvalid' = FALSE /\ pos' = pos + 1
          /\ mem' = mem /\ nextTxID' = nextTxID
      BY Zenon, <1>8, <3>2 DEF loadLogEntry
    <3>4. t[pos] = t[pos - 1]
      <4>1. pos \in 0 .. s /\ pos - 1 \in 0 .. s
        BY <1>2, <2>2
      <4> QED
        BY <1>1, <4>1 DEF Good, Replay, Covered
    <3>5. Loading(B, s, t)' /\ InStep(B, s, t)'
      BY <1>2, <1>3, <1>8, <2>2, <3>3, <3>4 DEF Loading, InStep, disk
    <3> QED
      BY <1>5, <1>6, <3>3, <3>5 DEF LogInv, Good, Types
  <2>3. CASE pos > s
    <3>1. Dist(log[pos].id, B) = pos - s /\ t[pos] = Apply(t[pos - 1], log[pos].op)
      BY <1>1, <1>2, <1>8, <2>3 DEF Good, Replay, Following
    <3>2. log[pos].id = nextTxID
      BY <1>2, <2>1, <2>3, <3>1, SameDist DEF Types
    <3>3. ~isTxIDLessEqual(log[pos].id, txid)
      <4>1. Dist(nextTxID, txid) = 1
        <5> HIDE DEF txid
        <5>1. Dist(nextTxID, B) \in Int /\ nextTxID \in TxID
          BY DistFacts DEF Types
        <5>2. Dist(nextTxID, txid) = Dist(nextTxID, B) - Dist(txid, B)
          BY <1>4, <5>1, DistLess
        <5> QED
          BY <1>4, <5>1, <5>2
      <4>2. Dist(txid, nextTxID) = TxMod - 1
        BY <1>4, <4>1, DistFacts DEF Types
      <4> QED
        BY <1>4, <2>1, <3>2, <4>2, LessEqualValue, ModulusFacts
    <3>4. /\ pc' = "load" /\ logInvalid' = FALSE /\ pos' = pos + 1
          /\ mem' = Apply(mem, log[pos].op) /\ nextTxID' = NextID(nextTxID)
      BY Zenon, <1>4, <1>8, <3>2, <3>3 DEF loadLogEntry
    <3>5. mem' = t[pos] /\ mem' \in Table
      BY <1>2, <3>1, <3>4 DEF Tables
    <3>6. nextTxID' \in TxID /\ Dist(nextTxID', B) = pos - s + 1
      <4>1. Dist(nextTxID, B) = pos - s /\ pos - s + 1 < TxMod
        BY <1>2, <2>3, ModulusFacts
      <4> QED
        BY <3>4, <4>1, NextDist DEF Types
    <3>7. Loading(B, s, t)' /\ InStep(B, s, t)'
      BY <1>2, <1>3, <1>8, <2>3, <3>4, <3>5, <3>6 DEF Loading, InStep, disk
    <3> QED
      BY <1>5, <1>6, <3>5, <3>6, <3>7 DEF LogInv, Good
  <2> QED
    BY <1>2, <2>2, <2>3
<1> QED
  BY <1>7, <1>8

LEMMA loadLogEndInv ==
  ASSUME Types, Intact, LogInv, loadLogEnd
  PROVE  LogInv'
<1>1. PICK B \in TxID, s \in Nat, t \in Tables : Good(B, s, t)
  BY DEF LogInv
<1>2. /\ pc = "load" /\ pc' = "open" /\ pos > Len(log)
      /\ UNCHANGED <<memory, logState, disk, confirmed, stored, synced>>
  BY DEF loadLogEnd, Intact, Fault
<1>3. Replay(B, s, t)' /\ Kept(t)' /\ Known(B)' /\ Checkpointed(B, s)'
  BY <1>1, <1>2, ReplaySame DEF Good, Kept, Known, Checkpointed, disk, memory, logState
<1>4. /\ pos = Len(log) + 1 /\ mem = t[Len(log)] /\ Len(log) \in Nat
      /\ Dist(nextTxID, B) = IF pos <= s THEN 1 ELSE pos - s
      /\ s <= Len(log)
      /\ \A i \in 1 .. Len(log) : log[i] # Torn
  <2>1. Loading(B, s, t) /\ s <= Len(log) /\ Len(log) \in Nat
    BY <1>1, LogLength DEF Good, Replay
  <2>2. /\ pos \in 1 .. Len(log) + 1 /\ mem = t[pos - 1]
        /\ Dist(nextTxID, B) = IF pos <= s THEN 1 ELSE pos - s
        /\ \A i \in 1 .. pos - 1 : log[i] # Torn
    BY <1>2, <2>1 DEF Loading
  <2>3. pos = Len(log) + 1 /\ pos - 1 = Len(log)
    BY <1>2, <2>1, <2>2
  <2> QED
    BY <2>1, <2>2, <2>3
<1>5. Dist(nextTxID, B) = Len(log) - s + 1 /\ nextTxID # B
  BY <1>4, DistFacts DEF Types
<1>6. Loading(B, s, t)' /\ InStep(B, s, t)'
  BY <1>2, <1>4, <1>5 DEF Loading, InStep, disk, memory, logState
<1> QED
  BY <1>3, <1>6 DEF LogInv, Good

LEMMA StoppedInv ==
  ASSUME NEW B \in TxID, NEW s \in Nat, NEW t \in Tables,
         Replay(B, s, t)', Kept(t)', Stopped
  PROVE  LogInv'
<1>1. pc' = "closed" /\ logNeedsTruncate' = FALSE
  BY DEF Stopped
<1>2. Known(B)' /\ Loading(B, s, t)' /\ InStep(B, s, t)' /\ Checkpointed(B, s)'
  BY <1>1 DEF Known, Loading, InStep, Checkpointed
<1> QED
  BY <1>2 DEF LogInv, Good

LEMMA newDiskStoreInv ==
  ASSUME Types, StateInv, LogInv, newDiskStore
  PROVE  LogInv' /\ mem \in confirmed \cap stored
<1>1. PICK B \in TxID, s \in Nat, t \in Tables : Good(B, s, t)
  BY DEF LogInv
<1>2. /\ pc = "open" /\ pc' = "idle" /\ logNeedsTruncate' = FALSE
      /\ confirmed' = {mem} /\ stored' = IF outage THEN {mem} ELSE stored \cup {mem}
      /\ UNCHANGED <<memory, logInvalid, disk, synced>>
  BY DEF newDiskStore
<1>3. mem = t[Len(log)] /\ Len(log) \in Nat /\ synced \in 0 .. Len(log)
  <2>1. mem = t[Len(log)]
    BY Zenon, <1>1, <1>2 DEF Good, Loading
  <2>2. log \in Seq(LogEntry \cup {Torn}) /\ synced \in 0 .. Len(log)
    BY Zenon DEF Types
  <2> QED
    BY <2>1, <2>2
<1>4. Replay(B, s, t)' /\ Known(B)'
  BY <1>1, <1>2, ReplaySame DEF Good, Known, disk, memory
<1>5. Kept(t)'
  <2>1. outage => synced = Len(log)
    BY DEF StateInv
  <2> QED
    BY <1>1, <1>2, <1>3, <2>1 DEF Good, Kept, disk
<1>6. Loading(B, s, t)' /\ InStep(B, s, t)' /\ Checkpointed(B, s)'
  BY <1>1, <1>2, <1>3 DEF Good, Loading, InStep, Checkpointed, disk, memory
<1>7. mem \in confirmed \cap stored
  BY <1>1, <1>3 DEF Good, Kept
<1> QED
  BY <1>4, <1>5, <1>6, <1>7 DEF LogInv, Good

LEMMA openStoreFailsInv ==
  ASSUME LogInv, openStoreFails
  PROVE  LogInv'
<1>1. PICK B \in TxID, s \in Nat, t \in Tables : Good(B, s, t)
  BY DEF LogInv
<1>2. Stopped /\ UNCHANGED <<disk, history>>
  BY DEF openStoreFails
<1>3. Replay(B, s, t)' /\ Kept(t)'
  BY <1>1, <1>2, ReplaySame DEF Good, Kept, disk, history
<1> QED
  BY <1>2, <1>3, StoppedInv

-----------------------------------------------------------------------------
(* Updating the store *)

LEMMA UpdateInv ==
  ASSUME Types, StateInv, LogInv, NEW k \in Keys, NEW v \in Values \cup {NoValue}, Update(k, v)
  PROVE  LogInv'
<1>1. PICK B \in TxID, s \in Nat, t \in Tables : Good(B, s, t)
  BY DEF LogInv
<1>2. /\ pc = "idle" /\ pc' \in {"log", "checkpoint"}
      /\ op' = [key |-> k, val |-> v] /\ mem' = Apply(mem, op')
      /\ confirmed' = confirmed \cup {mem'} /\ stored' = stored \cup {mem'}
      /\ UNCHANGED <<nextTxID, active, old, logState, disk, synced>>
  BY DEF Update
<1>3. op' # NoOp
  BY Zenon, <1>2, MemLogAssumption DEF NoOp
<1>4. Replay(B, s, t)' /\ Kept(t)' /\ Known(B)' /\ Loading(B, s, t)' /\ Checkpointed(B, s)'
  BY Zenon, <1>1, <1>2, ReplaySame DEF Good, Kept, Known, Loading, Checkpointed, disk, logState
<1>5. InStep(B, s, t)'
  BY <1>1, <1>2, <1>3 DEF Good, InStep, disk, logState
<1> QED
  BY <1>4, <1>5 DEF LogInv, Good

LEMMA NoWriteInv ==
  ASSUME Types, StateInv, LogInv, Checkpoint \/ LogRefused \/ CheckpointFails
  PROVE  LogInv'
<1>1. PICK B \in TxID, s \in Nat, t \in Tables : Good(B, s, t)
  BY DEF LogInv
<1>2. /\ pc \in {"idle", "log", "checkpoint"} /\ pc' \in {"idle", "log", "checkpoint"}
      /\ UNCHANGED <<mem, nextTxID, active, old, logState, disk, confirmed, stored, synced>>
  BY DEF Checkpoint, LogRefused, CheckpointFails, Return, memory, history
<1>3. Replay(B, s, t)' /\ Kept(t)' /\ Known(B)' /\ Loading(B, s, t)' /\ Checkpointed(B, s)'
  BY Zenon, <1>1, <1>2, ReplaySame DEF Good, Kept, Known, Loading, Checkpointed, disk, logState
<1>4. InStep(B, s, t)'
  <2>1. CASE Checkpoint
    <3>1. pc = "idle" /\ op = NoOp /\ op' = op
      BY <2>1 DEF Checkpoint, StateInv, memory
    <3> QED
      BY <1>1, <1>2, <3>1 DEF Good, InStep, disk, logState
  <2>2. CASE LogRefused
    <3>1. logInvalid /\ logInvalid' = logInvalid /\ nextTxID' = nextTxID /\ nextTxID # B
      BY Zenon, <1>1, <1>2, <2>2 DEF Good, InStep, logState, LogRefused
    <3> QED
      BY Zenon, <3>1 DEF InStep
  <2>3. CASE CheckpointFails
    <3>1. pc = "checkpoint" /\ op' = op /\ pc' = IF op = NoOp THEN "idle" ELSE "log"
      BY <2>3 DEF CheckpointFails
    <3> QED
      BY <1>1, <1>2, <3>1 DEF Good, InStep, disk, logState
  <2> QED
    BY <2>1, <2>2, <2>3
<1> QED
  BY <1>3, <1>4 DEF LogInv, Good

LEMMA TruncateReplay ==
  ASSUME NEW B, NEW s \in Nat, NEW t, Replay(B, s, t), log' = <<>>, files' = files
  PROVE  Replay(B, 0, t)'
<1>1. Len(log') = 0
  OBVIOUS
<1>2. Base(B)' /\ BaseTable(B)' = BaseTable(B)
  BY DEF Replay, Base, BaseTable
<1>3. t[0] = BaseTable(B)
  BY DEF Replay, Covered
<1>4. Covered(B, 0, t)'
  BY <1>2, <1>3 DEF Covered
<1>5. Following(B, 0, t)'
  BY <1>1 DEF Following
<1> QED
  BY <1>1, <1>2, <1>4, <1>5, ModulusFacts DEF Replay

(* There is room for another entry. *)
LEMMA WindowBound ==
  ASSUME Types, Intact, NEW B \in TxID, NEW s \in Nat, NEW t, Good(B, s, t),
         pc = "log", ~logInvalid, InWindow
  PROVE  Len(log) - s + 1 <= Half
<1>1. /\ Len(log) \in Nat /\ s <= Len(log) /\ Dist(nextTxID, B) = Len(log) - s + 1
      /\ \A i \in 1 .. Len(log) : log[i] # Torn
  <2>1. Replay(B, s, t) /\ InStep(B, s, t)
    BY DEF Good
  <2>2. Len(log) \in Nat /\ s <= Len(log)
    BY <2>1, LogLength DEF Replay
  <2> QED
    BY <2>1, <2>2 DEF InStep
<1>2. CASE s = Len(log)
  BY <1>1, <1>2, ModulusFacts
<1>3. CASE s < Len(log)
  <2>1. PICK i \in 1 .. Len(log) : i = s + 1
    BY <1>1, <1>3
  <2>2. log[i] # Torn /\ log[i].id \in TxID /\ nextTxID \in TxID
    BY Zenon, <1>1, EntryType DEF Types
  <2>3. Dist(log[i].id, B) = 1
    BY <1>1, <2>1, <2>2 DEF Good, Replay, Following
  <2>4. Dist(nextTxID, log[i].id) = Len(log) - s
    <3>1. Dist(log[i].id, B) <= Dist(nextTxID, B)
      BY <1>1, <1>3, <2>3
    <3>2. Dist(nextTxID, log[i].id) = Dist(nextTxID, B) - Dist(log[i].id, B)
      BY <2>2, <3>1, DistLess
    <3> QED
      BY <1>1, <2>3, <3>2
  <2>5. log[i].id \in StoredIDs
    <3>1. i \in DOMAIN log
      BY DEF Types
    <3> QED
      BY <2>2, <3>1 DEF StoredIDs
  <2>6. Dist(nextTxID, log[i].id) < MaxAge
    BY Zenon, <2>5 DEF InWindow, Dist
  <2> QED
    BY <1>1, <2>4, <2>6, ModulusFacts, MemLogAssumption DEF Intact, Half
<1> QED
  BY <1>1, <1>2, <1>3

LEMMA EntryInv ==
  ASSUME Types, StateInv, Intact, NEW B \in TxID, NEW s \in Nat, NEW t \in Tables,
         Good(B, s, t), pc = "log", ~logInvalid, logOpen
  PROVE  /\ Len(log) \in Nat /\ Len(log) - s + 1 <= Half /\ s <= Len(log)
         /\ Dist(nextTxID, B) = Len(log) - s + 1
         /\ \A i \in 1 .. Len(log) : log[i] # Torn
         /\ mem = Apply(t[Len(log)], op) /\ mem \in confirmed /\ mem \in stored
         /\ Entry \in LogEntry /\ Entry # Torn /\ Entry.id = nextTxID /\ Entry.op = op
         /\ ~logNeedsTruncate
<1>1. Len(log) - s + 1 <= Half
  BY WindowBound DEF StateInv
<1>2. op \in Operation /\ op # NoOp
  BY DEF StateInv, Types
<1>3. Entry \in LogEntry /\ Entry.id = nextTxID /\ Entry.op = op
  BY <1>2 DEF Entry, LogEntry, Types
<1>4. Entry # Torn
  BY <1>3, TornAssumption
<1>5. mem \in confirmed /\ mem \in stored /\ ~logNeedsTruncate
  BY DEF StateInv, Ready
<1>6. Replay(B, s, t) /\ InStep(B, s, t)
  BY DEF Good
<1>7. Len(log) \in Nat /\ s <= Len(log)
  BY <1>6, LogLength DEF Replay
<1>8. /\ Dist(nextTxID, B) = Len(log) - s + 1
      /\ \A i \in 1 .. Len(log) : log[i] # Torn
      /\ mem = Apply(t[Len(log)], op)
  BY <1>2, <1>6 DEF InStep
<1> QED
  BY Zenon, <1>1, <1>3, <1>4, <1>5, <1>7, <1>8

(* An entry, or a part of one, in the log, whoever is told *)
LEMMA WrittenInv ==
  ASSUME Types, StateInv, Intact, NEW B \in TxID, NEW s \in Nat, NEW t \in Tables,
         Good(B, s, t), pc = "log", ~logInvalid, logOpen,
         log' = Append(log, Torn) \/ log' = Append(log, Entry),
         UNCHANGED <<files, stored, synced>>,
         confirmed' = confirmed \/ (confirmed' = {mem} /\ log' = Append(log, Entry))
  PROVE  \E t1 \in Tables : /\ Replay(B, s, t1)' /\ Kept(t1)'
                            /\ log' = Append(log, Entry) => t1[Len(log')] = mem
<1>1. PICK e : log' = Append(log, e) /\ e = IF log' = Append(log, Entry) THEN Entry ELSE Torn
  OBVIOUS
<1>2. PICK u \in Table : u = IF e = Torn THEN t[Len(log)] ELSE mem
  BY Zenon, EntryInv DEF Types, Tables
<1>3. /\ e = Torn => u = t[Len(log)]
      /\ e # Torn => Dist(e.id, B) = Len(log) - s + 1 /\ u = Apply(t[Len(log)], e.op)
  BY Zenon, <1>1, <1>2, EntryInv
<1>4. PICK t1 : t1 = [t EXCEPT ![Len(log) + 1] = u]
  BY Zenon
<1>5. /\ Replay(B, s, t) /\ s <= Len(log) /\ Len(log) - s + 1 <= Half
      /\ \A i \in 1 .. Len(log) : log[i] # Torn
  BY EntryInv DEF Good
<1>6. /\ Len(log) \in Nat /\ Len(log') = Len(log) + 1 /\ log'[Len(log) + 1] = e
      /\ \A i \in 1 .. Len(log) : log'[i] = log[i]
  <2>1. log \in Seq(LogEntry \cup {Torn}) /\ Len(log) \in Nat
    BY LogLength
  <2>2. e \in LogEntry \cup {Torn} /\ log' = Append(log, e)
    BY <1>1, EntryInv
  <2>3. Len(log') = Len(log) + 1
    BY <2>1, <2>2
  <2>4. log'[Len(log) + 1] = e
    BY <2>1, <2>2
  <2>5. \A i \in 1 .. Len(log) : log'[i] = log[i]
    BY <2>1, <2>2
  <2> QED
    BY Zenon, <2>1, <2>3, <2>4, <2>5
<1>7. t1 \in Tables /\ t1[Len(log) + 1] = u /\ \A i \in 0 .. Len(log) : t1[i] = t[i]
  <2>1. Len(log) + 1 \in Nat /\ \A i \in 0 .. Len(log) : i \in Nat /\ i # Len(log) + 1
    BY <1>6
  <2>2. t \in [Nat -> Table]
    BY DEF Tables
  <2> QED
    BY <1>2, <1>4, <2>1, <2>2 DEF Tables
<1>8. Replay(B, s, t1)'
  <2>1. Base(B)' /\ BaseTable(B)' = BaseTable(B)
    BY <1>5 DEF Replay, Base, BaseTable
  <2>2. Covered(B, s, t1)'
    <3>1. s <= Len(log) /\ Len(log) \in Nat
      BY Zenon, <1>5, <1>6
    <3>2. (\A i \in 0 .. s : i \in 0 .. Len(log)) /\ (\A i \in 1 .. s : i \in 1 .. Len(log))
      BY <3>1
    <3>3. Covered(B, s, t)
      BY <1>5 DEF Replay
    <3> QED
      BY Zenon, <1>6, <1>7, <2>1, <3>1, <3>2, <3>3 DEF Covered
  <2>3. Following(B, s, t1)'
    <3> SUFFICES ASSUME NEW i \in s + 1 .. Len(log) + 1
                 PROVE  IF log'[i] = Torn THEN t1[i] = t1[i - 1]
                        ELSE Dist(log'[i].id, B) = i - s /\ t1[i] = Apply(t1[i - 1], log'[i].op)
      BY Zenon, <1>6 DEF Following
    <3>1. CASE i = Len(log) + 1
      <4>1. i - 1 = Len(log) /\ Len(log) \in 0 .. Len(log) /\ i - s = Len(log) - s + 1
        BY <1>6, <3>1
      <4> QED
        BY Zenon, <1>3, <1>6, <1>7, <3>1, <4>1
    <3>2. CASE i \in s + 1 .. Len(log)
      <4>1. i \in 1 .. Len(log) /\ i \in 0 .. Len(log) /\ i - 1 \in 0 .. Len(log)
        BY <1>6, <3>2
      <4> QED
        BY Zenon, <1>5, <1>6, <1>7, <3>2, <4>1 DEF Replay, Following
    <3>3. i = Len(log) + 1 \/ i \in s + 1 .. Len(log)
      BY <1>6
    <3> QED
      BY <3>1, <3>2, <3>3
  <2>4. \A i \in 1 .. Len(log') : log'[i] = Torn => i = Len(log')
    BY <1>5, <1>6
  <2>5. s <= Len(log') /\ Len(log') - s <= Half
    BY <1>5, <1>6, ModulusFacts
  <2> QED
    BY <2>1, <2>2, <2>3, <2>4, <2>5 DEF Replay
<1>9. /\ log' = Append(log, Entry) => u = mem
      /\ u \in confirmed' /\ u \in stored
  <2>1. t[Len(log)] \in confirmed /\ t[Len(log)] \in stored
    <3>1. Kept(t)
      BY DEF Good
    <3>2. Len(log) \in synced .. Len(log)
      BY LogLength
    <3> QED
      BY <3>1, <3>2 DEF Kept
  <2>2. mem \in confirmed /\ mem \in stored /\ Entry # Torn
    BY EntryInv
  <2>3. log' = Append(log, Entry) => u = mem
    BY <1>1, <1>2, <2>2
  <2> QED
    BY <1>2, <2>1, <2>2, <2>3
<1>10. \A n \in synced .. Len(log) + 1 : t1[n] \in stored
  <2> SUFFICES ASSUME NEW n \in synced .. Len(log) + 1
               PROVE  t1[n] \in stored
    OBVIOUS
  <2>1. CASE n = Len(log) + 1
    BY <1>7, <1>9, <2>1
  <2>2. CASE n \in synced .. Len(log)
    <3>1. n \in 0 .. Len(log)
      BY <2>2 DEF Types
    <3> QED
      BY <1>7, <2>2, <3>1 DEF Good, Kept
  <2>3. n = Len(log) + 1 \/ n \in synced .. Len(log)
    <3>1. Len(log) \in Nat /\ synced \in Nat
      BY LogLength
    <3> QED
      BY <3>1
  <2> QED
    BY <2>1, <2>2, <2>3
<1>11. Kept(t1)'
  BY Zenon, <1>6, <1>7, <1>9, <1>10 DEF Kept
<1> QED
  BY Zenon, <1>6, <1>7, <1>8, <1>9, <1>11

LEMMA LogWriteInv ==
  ASSUME Types, StateInv, Intact, LogInv, LogWrite
  PROVE  LogInv'
<1>1. PICK B \in TxID, s \in Nat, t \in Tables : Good(B, s, t)
  BY DEF LogInv
<1>2. /\ pc = "log" /\ ~logInvalid /\ logOpen /\ pc' = "idle"
      /\ log' = Append(log, Entry) /\ nextTxID' = NextID(nextTxID)
      /\ UNCHANGED <<mem, active, old, logInvalid, logNeedsTruncate, files, stored, synced>>
      /\ confirmed' = confirmed \/ confirmed' = {mem}
  BY DEF LogWrite, Return
<1>3. PICK t1 \in Tables : Replay(B, s, t1)' /\ Kept(t1)' /\ t1[Len(log')] = mem
  BY <1>1, <1>2, WrittenInv
<1>4. /\ Len(log) \in Nat /\ s <= Len(log) /\ Len(log) - s + 1 <= Half
      /\ Dist(nextTxID, B) = Len(log) - s + 1 /\ ~logNeedsTruncate
      /\ Entry # Torn /\ \A i \in 1 .. Len(log) : log[i] # Torn
  BY <1>1, <1>2, EntryInv
<1>5. Len(log') = Len(log) + 1 /\ \A i \in 1 .. Len(log) + 1 : log'[i] # Torn
  <2>1. log \in Seq(LogEntry \cup {Torn}) /\ Entry \in LogEntry
    BY Zenon, <1>1, <1>2, LogLength, EntryInv
  <2>2. Len(log') = Len(log) + 1
    BY <1>2, <2>1
  <2>3. log'[Len(log) + 1] = Entry /\ \A i \in 1 .. Len(log) : log'[i] = log[i]
    BY <1>2, <1>4, <2>1
  <2> QED
    BY <1>4, <2>2, <2>3
<1>6. Dist(nextTxID', B) = Len(log') - s + 1 /\ nextTxID' \in TxID
  <2>1. Dist(nextTxID, B) + 1 < TxMod /\ nextTxID \in TxID
    BY <1>4, ModulusFacts DEF Types
  <2>2. nextTxID' \in TxID /\ Dist(nextTxID', B) = Dist(nextTxID, B) + 1
    BY <1>2, <2>1, NextDist
  <2> QED
    BY <1>4, <1>5, <2>2
<1>7. nextTxID' # B
  <2>1. Dist(nextTxID', B) # 0
    BY <1>4, <1>5, <1>6
  <2> QED
    BY <1>6, <2>1, DistFacts
<1>8. Known(B)' /\ Loading(B, s, t1)' /\ Checkpointed(B, s)'
  BY Zenon, <1>1, <1>2, <1>4 DEF Good, Known, Loading, Checkpointed
<1>9. InStep(B, s, t1)'
  BY <1>2, <1>3, <1>5, <1>6, <1>7 DEF InStep
<1> QED
  BY <1>3, <1>8, <1>9 DEF LogInv, Good

LEMMA LogWriteFailsInv ==
  ASSUME Types, StateInv, Intact, LogInv, LogWriteFails
  PROVE  LogInv'
<1>1. PICK B \in TxID, s \in Nat, t \in Tables : Good(B, s, t)
  BY DEF LogInv
<1>2. /\ pc = "log" /\ ~logInvalid /\ logOpen /\ pc' = "idle" /\ logInvalid' = TRUE
      /\ log' = log \/ log' = Append(log, Torn) \/ log' = Append(log, Entry)
      /\ UNCHANGED <<mem, nextTxID, active, old, logNeedsTruncate, files, stored, synced,
                     confirmed>>
  BY DEF LogWriteFails, Return
<1>3. PICK t1 \in Tables : Replay(B, s, t1)' /\ Kept(t1)'
  <2>1. CASE log' = log
    <3>1. Replay(B, s, t)' /\ Kept(t)'
      BY <1>1, <1>2, <2>1, ReplaySame DEF Good, Kept, disk
    <3> QED
      BY <3>1
  <2>2. CASE log' = Append(log, Torn) \/ log' = Append(log, Entry)
    BY <1>1, <1>2, <2>2, WrittenInv
  <2> QED
    BY <1>2, <2>1, <2>2
<1>4. nextTxID' # B /\ ~logNeedsTruncate
  BY Zenon, <1>1, <1>2, EntryInv DEF Good, InStep
<1>5. Known(B)' /\ Loading(B, s, t1)' /\ Checkpointed(B, s)' /\ InStep(B, s, t1)'
  BY Zenon, <1>1, <1>2, <1>4 DEF Good, Known, Loading, Checkpointed, InStep
<1> QED
  BY <1>3, <1>5 DEF LogInv, Good

(* What is left of a log after the entries a checkpoint covers *)
LEMMA EmptiedInv ==
  ASSUME Types, NEW B \in TxID, NEW t \in Tables, Replay(B, Len(log), t), Kept(t),
         log' = <<>>, synced' = 0, UNCHANGED <<files, confirmed, stored>>
  PROVE  Replay(B, 0, t)' /\ Kept(t)' /\ Len(log') = 0
<1>1. Len(log) \in Nat /\ synced \in 0 .. Len(log) /\ Len(log') = 0
  BY DEF Types
<1>2. t[0] = t[Len(log)]
  BY <1>1 DEF Replay, Covered
<1>3. Kept(t)'
  BY <1>1, <1>2 DEF Kept
<1> QED
  BY <1>1, <1>3, TruncateReplay

LEMMA tryOpenLogInv ==
  ASSUME Types, StateInv, LogInv, tryOpenLog
  PROVE  LogInv'
<1>1. PICK B \in TxID, s \in Nat, t \in Tables : Good(B, s, t)
  BY DEF LogInv
<1>2. /\ pc = "log" /\ ~logInvalid
      /\ UNCHANGED <<mem, nextTxID, active, old, files, stored, confirmed>>
      /\ \/ pc' = "log" /\ op' = op /\ logInvalid' = FALSE /\ logNeedsTruncate' = FALSE
         \/ pc' = "idle" /\ logInvalid' = TRUE /\ logNeedsTruncate' = logNeedsTruncate
  BY DEF tryOpenLog, Return
<1>3. \/ log' = log /\ synced' = synced /\ (logNeedsTruncate => logNeedsTruncate')
      \/ logNeedsTruncate /\ log' = <<>> /\ synced' = 0
  BY Zenon DEF tryOpenLog, Types
<1>4. CASE log' = log /\ synced' = synced
  <2>1. Replay(B, s, t)' /\ Kept(t)' /\ Known(B)' /\ Loading(B, s, t)' /\ InStep(B, s, t)'
    BY Zenon, <1>1, <1>2, <1>4, ReplaySame DEF Good, Kept, Known, Loading, InStep, disk
  <2>2. Checkpointed(B, s)'
    BY <1>1, <1>2, <1>4 DEF Good, Checkpointed
  <2> QED
    BY <2>1, <2>2 DEF LogInv, Good
<1>5. CASE logNeedsTruncate /\ log' = <<>> /\ synced' = 0
  <2>1. s = Len(log) /\ Len(log) \in Nat
    BY <1>1, <1>5 DEF Good, Checkpointed, Types
  <2>2. Replay(B, 0, t)' /\ Kept(t)' /\ Len(log') = 0
    BY <1>1, <1>2, <1>5, <2>1, EmptiedInv DEF Good
  <2>3. t[0] = t[Len(log)]
    BY <1>1, <2>1 DEF Good, Replay, Covered
  <2>4. Dist(nextTxID, B) = 1 /\ nextTxID # B
    BY <1>1, <1>2, <2>1 DEF Good, InStep
  <2>5. InStep(B, 0, t)'
    <3>1. ~logInvalid' => pc' = "log" /\ op' = op
      BY <1>2
    <3>2. InStep(B, s, t) /\ op # NoOp
      BY <1>1, <1>2 DEF Good, StateInv
    <3>3. mem = Apply(t[Len(log)], op)
      BY <1>2, <3>2 DEF InStep
    <3>4. UNCHANGED <<mem, nextTxID>> /\ Len(log') = 0
      BY <1>2, <2>2
    <3>5. mem' = Apply(t[0], op)
      BY <2>3, <3>3, <3>4
    <3>6. nextTxID' # B /\ Dist(nextTxID', B) = 1
      BY <2>4, <3>4
    <3>7. /\ \A i \in 1 .. Len(log') : log'[i] # Torn
          /\ Dist(nextTxID', B) = Len(log') - 0 + 1
          /\ mem' = Apply(t[Len(log')], op)
      BY <3>4, <3>5, <3>6
    <3> QED
      BY Zenon, <3>1, <3>2, <3>6, <3>7 DEF InStep
  <2>6. Known(B)' /\ Loading(B, 0, t)' /\ Checkpointed(B, 0)'
    BY Zenon, <1>1, <1>2, <2>2 DEF Good, Known, Loading, Checkpointed
  <2> QED
    BY <2>2, <2>5, <2>6 DEF LogInv, Good
<1> QED
  BY <1>3, <1>4, <1>5
===============================================================================
