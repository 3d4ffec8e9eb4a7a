----------------------------- MODULE DurableQueue -----------------------------
(***************************************************************************)
(* What a queue on disk promises: the events it has confirmed are handed   *)
(* out in the order they came in, none left out, and after a restart again *)
(* from one that is not later than the first event without acknowledgment. *)
(***************************************************************************)
EXTENDS Naturals, FiniteSets

CONSTANT Event    \* events are numbered in the order they are published

VARIABLES
    stored,   \* the events confirmed to their producers or found on disk
    handed,   \* the last event handed out in this session, 0 if none
    settled   \* the events acknowledged by the consumers

abstractVars == <<stored, handed, settled>>

AbstractInit == stored = {} /\ handed = 0 /\ settled = {}

(* New events are later than all that were handed out. *)
Store ==
    /\ \E new \in SUBSET Event :
         /\ \A e \in new : e > handed
         /\ stored' = stored \cup new
    /\ UNCHANGED <<handed, settled>>

HandOut ==
    /\ \E e \in stored :
         /\ e > handed
         /\ \A d \in stored : d > handed => d >= e
         /\ handed' = e
    /\ UNCHANGED <<stored, settled>>

Acknowledge ==
    /\ \E some \in SUBSET stored :
         /\ \A e \in some : e <= handed
         /\ settled' = settled \cup some
    /\ UNCHANGED <<stored, handed>>

(* A new session finds what was confirmed, and perhaps more. *)
Reopen ==
    /\ stored' \in {stored \cup new : new \in SUBSET Event}
    /\ handed' \in {0} \cup stored'
    /\ \A e \in stored' \ settled : e > handed'
    /\ UNCHANGED settled

AbstractNext == Store \/ HandOut \/ Acknowledge \/ Reopen

AbstractSpec == AbstractInit /\ [][AbstractNext]_abstractVars
===============================================================================
