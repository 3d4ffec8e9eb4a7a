----------------------------- MODULE DurableStore -----------------------------
(***************************************************************************)
(* What a state store promises its users: a table of key-value pairs that  *)
(* survives restarts.  A failed or interrupted update may or may not be    *)
(* there after a restart, a confirmed one is, unless the machine itself    *)
(* went down with data it had not yet synchronised.                        *)
(***************************************************************************)
CONSTANTS
    Keys,
    Values,
    NoValue

VARIABLES
    table,       \* the key-value pairs, as the users see them
    up,          \* whether the store is open
    candidates,  \* the tables a restart of the process may come back with
    unsynced     \* the tables a restart of the machine may come back with

abstractVars == <<table, up, candidates, unsynced>>

Table == [Keys -> Values \cup {NoValue}]

EmptyTable == [k \in Keys |-> NoValue]

AbstractInit ==
    /\ table = EmptyTable
    /\ up = FALSE
    /\ candidates = {EmptyTable}
    /\ unsynced = {EmptyTable}

(* An update takes effect in memory; it may have reached the disk or not.  *)
Change ==
    /\ up
    /\ \E k \in Keys, v \in Values \cup {NoValue} : table' = [table EXCEPT ![k] = v]
    /\ candidates' = candidates \cup {table'}
    /\ unsynced' = unsynced \cup {table'}
    /\ up' = up

(* The store answers that the table is stored ... *)
Confirm ==
    /\ up
    /\ candidates' = {table}
    /\ unsynced' \in {unsynced, {table}}
    /\ UNCHANGED <<table, up>>

(* ... and stops, in order, with a crash, or with the machine. *)
Stop ==
    /\ up' = FALSE
    /\ table' = EmptyTable
    /\ \/ UNCHANGED <<candidates, unsynced>>
       \/ unsynced' = candidates /\ candidates' = candidates
       \/ candidates' = unsynced /\ unsynced' = unsynced

(* An opened store has one of the tables it may come back with. *)
Recover ==
    /\ ~up
    /\ up' = TRUE
    /\ table' \in candidates
    /\ candidates' = {table'}
    /\ unsynced' \in {unsynced, {table'}}

AbstractNext == Change \/ Confirm \/ Stop \/ Recover

AbstractSpec == AbstractInit /\ [][AbstractNext]_abstractVars
===============================================================================
