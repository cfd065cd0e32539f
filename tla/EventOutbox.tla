---------------------------- MODULE EventOutbox ----------------------------
(***************************************************************************)
(* What the MQTT event topic promises about the event table, whatever      *)
(* process, connection or file fails: first deliveries follow the table,   *)
(* in order and without a gap, from a base on.  The base may move only     *)
(* while no cursor has been secured on disk.  Redeliveries are stutters.   *)
(***************************************************************************)
EXTENDS Integers

VARIABLES
  stored,     \* number of rows; event_id runs from 1 to stored
  delivered,  \* the rows that the broker has received
  base,       \* nothing up to this row is owed; -1: not yet decided
  secured     \* a cursor is on disk

vars == <<stored, delivered, base, secured>>

Init == stored = 0 /\ delivered = {} /\ base = -1 /\ secured = FALSE

Store ==
  /\ stored' = stored + 1
  /\ UNCHANGED <<delivered, base, secured>>

Settle ==
  /\ ~secured
  /\ base' \in 0..stored /\ base' >= base
  /\ secured' \in BOOLEAN
  /\ UNCHANGED <<stored, delivered>>

Secure ==
  /\ base # -1
  /\ secured' = TRUE
  /\ UNCHANGED <<stored, delivered, base>>

Deliver(id) ==
  /\ base # -1 /\ id \in (base + 1)..stored
  /\ \A earlier \in (base + 1)..(id - 1) : earlier \in delivered
  /\ delivered' = delivered \union {id}
  /\ UNCHANGED <<stored, base, secured>>

Next == Store \/ Settle \/ Secure \/ \E id \in 1..stored : Deliver(id)

Spec == Init /\ [][Next]_vars
=============================================================================
