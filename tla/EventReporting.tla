--------------------------- MODULE EventReporting ---------------------------
(***************************************************************************)
(* The event table between its writer and its reporter:                    *)
(* userspace/sqlite_eventd/sqlite_eventd.c (database_insert_event) and     *)
(* userspace/mqtt_reporterd/mqtt_reporterd.c (publish_events and main).    *)
(*                                                                         *)
(* The two processes share an SQLite file with a rollback journal.  The    *)
(* reporter keeps a SHARED lock as long as its SELECT has rows left, and   *)
(* it publishes each row to the broker, and waits, before it steps to the  *)
(* next.  The writer's COMMIT needs the file to itself; it waits for       *)
(* 100 ms.  Each kind of failure happens at most MaxFailures times.        *)
(***************************************************************************)
EXTENDS Integers

CONSTANTS
  Batch,          \* LIMIT of the SELECT
  ReplayHistory,  \* MQTT_REPLAY_HISTORY
  MaxEvents,      \* bound on the events noticed
  MaxFailures     \* bound on the failures of each kind

ASSUME ReportingAssumption ==
  Batch \in Nat \ {0} /\ ReplayHistory \in BOOLEAN /\ MaxEvents \in Nat /\ MaxFailures \in Nat

VARIABLES
  \* sqlite_eventd and the file.
  writer,         \* "down", "idle" or "commit": in a transaction, before COMMIT
  open,           \* a COMMIT failed, and its transaction is still open
  lock,           \* the writer's lock: "none", "reserved" or "pending"
  stored,         \* rows in the table
  noticed, lost,  \* events that record_event was called for; those it lost
  \* mqtt_reporterd.
  pc,             \* "down", "top" of the loop, "send" or "save"
  connected,
  cursor, cursor_ready,
  file,           \* the cursor on disk; -1: none
  last,           \* the last row of the present SELECT
  \* The broker.
  broker,         \* "up" or "down"
  received,       \* rows it has received
  \* Observations: nothing depends on them.
  base,           \* the row that the cursor started at; -1: not started
  repeats,        \* receptions of a row received before
  failures        \* failures of each kind so far

writerVars   == <<writer, open, lock, stored, noticed, lost>>
reporterVars == <<pc, connected, cursor, cursor_ready, file, last, base>>
brokerVars   == <<broker, received, repeats>>
vars == <<writerVars, reporterVars, brokerVars, failures>>

Kind == {"slow", "insert", "restart", "ack", "save", "crash", "outage"}

Fail(kind) ==
  /\ failures[kind] < MaxFailures
  /\ failures' = [failures EXCEPT ![kind] = @ + 1]

Init ==
  /\ writer = "idle" /\ open = FALSE /\ lock = "none"
  /\ stored = 0 /\ noticed = 0 /\ lost = 0
  /\ pc = "down" /\ connected = FALSE
  /\ cursor = 0 /\ cursor_ready = FALSE /\ file = -1 /\ last = 0
  /\ broker = "up" /\ received = {}
  /\ base = -1 /\ repeats = 0 /\ failures = [kind \in Kind |-> 0]

-----------------------------------------------------------------------------
(* The writer.                                                             *)

\* The SELECT of the reporter has rows left.
ReaderHolds == pc \in {"send", "save"}

\* record_event up to COMMIT.  BEGIN IMMEDIATE fails inside a transaction.
Record ==
  /\ writer = "idle" /\ noticed < MaxEvents
  /\ noticed' = noticed + 1
  /\ IF open THEN lost' = lost + 1 /\ UNCHANGED <<writer, lock>>
             ELSE writer' = "commit" /\ lock' = "reserved" /\ UNCHANGED lost
  /\ UNCHANGED <<open, stored, reporterVars, brokerVars, failures>>

\* The INSERT fails, and is rolled back.
InsertFails ==
  /\ writer = "commit" /\ lock = "reserved"
  /\ Fail("insert")
  /\ writer' = "idle" /\ lock' = "none" /\ lost' = lost + 1
  /\ UNCHANGED <<open, stored, noticed, reporterVars, brokerVars>>

Commit ==
  /\ writer = "commit" /\ ~ReaderHolds
  /\ writer' = "idle" /\ lock' = "none" /\ stored' = stored + 1
  /\ UNCHANGED <<open, noticed, lost, reporterVars, brokerVars, failures>>

\* COMMIT finds a reader and keeps new ones out while it waits.
CommitWaits ==
  /\ writer = "commit" /\ lock = "reserved" /\ ReaderHolds
  /\ lock' = "pending"
  /\ UNCHANGED <<writer, open, stored, noticed, lost, reporterVars, brokerVars, failures>>

\* The reader waits for the broker longer than COMMIT waits for the reader.
\* There is no ROLLBACK on this path: transaction and lock stay.
CommitTimesOut ==
  /\ writer = "commit" /\ lock = "pending" /\ ReaderHolds
  /\ Fail("slow")
  /\ writer' = "idle" /\ open' = TRUE /\ lost' = lost + 1
  /\ UNCHANGED <<lock, stored, noticed, reporterVars, brokerVars>>

\* The process dies; its open transaction is rolled back.
WriterCrash ==
  /\ writer # "down"
  /\ Fail("restart")
  /\ writer' = "down" /\ open' = FALSE /\ lock' = "none"
  /\ lost' = IF writer = "commit" THEN lost + 1 ELSE lost
  /\ UNCHANGED <<stored, noticed, reporterVars, brokerVars>>

WriterStart ==
  /\ writer = "down"
  /\ writer' = "idle"
  /\ UNCHANGED <<open, lock, stored, noticed, lost, reporterVars, brokerVars, failures>>

-----------------------------------------------------------------------------
(* The reporter.                                                           *)

\* Mutant of Loaded: the file is not checked.
LoadedUnchecked == file

\* load_cursor; MQTT_REPLAY_HISTORY takes the place of a missing file.
Loaded == IF file # -1 THEN file ELSE 0

Start ==
  /\ pc = "down"
  /\ pc' = "top" /\ connected' = FALSE
  /\ cursor' = Loaded /\ cursor_ready' = (file # -1 \/ ReplayHistory)
  /\ base' = IF file = -1 /\ ReplayHistory THEN 0 ELSE base
  /\ UNCHANGED <<file, last, writerVars, brokerVars, failures>>

\* Mutant of Connect: only a process that has reported nothing yet connects.
ConnectFirst ==
  /\ pc = "top" /\ ~connected /\ broker = "up" /\ cursor = 0
  /\ connected' = TRUE
  /\ UNCHANGED <<pc, cursor, cursor_ready, file, last, base, writerVars, brokerVars,
                 failures>>

\* main: a connection counts once "online" is published.
Connect ==
  /\ pc = "top" /\ ~connected /\ broker = "up"
  /\ connected' = TRUE
  /\ UNCHANGED <<pc, cursor, cursor_ready, file, last, base, writerVars, brokerVars,
                 failures>>

\* "online" is acknowledged too late: the connection is closed again.
ConnectFails ==
  /\ pc = "top" /\ ~connected /\ broker = "up"
  /\ Fail("ack")
  /\ UNCHANGED <<reporterVars, writerVars, brokerVars>>

\* publish_status fails, because the broker does not get it or answers too late.
StatusFails ==
  /\ pc = "top" /\ connected
  /\ \/ broker = "down" /\ UNCHANGED failures
     \/ broker = "up" /\ Fail("ack")
  /\ connected' = FALSE
  /\ UNCHANGED <<pc, cursor, cursor_ready, file, last, base, writerVars, brokerVars>>

\* Mutant of SaveCursor: the cursor before the latest is written.
SaveCursorLate(id) ==
  \/ file' = id - 1 /\ UNCHANGED failures
  \/ UNCHANGED file /\ Fail("save")

\* save_cursor: the file is replaced as a whole or not at all.
SaveCursor(id) ==
  \/ file' = id /\ UNCHANGED failures
  \/ UNCHANGED file /\ Fail("save")

\* initialize_cursor: without a cursor nothing of the past is reported.
InitializeCursor ==
  /\ pc = "top" /\ connected /\ ~cursor_ready /\ lock # "pending"
  /\ cursor' = stored /\ cursor_ready' = TRUE /\ base' = stored
  /\ SaveCursor(stored)
  /\ UNCHANGED <<pc, connected, last, writerVars, brokerVars>>

\* The SELECT; its rows are fixed as long as the lock is held.
Query ==
  /\ pc = "top" /\ connected /\ cursor_ready /\ lock # "pending"
  /\ stored > cursor
  /\ pc' = "send"
  /\ last' = IF stored > cursor + Batch THEN cursor + Batch ELSE stored
  /\ UNCHANGED <<connected, cursor, cursor_ready, file, base, writerVars, brokerVars,
                 failures>>

Receive(id) ==
  /\ received' = received \union {id}
  /\ repeats' = IF id \in received THEN repeats + 1 ELSE repeats
  /\ UNCHANGED broker

\* The broker has acknowledged the row.
Publish ==
  /\ pc = "send" /\ broker = "up"
  /\ Receive(cursor + 1)
  /\ pc' = "save"
  /\ UNCHANGED <<connected, cursor, cursor_ready, file, last, base, writerVars, failures>>

\* Mutant of Abandon: the row that failed counts as reported.
AbandonRow ==
  /\ pc = "send"
  /\ pc' = "top" /\ connected' = FALSE /\ cursor' = cursor + 1
  /\ UNCHANGED <<cursor_ready, file, last, base, writerVars>>

\* The end of publish_events and of the connection when publish fails.
Abandon ==
  /\ pc = "send"
  /\ pc' = "top" /\ connected' = FALSE
  /\ UNCHANGED <<cursor, cursor_ready, file, last, base, writerVars>>

\* The broker does not get the row, or its acknowledgement takes too long.
PublishFails ==
  /\ Abandon
  /\ \/ broker = "down" /\ UNCHANGED <<brokerVars, failures>>
     \/ broker = "up" /\ Fail("ack")
        /\ (Receive(cursor + 1) \/ UNCHANGED brokerVars)

Advance ==
  /\ pc = "save"
  /\ cursor' = cursor + 1
  /\ SaveCursor(cursor + 1)
  /\ pc' = IF cursor + 1 < last THEN "send" ELSE "top"
  /\ UNCHANGED <<connected, cursor_ready, last, base, writerVars, brokerVars>>

\* The process dies, or is stopped; nothing but the file is left of it.
Crash ==
  /\ pc # "down"
  /\ Fail("crash")
  /\ pc' = "down"
  /\ UNCHANGED <<connected, cursor, cursor_ready, file, last, base, writerVars, brokerVars>>

-----------------------------------------------------------------------------
(* The broker, or the network to it.                                       *)

Outage ==
  /\ broker = "up" /\ Fail("outage") /\ broker' = "down"
  /\ UNCHANGED <<received, repeats, writerVars, reporterVars>>

Recovery ==
  /\ broker = "down" /\ broker' = "up"
  /\ UNCHANGED <<received, repeats, writerVars, reporterVars, failures>>

-----------------------------------------------------------------------------
Writer == \/ Record \/ InsertFails \/ Commit \/ CommitWaits \/ CommitTimesOut
          \/ WriterCrash \/ WriterStart
Reporter == \/ Start \/ Connect \/ ConnectFails \/ StatusFails \/ InitializeCursor \/ Query
            \/ Publish \/ PublishFails \/ Advance \/ Crash

Next == Writer \/ Reporter \/ Outage \/ Recovery

Spec == Init /\ [][Next]_vars

\* Each process is scheduled while it runs.  Nobody need start the reporter
\* again, and no event need happen.  A COMMIT wins against a reader that is done
\* (its PENDING lock keeps the next one out).
Fairness ==
  /\ WF_vars(Commit) /\ WF_vars(CommitWaits) /\ WF_vars(WriterStart)
  /\ WF_vars(Connect) /\ WF_vars(InitializeCursor) /\ WF_vars(Query)
  /\ WF_vars(Publish \/ PublishFails) /\ WF_vars(Advance)

FairSpec == Spec /\ Fairness

-----------------------------------------------------------------------------
(* Properties.                                                             *)

Rows == 0..MaxEvents

WriterTypeOK ==
  /\ writer \in {"down", "idle", "commit"} /\ open \in BOOLEAN
  /\ lock \in {"none", "reserved", "pending"}
  /\ stored \in Rows /\ noticed \in Rows /\ lost \in Rows
ReporterTypeOK ==
  /\ pc \in {"down", "top", "send", "save"} /\ connected \in BOOLEAN
  /\ cursor \in Rows /\ cursor_ready \in BOOLEAN /\ file \in Rows \union {-1}
  /\ last \in Rows /\ base \in Rows \union {-1}
BrokerTypeOK ==
  /\ broker \in {"up", "down"} /\ received \subseteq 1..MaxEvents /\ repeats \in Nat
FailuresTypeOK == failures \in [Kind -> 0..MaxFailures]

\* Types of all the variables.  The sizes matter: no cursor is ever ahead of
\* what was noticed.
TypeOK == WriterTypeOK /\ ReporterTypeOK /\ BrokerTypeOK /\ FailuresTypeOK

\* Whatever fails, the rows reach the broker in the order of the table and
\* without a gap, once a cursor is on disk.
Outbox == INSTANCE EventOutbox WITH delivered <- received, secured <- file # -1
ReportsInOrder == Outbox!Spec

\* A row is reported again only for a cause, and each cause explains one
\* repetition: an acknowledgement that was too late, a cursor that was not
\* saved, a process that died before it saved.
RepeatsHaveCause ==
  repeats <= failures["ack"] + failures["save"] + failures["crash"]

\* Every row that the reporter owes gets to the broker, provided the reporter
\* runs, the broker answers, and no answer was so slow that it locked the writer
\* in its transaction.
Serving == pc # "down" /\ broker = "up" /\ failures["slow"] = 0
EventuallyReported ==
  <>[]Serving => <>[](base # -1 /\ \A id \in 1..MaxEvents :
                                     id > base /\ id <= stored => id \in received)

\* No event is lost but by a failing INSERT or a crash of the writer: what the
\* broker does is no cause.
LossesAreLocal == lost <= failures["insert"] + failures["restart"]
=============================================================================
