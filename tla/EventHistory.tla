----------------------------- MODULE EventHistory -----------------------------
(***************************************************************************)
(* The recorder over its own ends and those of the board: main and         *)
(* process_door of userspace/sqlite_eventd/sqlite_eventd.c with the        *)
(* supervisor that restarts it (S94sqlite_eventd).                          *)
(*                                                                         *)
(* EventRecorder has the other trackers; an execution looks at one group of *)
(* streams, as there.  The records about the recorder itself are kept only  *)
(* as far as they tell of its ends, those about the door one by one.        *)
(***************************************************************************)
EXTENDS EventRecorder

CONSTANTS
  Powers,        \* those of the base in which a record's text has its sequence number
  MaxSequence,   \* bound on the driver's sequence in one boot
  MaxBoots       \* bound on the starts of the board

ASSUME HistoryAssumption ==
  /\ Powers \subseteq Nat \ {0} /\ 1 \in Powers
  /\ MaxSequence \in Nat /\ MaxBoots \in Nat \ {0}

VARIABLES
  boot,
  door,          \* logical_state in the snapshot
  sequence,      \* the driver's published_sequence at the latest event of the door
  doors,         \* the records of the door
  door_tracker,  \* "unknown" before the first sight
  marker,        \* ABNORMAL_EXIT_MARKER exists
  abnormal_recovery_pending, startup_recorded, snapshot_failed,
  \* Observations.
  opened,        \* the sequence with which the tracker became "active"
  entry,         \* the records of the door that the latest pass inserted
  system,        \* those about the recorder
  owed           \* an exit is to be reported: "yes", "no", or "maybe" again

board == <<boot, door, sequence>>
process == <<door_tracker, abnormal_recovery_pending, startup_recorded, snapshot_failed,
             opened>>
disk == <<doors, marker>>
observed == <<entry, system, owed>>
history == <<board, process, disk, observed>>
others == <<objects, tracker, pending, table, written, hot, cool>>

HistoryInit ==
  /\ Init
  /\ boot = 1 /\ door = "unknown" /\ sequence = 0
  /\ doors = {} /\ door_tracker = "unknown" /\ opened = 0
  /\ marker = FALSE /\ abnormal_recovery_pending = FALSE
  /\ startup_recorded = FALSE /\ snapshot_failed = FALSE
  /\ entry = {} /\ system = {} /\ owed = "no"

-----------------------------------------------------------------------------
(* The door and the board.                                                 *)

\* An edge of the door reaches the snapshot; other events of the driver count too.
DoorEvent ==
  /\ objects = "door"
  /\ door' \in {"active", "inactive"}
  /\ sequence' \in (sequence + 1)..MaxSequence
  /\ entry' = {} /\ system' = {}
  /\ UNCHANGED <<vars, boot, process, disk, owed>>

\* safety_alarmd starts again; it knows the door from its next event on.
DoorForgotten ==
  /\ objects = "door" /\ door # "unknown"
  /\ door' = "unknown"
  /\ entry' = {} /\ system' = {}
  /\ UNCHANGED <<vars, boot, sequence, process, disk, owed>>

-----------------------------------------------------------------------------
(* One pass of the recorder.                                               *)

\* The digits of a are the first digits of b, as for LIKE '%event_sequence=a%'.
Begins(a, b) == \E power \in Powers : b \div power = a

\* Mutants of door_sequence_already_recorded: it is not asked, or asked of any record.
NeverRecorded(number) == FALSE
EverRecorded(number) == doors # {}

door_sequence_already_recorded(number) == \E r \in doors : Begins(number, r.sequence)

\* process_door has something to record: at first sight only an open door, and not
\* again after a restart, unless it cannot ask.
DoorDue(failed) ==
  /\ door # "unknown" /\ door # door_tracker
  /\ door_tracker = "unknown" =>
       /\ door = "active"
       /\ "query" \in failed \/ ~door_sequence_already_recorded(sequence)

DoorRecord == [boot |-> boot, sequence |-> sequence, open |-> door = "active"]

\* The first steps of a pass.  At the first snapshot abnormal_exit is recorded (recovery
\* with it) and the marker is removed, or startup is recorded.
Reports(steps, failed) ==
  (IF startup_recorded \/ steps < 1 \/ "report" \in failed THEN {}
   ELSE IF abnormal_recovery_pending THEN {"abnormal_exit"} ELSE {"startup"})
  \union (IF snapshot_failed /\ steps > 2 THEN {"snapshot_recovery"} ELSE {})

Removed(steps, failed) ==
  ~startup_recorded /\ abnormal_recovery_pending /\ steps > 1 /\ "unlink" \notin failed

\* Mutant of Report: the marker is removed before its record is written.
ReportAfterwards(steps, failed) ==
  /\ system' = IF steps = 1 THEN {} ELSE Reports(steps, failed)
  /\ marker' = (marker /\ ~Removed(steps + 1, failed))
  /\ owed' = IF "abnormal_exit" \in system' THEN "no" ELSE owed

Report(steps, failed) ==
  /\ system' = Reports(steps, failed)
  /\ marker' = (marker /\ ~Removed(steps, failed))
  /\ owed' = IF "abnormal_exit" \notin system' THEN owed
             ELSE IF Removed(steps, failed) THEN "no" ELSE "maybe"

\* Its last step.
DoorStep(steps, failed) ==
  /\ entry' = IF steps > 3 /\ "door" \notin failed /\ DoorDue(failed) THEN {DoorRecord} ELSE {}
  /\ doors' = doors \union entry'

DoorPass ==
  /\ running /\ objects = "door"
  /\ \E failed \in SUBSET {"report", "unlink", "query", "door"} :
       /\ losses + Cardinality(failed) <= MaxLosses
       /\ losses' = losses + Cardinality(failed)
       /\ Report(4, failed) /\ DoorStep(4, failed)
  /\ door_tracker' = IF door = "unknown" THEN door_tracker ELSE door
  /\ opened' = IF door = "active" /\ door_tracker # "active" THEN sequence ELSE opened
  /\ startup_recorded' = TRUE /\ snapshot_failed' = FALSE
  /\ UNCHANGED <<others, running, crashes, board, abnormal_recovery_pending>>

\* The snapshot is missing or empty.
SnapshotInvalid ==
  /\ running /\ objects = "door"
  /\ snapshot_failed' = TRUE
  /\ system' = IF snapshot_failed THEN {} ELSE {"snapshot_invalid"}
  /\ entry' = {}
  /\ UNCHANGED <<vars, board, disk, door_tracker, abnormal_recovery_pending,
                 startup_recorded, opened, owed>>

-----------------------------------------------------------------------------
(* The process, its supervisor and the board.                              *)

\* The service is started, or supervise starts the process again; the look at the
\* marker is the last step before the first snapshot.
Launch ==
  /\ objects = "door" /\ Start
  /\ door_tracker' = "unknown" /\ startup_recorded' = FALSE /\ snapshot_failed' = FALSE
  /\ abnormal_recovery_pending' = marker
  /\ entry' = {} /\ system' = {} /\ opened' = 0
  /\ UNCHANGED <<board, disk, owed>>

\* A nonzero status, anywhere in a pass or between two, of which supervise leaves a note.
Exit ==
  /\ running /\ objects = "door" /\ crashes < MaxCrashes
  /\ \E steps \in 0..4 : system' = Reports(steps, {}) /\ DoorStep(steps, {})
  /\ running' = FALSE /\ crashes' = crashes + 1
  /\ marker' = TRUE /\ owed' = "yes"
  /\ UNCHANGED <<others, losses, board, process>>

\* SIGTERM: status 0, and supervise ends as well.
Stop ==
  /\ running /\ objects = "door"
  /\ running' = FALSE /\ system' = {"shutdown"} /\ entry' = {}
  /\ UNCHANGED <<others, losses, crashes, board, process, disk, owed>>

\* The board loses its power and starts anew; the disk keeps what was written, and
\* nothing tells of the end of the process.
PowerLoss ==
  /\ objects = "door" /\ boot < MaxBoots
  /\ \E steps \in IF running THEN 0..4 ELSE {0} : Report(steps, {}) /\ DoorStep(steps, {})
  /\ running' = FALSE
  /\ boot' = boot + 1 /\ door' = "unknown" /\ sequence' = 0
  /\ UNCHANGED <<others, losses, crashes, process>>

\* The parts of the snapshot that EventRecorder has.
OtherParts == objects # "door" /\ Next /\ UNCHANGED history

HistoryNext ==
  \/ OtherParts
  \/ DoorEvent \/ DoorForgotten
  \/ Launch \/ DoorPass \/ SnapshotInvalid \/ Exit \/ Stop
  \/ PowerLoss

HistorySpec == HistoryInit /\ [][HistoryNext]_<<vars, history>>

-----------------------------------------------------------------------------
(* Properties.                                                             *)

\* Types of all the variables, those of EventRecorder included.
HistoryTypeOK ==
  /\ TypeOK
  /\ boot \in 1..MaxBoots /\ door \in {"unknown", "active", "inactive"}
  /\ sequence \in 0..MaxSequence /\ opened \in 0..MaxSequence
  /\ doors \subseteq [boot : 1..boot, sequence : 1..MaxSequence, open : BOOLEAN]
  /\ entry \subseteq doors
  /\ door_tracker \in {"unknown", "active", "inactive"}
  /\ {marker, abnormal_recovery_pending, startup_recorded, snapshot_failed} \subseteq BOOLEAN
  /\ system \subseteq {"abnormal_exit", "startup", "snapshot_invalid", "snapshot_recovery",
                "shutdown"}
  /\ owed \in {"yes", "no", "maybe"}

\* However often the recorder is restarted while the door is open, an opening is
\* recorded once: process_door asks the table before its first record.  Something
\* that fails at the first sight of the door may be that question.
OpenedOnce ==
  [][door_tracker # "unknown" \/ losses' = losses =>
       \A r \in entry' : r.open => r \notin doors]_<<vars, history>>

\* An opening that the recorder has seen is on record, unless its insertion failed or,
\* seen first after a start, its sequence begins that of a record of an earlier boot.
OpenOnRecord ==
  running /\ losses = 0 /\ door_tracker = "active" =>
    \/ [boot |-> boot, sequence |-> opened, open |-> TRUE] \in doors
    \/ \E r \in doors : r.boot < boot /\ Begins(opened, r.sequence)

\* An abnormal end that the supervisor saw is reported at the first snapshot of a later
\* start, before a start is recorded as ordinary, and only one that happened: through
\* power losses and repeated ends, but for failed insertions; a loss of power or a
\* failure between the record and the removal of the marker makes one more report.
ExitsOnRecord ==
  [][/\ "abnormal_exit" \in system' => owed # "no"
     /\ "startup" \in system' => owed # "yes" \/ losses > 0]_<<vars, history>>
=============================================================================
