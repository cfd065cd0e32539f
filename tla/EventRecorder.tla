---------------------------- MODULE EventRecorder ----------------------------
(***************************************************************************)
(* How userspace/sqlite_eventd/sqlite_eventd.c turns snapshots into the    *)
(* event history: process_snapshot with its trackers, what a restart       *)
(* restores of them, and what lost insertions and crashes leave behind.    *)
(*                                                                         *)
(* A stream is what one tracker follows.  Its records alternate between    *)
(* "on" (an alarm, a failure) and "off" (cleared, recovered); a table      *)
(* without records of a stream counts as "off", since no tracker tells the *)
(* two apart.  Snapshots come from userspace/state_snapshotd.              *)
(* The door and the records about the recorder itself are in EventHistory.  *)
(***************************************************************************)
EXTENDS Integers, Sequences, FiniteSets

CONSTANTS
  Debounce,    \* CONDITION_DEBOUNCE_MS, in ticks
  Gaps,        \* times between two snapshots that are processed, in ticks
  MaxLosses,   \* bound on the insertions and queries that fail
  MaxCrashes   \* bound on the ends of the process

ASSUME RecorderAssumption ==
  /\ Debounce \in Nat \ {0} /\ Gaps \subseteq Nat \ {0}
  /\ MaxLosses \in Nat /\ MaxCrashes \in Nat

VARIABLES
  objects,   \* the part of the snapshots that is looked at
  running,
  tracker,   \* the value of each tracker; "unknown" before the first sight
  pending,   \* ticks since a condition contradicts its tracker; -1: it does not
  table,     \* the last record of each stream
  losses, crashes,
  \* Observations.
  written,   \* the records that the latest pass asked for
  hot, cool  \* ticks since the oldest of the present run of hot, of cool readings

vars == <<objects, running, tracker, pending, table, losses, crashes, written, hot, cool>>

Module == {"camera", "ai", "radar", "sht3x", "bh1750"}
Flag == {"ai alarm", "radar alarm", "humidity", "dark"}
Condition == {"temperature", "light", "environment", "fire"}

\* The streams, in the order in which process_snapshot serves them.
Order == <<"camera", "ai", "radar", "ai alarm", "radar alarm", "intrusion", "sht3x",
           "temperature", "humidity", "bh1750", "light", "dark", "environment", "fire">>
Stream == {Order[i] : i \in DOMAIN Order}
Value == {"on", "off"}

\* The streams are served in groups that do not touch each other; "door" is served by
\* EventHistory.
Part == {"alarm", "sensors", "thresholds", "door"}

OnIf(condition) == IF condition THEN "on" ELSE "off"

\* Mutant of Restored: the events of a fire pass for those of the environment,
\* which have the same source.
RestoredBySource ==
  [s \in Stream |-> IF s \in Flag THEN "unknown"
                    ELSE IF s = "environment" THEN table["fire"] ELSE table[s]]

\* restore_module_health, restore_debounce_state, and process_intrusion at first
\* sight.  The flags of the two sources and the two thresholds are not restored.
Restored == [s \in Stream |-> IF s \in Flag THEN "unknown" ELSE table[s]]

NothingPending == [c \in Condition |-> -1]

Init ==
  /\ objects \in Part /\ running = FALSE
  /\ table = [s \in Stream |-> "off"]
  /\ tracker = Restored /\ pending = NothingPending
  /\ losses = 0 /\ crashes = 0
  /\ written = {} /\ hot = -1 /\ cool = -1

\* A tracker whose query fails starts as if there were no records.
Start ==
  /\ ~running
  /\ running' = TRUE /\ pending' = NothingPending
  /\ \E unread \in SUBSET (Stream \ Flag) :
       /\ losses + Cardinality(unread) <= MaxLosses
       /\ losses' = losses + Cardinality(unread)
       /\ tracker' = [s \in Stream |-> IF s \in unread THEN "off" ELSE Restored[s]]
  /\ written' = {}
  /\ UNCHANGED <<objects, table, crashes, hot, cool>>

-----------------------------------------------------------------------------
(* One pass: what its trackers settle on.                                  *)

\* A camera is not online when the AI process is not.  "spoken" is the last
\* event's source being "ai".
AlarmSnapshot ==
  {x \in [camera : BOOLEAN, ai : BOOLEAN, radar : BOOLEAN,
          ai_alarm : BOOLEAN, radar_alarm : BOOLEAN, spoken : BOOLEAN] :
     ~x.ai => ~x.camera}

\* The trackers that an alarm snapshot reaches.  find_json_value takes the value
\* "ai" of last_event_source for the object of that name, which hides the camera;
\* the state of the AI is found elsewhere.
Reached(x) ==
  {"ai", "radar"}
  \union (IF x.spoken THEN {} ELSE {"camera"})
  \union (IF x.ai THEN {"ai alarm"} ELSE {})
  \union (IF x.radar THEN {"radar alarm"} ELSE {})
  \union (IF x.ai /\ x.radar THEN {"intrusion"} ELSE {})

AlarmValue(x) ==
  [s \in Reached(x) |->
     CASE s = "camera" -> OnIf(~x.camera)
       [] s = "ai" -> OnIf(~x.ai)
       [] s = "radar" -> OnIf(~x.radar)
       [] s = "ai alarm" -> OnIf(x.ai_alarm)
       [] s = "radar alarm" -> OnIf(x.radar_alarm)
       [] s = "intrusion" -> OnIf(x.ai_alarm \/ x.radar_alarm)]

\* A reading below the clear threshold, between the two, or at the high one.
Reading == {"offline", "low", "between", "high"}

\* The hysteresis of temperature_high and light_high.
High(condition, reading) ==
  \/ reading = "high"
  \/ reading = "between" /\ tracker[condition] = "on"

\* Mutant of Holds: environment and fire are told apart too well.
HoldsApart(t, l) ==
  [c \in Condition |->
     CASE c = "temperature" -> High(c, t)
       [] c = "light" -> High(c, l)
       [] c = "environment" -> High("temperature", t) # High("light", l)
       [] c = "fire" -> High("temperature", t) /\ High("light", l)]

\* The candidates of the four conditions.
Holds(t, l) ==
  [c \in Condition |->
     CASE c = "temperature" -> High(c, t)
       [] c = "light" -> High(c, l)
       [] c = "environment" -> High("temperature", t) \/ High("light", l)
       [] c = "fire" -> High("temperature", t) /\ High("light", l)]

Valid(t, l) ==
  [c \in Condition |->
     CASE c = "temperature" -> t # "offline"
       [] c = "light" -> l # "offline"
       [] OTHER -> t # "offline" /\ l # "offline"]

\* Mutant of Contradicts: an invalid reading does not interrupt the wait.
ContradictsLoose(c, t, l) == Valid(t, l)[c] => OnIf(Holds(t, l)[c]) # tracker[c]

\* process_debounced: a valid candidate differs from the tracker.
Contradicts(c, t, l) == Valid(t, l)[c] /\ OnIf(Holds(t, l)[c]) # tracker[c]

\* The time that a condition has waited when the next snapshot is ticks later.
Waited(c, ticks) == IF pending[c] = -1 THEN 0 ELSE pending[c] + ticks

\* Mutant of Fires: one snapshot too late.
FiresLate(c, ticks, t, l) ==
  Valid(t, l)[c] /\ Contradicts(c, t, l) /\ Waited(c, ticks) > Debounce

Fires(c, ticks, t, l) ==
  Valid(t, l)[c] /\ Contradicts(c, t, l) /\ Waited(c, ticks) >= Debounce

SensorValue(ticks, t, l) ==
  [s \in {"sht3x", "bh1750"} \union {c \in Condition : Fires(c, ticks, t, l)} |->
     CASE s = "sht3x" -> OnIf(t = "offline")
       [] s = "bh1750" -> OnIf(l = "offline")
       [] OTHER -> OnIf(Holds(t, l)[s])]

\* process_high_threshold and process_low_threshold, if they are enabled, with the
\* modules whose readings they look at.
ThresholdValue(t, l) ==
  [s \in {"sht3x", "bh1750"} \union (IF t = "offline" THEN {} ELSE {"humidity"})
                            \union (IF l = "offline" THEN {} ELSE {"dark"}) |->
     CASE s = "sht3x" -> OnIf(t = "offline")
       [] s = "bh1750" -> OnIf(l = "offline")
       [] s = "humidity" -> OnIf(t = "high")
       [] s = "dark" -> OnIf(l = "low")]

StillPending(ticks, t, l) ==
  [c \in Condition |->
     IF Contradicts(c, t, l) /\ ~Fires(c, ticks, t, l) THEN Waited(c, ticks) ELSE -1]

-----------------------------------------------------------------------------
(* One pass: what it records.                                              *)

\* The end of a threshold's event, which has the source and the type of its module's
\* recovery, is the last record of both.
Put(streams, value) ==
  [s \in Stream |->
     IF \/ s = "sht3x" /\ "humidity" \in streams /\ value["humidity"] = "off"
        \/ s = "bh1750" /\ "dark" \in streams /\ value["dark"] = "off"
       THEN "off"
       ELSE IF s \in streams THEN value[s] ELSE table[s]]

\* The streams with an edge; the first sight of a flag is none.
Changed(value) ==
  {s \in DOMAIN value : tracker[s] # value[s] /\ tracker[s] # "unknown"}

\* Mutant of Settle: the tracker waits for its record.
SettleSaved(value, waiting) ==
  LET edges == Changed(value) IN
  \E lost \in SUBSET edges :
    /\ losses + Cardinality(lost) <= MaxLosses
    /\ losses' = losses + Cardinality(lost)
    /\ table' = Put(edges \ lost, value)
    /\ tracker' = [s \in Stream |-> IF s \in DOMAIN value \ edges THEN value[s]
                                    ELSE tracker[s]]
    /\ pending' = waiting
    /\ written' = {<<s, value[s]>> : s \in edges}
    /\ UNCHANGED <<objects, running, crashes>>

\* record_event: a tracker moves on whether its record was inserted or lost.
Settle(value, waiting) ==
  LET edges == Changed(value) IN
  \E lost \in SUBSET edges :
    /\ losses + Cardinality(lost) <= MaxLosses
    /\ losses' = losses + Cardinality(lost)
    /\ table' = Put(edges \ lost, value)
    /\ tracker' = [s \in Stream |-> IF s \in DOMAIN value THEN value[s] ELSE tracker[s]]
    /\ pending' = waiting
    /\ written' = {<<s, value[s]>> : s \in edges}
    /\ UNCHANGED <<objects, running, crashes>>

\* The process ends between two records of a pass: those served before are there.
Die(value) ==
  /\ crashes < MaxCrashes
  /\ \E served \in 0..Len(Order) :
       LET edges == Changed(value) \intersect {Order[i] : i \in 1..served} IN
       table' = Put(edges, value) /\ written' = {<<s, value[s]>> : s \in edges}
  /\ running' = FALSE /\ crashes' = crashes + 1
  /\ UNCHANGED <<objects, tracker, pending, losses>>

AlarmPass ==
  /\ running /\ objects = "alarm"
  /\ \E x \in AlarmSnapshot :
       Settle(AlarmValue(x), pending) \/ Die(AlarmValue(x))
  /\ UNCHANGED <<hot, cool>>

\* A run of readings, up to Debounce.
Longer(run, ticks, goes_on) ==
  CASE ~goes_on -> -1
    [] goes_on /\ run = -1 -> 0
    [] OTHER -> IF run + ticks < Debounce THEN run + ticks ELSE Debounce

SensorPass ==
  /\ running /\ objects = "sensors"
  /\ \E ticks \in Gaps, t \in Reading, l \in Reading :
       /\ \/ Settle(SensorValue(ticks, t, l), StillPending(ticks, t, l))
          \/ Die(SensorValue(ticks, t, l))
       /\ hot' = Longer(hot, ticks, t = "high")
       /\ cool' = Longer(cool, ticks, t = "low")

ThresholdPass ==
  /\ running /\ objects = "thresholds"
  /\ \E t \in Reading \ {"between"}, l \in Reading \ {"between"} :
       Settle(ThresholdValue(t, l), pending) \/ Die(ThresholdValue(t, l))
  /\ UNCHANGED <<hot, cool>>

Next == Start \/ AlarmPass \/ SensorPass \/ ThresholdPass

Spec == Init /\ [][Next]_vars

-----------------------------------------------------------------------------
(* Properties.                                                             *)

\* Types of all the variables.  Only flags can be unknown, and a condition never
\* waits for longer than it has to.
TypeOK ==
  /\ objects \in Part /\ running \in BOOLEAN
  /\ tracker \in [Stream -> Value \union {"unknown"}]
  /\ \A s \in Stream \ Flag : tracker[s] # "unknown"
  /\ pending \in [Condition -> -1..(Debounce - 1)]
  /\ table \in [Stream -> Value]
  /\ losses \in 0..MaxLosses /\ crashes \in 0..MaxCrashes
  /\ written \subseteq Stream \X Value
  /\ hot \in -1..Debounce /\ cool \in -1..Debounce

\* As long as no insertion and no query failed, a restart finds in the table exactly what the
\* process has in its trackers: a restart is invisible in the history.
RestartRestores ==
  running /\ losses = 0 => \A s \in Stream \ Flag : tracker[s] = Restored[s]

\* Overheating and its end are recorded on evidence: readings on one side of the
\* threshold, with none on the other and no failure, over the debounce time.
HeldForDebounce ==
  /\ <<"temperature", "on">> \in written => hot = Debounce
  /\ <<"temperature", "off">> \in written => cool = Debounce

\* A suspected fire is recorded only inside an alarm of the environment, through
\* losses, crashes and restarts.
FireRecorded == <<"fire", "on">> \in written' /\ running'
FireInsideEnvironment == [][FireRecorded => tracker'["environment"] = "on"]_vars
=============================================================================
