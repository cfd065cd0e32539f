-------------------------- MODULE EventHistoryProofs --------------------------
(***************************************************************************)
(* Theorems about the event recorder and its history, for every debounce   *)
(* time, schedule of snapshots, size of the sequence numbers and budget of *)
(* lost insertions, ends of the process and losses of power.               *)
(***************************************************************************)
EXTENDS EventHistory, FiniteSetTheorems, TLAPS

-----------------------------------------------------------------------------
(* The streams and what a pass settles on.                                 *)

\* Of the names in Order, those that a proof mentions, and how many there can be.
LEMMA Streams ==
  /\ IsFiniteSet(Stream)
  /\ {"camera", "ai", "radar", "ai alarm", "radar alarm", "intrusion"} \subseteq Stream
  /\ {"sht3x", "bh1750", "humidity", "dark"} \subseteq Stream
  /\ Condition \subseteq Stream
<1>1. DOMAIN Order = 1..14
  BY DEF Order
<1>2. IsFiniteSet(Stream)
  <2> DEFINE named == [i \in 1..14 |-> Order[i]]
  <2>1. named \in Surjection(1..14, Stream)
    BY <1>1 DEF Stream, Surjection
  <2>2. ExistsSurjection(1..14, Stream)
    BY <2>1 DEF ExistsSurjection
  <2>3. QED
    BY <2>2, FS_NatSurjection
<1>3. /\ Order[1] = "camera" /\ Order[2] = "ai" /\ Order[3] = "radar"
      /\ Order[4] = "ai alarm" /\ Order[5] = "radar alarm" /\ Order[6] = "intrusion"
      /\ Order[7] = "sht3x" /\ Order[8] = "temperature" /\ Order[9] = "humidity"
      /\ Order[10] = "bh1750" /\ Order[11] = "light" /\ Order[12] = "dark"
      /\ Order[13] = "environment" /\ Order[14] = "fire"
  BY DEF Order
<1>4. \A i \in 1..14 : Order[i] \in Stream
  BY <1>1 DEF Stream
<1>5. /\ 1 \in 1..14 /\ 2 \in 1..14 /\ 3 \in 1..14 /\ 4 \in 1..14 /\ 5 \in 1..14
      /\ 6 \in 1..14 /\ 7 \in 1..14 /\ 8 \in 1..14 /\ 9 \in 1..14 /\ 10 \in 1..14
      /\ 11 \in 1..14 /\ 12 \in 1..14 /\ 13 \in 1..14 /\ 14 \in 1..14
  OBVIOUS
<1>6. /\ "camera" \in Stream /\ "ai" \in Stream /\ "radar" \in Stream
      /\ "ai alarm" \in Stream /\ "radar alarm" \in Stream /\ "intrusion" \in Stream
      /\ "sht3x" \in Stream /\ "humidity" \in Stream /\ "bh1750" \in Stream
      /\ "dark" \in Stream /\ "temperature" \in Stream /\ "light" \in Stream
      /\ "environment" \in Stream /\ "fire" \in Stream
  BY <1>3, <1>4, <1>5, Zenon
<1>7. QED
  BY <1>2, <1>6 DEF Condition

\* What every pass settles on: values of streams, and the end of a threshold's event only
\* while its module works.
Sound(value) ==
  /\ DOMAIN value \subseteq Stream
  /\ \A s \in DOMAIN value : value[s] \in Value
  /\ "humidity" \in DOMAIN value => "sht3x" \in DOMAIN value /\ value["sht3x"] = "off"
  /\ "dark" \in DOMAIN value => "bh1750" \in DOMAIN value /\ value["bh1750"] = "off"

LEMMA OnIfValue == \A b \in BOOLEAN : OnIf(b) \in Value /\ (OnIf(b) = "on" <=> b)
BY DEF OnIf, Value

\* The alarm part says nothing about conditions.
LEMMA AlarmSound ==
  ASSUME NEW x \in AlarmSnapshot
  PROVE  Sound(AlarmValue(x)) /\ DOMAIN AlarmValue(x) \intersect Condition = {}
<1>1. DOMAIN AlarmValue(x) = Reached(x)
  BY DEF AlarmValue
<1>2. Reached(x) \subseteq {"camera", "ai", "radar", "ai alarm", "radar alarm", "intrusion"}
  BY DEF Reached
<1>3. \A b \in BOOLEAN : OnIf(b) \in Value
  BY OnIfValue
<1>4. /\ x.camera \in BOOLEAN /\ x.ai \in BOOLEAN /\ x.radar \in BOOLEAN
      /\ x.ai_alarm \in BOOLEAN /\ x.radar_alarm \in BOOLEAN
  BY DEF AlarmSnapshot
<1>5. ASSUME NEW s \in Reached(x)
      PROVE  AlarmValue(x)[s] \in Value
  <2>1. AlarmValue(x)[s] \in {OnIf(~x.camera), OnIf(~x.ai), OnIf(~x.radar), OnIf(x.ai_alarm),
                              OnIf(x.radar_alarm), OnIf(x.ai_alarm \/ x.radar_alarm)}
    BY <1>2 DEF AlarmValue
  <2>2. QED
    BY <1>3, <1>4, <2>1
<1>6. Reached(x) \subseteq Stream
  BY <1>2, Streams
<1>7. "humidity" \notin Reached(x) /\ "dark" \notin Reached(x)
      /\ Reached(x) \intersect Condition = {}
  BY <1>2 DEF Condition
<1>8. QED
  BY <1>1, <1>5, <1>6, <1>7 DEF Sound

\* The sensor part has the two modules and the conditions that settle.
LEMMA SensorSound ==
  ASSUME NEW ticks, NEW t, NEW l
  PROVE  /\ Sound(SensorValue(ticks, t, l))
         /\ \A c \in Condition :
              /\ c \in DOMAIN SensorValue(ticks, t, l) <=> Fires(c, ticks, t, l)
              /\ Fires(c, ticks, t, l) =>
                   SensorValue(ticks, t, l)[c] = OnIf(Holds(t, l)[c])
<1> DEFINE v == SensorValue(ticks, t, l)
<1>1. DOMAIN v = {"sht3x", "bh1750"} \union {c \in Condition : Fires(c, ticks, t, l)}
  BY DEF SensorValue
<1>2. ASSUME NEW c \in Condition, Fires(c, ticks, t, l)
      PROVE  v[c] = OnIf(Holds(t, l)[c])
  BY <1>2 DEF SensorValue, Condition
<1>3. v["sht3x"] = OnIf(t = "offline") /\ v["bh1750"] = OnIf(l = "offline")
  BY DEF SensorValue
<1>4. \A s \in DOMAIN v : v[s] \in {"on", "off"}
  BY <1>1, <1>2, <1>3 DEF OnIf
<1>5. QED
  BY <1>1, <1>2, <1>4, Streams DEF Sound, Condition, Value

LEMMA ThresholdSound ==
  ASSUME NEW t, NEW l
  PROVE  Sound(ThresholdValue(t, l)) /\ DOMAIN ThresholdValue(t, l) \intersect Condition = {}
<1> DEFINE v == ThresholdValue(t, l)
<1>1. DOMAIN v = {"sht3x", "bh1750"} \union (IF t = "offline" THEN {} ELSE {"humidity"})
                                     \union (IF l = "offline" THEN {} ELSE {"dark"})
  BY DEF ThresholdValue
<1>2. v["sht3x"] = OnIf(t = "offline") /\ v["bh1750"] = OnIf(l = "offline")
  BY DEF ThresholdValue
<1>3. /\ "humidity" \in DOMAIN v => v["humidity"] = OnIf(t = "high")
      /\ "dark" \in DOMAIN v => v["dark"] = OnIf(l = "low")
  BY <1>1 DEF ThresholdValue
<1>4. \A s \in DOMAIN v : v[s] \in {"on", "off"}
  BY <1>1, <1>2, <1>3 DEF OnIf
<1>5. /\ "humidity" \in DOMAIN v => v["sht3x"] = "off"
      /\ "dark" \in DOMAIN v => v["bh1750"] = "off"
  BY <1>1, <1>2 DEF OnIf
<1>6. QED
  BY <1>1, <1>4, <1>5, Streams DEF Sound, Condition, Value

-----------------------------------------------------------------------------
(* Types of the recorder.                                                  *)

\* TypeOK, in parts.
ControlTypes ==
  /\ objects \in Part /\ running \in BOOLEAN
  /\ losses \in 0..MaxLosses /\ crashes \in 0..MaxCrashes
TrackerTypes ==
  /\ tracker \in [Stream -> Value \union {"unknown"}]
  /\ \A s \in Stream \ Flag : tracker[s] # "unknown"
TableTypes == table \in [Stream -> Value]
WaitTypes == pending \in [Condition -> -1..(Debounce - 1)]
ObservedTypes ==
  /\ written \subseteq Stream \X Value
  /\ hot \in -1..Debounce /\ cool \in -1..Debounce

Types == ControlTypes /\ TrackerTypes /\ TableTypes /\ WaitTypes /\ ObservedTypes

LEMMA TypeParts == (TypeOK <=> Types) /\ (TypeOK' <=> Types')
BY DEF TypeOK, Types, ControlTypes, TrackerTypes, TableTypes, WaitTypes, ObservedTypes

\* What a restart finds has the types of the trackers.
LEMMA RestoredType ==
  ASSUME TableTypes
  PROVE  /\ Restored \in [Stream -> Value \union {"unknown"}]
         /\ \A s \in Stream \ Flag : Restored[s] = table[s] /\ Restored[s] # "unknown"
<1>1. \A s \in Stream : table[s] \in {"on", "off"}
  BY DEF TableTypes, Value
<1>2. QED
  BY <1>1 DEF Restored, Value

LEMMA NothingPendingType == NothingPending \in [Condition -> -1..(Debounce - 1)]
<1>1. -1 \in -1..(Debounce - 1)
  BY RecorderAssumption
<1>2. QED
  BY <1>1 DEF NothingPending

LEMMA RecorderInit == Init => TypeOK
<1> SUFFICES ASSUME Init PROVE TypeOK
  OBVIOUS
<1>1. TableTypes
  BY DEF Init, TableTypes, Value
<1>2. TrackerTypes
  BY <1>1, RestoredType DEF Init, TrackerTypes
<1>3. WaitTypes
  BY NothingPendingType DEF Init, WaitTypes
<1>4. ControlTypes
  <2>1. objects \in Part /\ running \in BOOLEAN
    BY DEF Init
  <2>2. losses \in 0..MaxLosses /\ crashes \in 0..MaxCrashes
    BY RecorderAssumption DEF Init
  <2>3. QED
    BY <2>1, <2>2 DEF ControlTypes
<1>5. ObservedTypes
  <2>1. hot \in -1..Debounce /\ cool \in -1..Debounce
    BY RecorderAssumption DEF Init
  <2>2. QED
    BY <2>1 DEF Init, ObservedTypes
<1>6. QED
  BY <1>1, <1>2, <1>3, <1>4, <1>5, TypeParts DEF Types

\* A set of lost insertions can be counted.
LEMMA LostCount ==
  ASSUME NEW value, Sound(value), NEW lost \in SUBSET Changed(value)
  PROVE  /\ Changed(value) \subseteq DOMAIN value /\ Changed(value) \subseteq Stream
         /\ Cardinality(lost) \in Nat /\ (Cardinality(lost) = 0 => lost = {})
<1>1. Changed(value) \subseteq DOMAIN value
  BY DEF Changed
<1>2. Changed(value) \subseteq Stream
  BY <1>1 DEF Sound
<1>3. IsFiniteSet(lost)
  BY <1>2, Streams, FS_Subset
<1>4. QED
  BY <1>1, <1>2, <1>3, FS_CardinalityType, FS_EmptySet

\* So can the trackers that a start could not restore.
LEMMA UnreadCount ==
  ASSUME NEW unread \in SUBSET (Stream \ Flag)
  PROVE  Cardinality(unread) \in Nat /\ (Cardinality(unread) = 0 => unread = {})
<1>1. IsFiniteSet(unread)
  BY Streams, FS_Subset
<1>2. QED
  BY <1>1, FS_CardinalityType, FS_EmptySet

\* A pass puts values into the table.
LEMMA PutType ==
  ASSUME TableTypes, NEW value, Sound(value), NEW streams \in SUBSET DOMAIN value
  PROVE  /\ Put(streams, value) \in [Stream -> Value]
         /\ \A s \in streams : Put(streams, value)[s] = value[s]
         /\ \A s \in Stream : \/ Put(streams, value)[s] = table[s] /\ s \notin streams
                              \/ s \in DOMAIN value /\ Put(streams, value)[s] = value[s]
<1>1. \A s \in Stream : table[s] \in Value
  BY DEF TableTypes
<1>2. \A s \in streams : s \in Stream /\ value[s] \in Value
  BY DEF Sound
<1>3. "off" \in Value
  BY DEF Value
<1>4. Put(streams, value) \in [Stream -> Value]
  BY <1>1, <1>2, <1>3 DEF Put
<1>5. ASSUME NEW s \in Stream
      PROVE  \/ Put(streams, value)[s] = table[s] /\ s \notin streams
             \/ s \in DOMAIN value /\ Put(streams, value)[s] = value[s]
  BY DEF Put, Sound
<1>6. ASSUME NEW s \in streams
      PROVE  Put(streams, value)[s] = value[s]
  BY <1>2, <1>6 DEF Put, Sound
<1>7. QED
  BY <1>4, <1>5, <1>6

\* What the latest pass asks for.
LEMMA WrittenType ==
  ASSUME NEW value, Sound(value), NEW edges \in SUBSET DOMAIN value
  PROVE  {<<s, value[s]>> : s \in edges} \subseteq Stream \X Value
BY DEF Sound

\* A completed pass.
LEMMA SettleType ==
  ASSUME TypeOK, NEW value, Sound(value), NEW waiting \in [Condition -> -1..(Debounce - 1)],
         Settle(value, waiting)
  PROVE  /\ ControlTypes' /\ TrackerTypes' /\ TableTypes' /\ WaitTypes'
         /\ written' \subseteq Stream \X Value
<1>1. ControlTypes /\ TrackerTypes /\ TableTypes
  BY TypeParts DEF Types
<1>2. PICK lost \in SUBSET Changed(value) :
        /\ losses + Cardinality(lost) <= MaxLosses /\ losses' = losses + Cardinality(lost)
        /\ table' = Put(Changed(value) \ lost, value)
  BY DEF Settle
<1>3. /\ tracker' = [s \in Stream |-> IF s \in DOMAIN value THEN value[s] ELSE tracker[s]]
      /\ pending' = waiting /\ written' = {<<s, value[s]>> : s \in Changed(value)}
      /\ UNCHANGED objects /\ UNCHANGED running /\ UNCHANGED crashes
  BY DEF Settle
<1>4. /\ Changed(value) \subseteq DOMAIN value /\ Cardinality(lost) \in Nat
  BY LostCount
<1>5. ControlTypes'
  <2>1. losses' \in 0..MaxLosses
    BY <1>1, <1>2, <1>4, RecorderAssumption DEF ControlTypes
  <2>2. QED
    BY <1>1, <1>3, <2>1 DEF ControlTypes
<1>6. TrackerTypes'
  <2>1. \A s \in DOMAIN value : value[s] \in Value /\ value[s] # "unknown"
    BY DEF Sound, Value
  <2>2. QED
    BY <1>1, <1>3, <2>1 DEF TrackerTypes
<1>7. TableTypes'
  BY <1>1, <1>2, <1>4, PutType DEF TableTypes
<1>8. WaitTypes'
  BY <1>3 DEF WaitTypes
<1>9. written' \subseteq Stream \X Value
  BY <1>3, <1>4, WrittenType
<1>10. QED
  BY <1>5, <1>6, <1>7, <1>8, <1>9

\* One that the process does not survive.
LEMMA DieType ==
  ASSUME TypeOK, NEW value, Sound(value), Die(value)
  PROVE  /\ ControlTypes' /\ TrackerTypes' /\ TableTypes' /\ WaitTypes'
         /\ written' \subseteq Stream \X Value
<1>1. ControlTypes /\ TrackerTypes /\ TableTypes /\ WaitTypes
  BY TypeParts DEF Types
<1>2. PICK edges \in SUBSET DOMAIN value :
        table' = Put(edges, value) /\ written' = {<<s, value[s]>> : s \in edges}
  BY DEF Die, Changed
<1>3. /\ crashes < MaxCrashes /\ crashes' = crashes + 1 /\ running' = FALSE
      /\ UNCHANGED objects /\ UNCHANGED tracker /\ UNCHANGED pending /\ UNCHANGED losses
  BY DEF Die
<1>4. ControlTypes'
  <2>1. crashes' \in 0..MaxCrashes
    BY <1>1, <1>3, RecorderAssumption DEF ControlTypes
  <2>2. QED
    BY <1>1, <1>3, <2>1 DEF ControlTypes
<1>5. QED
  BY <1>1, <1>2, <1>3, <1>4, PutType, WrittenType DEF TrackerTypes, TableTypes, WaitTypes

\* A run of readings is counted up to the debounce time, and not behind a wait that began
\* no earlier.
LEMMA LongerRun ==
  ASSUME NEW run \in -1..Debounce, NEW ticks \in Gaps, NEW goes_on \in BOOLEAN
  PROVE  /\ Longer(run, ticks, goes_on) \in -1..Debounce
         /\ goes_on => Longer(run, ticks, goes_on) >= 0
         /\ \A n \in Nat :
              goes_on /\ n <= run =>
                /\ n + ticks < Debounce => Longer(run, ticks, goes_on) >= n + ticks
                /\ n + ticks >= Debounce => Longer(run, ticks, goes_on) = Debounce
<1> DEFINE longer == Longer(run, ticks, goes_on)
<1>1. ticks \in Nat \ {0} /\ Debounce \in Nat \ {0}
  BY RecorderAssumption
<1>2. /\ ~goes_on => longer = -1
      /\ goes_on /\ run = -1 => longer = 0
      /\ goes_on /\ run # -1 =>
           longer = IF run + ticks < Debounce THEN run + ticks ELSE Debounce
  BY DEF Longer
<1> HIDE DEF longer
<1>3. CASE ~goes_on
  <2>1. longer = -1
    BY <1>2, <1>3
  <2>2. longer \in -1..Debounce
    BY <1>1, <2>1
  <2>3. QED
    BY <1>3, <2>2 DEF longer
<1>4. CASE goes_on
  <2>1. longer \in Int /\ longer >= 0 /\ longer <= Debounce
    BY <1>1, <1>2, <1>4
  <2>2. ASSUME NEW n \in Nat, n <= run
        PROVE  /\ n + ticks < Debounce => longer >= n + ticks
               /\ n + ticks >= Debounce => longer = Debounce
    <3>1. longer = IF run + ticks < Debounce THEN run + ticks ELSE Debounce
      BY <1>2, <1>4, <2>2
    <3>2. QED
      BY <1>1, <2>2, <3>1
  <2>3. longer \in -1..Debounce
    BY <1>1, <2>1
  <2>4. QED
    BY <2>1, <2>2, <2>3 DEF longer
<1>5. QED
  BY <1>3, <1>4

\* How long a condition has waited.
LEMMA WaitedType ==
  ASSUME WaitTypes, NEW c \in Condition, NEW ticks \in Gaps
  PROVE  /\ Waited(c, ticks) \in Nat
         /\ pending[c] \in -1..(Debounce - 1)
         /\ pending[c] = -1 => Waited(c, ticks) = 0
         /\ pending[c] >= 0 => Waited(c, ticks) = pending[c] + ticks
<1>1. pending[c] \in -1..(Debounce - 1)
  BY DEF WaitTypes
<1>2. ticks \in Nat \ {0} /\ Debounce \in Nat \ {0}
  BY RecorderAssumption
<1>3. QED
  BY <1>1, <1>2 DEF Waited

LEMMA StillPendingType ==
  ASSUME WaitTypes, NEW ticks \in Gaps, NEW t, NEW l
  PROVE  StillPending(ticks, t, l) \in [Condition -> -1..(Debounce - 1)]
<1>1. ASSUME NEW c \in Condition, Contradicts(c, t, l), ~Fires(c, ticks, t, l)
      PROVE  Waited(c, ticks) \in -1..(Debounce - 1)
  <2>1. Valid(t, l)[c]
    BY <1>1 DEF Contradicts
  <2>2. ~(Waited(c, ticks) >= Debounce)
    BY <1>1, <2>1 DEF Fires
  <2>3. QED
    BY <2>2, WaitedType, RecorderAssumption
<1>2. -1 \in -1..(Debounce - 1)
  BY RecorderAssumption
<1>3. QED
  BY <1>1, <1>2 DEF StillPending

\* Every step of the recorder keeps the types.
LEMMA RecorderType == TypeOK /\ Next => TypeOK'
<1> SUFFICES ASSUME TypeOK, Next PROVE TypeOK'
  OBVIOUS
<1>1. ControlTypes /\ TrackerTypes /\ TableTypes /\ WaitTypes /\ ObservedTypes
  BY TypeParts DEF Types
<1>2. CASE Start
  <2>1. PICK unread \in SUBSET (Stream \ Flag) :
          /\ losses + Cardinality(unread) <= MaxLosses
          /\ losses' = losses + Cardinality(unread)
          /\ tracker' = [s \in Stream |-> IF s \in unread THEN "off" ELSE Restored[s]]
    BY <1>2 DEF Start
  <2>2. TrackerTypes'
    <3>1. "off" \in Value
      BY DEF Value
    <3>2. QED
      BY <1>1, <2>1, <3>1, RestoredType DEF TrackerTypes
  <2>3. TableTypes' /\ WaitTypes'
    BY <1>1, <1>2, NothingPendingType DEF Start, TableTypes, WaitTypes
  <2>4. ControlTypes'
    <3>1. Cardinality(unread) \in Nat
      BY UnreadCount
    <3>2. losses' \in 0..MaxLosses
      BY <1>1, <2>1, <3>1, RecorderAssumption DEF ControlTypes
    <3>3. QED
      BY <1>1, <1>2, <3>2 DEF Start, ControlTypes
  <2>5. ObservedTypes'
    BY <1>1, <1>2 DEF Start, ObservedTypes
  <2>6. QED
    BY <2>2, <2>3, <2>4, <2>5, TypeParts DEF Types
<1>3. CASE AlarmPass
  <2>1. PICK x \in AlarmSnapshot : Settle(AlarmValue(x), pending) \/ Die(AlarmValue(x))
    BY <1>3 DEF AlarmPass
  <2>2. pending \in [Condition -> -1..(Debounce - 1)]
    BY <1>1 DEF WaitTypes
  <2>3. /\ ControlTypes' /\ TrackerTypes' /\ TableTypes' /\ WaitTypes'
        /\ written' \subseteq Stream \X Value
    BY <2>1, <2>2, AlarmSound, SettleType, DieType
  <2>4. ObservedTypes'
    BY <1>1, <1>3, <2>3 DEF AlarmPass, ObservedTypes
  <2>5. QED
    BY <2>3, <2>4, TypeParts DEF Types
<1>4. CASE SensorPass
  <2>1. PICK ticks \in Gaps, t \in Reading, l \in Reading :
          /\ \/ Settle(SensorValue(ticks, t, l), StillPending(ticks, t, l))
             \/ Die(SensorValue(ticks, t, l))
          /\ hot' = Longer(hot, ticks, t = "high")
          /\ cool' = Longer(cool, ticks, t = "low")
    BY <1>4 DEF SensorPass
  <2>2. /\ ControlTypes' /\ TrackerTypes' /\ TableTypes' /\ WaitTypes'
        /\ written' \subseteq Stream \X Value
    BY <1>1, <2>1, StillPendingType, SensorSound, SettleType, DieType
  <2>3. hot' \in -1..Debounce /\ cool' \in -1..Debounce
    BY <1>1, <2>1, LongerRun DEF ObservedTypes
  <2>4. QED
    BY <2>2, <2>3, TypeParts DEF Types, ObservedTypes
<1>5. CASE ThresholdPass
  <2>1. PICK t \in Reading, l \in Reading :
          Settle(ThresholdValue(t, l), pending) \/ Die(ThresholdValue(t, l))
    BY <1>5 DEF ThresholdPass
  <2>2. pending \in [Condition -> -1..(Debounce - 1)]
    BY <1>1 DEF WaitTypes
  <2>3. /\ ControlTypes' /\ TrackerTypes' /\ TableTypes' /\ WaitTypes'
        /\ written' \subseteq Stream \X Value
    BY <2>1, <2>2, ThresholdSound, SettleType, DieType
  <2>4. ObservedTypes'
    BY <1>1, <1>5, <2>3 DEF ThresholdPass, ObservedTypes
  <2>5. QED
    BY <2>3, <2>4, TypeParts DEF Types
<1>6. QED
  BY <1>2, <1>3, <1>4, <1>5 DEF Next

-----------------------------------------------------------------------------
(* Trackers and table.                                                     *)

\* A pass without losses records whatever it settles on.
LEMMA SettleRestores ==
  ASSUME TypeOK, RestartRestores, running, NEW value, Sound(value), NEW waiting,
         Settle(value, waiting), losses' = 0
  PROVE  \A s \in Stream \ Flag : tracker'[s] = table'[s]
<1>1. ControlTypes /\ TrackerTypes /\ TableTypes
  BY TypeParts DEF Types
<1>2. PICK lost \in SUBSET Changed(value) :
        losses' = losses + Cardinality(lost) /\ table' = Put(Changed(value) \ lost, value)
  BY DEF Settle
<1>3. Changed(value) \subseteq DOMAIN value /\ Cardinality(lost) \in Nat
      /\ (Cardinality(lost) = 0 => lost = {})
  BY LostCount
<1>4. losses = 0 /\ Cardinality(lost) = 0
  BY <1>1, <1>2, <1>3 DEF ControlTypes
<1>5. table' = Put(Changed(value), value)
  BY <1>2, <1>3, <1>4
<1>6. tracker' = [s \in Stream |-> IF s \in DOMAIN value THEN value[s] ELSE tracker[s]]
  BY DEF Settle
<1>7. ASSUME NEW s \in Stream \ Flag
      PROVE  tracker'[s] = table'[s]
  <2>1. tracker[s] = table[s] /\ tracker[s] # "unknown"
    BY <1>1, <1>4, RestoredType DEF RestartRestores, TrackerTypes
  <2>2. \/ table'[s] = table[s] /\ s \notin Changed(value)
        \/ s \in DOMAIN value /\ table'[s] = value[s]
    BY <1>1, <1>3, <1>5, PutType
  <2>3. CASE s \in DOMAIN value /\ table'[s] = value[s]
    BY <1>6, <2>3
  <2>4. CASE table'[s] = table[s] /\ s \notin Changed(value)
    BY <1>6, <2>1, <2>4 DEF Changed
  <2>5. QED
    BY <2>2, <2>3, <2>4
<1>8. QED
  BY <1>7

LEMMA RestoresStep == TypeOK /\ RestartRestores /\ Next => RestartRestores'
<1> SUFFICES ASSUME TypeOK, RestartRestores, Next, running', losses' = 0
             PROVE  \A s \in Stream \ Flag : tracker'[s] = Restored'[s]
  BY DEF RestartRestores
<1>1. TypeOK' /\ TableTypes'
  BY RecorderType, TypeParts DEF Types
<1>2. \A s \in Stream \ Flag : Restored'[s] = table'[s]
  BY DEF Restored
<1>3. CASE Start
  <2>1. PICK unread \in SUBSET (Stream \ Flag) :
          /\ losses' = losses + Cardinality(unread)
          /\ tracker' = [s \in Stream |-> IF s \in unread THEN "off" ELSE Restored[s]]
    BY <1>3 DEF Start
  <2>2. Cardinality(unread) \in Nat /\ (Cardinality(unread) = 0 => unread = {})
    BY UnreadCount
  <2>3. losses \in Nat
    BY RecorderAssumption DEF TypeOK
  <2>4. Cardinality(unread) = 0
    BY <2>1, <2>2, <2>3
  <2>5. unread = {}
    BY <2>2, <2>4
  <2>6. UNCHANGED table
    BY <1>3 DEF Start
  <2>7. QED
    BY <2>1, <2>5, <2>6 DEF Restored
<1>4. CASE AlarmPass
  <2>1. PICK x \in AlarmSnapshot : Settle(AlarmValue(x), pending)
    BY <1>4 DEF AlarmPass, Die
  <2>2. QED
    BY <1>2, <1>4, <2>1, AlarmSound, SettleRestores DEF AlarmPass
<1>5. CASE SensorPass
  <2>1. PICK ticks \in Gaps, t \in Reading, l \in Reading :
          Settle(SensorValue(ticks, t, l), StillPending(ticks, t, l))
    BY <1>5 DEF SensorPass, Die
  <2>2. QED
    BY <1>2, <1>5, <2>1, SensorSound, SettleRestores DEF SensorPass
<1>6. CASE ThresholdPass
  <2>1. PICK t \in Reading, l \in Reading : Settle(ThresholdValue(t, l), pending)
    BY <1>6 DEF ThresholdPass, Die
  <2>2. QED
    BY <1>2, <1>6, <2>1, ThresholdSound, SettleRestores DEF ThresholdPass
<1>7. QED
  BY <1>3, <1>4, <1>5, <1>6 DEF Next

-----------------------------------------------------------------------------
(* Conditions that wait.                                                   *)

\* A wait for overheating is no longer than the run of readings that it stands for; the
\* same for its end.
TemperatureWaits ==
  running /\ pending["temperature"] >= 0 =>
    /\ tracker["temperature"] = "off" => pending["temperature"] <= hot
    /\ tracker["temperature"] = "on" => pending["temperature"] <= cool

\* While a fire waits, the alarm of the environment is there or has waited as long.
FireWaits ==
  running /\ pending["fire"] >= 0 /\ tracker["fire"] = "off" =>
    \/ tracker["environment"] = "on"
    \/ pending["environment"] >= pending["fire"]

\* A fire is on record inside an alarm of the environment.
FireInside == running /\ <<"fire", "on">> \in written => tracker["environment"] = "on"

\* A wait within a run of readings stays within it.
LEMMA WaitWithinRun ==
  ASSUME WaitTypes, NEW c \in Condition, NEW ticks \in Gaps, NEW run \in -1..Debounce,
         pending[c] >= 0 => pending[c] <= run
  PROVE  /\ ~(Waited(c, ticks) >= Debounce) => Waited(c, ticks) <= Longer(run, ticks, TRUE)
         /\ Waited(c, ticks) >= Debounce => Longer(run, ticks, TRUE) = Debounce
<1>1. PICK longer : longer = Longer(run, ticks, TRUE)
  OBVIOUS
<1>2. PICK waited : waited = Waited(c, ticks)
  OBVIOUS
<1>3. Debounce \in Nat \ {0} /\ ticks \in Nat \ {0}
  BY RecorderAssumption
<1>4. /\ longer \in -1..Debounce /\ longer >= 0
      /\ \A n \in Nat : n <= run => /\ n + ticks < Debounce => longer >= n + ticks
                                    /\ n + ticks >= Debounce => longer = Debounce
  BY <1>1, LongerRun
<1>5. /\ waited \in Nat /\ pending[c] \in -1..(Debounce - 1)
      /\ pending[c] = -1 => waited = 0
      /\ pending[c] >= 0 => waited = pending[c] + ticks
  BY <1>2, WaitedType
<1>6. (~(waited >= Debounce) => waited <= longer) /\ (waited >= Debounce => longer = Debounce)
  <2>1. CASE pending[c] = -1
    BY <1>3, <1>4, <1>5, <2>1
  <2>2. CASE pending[c] >= 0
    <3>1. pending[c] \in Nat /\ pending[c] <= run /\ waited = pending[c] + ticks
      BY <1>3, <1>5, <2>2
    <3>2. QED
      BY <1>3, <1>4, <1>5, <3>1
  <2>3. QED
    BY <1>3, <1>5, <2>1, <2>2
<1>7. QED
  BY <1>1, <1>2, <1>6

\* A temperature that contradicts its tracker is above or below both thresholds.
LEMMA TemperatureEvidence ==
  ASSUME TypeOK, TemperatureWaits, running,
         NEW ticks \in Gaps, NEW t \in Reading, NEW l \in Reading,
         Contradicts("temperature", t, l)
  PROVE  /\ tracker["temperature"] = "off" =>
              /\ Holds(t, l)["temperature"]
              /\ ~Fires("temperature", ticks, t, l) =>
                   Waited("temperature", ticks) <= Longer(hot, ticks, t = "high")
              /\ Fires("temperature", ticks, t, l) =>
                   Longer(hot, ticks, t = "high") = Debounce
         /\ tracker["temperature"] = "on" =>
              /\ ~Holds(t, l)["temperature"]
              /\ ~Fires("temperature", ticks, t, l) =>
                   Waited("temperature", ticks) <= Longer(cool, ticks, t = "low")
              /\ Fires("temperature", ticks, t, l) =>
                   Longer(cool, ticks, t = "low") = Debounce
<1> DEFINE T == "temperature"
           waited == Waited(T, ticks)
<1>1. T \in Condition /\ T \in Stream /\ T \notin Flag
  BY Streams DEF Condition, Flag
<1>2. WaitTypes /\ ObservedTypes /\ tracker[T] \in {"on", "off"}
  BY <1>1, TypeParts DEF Types, TrackerTypes, Value
<1>3. /\ waited \in Nat /\ pending[T] \in -1..(Debounce - 1)
      /\ pending[T] = -1 => waited = 0
      /\ pending[T] >= 0 => waited = pending[T] + ticks
  BY <1>1, <1>2, WaitedType
<1>4. Valid(t, l)[T] /\ t # "offline"
  BY <1>1 DEF Contradicts, Valid
<1>5. Holds(t, l)[T] = High(T, t)
  BY <1>1 DEF Holds
<1>6. Fires(T, ticks, t, l) <=> waited >= Debounce
  BY <1>4 DEF Fires
<1>7. Debounce \in Nat \ {0} /\ ticks \in Nat \ {0}
  BY RecorderAssumption
<1>8. hot \in -1..Debounce /\ cool \in -1..Debounce
  BY <1>2 DEF ObservedTypes
<1>9. ASSUME NEW run \in -1..Debounce, pending[T] >= 0 => pending[T] <= run
      PROVE  /\ ~(waited >= Debounce) => waited <= Longer(run, ticks, TRUE)
             /\ waited >= Debounce => Longer(run, ticks, TRUE) = Debounce
  BY <1>1, <1>2, <1>9, WaitWithinRun
<1>10. CASE tracker[T] = "off"
  <2>1. High(T, t)
    BY <1>5, <1>10 DEF Contradicts, OnIf
  <2>2. t = "high"
    BY <1>10, <2>1 DEF High
  <2>3. pending[T] >= 0 => pending[T] <= hot
    BY <1>10 DEF TemperatureWaits
  <2>4. Longer(hot, ticks, t = "high") = Longer(hot, ticks, TRUE)
    BY <2>2
  <2>5. QED
    BY <1>5, <1>6, <1>8, <1>9, <1>10, <2>1, <2>3, <2>4
<1>11. CASE tracker[T] = "on"
  <2>1. ~High(T, t)
    BY <1>5, <1>11 DEF Contradicts, OnIf
  <2>2. t = "low"
    BY <1>4, <1>11, <2>1 DEF High, Reading
  <2>3. pending[T] >= 0 => pending[T] <= cool
    BY <1>11 DEF TemperatureWaits
  <2>4. Longer(cool, ticks, t = "low") = Longer(cool, ticks, TRUE)
    BY <2>2
  <2>5. QED
    BY <1>5, <1>6, <1>8, <1>9, <1>11, <2>1, <2>3, <2>4
<1>12. QED
  BY <1>2, <1>10, <1>11

\* Whether or not the process survives it, a pass writes what it has settled on.
LEMMA WrittenEdges ==
  ASSUME NEW value, NEW waiting, Settle(value, waiting) \/ Die(value)
  PROVE  \E edges \in SUBSET DOMAIN value : written' = {<<s, value[s]>> : s \in edges}
BY DEF Settle, Die, Changed

\* What a pass over the sensors does to the conditions.
LEMMA SensorEffect ==
  ASSUME TypeOK, NEW ticks, NEW t, NEW l, NEW c \in Condition,
         Settle(SensorValue(ticks, t, l), StillPending(ticks, t, l))
  PROVE  /\ tracker'[c] = IF Fires(c, ticks, t, l) THEN OnIf(Holds(t, l)[c])
                                                   ELSE tracker[c]
         /\ pending'[c] = IF Contradicts(c, t, l) /\ ~Fires(c, ticks, t, l)
                          THEN Waited(c, ticks) ELSE -1
<1>1. PICK value : value = SensorValue(ticks, t, l)
  OBVIOUS
<1>2. /\ c \in DOMAIN value <=> Fires(c, ticks, t, l)
      /\ Fires(c, ticks, t, l) => value[c] = OnIf(Holds(t, l)[c])
  BY <1>1, SensorSound
<1>3. c \in Stream
  BY Streams
<1>4. /\ tracker' = [s \in Stream |-> IF s \in DOMAIN value THEN value[s] ELSE tracker[s]]
      /\ pending' = StillPending(ticks, t, l)
  BY <1>1 DEF Settle
<1>5. tracker'[c] = IF c \in DOMAIN value THEN value[c] ELSE tracker[c]
  BY <1>3, <1>4
<1>6. pending'[c] = IF Contradicts(c, t, l) /\ ~Fires(c, ticks, t, l)
                    THEN Waited(c, ticks) ELSE -1
  BY <1>4 DEF StillPending
<1>7. QED
  BY <1>2, <1>5, <1>6

\* A pass writes of a condition only that it has settled, whether or not it survives.
LEMMA SensorWritten ==
  ASSUME TypeOK, NEW ticks, NEW t, NEW l, NEW c \in Condition,
         \/ Settle(SensorValue(ticks, t, l), StillPending(ticks, t, l))
         \/ Die(SensorValue(ticks, t, l)),
         NEW v, <<c, v>> \in written'
  PROVE  Fires(c, ticks, t, l) /\ v = OnIf(Holds(t, l)[c])
<1> DEFINE value == SensorValue(ticks, t, l)
<1>1. /\ c \in DOMAIN value <=> Fires(c, ticks, t, l)
      /\ Fires(c, ticks, t, l) => value[c] = OnIf(Holds(t, l)[c])
  BY SensorSound
<1>2. PICK edges \in SUBSET DOMAIN value : written' = {<<s, value[s]>> : s \in edges}
  BY WrittenEdges
<1> HIDE DEF value
<1>3. c \in DOMAIN value /\ v = value[c]
  BY <1>2
<1>4. QED
  BY <1>1, <1>3

\* The other passes leave the conditions alone.
LEMMA OtherEffect ==
  ASSUME TypeOK, NEW value, DOMAIN value \intersect Condition = {}, NEW c \in Condition,
         Settle(value, pending) \/ Die(value)
  PROVE  /\ tracker'[c] = tracker[c] /\ pending' = pending
         /\ \A v : <<c, v>> \notin written'
<1>1. c \in Stream /\ c \notin DOMAIN value
  BY Streams
<1>2. tracker' = [s \in Stream |-> IF s \in DOMAIN value THEN value[s] ELSE tracker[s]]
      \/ UNCHANGED tracker
  BY DEF Settle, Die
<1>3. pending' = pending
  BY DEF Settle, Die
<1>4. PICK edges \in SUBSET DOMAIN value : written' = {<<s, value[s]>> : s \in edges}
  BY WrittenEdges
<1>5. QED
  BY <1>1, <1>2, <1>3, <1>4

\* The passes that leave all conditions alone, in one.
LEMMA OtherPass ==
  ASSUME TypeOK, AlarmPass \/ ThresholdPass, NEW c \in Condition
  PROVE  /\ tracker'[c] = tracker[c] /\ pending' = pending
         /\ \A v : <<c, v>> \notin written'
         /\ running /\ UNCHANGED hot /\ UNCHANGED cool
<1>1. PICK value : /\ DOMAIN value \intersect Condition = {}
                   /\ Settle(value, pending) \/ Die(value)
  BY AlarmSound, ThresholdSound DEF AlarmPass, ThresholdPass
<1>2. running /\ UNCHANGED hot /\ UNCHANGED cool
  BY DEF AlarmPass, ThresholdPass
<1>3. QED
  BY <1>1, <1>2, OtherEffect

LEMMA HeldStep ==
  TypeOK /\ TemperatureWaits /\ HeldForDebounce /\ Next => TemperatureWaits' /\ HeldForDebounce'
<1> SUFFICES ASSUME TypeOK, TemperatureWaits, HeldForDebounce, Next
             PROVE  TemperatureWaits' /\ HeldForDebounce'
  OBVIOUS
<1> DEFINE T == "temperature"
<1>1. T \in Condition /\ T \in Stream /\ T \notin Flag
  BY Streams DEF Condition, Flag
<1>2. CASE Start
  <2>1. pending'[T] = -1 /\ written' = {}
    BY <1>1, <1>2 DEF Start, NothingPending
  <2>2. QED
    BY <2>1 DEF TemperatureWaits, HeldForDebounce
<1>3. CASE AlarmPass \/ ThresholdPass
  <2>1. /\ tracker'[T] = tracker[T] /\ pending' = pending
        /\ \A v : <<T, v>> \notin written'
        /\ running /\ UNCHANGED hot /\ UNCHANGED cool
    BY <1>1, <1>3, OtherPass
  <2>2. QED
    BY <2>1 DEF TemperatureWaits, HeldForDebounce
<1>4. CASE SensorPass
  <2>1. PICK ticks \in Gaps, t \in Reading, l \in Reading :
          /\ \/ Settle(SensorValue(ticks, t, l), StillPending(ticks, t, l))
             \/ Die(SensorValue(ticks, t, l))
          /\ hot' = Longer(hot, ticks, t = "high")
          /\ cool' = Longer(cool, ticks, t = "low")
    BY <1>4 DEF SensorPass
  <2>2. running
    BY <1>4 DEF SensorPass
  <2>3. tracker[T] \in {"on", "off"}
    BY <1>1, TypeParts DEF Types, TrackerTypes, Value
  <2>4. Fires(T, ticks, t, l) => Contradicts(T, t, l)
    BY DEF Fires
  <2>5. HeldForDebounce'
    <3>1. ASSUME NEW v, <<T, v>> \in written'
          PROVE  /\ v = "on" => hot' = Debounce
                 /\ v = "off" => cool' = Debounce
      <4>1. Fires(T, ticks, t, l) /\ v = OnIf(Holds(t, l)[T])
        <5>1. T \in Condition
          BY <1>1
        <5>2. CASE Settle(SensorValue(ticks, t, l), StillPending(ticks, t, l))
          BY <3>1, <5>1, <5>2, SensorWritten
        <5>3. CASE Die(SensorValue(ticks, t, l))
          BY <3>1, <5>1, <5>3, SensorWritten
        <5>4. QED
          BY <2>1, <5>2, <5>3
      <4>2. /\ tracker[T] = "off" => Holds(t, l)[T] /\ hot' = Debounce
            /\ tracker[T] = "on" => ~Holds(t, l)[T] /\ cool' = Debounce
        BY <2>1, <2>2, <2>4, <4>1, TemperatureEvidence
      <4>3. QED
        BY <2>3, <4>1, <4>2 DEF OnIf
    <3>2. QED
      BY <3>1 DEF HeldForDebounce
  <2>6. TemperatureWaits'
    <3>1. CASE Die(SensorValue(ticks, t, l))
      BY <3>1 DEF Die, TemperatureWaits
    <3>2. CASE Settle(SensorValue(ticks, t, l), StillPending(ticks, t, l))
      <4>1. /\ tracker'[T] = IF Fires(T, ticks, t, l) THEN OnIf(Holds(t, l)[T])
                                                      ELSE tracker[T]
            /\ pending'[T] = IF Contradicts(T, t, l) /\ ~Fires(T, ticks, t, l)
                             THEN Waited(T, ticks) ELSE -1
        BY <1>1, <3>2, SensorEffect
      <4>2. CASE Contradicts(T, t, l) /\ ~Fires(T, ticks, t, l)
        <5>1. /\ tracker[T] = "off" => Waited(T, ticks) <= hot'
              /\ tracker[T] = "on" => Waited(T, ticks) <= cool'
          BY <2>1, <2>2, <4>2, TemperatureEvidence
        <5>2. pending'[T] = Waited(T, ticks) /\ tracker'[T] = tracker[T]
          BY <4>1, <4>2
        <5>3. QED
          BY <5>1, <5>2 DEF TemperatureWaits
      <4>3. CASE ~(Contradicts(T, t, l) /\ ~Fires(T, ticks, t, l))
        <5>1. pending'[T] = -1
          BY <4>1, <4>3
        <5>2. QED
          BY <5>1 DEF TemperatureWaits
      <4>4. QED
        BY <4>2, <4>3
    <3>3. QED
      BY <2>1, <3>1, <3>2
  <2>7. QED
    BY <2>5, <2>6
<1>5. QED
  BY <1>2, <1>3, <1>4 DEF Next

LEMMA FireStep ==
  TypeOK /\ FireWaits /\ FireInside /\ Next => FireWaits' /\ FireInside'
<1> SUFFICES ASSUME TypeOK, FireWaits, FireInside, Next
             PROVE  FireWaits' /\ FireInside'
  OBVIOUS
<1> DEFINE F == "fire"
           E == "environment"
<1>1. F \in Condition /\ F \in Stream /\ F \notin Flag
      /\ E \in Condition /\ E \in Stream /\ E \notin Flag
  BY Streams DEF Condition, Flag
<1>2. CASE Start
  <2>1. pending'[F] = -1 /\ written' = {}
    BY <1>1, <1>2 DEF Start, NothingPending
  <2>2. QED
    BY <2>1 DEF FireWaits, FireInside
<1>3. CASE AlarmPass \/ ThresholdPass
  <2>1. /\ tracker'[F] = tracker[F] /\ tracker'[E] = tracker[E] /\ pending' = pending
        /\ \A v : <<F, v>> \notin written'
        /\ running
    BY <1>1, <1>3, OtherPass
  <2>2. QED
    BY <2>1 DEF FireWaits, FireInside
<1>4. CASE SensorPass
  <2>1. PICK ticks \in Gaps, t \in Reading, l \in Reading :
          \/ Settle(SensorValue(ticks, t, l), StillPending(ticks, t, l))
          \/ Die(SensorValue(ticks, t, l))
    BY <1>4 DEF SensorPass
  <2>2. running
    BY <1>4 DEF SensorPass
  <2>3. tracker[F] \in {"on", "off"} /\ tracker[E] \in {"on", "off"}
    BY <1>1, TypeParts DEF Types, TrackerTypes, Value
  <2>4. CASE Die(SensorValue(ticks, t, l))
    BY <2>4 DEF Die, FireWaits, FireInside
  <2>5. CASE Settle(SensorValue(ticks, t, l), StillPending(ticks, t, l))
    <3>1. \A c \in {F, E} :
            /\ tracker'[c] = IF Fires(c, ticks, t, l) THEN OnIf(Holds(t, l)[c])
                                                      ELSE tracker[c]
            /\ pending'[c] = IF Contradicts(c, t, l) /\ ~Fires(c, ticks, t, l)
                             THEN Waited(c, ticks) ELSE -1
      BY <1>1, <2>5, SensorEffect
    <3>2. ASSUME Contradicts(F, t, l), tracker[F] = "off"
          PROVE  \/ tracker'[E] = "on"
                 \/ /\ pending'[E] = Waited(E, ticks) /\ Waited(E, ticks) < Debounce
                    /\ Waited(F, ticks) <= Waited(E, ticks)
      <4>1. Valid(t, l)[F] /\ Holds(t, l)[F]
        BY <3>2 DEF Contradicts, OnIf
      <4>2. Valid(t, l)[E] /\ Holds(t, l)[E]
        BY <4>1 DEF Valid, Holds, Condition
      <4>3. CASE tracker[E] = "on"
        <5>1. ~Contradicts(E, t, l) /\ ~Fires(E, ticks, t, l)
          BY <4>2, <4>3 DEF Contradicts, Fires, OnIf
        <5>2. QED
          BY <3>1, <4>3, <5>1
      <4>4. CASE tracker[E] = "off" /\ Fires(E, ticks, t, l)
        BY <3>1, <4>2, <4>4 DEF OnIf
      <4>5. CASE tracker[E] = "off" /\ ~Fires(E, ticks, t, l)
        <5>1. Contradicts(E, t, l)
          BY <4>2, <4>5 DEF Contradicts, OnIf
        <5>2. ~(Waited(E, ticks) >= Debounce)
          BY <4>2, <4>5, <5>1 DEF Fires
        <5>3. /\ Waited(E, ticks) \in Nat /\ Waited(F, ticks) \in Nat
              /\ pending[E] \in -1..(Debounce - 1) /\ pending[F] \in -1..(Debounce - 1)
              /\ pending[F] = -1 => Waited(F, ticks) = 0
              /\ pending[F] >= 0 => Waited(F, ticks) = pending[F] + ticks
              /\ pending[E] >= 0 => Waited(E, ticks) = pending[E] + ticks
          BY <1>1, WaitedType, TypeParts DEF Types
        <5>4. pending[F] >= 0 => pending[E] >= pending[F]
          BY <2>2, <3>2, <4>5 DEF FireWaits
        <5>5. Debounce \in Nat /\ ticks \in Nat
          BY RecorderAssumption
        <5>6. Waited(F, ticks) <= Waited(E, ticks) /\ Waited(E, ticks) < Debounce
          BY <5>2, <5>3, <5>4, <5>5
        <5>7. QED
          BY <3>1, <4>5, <5>1, <5>6
      <4>6. QED
        BY <2>3, <4>3, <4>4, <4>5
    <3>3. FireWaits'
      <4>1. SUFFICES ASSUME pending'[F] >= 0, tracker'[F] = "off"
                     PROVE  tracker'[E] = "on" \/ pending'[E] >= pending'[F]
        BY DEF FireWaits
      <4>2. Contradicts(F, t, l) /\ ~Fires(F, ticks, t, l)
        <5>1. pending'[F] # -1
          BY <4>1
        <5>2. QED
          BY <3>1, <5>1
      <4>3. tracker[F] = "off" /\ pending'[F] = Waited(F, ticks)
        BY <3>1, <4>1, <4>2
      <4>4. Waited(F, ticks) \in Nat /\ Waited(E, ticks) \in Nat
        BY <1>1, WaitedType, TypeParts DEF Types
      <4>5. QED
        BY <3>2, <4>2, <4>3, <4>4
    <3>4. FireInside'
      <4>1. SUFFICES ASSUME <<F, "on">> \in written' PROVE tracker'[E] = "on"
        BY DEF FireInside
      <4>2. Fires(F, ticks, t, l) /\ "on" = OnIf(Holds(t, l)[F])
        BY <1>1, <2>5, <4>1, SensorWritten
      <4>3. Contradicts(F, t, l) /\ Waited(F, ticks) >= Debounce
        BY <4>2 DEF Fires
      <4>4. tracker[F] = "off"
        BY <2>3, <4>2, <4>3 DEF Contradicts
      <4>5. /\ Waited(F, ticks) \in Nat /\ Waited(E, ticks) \in Nat /\ Debounce \in Nat
        BY <1>1, WaitedType, TypeParts, RecorderAssumption DEF Types
      <4>6. ~(Waited(E, ticks) < Debounce /\ Waited(F, ticks) <= Waited(E, ticks))
        BY <4>3, <4>5
      <4>7. QED
        BY <3>2, <4>3, <4>4, <4>6
    <3>5. QED
      BY <3>3, <3>4
  <2>6. QED
    BY <2>1, <2>4, <2>5
<1>5. QED
  BY <1>2, <1>3, <1>4 DEF Next

-----------------------------------------------------------------------------
(* Types of the history.                                                   *)

\* HistoryTypeOK, in parts.
DoorTypes ==
  /\ boot \in 1..MaxBoots /\ door \in {"unknown", "active", "inactive"}
  /\ sequence \in 0..MaxSequence
  /\ doors \subseteq [boot : 1..boot, sequence : 1..MaxSequence, open : BOOLEAN]
  /\ entry \subseteq doors
DoorTrackerTypes ==
  door_tracker \in {"unknown", "active", "inactive"} /\ opened \in 0..MaxSequence
FlagTypes ==
  /\ marker \in BOOLEAN /\ abnormal_recovery_pending \in BOOLEAN
  /\ startup_recorded \in BOOLEAN /\ snapshot_failed \in BOOLEAN
SystemTypes ==
  /\ system \subseteq {"abnormal_exit", "startup", "snapshot_invalid", "snapshot_recovery",
                       "shutdown"}
  /\ owed \in {"yes", "no", "maybe"}

HistoryTypes == TypeOK /\ DoorTypes /\ DoorTrackerTypes /\ FlagTypes /\ SystemTypes

\* The snapshot knows the door from an event on.
DoorKnown == door # "unknown" => sequence > 0

LEMMA HistoryTypeParts ==
  (HistoryTypeOK <=> HistoryTypes) /\ (HistoryTypeOK' <=> HistoryTypes')
<1>1. HistoryTypeOK <=> HistoryTypes
  BY DEF HistoryTypeOK, HistoryTypes, DoorTypes, DoorTrackerTypes, FlagTypes, SystemTypes
<1>2. HistoryTypeOK' <=> HistoryTypes'
  BY DEF HistoryTypeOK, HistoryTypes, DoorTypes, DoorTrackerTypes, FlagTypes, SystemTypes
<1>3. QED
  BY <1>1, <1>2

\* What a step leaves alone keeps its types.
LEMMA UnchangedHistory ==
  /\ TypeOK /\ UNCHANGED vars => TypeOK'
  /\ DoorTypes /\ UNCHANGED <<boot, door, sequence, doors, entry>> => DoorTypes'
  /\ DoorTrackerTypes /\ UNCHANGED <<door_tracker, opened>> => DoorTrackerTypes'
  /\ FlagTypes /\ UNCHANGED <<marker, abnormal_recovery_pending, startup_recorded,
                              snapshot_failed>> => FlagTypes'
  /\ SystemTypes /\ UNCHANGED <<system, owed>> => SystemTypes'
<1>1. TypeOK /\ UNCHANGED vars => TypeOK'
  BY DEF TypeOK, vars
<1>2. QED
  BY <1>1 DEF DoorTypes, DoorTrackerTypes, FlagTypes, SystemTypes

\* The steps of the door leave the other streams alone.
LEMMA ControlType ==
  ASSUME TypeOK, UNCHANGED others, running' \in BOOLEAN,
         losses' \in 0..MaxLosses, crashes' \in 0..MaxCrashes
  PROVE  TypeOK'
BY DEF TypeOK, others

\* The insertions of a pass that fail can be counted.
LEMMA FailedCount ==
  ASSUME NEW failed \in SUBSET {"report", "unlink", "query", "door"}
  PROVE  Cardinality(failed) \in Nat /\ (Cardinality(failed) = 0 => failed = {})
<1>1. IsFiniteSet({"report"} \union {"unlink"} \union {"query"} \union {"door"})
  <2>1. IsFiniteSet({"report"} \union {"unlink"})
    BY FS_EmptySet, FS_AddElement, FS_Singleton
  <2>2. IsFiniteSet({"report"} \union {"unlink"} \union {"query"})
    BY <2>1, FS_AddElement
  <2>3. QED
    BY <2>2, FS_AddElement
<1>2. {"report", "unlink", "query", "door"} = {"report"} \union {"unlink"} \union {"query"} \union {"door"}
  OBVIOUS
<1>3. IsFiniteSet({"report", "unlink", "query", "door"})
  BY <1>1, <1>2
<1>4. IsFiniteSet(failed)
  BY <1>3, FS_Subset
<1>5. QED
  BY <1>4, FS_CardinalityType, FS_EmptySet

\* The last step of a pass.
LEMMA DoorStepType ==
  ASSUME DoorTypes, DoorKnown, NEW steps, NEW failed, DoorStep(steps, failed)
  PROVE  /\ doors' \subseteq [boot : 1..boot, sequence : 1..MaxSequence, open : BOOLEAN]
         /\ entry' \subseteq doors'
         /\ entry' = {} \/ (entry' = {DoorRecord} /\ DoorDue(failed) /\ steps > 3)
         /\ doors' = doors \union entry'
<1>1. /\ entry' = {} \/ (entry' = {DoorRecord} /\ DoorDue(failed) /\ steps > 3)
      /\ doors' = doors \union entry'
  BY DEF DoorStep
<1>2. ASSUME DoorDue(failed)
      PROVE  DoorRecord \in [boot : 1..boot, sequence : 1..MaxSequence, open : BOOLEAN]
  <2>1. boot \in 1..boot /\ sequence \in 1..MaxSequence
    BY <1>2, HistoryAssumption DEF DoorDue, DoorKnown, DoorTypes
  <2>2. QED
    BY <2>1 DEF DoorRecord
<1>3. QED
  BY <1>1, <1>2 DEF DoorTypes

\* Its first steps.
LEMMA ReportType ==
  ASSUME SystemTypes, FlagTypes, NEW steps, NEW failed
  PROVE  /\ Reports(steps, failed) \subseteq {"abnormal_exit", "startup", "snapshot_recovery"}
         /\ Report(steps, failed) => marker' \in BOOLEAN /\ SystemTypes'
<1>1. Reports(steps, failed) \subseteq {"abnormal_exit", "startup", "snapshot_recovery"}
  BY DEF Reports
<1>2. QED
  BY <1>1 DEF Report, SystemTypes, FlagTypes

LEMMA HistoryInitType == HistoryInit => HistoryTypeOK /\ DoorKnown
<1> SUFFICES ASSUME HistoryInit PROVE HistoryTypeOK /\ DoorKnown
  OBVIOUS
<1>1. TypeOK
  BY RecorderInit DEF HistoryInit
<1>2. DoorTypes
  <2>1. boot \in 1..MaxBoots /\ sequence \in 0..MaxSequence
    BY HistoryAssumption DEF HistoryInit
  <2>2. QED
    BY <2>1 DEF HistoryInit, DoorTypes
<1>3. DoorTrackerTypes
  <2>1. opened \in 0..MaxSequence
    BY HistoryAssumption DEF HistoryInit
  <2>2. QED
    BY <2>1 DEF HistoryInit, DoorTrackerTypes
<1>4. FlagTypes /\ SystemTypes /\ DoorKnown
  BY DEF HistoryInit, FlagTypes, SystemTypes, DoorKnown
<1>5. QED
  BY <1>1, <1>2, <1>3, <1>4, HistoryTypeParts DEF HistoryTypes

\* The steps of the board.
LEMMA BoardType ==
  ASSUME HistoryTypes, DoorKnown, DoorEvent \/ DoorForgotten
  PROVE  HistoryTypes' /\ DoorKnown'
<1>1. TypeOK' /\ DoorTrackerTypes' /\ FlagTypes'
  BY UnchangedHistory DEF HistoryTypes, DoorEvent, DoorForgotten, process, disk
<1>2. DoorTypes' /\ DoorKnown'
  BY HistoryAssumption
  DEF HistoryTypes, DoorTypes, DoorKnown, DoorEvent, DoorForgotten, disk
<1>3. SystemTypes'
  BY DEF HistoryTypes, SystemTypes, DoorEvent, DoorForgotten
<1>4. QED
  BY <1>1, <1>2, <1>3 DEF HistoryTypes

\* A pass over the door, and one without a snapshot.
LEMMA PassType ==
  ASSUME HistoryTypes, DoorKnown, DoorPass \/ SnapshotInvalid
  PROVE  HistoryTypes' /\ DoorKnown'
<1>1. TypeOK /\ DoorTypes /\ DoorTrackerTypes /\ FlagTypes /\ SystemTypes
  BY DEF HistoryTypes
<1>2. CASE DoorPass
  <2>1. PICK failed \in SUBSET {"report", "unlink", "query", "door"} :
          /\ losses + Cardinality(failed) <= MaxLosses
          /\ losses' = losses + Cardinality(failed)
          /\ Report(4, failed) /\ DoorStep(4, failed)
    BY <1>2 DEF DoorPass
  <2>2. losses' \in 0..MaxLosses
    BY <1>1, <2>1, FailedCount, RecorderAssumption DEF TypeOK
  <2>3. TypeOK'
    BY <1>1, <1>2, <2>2, ControlType DEF DoorPass, TypeOK
  <2>4. UNCHANGED boot /\ UNCHANGED door /\ UNCHANGED sequence
    BY <1>2 DEF DoorPass, board
  <2>5. DoorTypes' /\ DoorKnown'
    BY <1>1, <2>1, <2>4, DoorStepType DEF DoorTypes, DoorKnown
  <2>6. SystemTypes' /\ marker' \in BOOLEAN
    BY <1>1, <2>1, ReportType
  <2>7. FlagTypes' /\ DoorTrackerTypes'
    BY <1>1, <1>2, <2>6 DEF DoorPass, FlagTypes, DoorTrackerTypes, DoorTypes
  <2>8. QED
    BY <2>3, <2>5, <2>6, <2>7 DEF HistoryTypes
<1>3. CASE SnapshotInvalid
  <2>1. /\ UNCHANGED vars /\ UNCHANGED boot /\ UNCHANGED door /\ UNCHANGED sequence
        /\ UNCHANGED doors /\ UNCHANGED marker /\ UNCHANGED door_tracker
        /\ UNCHANGED abnormal_recovery_pending /\ UNCHANGED startup_recorded
        /\ UNCHANGED opened /\ UNCHANGED owed
        /\ snapshot_failed' = TRUE /\ entry' = {} /\ system' \subseteq {"snapshot_invalid"}
    BY <1>3 DEF SnapshotInvalid, board, disk
  <2>2. TypeOK'
    BY <1>1, <2>1, UnchangedHistory
  <2>3. DoorTypes' /\ DoorTrackerTypes' /\ DoorKnown'
    BY <1>1, <2>1 DEF DoorTypes, DoorTrackerTypes, DoorKnown
  <2>4. FlagTypes' /\ SystemTypes'
    BY <1>1, <2>1 DEF FlagTypes, SystemTypes
  <2>5. QED
    BY <2>2, <2>3, <2>4 DEF HistoryTypes
<1>4. QED
  BY <1>2, <1>3

\* The beginning of the process and its ends.
LEMMA EndType ==
  ASSUME HistoryTypes, DoorKnown, Launch \/ Exit \/ Stop \/ PowerLoss
  PROVE  HistoryTypes' /\ DoorKnown'
<1>1. TypeOK /\ DoorTypes /\ DoorTrackerTypes /\ FlagTypes /\ SystemTypes
  BY DEF HistoryTypes
<1>2. CASE Launch
  <2>1. TypeOK'
    BY <1>1, <1>2, RecorderType DEF Launch, Next
  <2>2. /\ UNCHANGED boot /\ UNCHANGED door /\ UNCHANGED sequence
        /\ UNCHANGED doors /\ UNCHANGED marker /\ UNCHANGED owed
        /\ door_tracker' = "unknown" /\ startup_recorded' = FALSE /\ snapshot_failed' = FALSE
        /\ abnormal_recovery_pending' = marker
        /\ entry' = {} /\ system' = {} /\ opened' = 0
    BY <1>2 DEF Launch, board, disk
  <2>3. 0 \in 0..MaxSequence
    BY HistoryAssumption
  <2>4. DoorTypes' /\ DoorTrackerTypes' /\ DoorKnown'
    BY <1>1, <2>2, <2>3 DEF DoorTypes, DoorTrackerTypes, DoorKnown
  <2>5. FlagTypes' /\ SystemTypes'
    BY <1>1, <2>2 DEF FlagTypes, SystemTypes
  <2>6. QED
    BY <2>1, <2>4, <2>5 DEF HistoryTypes
<1>3. CASE Exit
  <2>1. PICK steps \in 0..4 : system' = Reports(steps, {}) /\ DoorStep(steps, {})
    BY <1>3 DEF Exit
  <2>2. crashes' \in 0..MaxCrashes
    BY <1>1, <1>3, RecorderAssumption DEF Exit, TypeOK
  <2>3. TypeOK'
    BY <1>1, <1>3, <2>2, ControlType DEF Exit, TypeOK
  <2>4. /\ UNCHANGED boot /\ UNCHANGED door /\ UNCHANGED sequence
        /\ UNCHANGED <<door_tracker, opened>>
        /\ UNCHANGED abnormal_recovery_pending /\ UNCHANGED startup_recorded
        /\ UNCHANGED snapshot_failed /\ marker' = TRUE /\ owed' = "yes"
    BY <1>3 DEF Exit, board, process
  <2>5. DoorTypes' /\ DoorKnown'
    BY <1>1, <2>1, <2>4, DoorStepType DEF DoorTypes, DoorKnown
  <2>6. DoorTrackerTypes'
    BY <1>1, <2>4, UnchangedHistory
  <2>7. FlagTypes'
    BY <1>1, <2>4 DEF FlagTypes
  <2>8. SystemTypes'
    BY <1>1, <2>1, <2>4, ReportType DEF SystemTypes
  <2>9. QED
    BY <2>3, <2>5, <2>6, <2>7, <2>8 DEF HistoryTypes
<1>4. CASE Stop
  <2>1. TypeOK'
    BY <1>1, <1>4, ControlType DEF Stop, TypeOK
  <2>2. /\ UNCHANGED boot /\ UNCHANGED door /\ UNCHANGED sequence /\ UNCHANGED doors
        /\ UNCHANGED <<door_tracker, opened>>
        /\ UNCHANGED <<marker, abnormal_recovery_pending, startup_recorded, snapshot_failed>>
        /\ UNCHANGED owed /\ system' = {"shutdown"} /\ entry' = {}
    BY <1>4 DEF Stop, board, process, disk
  <2>3. DoorTypes' /\ DoorKnown'
    BY <1>1, <2>2 DEF DoorTypes, DoorKnown
  <2>4. SystemTypes'
    BY <1>1, <2>2 DEF SystemTypes
  <2>5. QED
    BY <1>1, <2>1, <2>2, <2>3, <2>4, UnchangedHistory DEF HistoryTypes
<1>5. CASE PowerLoss
  <2>1. PICK steps \in 0..4 : Report(steps, {}) /\ DoorStep(steps, {})
    BY <1>5 DEF PowerLoss
  <2>2. TypeOK'
    BY <1>1, <1>5, ControlType DEF PowerLoss, TypeOK
  <2>3. /\ boot < MaxBoots /\ boot' = boot + 1 /\ door' = "unknown" /\ sequence' = 0
        /\ UNCHANGED <<door_tracker, opened>>
        /\ UNCHANGED abnormal_recovery_pending /\ UNCHANGED startup_recorded
        /\ UNCHANGED snapshot_failed
    BY <1>5 DEF PowerLoss, process
  <2>4. boot' \in 1..MaxBoots /\ sequence' \in 0..MaxSequence /\ 1..boot \subseteq 1..boot'
    BY <1>1, <2>3, HistoryAssumption DEF DoorTypes
  <2>5. /\ doors' \subseteq [boot : 1..boot, sequence : 1..MaxSequence, open : BOOLEAN]
        /\ entry' \subseteq doors'
    BY <1>1, <2>1, DoorStepType
  <2>6. doors' \subseteq [boot : 1..boot', sequence : 1..MaxSequence, open : BOOLEAN]
    BY <2>4, <2>5
  <2>7. DoorTypes' /\ DoorKnown'
    BY <2>3, <2>4, <2>5, <2>6 DEF DoorTypes, DoorKnown
  <2>8. SystemTypes' /\ marker' \in BOOLEAN
    BY <1>1, <2>1, ReportType
  <2>9. FlagTypes'
    BY <1>1, <2>3, <2>8 DEF FlagTypes
  <2>10. QED
    BY <1>1, <2>2, <2>3, <2>7, <2>8, <2>9, UnchangedHistory DEF HistoryTypes
<1>6. QED
  BY <1>2, <1>3, <1>4, <1>5

\* Every step keeps the types.
LEMMA HistoryType ==
  HistoryTypeOK /\ DoorKnown /\ [HistoryNext]_<<vars, history>> => HistoryTypeOK' /\ DoorKnown'
<1> SUFFICES ASSUME HistoryTypes, DoorKnown, [HistoryNext]_<<vars, history>>
             PROVE  HistoryTypes' /\ DoorKnown'
  BY HistoryTypeParts
<1>1. CASE OtherParts \/ UNCHANGED <<vars, history>>
  <2>1. TypeOK'
    BY <1>1, RecorderType, UnchangedHistory DEF HistoryTypes, OtherParts
  <2>2. /\ UNCHANGED <<boot, door, sequence, doors, entry>>
        /\ UNCHANGED <<door_tracker, opened>>
        /\ UNCHANGED <<marker, abnormal_recovery_pending, startup_recorded, snapshot_failed>>
        /\ UNCHANGED <<system, owed>>
    BY <1>1 DEF OtherParts, history, board, process, disk, observed
  <2>3. DoorKnown'
    BY <2>2 DEF DoorKnown
  <2>4. QED
    BY <2>1, <2>2, <2>3, UnchangedHistory DEF HistoryTypes
<1>2. QED
  BY <1>1, BoardType, PassType, EndType DEF HistoryNext

\* Every variable of the recorder and of its history keeps its type; in particular the records
\* of the door are of this boot or an earlier one.
THEOREM HistoryTypesHold == HistorySpec => []HistoryTypeOK
<1>1. HistoryInit => HistoryTypeOK /\ DoorKnown
  BY HistoryInitType
<1>2. HistoryTypeOK /\ DoorKnown /\ [HistoryNext]_<<vars, history>> =>
        HistoryTypeOK' /\ DoorKnown'
  BY HistoryType
<1>3. QED
  BY <1>1, <1>2, PTL DEF HistorySpec

-----------------------------------------------------------------------------
(* The invariant of the recorder, in the history.                          *)

RecorderInv == RestartRestores /\ TemperatureWaits /\ HeldForDebounce /\ FireWaits /\ FireInside

LEMMA RecorderInvInit == Init => RecorderInv
<1> SUFFICES ASSUME Init PROVE RecorderInv
  OBVIOUS
<1>1. running = FALSE /\ written = {}
  BY DEF Init
<1>2. QED
  BY <1>1
  DEF RecorderInv, RestartRestores, TemperatureWaits, HeldForDebounce, FireWaits, FireInside

LEMMA RecorderInvStep == TypeOK /\ RecorderInv /\ Next => RecorderInv'
BY RestoresStep, HeldStep, FireStep DEF RecorderInv

\* The steps of the door, the losses and the ends of the process do not concern it.
LEMMA RecorderInvKept ==
  ASSUME TypeOK, RecorderInv, UNCHANGED others, running' => running, losses' = 0 => losses = 0
  PROVE  RecorderInv'
<1>1. /\ UNCHANGED tracker /\ UNCHANGED pending /\ UNCHANGED table /\ UNCHANGED written
      /\ UNCHANGED hot /\ UNCHANGED cool
  BY DEF others
<1>2. RestartRestores'
  BY <1>1 DEF RecorderInv, RestartRestores, Restored
<1>3. TemperatureWaits'
  BY <1>1 DEF RecorderInv, TemperatureWaits
<1>4. HeldForDebounce'
  BY <1>1 DEF RecorderInv, HeldForDebounce
<1>5. FireWaits' /\ FireInside'
  BY <1>1 DEF RecorderInv, FireWaits, FireInside
<1>6. QED
  BY <1>2, <1>3, <1>4, <1>5 DEF RecorderInv

LEMMA HistoryRecorder ==
  HistoryTypeOK /\ RecorderInv /\ [HistoryNext]_<<vars, history>> => RecorderInv'
<1> SUFFICES ASSUME HistoryTypes, RecorderInv, [HistoryNext]_<<vars, history>>
             PROVE  RecorderInv'
  BY HistoryTypeParts
<1>1. TypeOK
  BY DEF HistoryTypes
<1>2. CASE OtherParts \/ Launch
  BY <1>1, <1>2, RecorderInvStep DEF OtherParts, Launch, Next
<1>3. CASE DoorEvent \/ DoorForgotten \/ SnapshotInvalid \/ UNCHANGED <<vars, history>>
  <2>1. UNCHANGED others /\ UNCHANGED running /\ UNCHANGED losses
    BY <1>3 DEF DoorEvent, DoorForgotten, SnapshotInvalid, vars, others
  <2>2. QED
    BY <1>1, <2>1, RecorderInvKept
<1>4. CASE DoorPass
  <2>1. PICK failed \in SUBSET {"report", "unlink", "query", "door"} :
          losses' = losses + Cardinality(failed)
    BY <1>4 DEF DoorPass
  <2>2. losses' = 0 => losses = 0
    BY <1>1, <2>1, FailedCount DEF TypeOK
  <2>3. UNCHANGED others /\ UNCHANGED running
    BY <1>4 DEF DoorPass
  <2>4. QED
    BY <1>1, <2>2, <2>3, RecorderInvKept
<1>5. CASE Exit \/ Stop \/ PowerLoss
  <2>1. UNCHANGED others /\ ~running' /\ UNCHANGED losses
    BY <1>5 DEF Exit, Stop, PowerLoss
  <2>2. QED
    BY <1>1, <2>1, RecorderInvKept
<1>6. QED
  BY <1>2, <1>3, <1>4, <1>5 DEF HistoryNext

-----------------------------------------------------------------------------
(* The records of the door.                                                *)

\* The records of this boot are not ahead of the driver, and one that is level with it has
\* the door as it is.
RecordsFollowDoor ==
  \A r \in doors : r.boot = boot =>
    /\ r.sequence <= sequence
    /\ r.sequence = sequence /\ door # "unknown" => (r.open <=> door = "active")

\* A door that is open to a process that last saw it closed has been opened since.
OpenedSince ==
  running /\ door_tracker = "inactive" /\ door = "active" =>
    \A r \in doors : r.boot = boot /\ r.open => r.sequence < sequence

\* An execution that looks at another part of the snapshot does not look at the door.
DoorIdle ==
  objects # "door" =>
    /\ door = "unknown" /\ door_tracker = "unknown" /\ entry = {} /\ system = {}
    /\ owed = "no" /\ ~marker /\ ~abnormal_recovery_pending

LEMMA IdleStep == DoorIdle /\ [HistoryNext]_<<vars, history>> => DoorIdle'
<1> SUFFICES ASSUME DoorIdle, [HistoryNext]_<<vars, history>> PROVE DoorIdle'
  OBVIOUS
<1>1. CASE OtherParts \/ UNCHANGED <<vars, history>>
  <2>1. /\ UNCHANGED door /\ UNCHANGED door_tracker /\ UNCHANGED entry
        /\ UNCHANGED system /\ UNCHANGED owed /\ UNCHANGED marker
        /\ UNCHANGED abnormal_recovery_pending
    BY <1>1 DEF OtherParts, history, board, process, disk, observed
  <2>2. UNCHANGED objects
    BY <1>1 DEF OtherParts, vars, Next, Start, AlarmPass, SensorPass, ThresholdPass, Settle, Die
  <2>3. QED
    BY <2>1, <2>2 DEF DoorIdle
<1>2. CASE DoorEvent \/ DoorForgotten \/ DoorPass \/ SnapshotInvalid
  BY <1>2 DEF DoorIdle, DoorEvent, DoorForgotten, DoorPass, SnapshotInvalid, vars, others
<1>3. CASE Launch \/ Exit \/ Stop \/ PowerLoss
  BY <1>3 DEF DoorIdle, Launch, Start, Exit, Stop, PowerLoss, others
<1>4. QED
  BY <1>1, <1>2, <1>3 DEF HistoryNext

\* A number begins itself, and none that is smaller.
LEMMA BeginsOrder ==
  ASSUME NEW a \in Nat, NEW b \in Nat
  PROVE  Begins(a, a) /\ (Begins(a, b) => a <= b)
<1>1. a \div 1 = a
  OBVIOUS
<1>2. ASSUME NEW power \in Nat \ {0}
      PROVE  b \div power <= b
  OBVIOUS
<1>3. QED
  BY <1>1, <1>2, HistoryAssumption DEF Begins

\* What is known of a record.
LEMMA RecordType ==
  ASSUME HistoryTypeOK, NEW r \in doors
  PROVE  /\ r.boot \in 1..boot /\ r.sequence \in 1..MaxSequence /\ r.open \in BOOLEAN
         /\ r = [boot |-> r.boot, sequence |-> r.sequence, open |-> r.open]
         /\ boot \in Nat /\ sequence \in Nat /\ r.sequence \in Nat /\ r.boot \in Nat
<1>1. r \in [boot : 1..boot, sequence : 1..MaxSequence, open : BOOLEAN]
  BY DEF HistoryTypeOK
<1>2. boot \in Nat /\ sequence \in Nat
  BY HistoryAssumption DEF HistoryTypeOK
<1>3. QED
  BY <1>1, <1>2, HistoryAssumption

LEMMA DoorRecordFields ==
  /\ DoorRecord.boot = boot /\ DoorRecord.sequence = sequence
  /\ DoorRecord.open <=> door = "active"
BY DEF DoorRecord

\* An opening that the table has is not due again.
LEMMA DueIsNew ==
  ASSUME HistoryTypeOK, OpenedSince, running, NEW failed, DoorDue(failed),
         door = "active", "query" \notin failed \/ door_tracker # "unknown"
  PROVE  DoorRecord \notin doors
<1>1. SUFFICES ASSUME DoorRecord \in doors PROVE FALSE
  OBVIOUS
<1>2. sequence \in Nat
  BY HistoryAssumption DEF HistoryTypeOK
<1>3. CASE door_tracker = "unknown"
  <2>1. Begins(sequence, DoorRecord.sequence)
    BY <1>2, BeginsOrder, DoorRecordFields
  <2>2. ~door_sequence_already_recorded(sequence)
    BY <1>3 DEF DoorDue
  <2>3. QED
    BY <1>1, <2>1, <2>2 DEF door_sequence_already_recorded
<1>4. CASE door_tracker = "inactive"
  <2>1. DoorRecord.sequence < sequence
    BY <1>1, <1>4, DoorRecordFields DEF OpenedSince
  <2>2. QED
    BY <1>2, <2>1, DoorRecordFields
<1>5. QED
  BY <1>3, <1>4 DEF DoorDue, HistoryTypeOK

\* The last step of a pass adds no opening that is there, if it could ask when it had to.
LEMMA EntryIsNew ==
  ASSUME HistoryTypeOK, DoorKnown, OpenedSince, NEW steps, NEW failed,
         DoorStep(steps, failed), steps > 3 => running,
         "query" \notin failed \/ door_tracker # "unknown"
  PROVE  \A r \in entry' : r.open => r \notin doors
<1>1. entry' = {} \/ (entry' = {DoorRecord} /\ DoorDue(failed) /\ steps > 3)
  BY DoorStepType, HistoryTypeParts DEF HistoryTypes
<1>2. CASE entry' = {DoorRecord} /\ DoorDue(failed) /\ steps > 3
  BY <1>2, DueIsNew, DoorRecordFields
<1>3. QED
  BY <1>1, <1>2

\* The last step of a pass keeps the records in step with the door.
LEMMA DoorStepFollows ==
  ASSUME HistoryTypeOK, DoorKnown, RecordsFollowDoor, NEW steps, NEW failed,
         DoorStep(steps, failed)
  PROVE  \A r \in doors' : r.boot = boot =>
           /\ r.sequence <= sequence
           /\ r.sequence = sequence /\ door # "unknown" => (r.open <=> door = "active")
<1>1. doors' = doors \/ doors' = doors \union {DoorRecord}
  BY DoorStepType, HistoryTypeParts DEF HistoryTypes
<1>2. sequence <= sequence
  BY HistoryAssumption DEF HistoryTypeOK
<1>3. QED
  BY <1>1, <1>2, DoorRecordFields DEF RecordsFollowDoor

LEMMA RecordsStep ==
  ASSUME HistoryTypeOK, DoorKnown, DoorIdle, RecordsFollowDoor, OpenedSince,
         [HistoryNext]_<<vars, history>>
  PROVE  RecordsFollowDoor' /\ OpenedSince'
<1>1. CASE OtherParts \/ DoorForgotten \/ SnapshotInvalid \/ UNCHANGED <<vars, history>>
  <2>1. /\ UNCHANGED boot /\ UNCHANGED sequence /\ UNCHANGED doors
        /\ UNCHANGED door_tracker /\ (UNCHANGED door \/ door' = "unknown")
    BY <1>1 DEF OtherParts, DoorForgotten, SnapshotInvalid, history, board, process, disk
  <2>2. RecordsFollowDoor'
    BY <2>1 DEF RecordsFollowDoor
  <2>3. OpenedSince'
    <3>1. CASE UNCHANGED running
      BY <2>1, <3>1 DEF OpenedSince
    <3>2. CASE OtherParts
      <4>1. door' = "unknown"
        BY <2>1, <3>2 DEF OtherParts, DoorIdle
      <4>2. QED
        BY <4>1 DEF OpenedSince
    <3>3. QED
      BY <1>1, <3>1, <3>2 DEF DoorForgotten, SnapshotInvalid, vars
  <2>4. QED
    BY <2>2, <2>3
<1>2. CASE DoorEvent
  <2>1. /\ UNCHANGED boot /\ UNCHANGED doors /\ sequence' \in (sequence + 1)..MaxSequence
    BY <1>2 DEF DoorEvent, disk
  <2>2. \A r \in doors : r.boot = boot => r.sequence < sequence'
    BY <2>1, RecordType DEF RecordsFollowDoor
  <2>3. \A r \in doors : r.boot = boot => r.sequence <= sequence' /\ r.sequence # sequence'
    BY <2>1, <2>2, RecordType
  <2>4. QED
    BY <2>1, <2>2, <2>3 DEF RecordsFollowDoor, OpenedSince
<1>3. CASE DoorPass
  <2>1. PICK failed : DoorStep(4, failed)
    BY <1>3 DEF DoorPass
  <2>2. /\ UNCHANGED boot /\ UNCHANGED sequence /\ UNCHANGED door
        /\ door_tracker' = IF door = "unknown" THEN door_tracker ELSE door
    BY <1>3 DEF DoorPass, board
  <2>3. RecordsFollowDoor'
    BY <2>1, <2>2, DoorStepFollows DEF RecordsFollowDoor
  <2>4. OpenedSince'
    BY <2>2 DEF OpenedSince
  <2>5. QED
    BY <2>3, <2>4
<1>4. CASE Launch
  <2>1. /\ UNCHANGED boot /\ UNCHANGED sequence /\ UNCHANGED door /\ UNCHANGED doors
        /\ door_tracker' = "unknown"
    BY <1>4 DEF Launch, board, disk
  <2>2. QED
    BY <2>1 DEF RecordsFollowDoor, OpenedSince
<1>5. CASE Exit \/ Stop
  <2>1. /\ UNCHANGED boot /\ UNCHANGED sequence /\ UNCHANGED door /\ ~running'
    BY <1>5 DEF Exit, Stop, board
  <2>2. \/ UNCHANGED doors
        \/ \E steps, failed : DoorStep(steps, failed)
    BY <1>5 DEF Exit, Stop, disk
  <2>3. RecordsFollowDoor'
    BY <2>1, <2>2, DoorStepFollows DEF RecordsFollowDoor
  <2>4. QED
    BY <2>1, <2>3 DEF OpenedSince
<1>6. CASE PowerLoss
  <2>1. PICK steps : DoorStep(steps, {})
    BY <1>6 DEF PowerLoss
  <2>2. boot' = boot + 1 /\ ~running'
    BY <1>6 DEF PowerLoss
  <2>3. doors' \subseteq [boot : 1..boot, sequence : 1..MaxSequence, open : BOOLEAN]
    BY <2>1, DoorStepType, HistoryTypeParts DEF HistoryTypes
  <2>4. boot \in Nat
    BY HistoryAssumption DEF HistoryTypeOK
  <2>5. \A r \in doors' : r.boot # boot'
    BY <2>2, <2>3, <2>4
  <2>6. QED
    BY <2>2, <2>5 DEF RecordsFollowDoor, OpenedSince
<1>7. QED
  BY <1>1, <1>2, <1>3, <1>4, <1>5, <1>6 DEF HistoryNext

\* An opening that a pass without losses sees is on record after it, or begins a record of an
\* earlier boot.
LEMMA PassRecordsOpening ==
  ASSUME HistoryTypeOK, DoorKnown, RecordsFollowDoor, door = "active",
         door_tracker # "active", DoorStep(4, {})
  PROVE  \/ [boot |-> boot, sequence |-> sequence, open |-> TRUE] \in doors'
         \/ \E r \in doors' : r.boot < boot /\ Begins(sequence, r.sequence)
<1>1. doors' = doors \union entry' /\ (DoorDue({}) => entry' = {DoorRecord})
  BY DEF DoorStep
<1>2. CASE DoorDue({})
  <2>1. DoorRecord = [boot |-> boot, sequence |-> sequence, open |-> TRUE]
    BY DEF DoorRecord
  <2>2. QED
    BY <1>1, <1>2, <2>1
<1>3. CASE ~DoorDue({})
  <2>1. PICK r \in doors : Begins(sequence, r.sequence)
    BY <1>3 DEF DoorDue, door_sequence_already_recorded
  <2>2. /\ r.boot \in 1..boot /\ r.open \in BOOLEAN /\ boot \in Nat
        /\ r = [boot |-> r.boot, sequence |-> r.sequence, open |-> r.open]
        /\ sequence \in Nat /\ r.sequence \in Nat
    BY RecordType
  <2>3. CASE r.boot < boot
    BY <1>1, <2>1, <2>3
  <2>4. CASE r.boot = boot
    <3>1. sequence <= r.sequence /\ r.sequence <= sequence
      BY <2>1, <2>2, <2>4, BeginsOrder DEF RecordsFollowDoor
    <3>2. r.sequence = sequence
      BY <2>2, <3>1
    <3>3. r.open = TRUE
      BY <2>2, <2>4, <3>2 DEF RecordsFollowDoor
    <3>4. r = [boot |-> boot, sequence |-> sequence, open |-> TRUE]
      BY <2>2, <2>4, <3>2, <3>3
    <3>5. QED
      BY <1>1, <3>4
  <2>5. QED
    BY <2>2, <2>3, <2>4
<1>4. QED
  BY <1>2, <1>3

LEMMA OpenStep ==
  ASSUME HistoryTypeOK, DoorKnown, DoorIdle, RecordsFollowDoor, OpenOnRecord,
         [HistoryNext]_<<vars, history>>
  PROVE  OpenOnRecord'
<1>1. CASE DoorEvent \/ DoorForgotten \/ SnapshotInvalid \/ UNCHANGED <<vars, history>>
  <2>1. /\ UNCHANGED boot /\ UNCHANGED doors /\ UNCHANGED door_tracker /\ UNCHANGED opened
        /\ UNCHANGED running /\ UNCHANGED losses
    BY <1>1
    DEF DoorEvent, DoorForgotten, SnapshotInvalid, vars, history, board, process, disk
  <2>2. QED
    BY <2>1 DEF OpenOnRecord
<1>2. CASE OtherParts \/ Launch
  <2>1. door_tracker' = "unknown"
    BY <1>2 DEF OtherParts, Launch, DoorIdle, history, process
  <2>2. QED
    BY <2>1 DEF OpenOnRecord
<1>3. CASE Exit \/ Stop \/ PowerLoss
  BY <1>3 DEF Exit, Stop, PowerLoss, OpenOnRecord
<1>4. CASE DoorPass
  <2>1. SUFFICES ASSUME losses' = 0, door_tracker' = "active"
                 PROVE  \/ [boot |-> boot', sequence |-> opened', open |-> TRUE] \in doors'
                        \/ \E r \in doors' : r.boot < boot' /\ Begins(opened', r.sequence)
    BY DEF OpenOnRecord
  <2>2. PICK failed \in SUBSET {"report", "unlink", "query", "door"} :
          losses' = losses + Cardinality(failed) /\ DoorStep(4, failed)
    BY <1>4 DEF DoorPass
  <2>3. losses = 0 /\ failed = {}
    <3>1. losses \in Nat /\ losses + Cardinality(failed) = 0
      BY <2>1, <2>2 DEF HistoryTypeOK, TypeOK
    <3>2. Cardinality(failed) \in Nat /\ (Cardinality(failed) = 0 => failed = {})
      BY FailedCount
    <3>3. losses = 0 /\ Cardinality(failed) = 0
      BY <3>1, <3>2
    <3>4. QED
      BY <3>2, <3>3
  <2>4. /\ running /\ UNCHANGED boot
        /\ door_tracker' = IF door = "unknown" THEN door_tracker ELSE door
        /\ opened' = IF door = "active" /\ door_tracker # "active" THEN sequence ELSE opened
    BY <1>4 DEF DoorPass, board
  <2>5. CASE door = "active" /\ door_tracker # "active"
    <3>1. opened' = sequence /\ boot' = boot
      BY <2>4, <2>5
    <3>2. QED
      BY <2>2, <2>3, <2>5, <3>1, PassRecordsOpening
  <2>6. CASE ~(door = "active" /\ door_tracker # "active")
    <3>1. door_tracker = "active" /\ opened' = opened /\ boot' = boot
      BY <2>1, <2>4, <2>6
    <3>2. doors \subseteq doors'
      BY <2>2 DEF DoorStep
    <3>3. \/ [boot |-> boot, sequence |-> opened, open |-> TRUE] \in doors
          \/ \E r \in doors : r.boot < boot /\ Begins(opened, r.sequence)
      BY <2>3, <2>4, <3>1 DEF OpenOnRecord
    <3>4. QED
      BY <3>1, <3>2, <3>3
  <2>7. QED
    BY <2>5, <2>6
<1>5. QED
  BY <1>1, <1>2, <1>3, <1>4 DEF HistoryNext

-----------------------------------------------------------------------------
(* The reports of abnormal ends.                                           *)

\* The marker stands for an end that is to be reported, and so does what a process that has
\* not yet recorded its start has read of it; neither is lost but with a failed insertion.
MarkerOwed ==
  /\ marker => owed # "no"
  /\ owed = "yes" => marker \/ losses > 0
  /\ running /\ ~startup_recorded =>
       /\ abnormal_recovery_pending => owed # "no"
       /\ ~abnormal_recovery_pending => owed # "yes" \/ losses > 0

\* What the first steps of a pass do to them; the marker goes without its report only if
\* that was not inserted.
LEMMA ReportOwed ==
  ASSUME HistoryTypeOK, MarkerOwed, NEW steps \in Nat, NEW failed, Report(steps, failed)
  PROVE  /\ marker' => owed' # "no"
         /\ owed' = "yes" => owed = "yes"
         /\ owed' = "yes" => marker' \/ ~marker \/ "report" \in failed
<1>1. /\ system' = Reports(steps, failed)
      /\ marker' = (marker /\ ~Removed(steps, failed))
      /\ owed' = IF "abnormal_exit" \notin system' THEN owed
                 ELSE IF Removed(steps, failed) THEN "no" ELSE "maybe"
  BY DEF Report
<1>2. marker' => marker /\ ~Removed(steps, failed)
  BY <1>1
<1>3. marker' => owed' # "no"
  BY <1>1, <1>2 DEF MarkerOwed
<1>4. owed' = "yes" => owed = "yes" /\ "abnormal_exit" \notin Reports(steps, failed)
  BY <1>1
<1>5. ASSUME Removed(steps, failed), "report" \notin failed
      PROVE  "abnormal_exit" \in Reports(steps, failed)
  BY <1>5 DEF Removed, Reports
<1>6. owed' = "yes" => marker' \/ ~marker \/ "report" \in failed
  <2>1. marker \in BOOLEAN
    BY DEF HistoryTypeOK
  <2>2. QED
    BY <1>1, <1>4, <1>5, <2>1
<1>7. QED
  BY <1>3, <1>4, <1>6

LEMMA OwedStep ==
  ASSUME HistoryTypeOK, DoorIdle, MarkerOwed, [HistoryNext]_<<vars, history>>
  PROVE  MarkerOwed'
<1>1. losses \in Nat
  BY RecorderAssumption DEF HistoryTypeOK, TypeOK
<1>2. CASE DoorEvent \/ DoorForgotten \/ SnapshotInvalid \/ UNCHANGED <<vars, history>>
  <2>1. /\ UNCHANGED marker /\ UNCHANGED owed /\ UNCHANGED startup_recorded
        /\ UNCHANGED abnormal_recovery_pending
        /\ UNCHANGED running /\ UNCHANGED losses
    BY <1>2
    DEF DoorEvent, DoorForgotten, SnapshotInvalid, vars, history, board, process, disk,
        observed
  <2>2. QED
    BY <2>1 DEF MarkerOwed
<1>3. CASE Launch
  <2>1. /\ UNCHANGED marker /\ UNCHANGED owed /\ abnormal_recovery_pending' = marker
    BY <1>3 DEF Launch, disk
  <2>2. losses > 0 => losses' > 0
    <3>1. PICK unread \in SUBSET (Stream \ Flag) : losses' = losses + Cardinality(unread)
      BY <1>3 DEF Launch, Start
    <3>2. Cardinality(unread) \in Nat
      BY UnreadCount
    <3>3. QED
      BY <1>1, <3>1, <3>2
  <2>3. QED
    BY <2>1, <2>2 DEF MarkerOwed
<1>4. CASE DoorPass
  <2>1. PICK failed \in SUBSET {"report", "unlink", "query", "door"} :
          losses' = losses + Cardinality(failed) /\ Report(4, failed)
    BY <1>4 DEF DoorPass
  <2>2. Cardinality(failed) \in Nat /\ (Cardinality(failed) = 0 => failed = {})
    BY FailedCount
  <2>3. /\ losses > 0 => losses' > 0
        /\ failed # {} => losses' > 0
    <3>1. PICK count \in Nat : count = Cardinality(failed)
      BY <2>2
    <3>2. losses' = losses + count
      BY <2>1, <3>1
    <3>3. failed # {} => count > 0
      <4>1. failed # {} => count # 0
        BY <2>2, <3>1, Zenon
      <4>2. count # 0 => count > 0
        OBVIOUS
      <4>3. QED
        BY <4>1, <4>2
    <3>4. losses > 0 => losses' > 0
      BY <1>1, <3>2
    <3>5. count > 0 => losses' > 0
      BY <1>1, <3>2
    <3>6. QED
      BY <3>3, <3>4, <3>5
  <2>4. /\ marker' => owed' # "no"
        /\ owed' = "yes" => owed = "yes"
        /\ owed' = "yes" => marker' \/ ~marker \/ "report" \in failed
    BY <2>1, ReportOwed
  <2>5. owed' = "yes" => marker' \/ losses' > 0
    BY <2>3, <2>4 DEF MarkerOwed
  <2>6. startup_recorded' = TRUE
    BY <1>4 DEF DoorPass
  <2>7. QED
    BY <2>4, <2>5, <2>6 DEF MarkerOwed
<1>5. CASE Exit
  BY <1>5 DEF Exit, MarkerOwed
<1>6. CASE Stop
  BY <1>6 DEF Stop, MarkerOwed, disk
<1>7. CASE PowerLoss
  <2>1. PICK steps \in 0..4 : Report(steps, {})
    BY <1>7 DEF PowerLoss
  <2>2. ~running' /\ UNCHANGED losses
    BY <1>7 DEF PowerLoss
  <2>3. /\ marker' => owed' # "no"
        /\ owed' = "yes" => owed = "yes"
        /\ owed' = "yes" => marker' \/ ~marker \/ "report" \in {}
    BY <2>1, ReportOwed
  <2>4. QED
    BY <2>2, <2>3 DEF MarkerOwed
<1>8. CASE OtherParts
  <2>1. owed' = "no" /\ ~marker' /\ ~abnormal_recovery_pending'
    BY <1>8 DEF OtherParts, DoorIdle, history, process, disk, observed
  <2>2. QED
    BY <2>1 DEF MarkerOwed
<1>9. QED
  BY <1>2, <1>3, <1>4, <1>5, <1>6, <1>7, <1>8 DEF HistoryNext

-----------------------------------------------------------------------------
(* The invariant of the history.                                           *)

HistoryInv ==
  /\ HistoryTypeOK /\ DoorKnown /\ DoorIdle
  /\ RecorderInv
  /\ RecordsFollowDoor /\ OpenedSince /\ OpenOnRecord
  /\ MarkerOwed

LEMMA HistoryInvInit == HistoryInit => HistoryInv
<1> SUFFICES ASSUME HistoryInit PROVE HistoryInv
  OBVIOUS
<1>1. HistoryTypeOK /\ DoorKnown
  BY HistoryInitType
<1>2. RecorderInv /\ running = FALSE
  BY RecorderInvInit DEF HistoryInit, Init
<1>3. DoorIdle /\ RecordsFollowDoor /\ OpenedSince /\ OpenOnRecord /\ MarkerOwed
  BY <1>2 DEF HistoryInit, DoorIdle, RecordsFollowDoor, OpenedSince, OpenOnRecord, MarkerOwed
<1>4. QED
  BY <1>1, <1>2, <1>3 DEF HistoryInv

LEMMA HistoryInvStep == HistoryInv /\ [HistoryNext]_<<vars, history>> => HistoryInv'
<1> SUFFICES ASSUME HistoryInv, [HistoryNext]_<<vars, history>> PROVE HistoryInv'
  OBVIOUS
<1>1. /\ HistoryTypeOK /\ DoorKnown /\ DoorIdle /\ RecorderInv /\ RecordsFollowDoor
      /\ OpenedSince /\ OpenOnRecord /\ MarkerOwed
  BY DEF HistoryInv
<1>2. HistoryTypeOK' /\ DoorKnown'
  BY <1>1, HistoryType
<1>3. DoorIdle' /\ RecorderInv'
  BY <1>1, IdleStep, HistoryRecorder
<1>4. RecordsFollowDoor' /\ OpenedSince' /\ OpenOnRecord' /\ MarkerOwed'
  BY <1>1, RecordsStep, OpenStep, OwedStep
<1>5. QED
  BY <1>2, <1>3, <1>4 DEF HistoryInv

LEMMA HistoryInvHolds == HistorySpec => []HistoryInv
BY HistoryInvInit, HistoryInvStep, PTL DEF HistorySpec

-----------------------------------------------------------------------------
(* What it proves.                                                         *)

\* As long as no insertion failed, a restart finds in the table what the trackers hold.
THEOREM RestartsRestore == HistorySpec => []RestartRestores
<1>1. HistoryInv => RestartRestores
  BY DEF HistoryInv, RecorderInv
<1>2. QED
  BY <1>1, HistoryInvHolds, PTL

\* Overheating and its end are recorded on readings that lasted for the debounce time.
THEOREM OverheatingIsHeld == HistorySpec => []HeldForDebounce
<1>1. HistoryInv => HeldForDebounce
  BY DEF HistoryInv, RecorderInv
<1>2. QED
  BY <1>1, HistoryInvHolds, PTL

\* A suspected fire is recorded only inside an alarm of the environment.
THEOREM FireIsInside == HistorySpec => FireInsideEnvironment
<1>1. HistoryInv' => (FireRecorded => tracker'["environment"] = "on")
  BY DEF HistoryInv, RecorderInv, FireInside, FireRecorded
<1>2. QED
  BY <1>1, HistoryInvHolds, PTL DEF FireInsideEnvironment

\* An opening that the recorder has seen is on record.
THEOREM OpeningsAreOnRecord == HistorySpec => []OpenOnRecord
<1>1. HistoryInv => OpenOnRecord
  BY DEF HistoryInv
<1>2. QED
  BY <1>1, HistoryInvHolds, PTL

LEMMA OpenedNew ==
  HistoryInv /\ [HistoryNext]_<<vars, history>> =>
    \/ UNCHANGED <<vars, history>>
    \/ door_tracker # "unknown" \/ losses' = losses =>
         \A r \in entry' : r.open => r \notin doors
<1> SUFFICES ASSUME HistoryInv, HistoryNext, door_tracker # "unknown" \/ losses' = losses
             PROVE  \A r \in entry' : r.open => r \notin doors
  OBVIOUS
<1>1. HistoryTypeOK /\ DoorKnown /\ DoorIdle /\ OpenedSince
  BY DEF HistoryInv
<1>2. CASE OtherParts
  <2>1. entry' = {}
    BY <1>1, <1>2 DEF OtherParts, DoorIdle, history, observed
  <2>2. QED
    BY <2>1
<1>3. CASE DoorEvent \/ DoorForgotten \/ Launch \/ SnapshotInvalid \/ Stop
  <2>1. entry' = {}
    BY <1>3 DEF DoorEvent, DoorForgotten, Launch, SnapshotInvalid, Stop
  <2>2. QED
    BY <2>1
<1>4. CASE DoorPass
  <2>1. PICK failed \in SUBSET {"report", "unlink", "query", "door"} :
          losses' = losses + Cardinality(failed) /\ DoorStep(4, failed)
    BY <1>4 DEF DoorPass
  <2>2. running
    BY <1>4 DEF DoorPass
  <2>3. losses' = losses => failed = {}
    <3>1. losses \in Nat
      BY <1>1, RecorderAssumption DEF HistoryTypeOK, TypeOK
    <3>2. Cardinality(failed) \in Nat /\ (Cardinality(failed) = 0 => failed = {})
      BY FailedCount
    <3>3. losses' = losses => Cardinality(failed) = 0
      BY <2>1, <3>1, <3>2
    <3>4. QED
      BY <3>2, <3>3
  <2>4. "query" \notin failed \/ door_tracker # "unknown"
    BY <2>3
  <2>5. QED
    BY <1>1, <2>1, <2>2, <2>4, EntryIsNew
<1>5. CASE Exit
  <2>1. PICK steps : DoorStep(steps, {})
    BY <1>5 DEF Exit
  <2>2. running
    BY <1>5 DEF Exit
  <2>3. QED
    BY <1>1, <2>1, <2>2, EntryIsNew
<1>6. CASE PowerLoss
  <2>1. PICK steps \in IF running THEN 0..4 ELSE {0} : DoorStep(steps, {})
    BY <1>6 DEF PowerLoss
  <2>2. steps > 3 => running
    BY <2>1
  <2>3. QED
    BY <1>1, <2>1, <2>2, EntryIsNew
<1>7. QED
  BY <1>2, <1>3, <1>4, <1>5, <1>6 DEF HistoryNext

\* However often the recorder is restarted while the door is open, an opening is recorded once,
\* unless its first sight of the door is one at which something fails.
THEOREM OpeningsAreRecordedOnce == HistorySpec => OpenedOnce
BY OpenedNew, HistoryInvHolds, PTL DEF HistorySpec, OpenedOnce

\* Which report the first steps of a pass make.
LEMMA ReportsMade ==
  ASSUME NEW steps \in Nat, NEW failed
  PROVE  /\ "abnormal_exit" \in Reports(steps, failed) =>
              ~startup_recorded /\ abnormal_recovery_pending /\ steps # 0
         /\ "startup" \in Reports(steps, failed) =>
              ~startup_recorded /\ ~abnormal_recovery_pending /\ steps # 0
BY DEF Reports

LEMMA ReportsGrounded ==
  HistoryInv /\ [HistoryNext]_<<vars, history>> =>
    UNCHANGED <<vars, history>>
    \/ (/\ "abnormal_exit" \in system' => owed # "no"
        /\ "startup" \in system' => owed # "yes" \/ losses > 0)
<1> SUFFICES ASSUME HistoryInv, HistoryNext,
                    NEW report \in {"abnormal_exit", "startup"}, report \in system'
             PROVE  /\ report = "abnormal_exit" => owed # "no"
                    /\ report = "startup" => owed # "yes" \/ losses > 0
  OBVIOUS
<1>1. DoorIdle /\ MarkerOwed
  BY DEF HistoryInv
<1>2. ~OtherParts
  BY <1>1 DEF OtherParts, DoorIdle, history, observed
<1>3. DoorPass \/ Exit \/ PowerLoss
  BY <1>2
  DEF HistoryNext, DoorEvent, DoorForgotten, Launch, SnapshotInvalid, Stop
<1>4. PICK steps, failed : /\ steps \in 0..4
                           /\ system' = Reports(steps, failed)
                           /\ steps # 0 => running
  BY <1>3 DEF DoorPass, Exit, PowerLoss, Report
<1>5. /\ report = "abnormal_exit" => ~startup_recorded /\ abnormal_recovery_pending /\ running
      /\ report = "startup" => ~startup_recorded /\ ~abnormal_recovery_pending /\ running
  BY <1>4, ReportsMade
<1>6. QED
  BY <1>1, <1>5 DEF MarkerOwed

\* An abnormal end that the supervisor saw is reported at the first snapshot of a later start,
\* before a start is recorded as ordinary, and only one that happened.
THEOREM ExitsAreOnRecord == HistorySpec => ExitsOnRecord
BY ReportsGrounded, HistoryInvHolds, PTL DEF HistorySpec, ExitsOnRecord

=============================================================================
