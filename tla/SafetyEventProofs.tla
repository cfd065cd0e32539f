------------------------- MODULE SafetyEventProofs -------------------------
(***************************************************************************)
(* Theorems about the driver, for every set of readers, every set of light *)
(* readings, every pair of thresholds and every sequence modulus.          *)
(***************************************************************************)
EXTENDS SafetyEvent, TLAPS

-----------------------------------------------------------------------------
(* Lemmas about the operators.                                             *)

\* bh1750_read_lux: the integer lux is within half a lux of raw / 1.2, so no
\* reading is rounded across a threshold by more than that (12 lux = 10 raw).
THEOREM LuxConversion ==
  ASSUME NEW sample \in 0..65535
  PROVE  /\ LuxOf(sample) \in Nat
         /\ 12 * LuxOf(sample) - 10 * sample \in -6..6
BY DEF LuxOf

\* Sequence numbers stay below the modulus.
LEMMA NextSequence ==
  ASSUME NEW n \in Sequence
  PROVE  (n + 1) % SeqModulus \in Sequence
<1>1. SeqModulus \in Nat
  BY SequenceAssumption
<1>2. SeqModulus > 0
  BY SequenceAssumption
<1>3. n + 1 \in Nat
  BY <1>1 DEF Sequence
<1>4. QED
  BY <1>1, <1>2, <1>3 DEF Sequence

\* apply_alarm_locked either succeeds, and then both outputs show the three
\* flags it was given, or is recorded as failed; and it keeps the types.
LEMMA ApplyEffect ==
  ASSUME OutputTypeOK, NEW door \in BOOLEAN, NEW lux \in BOOLEAN,
         NEW user \in BOOLEAN, ApplyAlarm(door, lux, user)
  PROVE  /\ OutputTypeOK'
         /\ applied' => /\ led' = (door \/ lux \/ user)
                        /\ (duty' /\ enabled') = (door \/ lux \/ user)
<1> DEFINE active == door \/ lux \/ user
<1>1. CASE led' = active /\ duty' = active /\ enabled' = TRUE /\ applied' = TRUE
             /\ UNCHANGED pwmFaults
  BY <1>1 DEF OutputTypeOK
<1>2. CASE /\ pwmFaults < MaxPwmFaults
           /\ pwmFaults' = pwmFaults + 1
           /\ applied' = FALSE
           /\ UNCHANGED enabled
           /\ \/ UNCHANGED <<led, duty>>
              \/ led' = active /\ UNCHANGED duty
              \/ led' = active /\ duty' = active
  <2>1. MaxPwmFaults \in Nat /\ pwmFaults \in 0..MaxPwmFaults
    BY BoundAssumption DEF OutputTypeOK
  <2>2. pwmFaults < MaxPwmFaults /\ pwmFaults' = pwmFaults + 1
    BY <1>2
  <2>3. pwmFaults' \in 0..MaxPwmFaults
    BY <2>1, <2>2
  <2>4. led' \in BOOLEAN /\ duty' \in BOOLEAN
    BY <1>2 DEF OutputTypeOK
  <2>5. QED
    BY <1>2, <2>3, <2>4 DEF OutputTypeOK
<1>3. QED
  BY <1>1, <1>2 DEF ApplyAlarm

\* Hysteresis keeps the flags Boolean.
LEMMA HysteresisType ==
  ASSUME NEW low, NEW lux
  PROVE  Hysteresis(low, lux) \in BOOLEAN
BY DEF Hysteresis

\* safety_event_publish keeps the types of what it writes.
LEMMA PublishEffect ==
  ASSUME SlotTypeOK, NEW event \in Event, Publish(event)
  PROVE  /\ SlotTypeOK'
         /\ slot'.sequence = published'
         /\ consumed' = consumed /\ readerPc' = readerPc /\ last' = last
         /\ Readers # {} => published' # consumed'
<1>1. (published + 1) % SeqModulus \in Sequence
  BY NextSequence DEF SlotTypeOK
<1> DEFINE next == (published + 1) % SeqModulus
<1> HIDE DEF next
<1>2. /\ next \in Sequence
      /\ published' = next /\ slot' = [sequence |-> next, event |-> event]
      /\ consumed' = consumed /\ readerPc' = readerPc /\ last' = last
      /\ Readers # {} => next # consumed
  BY <1>1 DEF Publish, next
<1>3. QED
  BY <1>2 DEF SlotTypeOK

\* The records the three publishers fill in.
LEMMA EventsPublished ==
  /\ \A state \in {"ACTIVE", "INACTIVE"} :
       [type |-> "DOOR_STATE_CHANGED", state |-> state] \in Event
  /\ [type |-> "TEST", state |-> "UNKNOWN"] \in Event
  /\ NoEvent \in Event
BY DEF Event, NoEvent

\* A group of variables that does not change keeps its type.
LEMMA UnchangedTypes ==
  /\ DoorTypeOK /\ UNCHANGED doorVars => DoorTypeOK'
  /\ FlagTypeOK /\ UNCHANGED flagVars => FlagTypeOK'
  /\ OutputTypeOK /\ UNCHANGED outputVars => OutputTypeOK'
  /\ WorkTypeOK /\ UNCHANGED workVars => WorkTypeOK'
  /\ SlotTypeOK /\ UNCHANGED slotVars => SlotTypeOK'
<1>1. DoorTypeOK /\ UNCHANGED doorVars => DoorTypeOK'
  BY DEF doorVars, DoorTypeOK
<1>2. FlagTypeOK /\ UNCHANGED flagVars => FlagTypeOK'
  BY DEF flagVars, FlagTypeOK
<1>3. OutputTypeOK /\ UNCHANGED outputVars => OutputTypeOK'
  BY DEF outputVars, OutputTypeOK
<1>4. WorkTypeOK /\ UNCHANGED workVars => WorkTypeOK'
  BY DEF workVars, WorkTypeOK
<1>5. SlotTypeOK /\ UNCHANGED slotVars => SlotTypeOK'
  BY DEF slotVars, SlotTypeOK
<1>6. QED
  BY <1>1, <1>2, <1>3, <1>4, <1>5

-----------------------------------------------------------------------------
(* Type correctness.                                                       *)

\* Every variable of the driver keeps its type.
THEOREM TypeCorrect == Spec => []TypeOK
<1>1. Init => TypeOK
  <2>1. 0 \in Sequence
    BY SequenceAssumption DEF Sequence
  <2>2. 0 \in 0..MaxPwmFaults
    BY BoundAssumption
  <2>3. Init => DoorTypeOK /\ FlagTypeOK /\ phase \in {"bound"}
    BY DEF Init, DoorTypeOK, FlagTypeOK
  <2>4. Init => OutputTypeOK /\ WorkTypeOK
    BY <2>2, EventsPublished DEF Init, OutputTypeOK, WorkTypeOK
  <2>5. Init => SlotTypeOK
    BY <2>1, EventsPublished DEF Init, SlotTypeOK
  <2>6. QED
    BY <2>3, <2>4, <2>5 DEF TypeOK
<1>2. TypeOK /\ [Next]_vars => TypeOK'
  <2> SUFFICES ASSUME TypeOK, [Next]_vars PROVE TypeOK'
    OBVIOUS
  <2> USE UnchangedTypes DEF TypeOK
  <2>1. CASE DoorEdge
    BY <2>1 DEF DoorEdge, DoorTypeOK
  <2>2. CASE DebounceElapses
    BY <2>2 DEF DebounceElapses, DoorTypeOK
  <2>3. CASE DoorIrqEnter
    BY <2>3 DEF DoorIrqEnter, DoorTypeOK
  <2>4. CASE DoorIrqLoadLux
    BY <2>4 DEF DoorIrqLoadLux, DoorTypeOK, FlagTypeOK
  <2>5. CASE DoorIrqUpdate
    <3>1. OutputTypeOK'
      BY <2>5, ApplyEffect DEF DoorIrqUpdate, DoorTypeOK, FlagTypeOK
    <3>2. DoorTypeOK' /\ FlagTypeOK'
      BY <2>5 DEF DoorIrqUpdate, DoorTypeOK, FlagTypeOK
    <3>3. QED
      BY <2>5, <3>1, <3>2 DEF DoorIrqUpdate
  <2>6. CASE DoorIrqPublish
    <3>1. SlotTypeOK'
      BY <2>6, PublishEffect, EventsPublished DEF DoorIrqPublish
    <3>2. DoorTypeOK'
      BY <2>6 DEF DoorIrqPublish, DoorTypeOK
    <3>3. QED
      BY <2>6, <3>1, <3>2 DEF DoorIrqPublish
  <2>7. CASE LightChanges
    BY <2>7 DEF LightChanges, WorkTypeOK
  <2>8. CASE WorkSample
    <3> DEFINE low == Hysteresis(low_lux_alarm, LuxOf(raw))
    <3>1. low \in BOOLEAN /\ luxRef' \in BOOLEAN
      BY <2>8, HysteresisType DEF WorkSample
    <3>2. OutputTypeOK'
      BY <2>8, <3>1, ApplyEffect DEF WorkSample, FlagTypeOK
    <3>3. FlagTypeOK'
      BY <2>8, <3>1 DEF WorkSample, FlagTypeOK
    <3>4. workEvent' \in Event
      BY <2>8 DEF WorkSample, Event
    <3>5. WorkTypeOK'
      BY <2>8, <3>1, <3>4 DEF WorkSample, WorkTypeOK
    <3>6. QED
      BY <2>8, <3>2, <3>3, <3>5 DEF WorkSample
  <2>9. CASE WorkPublish
    <3>1. SlotTypeOK'
      BY <2>9, PublishEffect DEF WorkPublish, WorkTypeOK
    <3>2. WorkTypeOK'
      BY <2>9, EventsPublished DEF WorkPublish, WorkTypeOK
    <3>3. QED
      BY <2>9, <3>1, <3>2 DEF WorkPublish
  <2>10. ASSUME NEW active \in BOOLEAN, SetUserAlarm(active) PROVE TypeOK'
    <3>1. OutputTypeOK'
      BY <2>10, ApplyEffect DEF SetUserAlarm, FlagTypeOK
    <3>2. FlagTypeOK'
      BY <2>10 DEF SetUserAlarm, FlagTypeOK
    <3>3. QED
      BY <2>10, <3>1, <3>2 DEF SetUserAlarm
  <2>11. CASE Inject
    <3>1. SlotTypeOK'
      BY <2>11, PublishEffect, EventsPublished DEF Inject
    <3>2. QED
      BY <2>11, <3>1 DEF Inject
  <2>12. ASSUME NEW r \in Readers, Reader(r) PROVE TypeOK'
    <3>1. SlotTypeOK'
      BY <2>12 DEF Reader, PollReady, ReadEvent, ReadBlocks, SlotTypeOK
    <3>2. QED
      BY <2>12, <3>1 DEF Reader, PollReady, ReadEvent, ReadBlocks
  <2>13. CASE RemoveCancelsWork
    BY <2>13 DEF RemoveCancelsWork, WorkTypeOK
  <2>14. CASE RemoveClears
    <3>1. OutputTypeOK'
      BY <2>14, ApplyEffect DEF RemoveClears
    <3>2. FlagTypeOK'
      BY <2>14 DEF RemoveClears, FlagTypeOK
    <3>3. QED
      BY <2>14, <3>1, <3>2 DEF RemoveClears
  <2>15. CASE RemoveReleases
    BY <2>15 DEF RemoveReleases, DoorTypeOK
  <2>16. CASE UNCHANGED vars
    BY <2>16 DEF vars
  <2>17. QED
    BY <2>1, <2>2, <2>3, <2>4, <2>5, <2>6, <2>7, <2>8, <2>9, <2>10, <2>11,
       <2>12, <2>13, <2>14, <2>15, <2>16
       DEF Next, DoorThread, Work, Remove
<1>3. QED
  BY <1>1, <1>2, PTL DEF Spec

-----------------------------------------------------------------------------
(* The merge.                                                              *)

\* The outputs show door OR low light OR user after every successful apply,
\* whichever contexts interleaved before it.  The invariant is inductive once
\* the types are known: each action that writes a flag applies it in the same
\* alarm_lock section, and no other action writes a flag or an output.
THEOREM MergeCorrect == Spec => []OutputsAreTheMerge
<1>1. Init => OutputsAreTheMerge
  BY DEF Init, OutputsAreTheMerge, AnyAlarm, Sounding
<1>2. TypeOK /\ OutputsAreTheMerge /\ [Next]_vars => OutputsAreTheMerge'
  <2> SUFFICES ASSUME TypeOK, OutputsAreTheMerge, [Next]_vars
               PROVE  OutputsAreTheMerge'
    OBVIOUS
  <2>1. CASE UNCHANGED <<flagVars, outputVars>>
    BY <2>1 DEF flagVars, outputVars, OutputsAreTheMerge, AnyAlarm, Sounding
  <2>2. CASE DoorIrqUpdate
    <3>1. ApplyAlarm(doorValue, doorLux, user_alarm)
      BY <2>2 DEF DoorIrqUpdate
    <3>2. applied' => /\ led' = (doorValue \/ doorLux \/ user_alarm)
                      /\ (duty' /\ enabled') = (doorValue \/ doorLux \/ user_alarm)
      BY <3>1, ApplyEffect DEF TypeOK, DoorTypeOK, FlagTypeOK
    <3>3. door_alarm' = doorValue /\ low_lux_alarm' = doorLux /\ user_alarm' = user_alarm
      BY <2>2 DEF DoorIrqUpdate
    <3>4. QED
      BY <3>2, <3>3 DEF OutputsAreTheMerge, AnyAlarm, Sounding
  <2>3. CASE WorkSample
    <3> DEFINE low == Hysteresis(low_lux_alarm, LuxOf(raw))
    <3>1. ApplyAlarm(door_alarm, low, user_alarm)
      BY <2>3 DEF WorkSample
    <3>2. applied' => /\ led' = (door_alarm \/ low \/ user_alarm)
                      /\ (duty' /\ enabled') = (door_alarm \/ low \/ user_alarm)
      BY <3>1, ApplyEffect, HysteresisType DEF TypeOK, FlagTypeOK
    <3>3. door_alarm' = door_alarm /\ low_lux_alarm' = low /\ user_alarm' = user_alarm
      BY <2>3 DEF WorkSample
    <3> HIDE DEF low
    <3>4. QED
      BY <3>2, <3>3 DEF OutputsAreTheMerge, AnyAlarm, Sounding
  <2>4. ASSUME NEW active \in BOOLEAN, SetUserAlarm(active)
        PROVE  OutputsAreTheMerge'
    <3>1. ApplyAlarm(door_alarm, low_lux_alarm, active)
      BY <2>4 DEF SetUserAlarm
    <3>2. applied' => /\ led' = (door_alarm \/ low_lux_alarm \/ active)
                      /\ (duty' /\ enabled') = (door_alarm \/ low_lux_alarm \/ active)
      BY <3>1, ApplyEffect DEF TypeOK, DoorTypeOK, FlagTypeOK
    <3>3. door_alarm' = door_alarm /\ low_lux_alarm' = low_lux_alarm /\ user_alarm' = active
      BY <2>4 DEF SetUserAlarm
    <3>4. QED
      BY <3>2, <3>3 DEF OutputsAreTheMerge, AnyAlarm, Sounding
  <2>5. CASE RemoveClears
    <3>1. ApplyAlarm(FALSE, FALSE, FALSE)
      BY <2>5 DEF RemoveClears
    <3>2. applied' => led' = FALSE /\ (duty' /\ enabled') = FALSE
      BY <3>1, ApplyEffect DEF TypeOK
    <3>3. door_alarm' = FALSE /\ low_lux_alarm' = FALSE /\ user_alarm' = FALSE
      BY <2>5 DEF RemoveClears
    <3>4. QED
      BY <3>2, <3>3 DEF OutputsAreTheMerge, AnyAlarm, Sounding
  <2>6. CASE DoorEdge \/ DebounceElapses \/ DoorIrqEnter \/ DoorIrqLoadLux \/ DoorIrqPublish
    BY <2>1, <2>6 DEF DoorEdge, DebounceElapses, DoorIrqEnter, DoorIrqLoadLux, DoorIrqPublish
  <2>7. CASE LightChanges \/ WorkPublish \/ Inject \/ \E r \in Readers : Reader(r)
    BY <2>1, <2>7 DEF LightChanges, WorkPublish, Inject, Reader, PollReady, ReadEvent, ReadBlocks
  <2>8. CASE RemoveCancelsWork \/ RemoveReleases
    BY <2>1, <2>8 DEF RemoveCancelsWork, RemoveReleases
  <2>9. CASE UNCHANGED vars
    BY <2>1, <2>9 DEF vars
  <2>10. QED
    BY <2>2, <2>3, <2>4, <2>5, <2>6, <2>7, <2>8, <2>9 DEF Next, DoorThread, Work, Remove
<1>3. QED
  BY <1>1, <1>2, TypeCorrect, PTL DEF Spec

-----------------------------------------------------------------------------
(* The event slot.                                                         *)

\* What holds of the slot between any two steps: it carries the newest number,
\* what was consumed is what was last read, and some reader is awake - outside
\* the system call when nothing is unread.
SlotInv ==
  /\ slot.sequence = published
  /\ last = consumed
  /\ Readers # {} =>
       IF Unread THEN \E r \in Readers : readerPc[r] # "waiting"
                 ELSE \E r \in Readers : readerPc[r] = "user"

\* SlotInv is inductive: a publication always leaves something unread, and the
\* reader that takes the last unread record is back in user space.
LEMMA SlotInvariant == Spec => []SlotInv
<1>1. Init => SlotInv
  BY DEF Init, SlotInv, Unread
<1>2. TypeOK /\ SlotInv /\ [Next]_vars => SlotInv'
  <2> SUFFICES ASSUME TypeOK, SlotInv, [Next]_vars PROVE SlotInv'
    OBVIOUS
  <2>1. CASE UNCHANGED slotVars
    BY <2>1 DEF slotVars, SlotInv, Unread
  <2>2. ASSUME NEW event \in Event, Publish(event) PROVE SlotInv'
    <3>1. /\ slot'.sequence = published' /\ last' = last /\ consumed' = consumed
          /\ readerPc' = readerPc
          /\ Readers # {} => published' # consumed'
      BY <2>2, PublishEffect DEF TypeOK
    <3>2. Readers # {} => \E r \in Readers : readerPc[r] # "waiting"
      BY DEF SlotInv
    <3>3. QED
      BY <3>1, <3>2 DEF SlotInv, Unread
  <2>3. CASE DoorIrqPublish
    BY <2>2, <2>3, EventsPublished DEF DoorIrqPublish
  <2>4. CASE WorkPublish
    BY <2>2, <2>4 DEF WorkPublish, TypeOK, WorkTypeOK
  <2>5. CASE Inject
    BY <2>2, <2>5, EventsPublished DEF Inject
  <2>6. ASSUME NEW r \in Readers, Reader(r) PROVE SlotInv'
    <3>1. CASE PollReady(r)
      BY <3>1 DEF PollReady, SlotInv, Unread, TypeOK, SlotTypeOK
    <3>2. CASE ReadEvent(r)
      BY <3>2 DEF ReadEvent, SlotInv, Unread, TypeOK, SlotTypeOK
    <3>3. CASE ReadBlocks(r)
      BY <3>3 DEF ReadBlocks, SlotInv, Unread, TypeOK, SlotTypeOK
    <3>4. QED
      BY <2>6, <3>1, <3>2, <3>3 DEF Reader
  <2>7. CASE \/ DoorEdge \/ DebounceElapses \/ DoorIrqEnter \/ DoorIrqLoadLux
             \/ DoorIrqUpdate \/ LightChanges \/ WorkSample
             \/ \E active \in BOOLEAN : SetUserAlarm(active)
    BY <2>1, <2>7 DEF DoorEdge, DebounceElapses, DoorIrqEnter, DoorIrqLoadLux,
                      DoorIrqUpdate, LightChanges, WorkSample, SetUserAlarm
  <2>8. CASE Remove
    BY <2>1, <2>8 DEF Remove, RemoveCancelsWork, RemoveClears, RemoveReleases
  <2>9. CASE UNCHANGED vars
    BY <2>1, <2>9 DEF vars
  <2>10. QED
    BY <2>3, <2>4, <2>5, <2>6, <2>7, <2>8, <2>9 DEF Next, DoorThread, Work
<1>3. QED
  BY <1>1, <1>2, TypeCorrect, PTL DEF Spec

\* However many processes share the device, they are never all asleep in read;
\* with a single reader, a read after POLLIN never sleeps.
THEOREM ReadersNeverAllAsleep == Spec => []SomeReaderAwake
<1>1. SlotInv => SomeReaderAwake
  BY DEF SlotInv, SomeReaderAwake
<1>2. QED
  BY <1>1, SlotInvariant, PTL

\* No two successive reads return the same record, and each returns the newest.
THEOREM RecordsReadOnce == Spec => NoRecordReadTwice
<1>1. TypeOK /\ SlotInv /\ [Next]_vars => [ReadIsFresh]_vars
  <2> SUFFICES ASSUME TypeOK, SlotInv, Next, NEW r \in Readers,
                      readerPc[r] # "user", readerPc'[r] = "user"
               PROVE  last' # last /\ last' = published
    BY DEF ReadIsFresh
  <2>1. readerPc' # readerPc
    OBVIOUS
  <2>2. PICK s \in Readers : Reader(s)
    BY <2>1 DEF Next, DoorThread, Work, Remove, slotVars,
       DoorEdge, DebounceElapses, DoorIrqEnter, DoorIrqLoadLux, DoorIrqUpdate,
       DoorIrqPublish, LightChanges, WorkSample, WorkPublish, SetUserAlarm, Inject,
       Publish, RemoveCancelsWork, RemoveClears, RemoveReleases
  <2>3. ReadEvent(s)
    BY <2>2 DEF Reader, PollReady, ReadBlocks, TypeOK, SlotTypeOK
  <2>4. QED
    BY <2>3 DEF ReadEvent, SlotInv, Unread
<1>2. QED
  BY <1>1, TypeCorrect, SlotInvariant, PTL DEF Spec, NoRecordReadTwice
=============================================================================
