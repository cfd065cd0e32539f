---------------------------- MODULE SafetyEvent ----------------------------
(***************************************************************************)
(* The safety_event character driver: drivers/safety_event/safety_event.c. *)
(*                                                                         *)
(* Three kernel contexts share one safety_event_dev: the threaded door     *)
(* interrupt, the self-rescheduling BH1750 work, and the system calls of   *)
(* the processes that hold /dev/safety_event open.  Two mutexes protect    *)
(* it: alarm_lock (the three alarm flags and the outputs) and lock (the    *)
(* single event slot and its two sequence numbers).  What runs under one   *)
(* mutex is one action; what runs between two critical sections, with what *)
(* was read before, is a step of its own.                                  *)
(*                                                                         *)
(* A budget bounds the failing PWM calls; door, failing reads of its GPIO, *)
(* light and readers are unconstrained.                                    *)
(***************************************************************************)
EXTENDS Integers

CONSTANTS
  Readers,           \* processes that poll and then read (blocking) the device
  RawSamples,        \* 16-bit readings the BH1750 may return
  LowThreshold,      \* lux-low-threshold of the device tree
  RecoverThreshold,  \* lux-recover-threshold of the device tree
  SeqModulus,        \* 2^32 in the code: event sequence numbers wrap
  AllowInject,       \* module parameter allow_test_inject
  MaxPwmFaults       \* bound on failing PWM calls

\* parse_bh1750 refuses thresholds that do not leave a hysteresis band.
ASSUME LightAssumption ==
  /\ RawSamples \subseteq 0..65535
  /\ LowThreshold \in Nat /\ RecoverThreshold \in Nat
  /\ LowThreshold < RecoverThreshold
ASSUME SequenceAssumption == SeqModulus \in Nat /\ SeqModulus > 1
ASSUME BoundAssumption == AllowInject \in BOOLEAN /\ MaxPwmFaults \in Nat

VARIABLES
  doorLevel,      \* the level of the door GPIO (TRUE: logically active)
  irqPending,     \* an edge is latched for the threaded handler
  debounce,       \* less than 50 ms since the last accepted edge
  doorPc,         \* where the door thread is
  doorValue,      \* the level it read from the GPIO
  doorLux,        \* the low_lux_alarm it read, without alarm_lock, at line 278
  door_alarm, low_lux_alarm, user_alarm,
  led,            \* the alarm GPIO
  duty,           \* the PWM is configured with a non-zero duty cycle
  enabled,        \* the PWM is enabled
  raw,            \* the light the BH1750 would report
  workPc,         \* where the BH1750 work is
  workEvent,      \* the event it has filled in and not yet published
  published, consumed,   \* published_sequence and consumed_sequence
  slot,           \* the single event record
  readerPc,       \* where each reader is
  phase,          \* progress of safety_event_remove
  pwmFaults,      \* failures spent
  \* Observations: nothing in the driver depends on them.
  applied,        \* the last apply_alarm_locked returned 0
  luxRef,         \* the hysteresis applied to the successful samples alone
  last            \* the sequence of the record the latest read returned

doorVars   == <<doorLevel, irqPending, debounce, doorPc, doorValue, doorLux>>
flagVars   == <<door_alarm, low_lux_alarm, user_alarm>>
outputVars == <<led, duty, enabled, applied, pwmFaults>>
workVars   == <<raw, workPc, workEvent, luxRef>>
slotVars   == <<published, consumed, slot, readerPc, last>>
vars == <<doorVars, flagVars, outputVars, workVars, slotVars, phase>>

Event == [type : {"DOOR_STATE_CHANGED", "LOW_LUX", "LUX_RECOVER",
                  "BH1750_SAMPLE", "TEST"},
          state : {"ACTIVE", "INACTIVE", "LUX_LOW", "LUX_NORMAL", "UNKNOWN"}]
NoEvent == [type |-> "TEST", state |-> "UNKNOWN"]

Init ==
  /\ doorLevel \in BOOLEAN
  /\ irqPending = FALSE /\ debounce = FALSE
  /\ doorPc = "idle" /\ doorValue = FALSE /\ doorLux = FALSE
  /\ door_alarm = FALSE /\ low_lux_alarm = FALSE /\ user_alarm = FALSE
  /\ led = FALSE /\ duty = FALSE /\ enabled = FALSE
  /\ raw \in RawSamples
  /\ workPc = "scheduled" /\ workEvent = NoEvent
  /\ published = 0 /\ consumed = 0 /\ slot = [sequence |-> 0, event |-> NoEvent]
  /\ readerPc = [r \in Readers |-> "user"]
  /\ phase = "bound"
  /\ pwmFaults = 0
  /\ applied = TRUE /\ luxRef = FALSE
  /\ last = 0

-----------------------------------------------------------------------------
(* apply_alarm_locked, given the flags the critical section has just set:  *)
(* the polarity call may fail before anything moves, pwm_config after the  *)
(* GPIO was written, pwm_enable after the duty cycle was.                  *)

ApplyAlarm(door, lux, user) ==
  LET active == door \/ lux \/ user IN
  \/ /\ led' = active /\ duty' = active /\ enabled' = TRUE /\ applied' = TRUE
     /\ UNCHANGED pwmFaults
  \/ /\ pwmFaults < MaxPwmFaults
     /\ pwmFaults' = pwmFaults + 1
     /\ applied' = FALSE
     /\ UNCHANGED enabled
     /\ \/ UNCHANGED <<led, duty>>                 \* pwm_set_polarity failed
        \/ led' = active /\ UNCHANGED duty         \* pwm_config failed
        \/ led' = active /\ duty' = active         \* pwm_enable failed

\* Mutant of Publish: the sequence number does not wrap.
PublishUnwrapped(event) ==
  /\ published' = published + 1
  /\ slot' = [sequence |-> published + 1, event |-> event]
  /\ UNCHANGED <<consumed, readerPc, last>>

\* safety_event_publish: the new record replaces whatever the slot held.  The
\* first conjunct is a bound: readers, if there are any, never let the counter
\* run a whole lap (2^32 - 1 records, a century of samples) ahead of them.
Publish(event) ==
  /\ Readers # {} => (published + 1) % SeqModulus # consumed
  /\ published' = (published + 1) % SeqModulus
  /\ slot' = [sequence |-> (published + 1) % SeqModulus, event |-> event]
  /\ UNCHANGED <<consumed, readerPc, last>>

-----------------------------------------------------------------------------
(* The door.                                                               *)

\* Either edge of the GPIO latches the interrupt; edges that arrive while
\* the one-shot thread runs coalesce.
DoorEdge ==
  /\ phase # "unbound"
  /\ doorLevel' = ~doorLevel
  /\ irqPending' = TRUE
  /\ UNCHANGED <<debounce, doorPc, doorValue, doorLux>>
  /\ UNCHANGED <<flagVars, outputVars, workVars, slotVars, phase>>

DebounceElapses ==
  /\ debounce
  /\ debounce' = FALSE
  /\ UNCHANGED <<doorLevel, irqPending, doorPc, doorValue, doorLux>>
  /\ UNCHANGED <<flagVars, outputVars, workVars, slotVars, phase>>

\* door_irq_thread up to the debounce test: an edge whose level cannot be read, or
\* within 50 ms of the last accepted one, is dropped with the level it announced.
DoorIrqEnter ==
  /\ irqPending /\ doorPc = "idle" /\ phase # "unbound"
  /\ irqPending' = FALSE
  /\ \/ UNCHANGED <<debounce, doorPc, doorValue>>
     \/ /\ ~debounce /\ debounce' = TRUE
        /\ doorPc' = "load"
        /\ doorValue' = doorLevel
  /\ UNCHANGED <<doorLevel, doorLux>>
  /\ UNCHANGED <<flagVars, outputVars, workVars, slotVars, phase>>

\* The argument of update_alarm: low_lux_alarm is read outside alarm_lock.
DoorIrqLoadLux ==
  /\ doorPc = "load"
  /\ doorPc' = "update"
  /\ doorLux' = low_lux_alarm
  /\ UNCHANGED <<doorLevel, irqPending, debounce, doorValue>>
  /\ UNCHANGED <<flagVars, outputVars, workVars, slotVars, phase>>

\* Mutant of DoorIrqUpdate: the door thread forgets the user's request.
DoorIrqUpdateDropsUser ==
  /\ doorPc = "update"
  /\ doorPc' = "publish"
  /\ door_alarm' = doorValue
  /\ low_lux_alarm' = doorLux
  /\ ApplyAlarm(doorValue, doorLux, FALSE)
  /\ UNCHANGED <<doorLevel, irqPending, debounce, doorValue, doorLux>>
  /\ UNCHANGED <<user_alarm, workVars, slotVars, phase>>

\* update_alarm writes both flags, the second from the value loaded before.
DoorIrqUpdate ==
  /\ doorPc = "update"
  /\ doorPc' = "publish"
  /\ door_alarm' = doorValue
  /\ low_lux_alarm' = doorLux
  /\ ApplyAlarm(doorValue, doorLux, user_alarm)
  /\ UNCHANGED <<doorLevel, irqPending, debounce, doorValue, doorLux>>
  /\ UNCHANGED <<user_alarm, workVars, slotVars, phase>>

DoorIrqPublish ==
  /\ doorPc = "publish"
  /\ doorPc' = "idle"
  /\ Publish([type |-> "DOOR_STATE_CHANGED",
              state |-> IF doorValue THEN "ACTIVE" ELSE "INACTIVE"])
  /\ UNCHANGED <<doorLevel, irqPending, debounce, doorValue, doorLux>>
  /\ UNCHANGED <<flagVars, outputVars, workVars, phase>>

-----------------------------------------------------------------------------
(* The light sensor.                                                       *)

\* bh1750_read_lux: raw / 1.2 rounded to the nearest integer.
LuxOf(sample) == (sample * 10 + 6) \div 12

\* Mutant of Hysteresis: recovery asks for more than the recover threshold.
HysteresisOffByOne(low, lux) ==
  \/ ~low /\ lux <= LowThreshold
  \/ low /\ lux <= RecoverThreshold

\* The low-light flag after a sample, given the flag before it.
Hysteresis(low, lux) ==
  \/ ~low /\ lux <= LowThreshold
  \/ low /\ lux < RecoverThreshold

LightChanges ==
  /\ raw' \in RawSamples \ {raw}
  /\ UNCHANGED <<workPc, workEvent, luxRef>>
  /\ UNCHANGED <<doorVars, flagVars, outputVars, slotVars, phase>>

\* Mutant of WorkSample: the outputs are applied only on a crossing.
WorkSampleAppliesOnCrossing ==
  LET lux == LuxOf(raw)
      low == Hysteresis(low_lux_alarm, lux) IN
  /\ workPc = "scheduled"
  /\ workPc' = "publish"
  /\ low_lux_alarm' = low
  /\ workEvent' = [type |-> IF low = low_lux_alarm THEN "BH1750_SAMPLE"
                            ELSE IF low THEN "LOW_LUX" ELSE "LUX_RECOVER",
                   state |-> IF low THEN "LUX_LOW" ELSE "LUX_NORMAL"]
  /\ luxRef' = Hysteresis(luxRef, lux)
  /\ IF low = low_lux_alarm THEN UNCHANGED outputVars
                            ELSE ApplyAlarm(door_alarm, low, user_alarm)
  /\ UNCHANGED <<door_alarm, user_alarm, raw>>
  /\ UNCHANGED <<doorVars, slotVars, phase>>

\* bh1750_work up to the end of its alarm_lock section: every sample, whether
\* it crosses a threshold or not, applies the outputs again.  A failing read
\* restarts the sensor and reschedules the work: it changes nothing here, no
\* event, no apply, and is a stuttering step.
WorkSample ==
  LET lux == LuxOf(raw)
      low == Hysteresis(low_lux_alarm, lux) IN
  /\ workPc = "scheduled"
  /\ workPc' = "publish"
  /\ low_lux_alarm' = low
  /\ workEvent' = [type |-> IF low = low_lux_alarm THEN "BH1750_SAMPLE"
                            ELSE IF low THEN "LOW_LUX" ELSE "LUX_RECOVER",
                   state |-> IF low THEN "LUX_LOW" ELSE "LUX_NORMAL"]
  /\ luxRef' = Hysteresis(luxRef, lux)
  /\ ApplyAlarm(door_alarm, low, user_alarm)
  /\ UNCHANGED <<door_alarm, user_alarm, raw>>
  /\ UNCHANGED <<doorVars, slotVars, phase>>

\* Outside alarm_lock, then schedule_delayed_work.
WorkPublish ==
  /\ workPc = "publish"
  /\ workPc' = "scheduled"
  /\ workEvent' = NoEvent
  /\ Publish(workEvent)
  /\ UNCHANGED <<raw, luxRef>>
  /\ UNCHANGED <<doorVars, flagVars, outputVars, phase>>

-----------------------------------------------------------------------------
(* System calls.                                                           *)

\* SAFETY_EVENT_IOC_SET_USER_ALARM: the flag stays set when the apply fails.
SetUserAlarm(active) ==
  /\ phase # "unbound"
  /\ user_alarm' = active
  /\ ApplyAlarm(door_alarm, low_lux_alarm, active)
  /\ UNCHANGED <<door_alarm, low_lux_alarm>>
  /\ UNCHANGED <<doorVars, workVars, slotVars, phase>>

\* SAFETY_EVENT_IOC_INJECT.
Inject ==
  /\ AllowInject /\ phase # "unbound"
  /\ Publish([type |-> "TEST", state |-> "UNKNOWN"])
  /\ UNCHANGED <<doorVars, flagVars, outputVars, workVars, phase>>

Unread == published # consumed

\* Mutant of PollReady: poll reports POLLIN without looking.
PollReadyAlways(r) ==
  /\ readerPc[r] = "user" /\ phase # "unbound"
  /\ readerPc' = [readerPc EXCEPT ![r] = "reading"]
  /\ UNCHANGED <<published, consumed, slot, last>>
  /\ UNCHANGED <<doorVars, flagVars, outputVars, workVars, phase>>

\* poll returned POLLIN: the reader goes on to a blocking read.
PollReady(r) ==
  /\ readerPc[r] = "user" /\ phase # "unbound"
  /\ Unread
  /\ readerPc' = [readerPc EXCEPT ![r] = "reading"]
  /\ UNCHANGED <<published, consumed, slot, last>>
  /\ UNCHANGED <<doorVars, flagVars, outputVars, workVars, phase>>

\* Mutants of ReadEvent: one sequence number is consumed per read, as if the
\* slot were a queue; and nothing is consumed at all.
ReadEventConsumesOne(r) ==
  /\ readerPc[r] \in {"reading", "waiting"} /\ phase # "unbound"
  /\ Unread
  /\ consumed' = (consumed + 1) % SeqModulus
  /\ last' = slot.sequence
  /\ readerPc' = [readerPc EXCEPT ![r] = "user"]
  /\ UNCHANGED <<published, slot>>
  /\ UNCHANGED <<doorVars, flagVars, outputVars, workVars, phase>>

ReadEventConsumesNone(r) ==
  /\ readerPc[r] \in {"reading", "waiting"} /\ phase # "unbound"
  /\ Unread
  /\ last' = slot.sequence
  /\ readerPc' = [readerPc EXCEPT ![r] = "user"]
  /\ UNCHANGED <<published, consumed, slot>>
  /\ UNCHANGED <<doorVars, flagVars, outputVars, workVars, phase>>

\* One pass of the loop of safety_event_read with something unread.
ReadEvent(r) ==
  /\ readerPc[r] \in {"reading", "waiting"} /\ phase # "unbound"
  /\ Unread
  /\ consumed' = published
  /\ last' = slot.sequence
  /\ readerPc' = [readerPc EXCEPT ![r] = "user"]
  /\ UNCHANGED <<published, slot>>
  /\ UNCHANGED <<doorVars, flagVars, outputVars, workVars, phase>>

\* Nothing unread any more: another reader was faster, and the descriptor is
\* not O_NONBLOCK, so the reader sleeps until the next publication.
ReadBlocks(r) ==
  /\ readerPc[r] = "reading" /\ phase # "unbound"
  /\ ~Unread
  /\ readerPc' = [readerPc EXCEPT ![r] = "waiting"]
  /\ UNCHANGED <<published, consumed, slot, last>>
  /\ UNCHANGED <<doorVars, flagVars, outputVars, workVars, phase>>

-----------------------------------------------------------------------------
(* safety_event_remove.                                                    *)

\* cancel_delayed_work_sync waits for a work that is running.
RemoveCancelsWork ==
  /\ phase = "bound" /\ workPc = "scheduled"
  /\ phase' = "cancelled"
  /\ workPc' = "stopped"
  /\ UNCHANGED <<raw, workEvent, luxRef>>
  /\ UNCHANGED <<doorVars, flagVars, outputVars, slotVars>>

\* clear_all_alarms.
RemoveClears ==
  /\ phase = "cancelled"
  /\ phase' = "cleared"
  /\ door_alarm' = FALSE /\ low_lux_alarm' = FALSE /\ user_alarm' = FALSE
  /\ ApplyAlarm(FALSE, FALSE, FALSE)
  /\ UNCHANGED <<doorVars, workVars, slotVars>>

\* The managed interrupt is released only after remove has returned; free_irq
\* waits for the thread.
RemoveReleases ==
  /\ phase = "cleared" /\ doorPc = "idle"
  /\ phase' = "unbound"
  /\ irqPending' = FALSE
  /\ UNCHANGED <<doorLevel, debounce, doorPc, doorValue, doorLux>>
  /\ UNCHANGED <<flagVars, outputVars, workVars, slotVars>>

-----------------------------------------------------------------------------
DoorThread == DoorIrqEnter \/ DoorIrqLoadLux \/ DoorIrqUpdate \/ DoorIrqPublish
Work == WorkSample \/ WorkPublish
Reader(r) == PollReady(r) \/ ReadEvent(r) \/ ReadBlocks(r)
Remove == RemoveCancelsWork \/ RemoveClears \/ RemoveReleases

Next ==
  \/ DoorEdge \/ DebounceElapses \/ DoorThread
  \/ LightChanges \/ Work
  \/ \E active \in BOOLEAN : SetUserAlarm(active)
  \/ Inject
  \/ \E r \in Readers : Reader(r)
  \/ Remove

Spec == Init /\ [][Next]_vars

\* The kernel runs a woken interrupt thread and an expired delayed work, time
\* passes, the sensor does not fail every read for ever, and a process whose
\* poll or read can return is scheduled.  Nothing makes anyone remove the
\* driver, move the door or change the light.
Fairness ==
  /\ WF_vars(DebounceElapses)
  /\ WF_vars(DoorThread)
  /\ WF_vars(Work)
  /\ \A r \in Readers : WF_vars(Reader(r))

FairSpec == Spec /\ Fairness

-----------------------------------------------------------------------------
(* Properties.                                                             *)

DarkSamples == {s \in RawSamples : LuxOf(s) <= LowThreshold}
BrightSamples == {s \in RawSamples : LuxOf(s) >= RecoverThreshold}
AnyAlarm == door_alarm \/ low_lux_alarm \/ user_alarm
DoorAtRest == phase = "bound" /\ doorPc = "idle" /\ ~irqPending
Sounding == duty /\ enabled

Sequence == 0..SeqModulus-1

DoorTypeOK ==
  /\ doorLevel \in BOOLEAN /\ irqPending \in BOOLEAN /\ debounce \in BOOLEAN
  /\ doorPc \in {"idle", "load", "update", "publish"}
  /\ doorValue \in BOOLEAN /\ doorLux \in BOOLEAN
FlagTypeOK ==
  door_alarm \in BOOLEAN /\ low_lux_alarm \in BOOLEAN /\ user_alarm \in BOOLEAN
OutputTypeOK ==
  /\ led \in BOOLEAN /\ duty \in BOOLEAN /\ enabled \in BOOLEAN
  /\ applied \in BOOLEAN /\ pwmFaults \in 0..MaxPwmFaults
WorkTypeOK ==
  /\ raw \in RawSamples /\ luxRef \in BOOLEAN
  /\ workPc \in {"scheduled", "publish", "stopped"} /\ workEvent \in Event
SlotTypeOK ==
  /\ published \in Sequence /\ consumed \in Sequence /\ last \in Sequence
  /\ slot \in [sequence : Sequence, event : Event]
  /\ readerPc \in [Readers -> {"user", "reading", "waiting"}]

\* Types of all the variables.
TypeOK ==
  /\ DoorTypeOK /\ FlagTypeOK /\ OutputTypeOK /\ WorkTypeOK /\ SlotTypeOK
  /\ phase \in {"bound", "cancelled", "cleared", "unbound"}

\* Whatever the order in which the door thread, the light work, the ioctl and
\* the removal took alarm_lock, the LED and the buzzer show door OR low light
\* OR user as soon as the last apply went through; a failed apply leaves them
\* wrong only until the next one.
OutputsAreTheMerge ==
  applied => /\ led = AnyAlarm
             /\ Sounding = AnyAlarm

\* The descriptors are blocking and consumed_sequence is shared, so a reader
\* that polled POLLIN may find its record gone and sleep; but the readers are
\* never all asleep, and a lone reader (safety_alarmd, which reads right after
\* poll) never sleeps at all.
SomeReaderAwake ==
  Readers # {} => \E r \in Readers : readerPc[r] # "waiting"

\* A read that returns gives a record no earlier read gave, and the newest one.
ReadIsFresh ==
  \A r \in Readers :
    readerPc[r] # "user" /\ readerPc'[r] = "user" =>
      /\ last' # last
      /\ last' = published

\* Whichever readers race for a record, no two successive reads return the
\* same one, and a read returns the newest record, never one that was already
\* overwritten in the slot.
NoRecordReadTwice == [][ReadIsFresh]_vars

\* The low-light flag belongs to the BH1750 work: whatever the door thread
\* does, the flag is what the hysteresis says of the samples taken.
LowLuxOwnedBySensor == phase = "bound" => low_lux_alarm = luxRef

\* In the dark the alarm flag is eventually raised and kept, in bright light
\* cleared and kept, door traffic and failing reads notwithstanding, once the
\* door has come to rest.  Needs no user process at all.
LightAlarmSettles ==
  /\ <>[](DoorAtRest /\ raw \in DarkSamples) => <>[]low_lux_alarm
  /\ <>[](DoorAtRest /\ raw \in BrightSamples) => <>[]~low_lux_alarm

\* An output left wrong by a failed PWM call is put right by a later sample,
\* without any further alarm change.
OutputsRecover ==
  [](~applied => <>(applied \/ phase # "bound"))

\* No wakeup is lost: an unread record is eventually taken by some reader.
UnreadIsTaken ==
  Unread ~> (~Unread \/ phase = "unbound")
=============================================================================
