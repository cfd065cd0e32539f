---------------------------- MODULE AlarmDaemon ----------------------------
(***************************************************************************)
(* The alarm daemon: userspace/safety_alarmd/safety_alarmd.c, under the    *)
(* supervisor of S90safety_alarmd.                                         *)
(*                                                                         *)
(* One thread polls the LD2410B UART and the control socket.  It turns     *)
(* radar frames into the radar request, control commands into the AI       *)
(* request, merges the two, and tells the driver when the merge changes.   *)
(* It also runs the background calibration of the radar module, which      *)
(* excludes monitoring and leaves a record that outlives the process.      *)
(*                                                                         *)
(* Time advances in ticks of one second, the timeout of poll.  A pass of   *)
(* the loop takes no time, so that frames and commands arrive between two  *)
(* passes; but a command to the module takes as long as its                *)
(* acknowledgements do.  Budgets bound the failing ioctls, the crashes and *)
(* the lost acknowledgements; the other inputs are free, among them the    *)
(* signals that stop the daemon and the record writes that fail.           *)
(***************************************************************************)
EXTENDS Integers, Sequences

CONSTANTS
  NearHold,       \* LD2410B_NEAR_HOLD_SECONDS
  NobodyHold,     \* LD2410B_NOBODY_HOLD_SECONDS
  Stale,          \* LD2410B_SAMPLE_STALE_MS, in ticks
  Commands,       \* the control commands that clients send
  MaxFrames,      \* bound on the frames waiting in the UART
  MaxFaults,      \* bound on the ioctls that fail
  MaxCrashes,     \* bound on the crashes
  MaxLosses       \* bound on the lost commands and acknowledgements

ASSUME DaemonAssumption ==
  /\ NearHold \in Nat \ {0} /\ NobodyHold \in Nat \ {0} /\ Stale \in Nat
  /\ MaxFrames \in Nat /\ MaxFaults \in Nat /\ MaxCrashes \in Nat /\ MaxLosses \in Nat
ASSUME CommandAssumption ==
  Commands \subseteq {"ai on", "ai off", "rear enable", "rear disable",
                      "rear status", "rear calibrate"}

VARIABLES
  pc,             \* "down", "poll", "pass" (of the loop), "ack" (a wait that does
                  \* not end) or "exit"
  ready,          \* what this pass has still to serve, in the order of the code:
                  \* "uart", "finish" (finish_calibration_if_needed), "control"
  due,            \* the wait of poll has lasted a tick
  stop_requested, \* a signal came in a pass, which goes on to its end
  enabled, user_alarm_on, ai_alarm_on,
  applied,        \* applied_user_alarm_on: -1 before the first ioctl
  sampleAge,      \* ticks since the latest valid frame; -1: radar_sample_valid = 0
  nearTimer,      \* ticks since near_since; -1: near_active = 0
  nobodyTimer,    \* ticks since nobody_since; -1: nobody_active = 0
  calibration, beforeValid, snapshot_after_pending, record_pending,
  record,         \* the state in /run/safety_alarmd.calibration, or "none"
  \* The driver, the module and the clients.
  driverUser,     \* user_alarm of the driver
  module,         \* calibration of the LD2410B
  inConfig,       \* it is in configuration mode, and sends no frames
  scene,          \* what the module sees, or "silent": it has stopped sending
  frames,         \* frames in the UART, oldest first
  request,        \* the control command that this pass is to serve, or "none"
  budget,         \* failures spent
  \* Observations: nothing in the daemon depends on them.
  confirmed,      \* the latest ioctl succeeded
  nearSpan,       \* ticks since the oldest near frame of the present run; -1: none
  clearSpan,      \* ticks since the oldest clear frame of the present run; -1: none
  compared,       \* what wrote the record had both parameter snapshots
  unrecorded      \* the latest start of the module's calibration was not put on record:
                  \* a loss, a signal, a failed write or a crash cut it off

loopVars   == <<pc, ready, due, stop_requested>>
alarmVars  == <<user_alarm_on, ai_alarm_on, applied, driverUser, confirmed>>
timerVars  == <<sampleAge, nearTimer, nobodyTimer, nearSpan, clearSpan>>
calVars    == <<calibration, beforeValid, snapshot_after_pending, record_pending,
                record, compared, unrecorded>>
moduleVars == <<module, inConfig, scene>>
vars == <<loopVars, enabled, alarmVars, timerVars, calVars,
          moduleVars, frames, request, budget>>

Frame == {"near", "clear", "calibrating", "success", "failed"}
Scene == {"near", "clear", "silent"}
CalibrationState == {"idle", "waiting", "running", "success", "failed", "unknown"}

Spend(kind, max) == budget[kind] < max /\ budget' = [budget EXCEPT ![kind] = @ + 1]

Init ==
  /\ pc = "down" /\ ready = {} /\ due = FALSE /\ stop_requested = FALSE
  /\ enabled = FALSE /\ user_alarm_on = FALSE /\ ai_alarm_on = FALSE /\ applied = -1
  /\ sampleAge = -1 /\ nearTimer = -1 /\ nobodyTimer = -1
  /\ calibration = "idle" /\ beforeValid = FALSE
  /\ snapshot_after_pending = FALSE /\ record_pending = FALSE /\ record = "none"
  /\ driverUser = FALSE /\ module = "idle" /\ inConfig = FALSE /\ scene \in Scene
  /\ frames = <<>> /\ request = "none"
  /\ budget = [faults |-> 0, crashes |-> 0, losses |-> 0]
  /\ confirmed = FALSE
  /\ nearSpan = -1 /\ clearSpan = -1 /\ compared = FALSE /\ unrecorded = FALSE

-----------------------------------------------------------------------------
(* Time.                                                                   *)

\* Every age grows; beyond the limit that any test looks at it stays there.
Older(age, ticks, limit) ==
  CASE age = -1 -> -1
    [] age # -1 /\ age + ticks < limit -> age + ticks
    [] OTHER -> limit

Elapse(ticks) ==
  /\ sampleAge' = Older(sampleAge, ticks, Stale + 2)
  /\ nearTimer' = Older(nearTimer, ticks, NearHold)
  /\ nobodyTimer' = Older(nobodyTimer, ticks, NobodyHold)
  /\ nearSpan' = Older(nearSpan, ticks, NearHold)
  /\ clearSpan' = Older(clearSpan, ticks, NobodyHold)

Streaming == scene # "silent" /\ ~inConfig

\* poll returns after a tick at the latest; so does the wait for an
\* acknowledgement if the module sends nothing at all in the meantime.  A
\* module that is alive sends ten frames a tick.
Tick ==
  /\ pc \in {"poll", "ack", "down"} /\ ~due
  /\ pc = "poll" /\ Streaming => frames # <<>> \/ sampleAge = 0
  /\ due' = (pc # "down")
  /\ Elapse(1)
  /\ UNCHANGED <<pc, ready, stop_requested, enabled, alarmVars, calVars, moduleVars,
                 frames, request, budget>>

-----------------------------------------------------------------------------
(* The merge and its delivery.                                             *)

\* apply_user_alarm with a given cached value: nothing is sent when the merge is
\* what was last applied.  A failing ioctl is a failing output: the driver has
\* stored the flag before it tried the PWM, and the cache keeps its value.
ApplyUserAlarm(cached, radar, ai, ok) ==
  LET active == IF radar \/ ai THEN 1 ELSE 0 IN
  /\ user_alarm_on' = radar /\ ai_alarm_on' = ai
  /\ applied' = IF ok THEN active ELSE cached
  /\ IF cached = active
       THEN ok /\ UNCHANGED <<driverUser, confirmed, budget>>
       ELSE /\ driverUser' = (active = 1) /\ confirmed' = ok
            /\ IF ok THEN UNCHANGED budget ELSE Spend("faults", MaxFaults)

\* Mutant of Unsent: a new daemon believes that the alarm is off.
UnsentOff == 0

\* The cached value of a new daemon, which matches no merge.
Unsent == -1

-----------------------------------------------------------------------------
(* The life of the process.                                                *)

Forget ==
  /\ pc' = "down" /\ ready' = {} /\ due' = FALSE /\ stop_requested' = FALSE
  /\ frames' = <<>> /\ request' = "none"

\* Mutant of Loaded: a missing file is not looked for.
LoadedAnyway == record

\* load_calibration_record.
Loaded == IF record = "none" THEN "idle" ELSE record

\* main up to the event loop: the record of an earlier process is loaded, and
\* the first ioctl is sent whatever the driver holds, since applied is -1.
Start ==
  /\ pc = "down"
  /\ calibration' = Loaded
  /\ beforeValid' = FALSE /\ snapshot_after_pending' = FALSE /\ record_pending' = FALSE
  /\ enabled' = FALSE
  /\ sampleAge' = -1 /\ nearTimer' = -1 /\ nobodyTimer' = -1
  /\ nearSpan' = -1 /\ clearSpan' = -1
  /\ \E ok \in BOOLEAN :
       /\ ApplyUserAlarm(Unsent, FALSE, FALSE, ok)
       /\ pc' \in IF ok THEN {"poll", "exit"} ELSE {"exit"}  \* no UART, no socket
  /\ unrecorded' = (unrecorded /\ module \in {"waiting", "running"})
  /\ UNCHANGED <<ready, due, stop_requested, record, compared, moduleVars, frames,
                 request>>

\* The end of main: both requests are withdrawn.
EndOfMain ==
  /\ \E ok \in BOOLEAN : ApplyUserAlarm(applied, FALSE, FALSE, ok)
  /\ Forget
  /\ UNCHANGED <<enabled, timerVars, calVars, moduleVars>>

\* After an error, or a pass in which a signal came.
Exit ==
  /\ pc = "exit" \/ (pc = "pass" /\ ready = {} /\ stop_requested)
  /\ EndOfMain

\* SIGTERM or SIGINT ends the poll of the loop, and the loop.
Stop == pc = "poll" /\ EndOfMain

Crash ==
  /\ pc # "down"
  /\ Spend("crashes", MaxCrashes)
  /\ Forget
  /\ UNCHANGED <<enabled, alarmVars, timerVars, calVars, moduleVars>>

-----------------------------------------------------------------------------
(* The radar.                                                              *)

\* Mutant of Started: the timer starts again with every frame.
Restarted(timer) == 0

\* A timer that is already running keeps the time it was started at.
Started(timer) == IF timer = -1 THEN 0 ELSE timer

\* The two branches of update_rear_monitor, for one target frame of an enabled
\* monitor.  A failing ioctl ends the loop.
UpdateRearMonitor(frame, ok) ==
  LET clear == frame = "clear"
      raise == ~clear /\ nearTimer = NearHold
      release == clear /\ user_alarm_on /\ nobodyTimer = NobodyHold IN
  /\ nearTimer' = IF clear THEN -1 ELSE Started(nearTimer)
  /\ nobodyTimer' = IF ~clear \/ ~user_alarm_on THEN -1 ELSE Started(nobodyTimer)
  /\ IF raise \/ release
       THEN /\ ApplyUserAlarm(applied, raise, ai_alarm_on, ok)
            /\ pc' = IF ok THEN pc ELSE "exit"
       ELSE ok /\ UNCHANGED <<alarmVars, budget, pc>>

\* The evidence a frame adds, kept apart from the timers of the code.  A run of
\* near frames is broken by a clear one, and by a silence of the radar that is
\* longer than the stale limit and one poll period.
Witness(frame) ==
  LET broken == nearSpan = -1 \/ sampleAge > Stale + 1 IN
  /\ nearSpan' = CASE ~enabled \/ frame = "clear" -> -1
                   [] enabled /\ frame = "near" /\ broken -> 0
                   [] OTHER -> IF broken THEN -1 ELSE nearSpan
  /\ clearSpan' = IF ~enabled \/ frame = "near" THEN -1
                  ELSE IF frame = "clear" /\ clearSpan = -1 THEN 0 ELSE clearSpan

\* process_ld2410b_frames, one valid frame.
UartFrame ==
  LET frame == Head(frames) IN
  /\ pc = "pass" /\ "uart" \in ready /\ frames # <<>>
  /\ frames' = Tail(frames)
  /\ sampleAge' = 0
  /\ Witness(frame)
  /\ IF frame \in {"near", "clear"} /\ enabled
       THEN \E ok \in BOOLEAN : UpdateRearMonitor(frame, ok)
       ELSE UNCHANGED <<nearTimer, nobodyTimer, alarmVars, budget, pc>>
  /\ calibration' = CASE frame = "calibrating" -> "running"
                      [] frame = "success" -> "success"
                      [] frame = "failed" -> "failed"
                      [] OTHER -> calibration
  /\ snapshot_after_pending' = (snapshot_after_pending \/ frame = "success")
  /\ record_pending' = (record_pending \/ frame = "failed")
  /\ UNCHANGED <<ready, due, stop_requested, enabled, beforeValid, record, compared,
                 unrecorded, moduleVars, request>>

\* read returned EAGAIN.
UartDrained ==
  /\ pc = "pass" /\ "uart" \in ready /\ frames = <<>>
  /\ ready' = (ready \ {"uart"}) \union {"finish"}
  /\ UNCHANGED <<pc, due, stop_requested, enabled, alarmVars, timerVars, calVars,
                 moduleVars, frames, request, budget>>

\* Mutant of ExpireStaleTimers: silence does not stop the timers.
ExpireStaleTimersNot ==
  /\ pc = "pass" /\ ready = {} /\ ~stop_requested
  /\ pc' = "poll"
  /\ UNCHANGED <<ready, due, stop_requested, enabled, alarmVars, timerVars, calVars,
                 moduleVars, frames, request, budget>>

\* expire_stale_radar_timers ends the pass: both timers stop, the radar request
\* stays as it is.  Only then does the loop look for a signal.
ExpireStaleTimers ==
  /\ pc = "pass" /\ ready = {} /\ ~stop_requested
  /\ pc' = "poll"
  /\ IF sampleAge > Stale THEN nearTimer' = -1 /\ nobodyTimer' = -1
                          ELSE UNCHANGED <<nearTimer, nobodyTimer>>
  /\ UNCHANGED <<ready, due, stop_requested, enabled, alarmVars, sampleAge, nearSpan,
                 clearSpan, calVars, moduleVars, frames, request, budget>>

\* poll returns: something is readable, a tick has passed, or the driver has an
\* event (handle_event changes none of this).  A client may have sent a command.
Wake ==
  /\ pc = "poll"
  /\ pc' = "pass" /\ due' = FALSE
  /\ request' \in Commands \union {"none"}
  /\ ready' = (IF frames # <<>> THEN {"uart"} ELSE {})
              \union (IF request' # "none" THEN {"control"} ELSE {})
  /\ UNCHANGED <<stop_requested, enabled, alarmVars, timerVars, calVars, moduleVars,
                 frames, budget>>

-----------------------------------------------------------------------------
(* Commands to the module: ENABLE_CONFIG, the command proper, DISABLE_CONFIG, *)
(* each with its acknowledgement.                                          *)

\* What one such exchange can come to: whether the command took effect,
\* whether every acknowledgement was seen, the mode the module is left in, and
\* whether the wait never ends: poll is given its 1500 ms anew for every chunk
\* read, so it cannot time out while the module streams its frames.
Exchanged == [done |-> TRUE, ok |-> TRUE, config |-> FALSE, hangs |-> FALSE]
Broken(done, config, hangs) ==
  [done |-> done, ok |-> FALSE, config |-> config, hangs |-> hangs]
LostIn ==
  { Broken(FALSE, inConfig, ~inConfig),  \* ENABLE_CONFIG did not arrive
    Broken(FALSE, TRUE, FALSE),          \* its acknowledgement did not
    Broken(FALSE, FALSE, FALSE),         \* the command did not; mode ended
    Broken(TRUE, FALSE, FALSE),          \* its acknowledgement did not; mode ended
    Broken(TRUE, TRUE, FALSE),           \* DISABLE_CONFIG did not arrive
    Broken(TRUE, FALSE, TRUE) }          \* its acknowledgement did not

\* What a signal does to it: poll fails with EINTR, which it does only if nothing is
\* there to read, and the wait for that acknowledgement is given up.
SignalledIn ==
  { Broken(FALSE, TRUE, FALSE),          \* in the wait for ENABLE_CONFIG's
    Broken(TRUE, FALSE, FALSE) }         \* for the command's or DISABLE_CONFIG's

Outcomes == {Exchanged} \union LostIn

\* One exchange with outcome x: lost acknowledgements cost time, and every wait
\* drops the frames it reads.
Exchange(x) ==
  /\ inConfig' = x.config
  /\ frames' = <<>>
  /\ pc' = IF x.hangs THEN "ack" ELSE "pass"
  /\ \/ x = Exchanged /\ UNCHANGED <<timerVars, budget, stop_requested>>
     \/ /\ x \in LostIn
        /\ Spend("losses", MaxLosses) /\ \E d \in {1, Stale + 1} : Elapse(d)
        /\ UNCHANGED stop_requested
     \/ x \in SignalledIn /\ stop_requested' = TRUE /\ UNCHANGED <<timerVars, budget>>

\* Mutant of WriteRecord: nothing is written.
WriteRecordNot(state, sound, written) == UNCHANGED <<record, compared>>

\* write_calibration_record: the file cannot be opened, or is emptied and then not
\* written, which reads like none.
WriteRecord(state, sound, written) ==
  \/ written /\ record' = state /\ compared' = sound
  \/ ~written /\ UNCHANGED <<record, compared>>
  \/ ~written /\ record' = "none" /\ compared' = FALSE

\* Mutant of Conclude: a missing snapshot from before does not matter.
ConcludeBlindly(read) ==
  /\ calibration' = IF read THEN calibration ELSE "unknown"
  /\ \E written \in BOOLEAN : WriteRecord(calibration', read /\ beforeValid, written)
  /\ snapshot_after_pending' = FALSE /\ record_pending' = FALSE
  /\ UNCHANGED <<beforeValid, unrecorded>>

\* finish_calibration_if_needed once the parameters were read again or not.
Conclude(read) ==
  /\ calibration' = IF read /\ beforeValid THEN calibration ELSE "unknown"
  /\ \E written \in BOOLEAN : WriteRecord(calibration', read /\ beforeValid, written)
  /\ snapshot_after_pending' = FALSE /\ record_pending' = FALSE
  /\ UNCHANGED <<beforeValid, unrecorded>>

FinishCalibration ==
  /\ pc = "pass" /\ "finish" \in ready /\ "uart" \notin ready
  /\ IF snapshot_after_pending
       THEN \E x \in Outcomes :
              /\ Exchange(x)
              /\ IF x.hangs THEN UNCHANGED <<calVars, ready>>
                 ELSE Conclude(x.ok) /\ ready' = ready \ {"finish"}
       ELSE /\ IF record_pending
                 THEN \E written \in BOOLEAN : WriteRecord(calibration, FALSE, written)
                 ELSE UNCHANGED <<record, compared>>
            /\ record_pending' = FALSE
            /\ ready' = ready \ {"finish"}
            /\ UNCHANGED <<calibration, beforeValid, snapshot_after_pending,
                           unrecorded, stop_requested, inConfig, frames, timerVars,
                           budget, pc>>
  /\ UNCHANGED <<due, enabled, alarmVars, module, scene, request>>

\* A wait that would not end fails after all, and the pass goes on.
WaitFails ==
  /\ pc = "ack" /\ pc' = "pass" /\ due' = FALSE
  /\ ready' = ready \ {"finish"}
  /\ IF snapshot_after_pending THEN Conclude(FALSE) ELSE UNCHANGED calVars

\* The module has been silent for as long as poll waits.
AckTimeout ==
  /\ due /\ WaitFails
  /\ UNCHANGED <<stop_requested, enabled, alarmVars, timerVars, moduleVars, frames,
                 request, budget>>

\* A signal, whose handler is installed without SA_RESTART, ends the wait as well.
Interrupt ==
  /\ stop_requested' = TRUE /\ WaitFails
  /\ UNCHANGED <<enabled, alarmVars, timerVars, moduleVars, frames, request, budget>>

-----------------------------------------------------------------------------
(* Control commands.                                                       *)

CalibrationIsActive == calibration \in {"waiting", "running"}
SampleIsFresh == sampleAge \in 0..Stale

ClearTimers == nearTimer' = -1 /\ nobodyTimer' = -1 /\ UNCHANGED sampleAge
ForgetEvidence == nearSpan' = -1 /\ clearSpan' = -1

\* Mutant of SetAi: the command overwrites the other owner's request.
SetAiTakesAll(on) ==
  /\ request = IF on THEN "ai on" ELSE "ai off"
  /\ \E ok \in BOOLEAN : ApplyUserAlarm(applied, FALSE, on, ok)
  /\ UNCHANGED <<pc, ready, stop_requested, enabled, timerVars, calVars, moduleVars,
                 frames>>

SetAi(on) ==
  /\ request = IF on THEN "ai on" ELSE "ai off"
  /\ \E ok \in BOOLEAN : ApplyUserAlarm(applied, user_alarm_on, on, ok)
  /\ UNCHANGED <<pc, ready, stop_requested, enabled, timerVars, calVars, moduleVars,
                 frames>>

\* A failing ioctl is an error to the client, but monitoring is enabled.
EnableRearMonitor ==
  /\ request = "rear enable"
  /\ IF CalibrationIsActive \/ ~SampleIsFresh
       THEN UNCHANGED <<enabled, alarmVars, timerVars, budget>>
       ELSE /\ ClearTimers /\ ForgetEvidence
            /\ enabled' = TRUE
            /\ \E ok \in BOOLEAN : ApplyUserAlarm(applied, FALSE, ai_alarm_on, ok)
  /\ UNCHANGED <<pc, ready, stop_requested, calVars, moduleVars, frames>>

DisableRearMonitor ==
  /\ request = "rear disable"
  /\ ClearTimers /\ ForgetEvidence
  /\ enabled' = FALSE
  /\ \E ok \in BOOLEAN : ApplyUserAlarm(applied, FALSE, ai_alarm_on, ok)
  /\ UNCHANGED <<pc, ready, stop_requested, calVars, moduleVars, frames>>

\* query_calibration_state: what the module can answer.
QueryAnswers ==
  CASE module = "idle" -> {"not-running"}
    [] module = "waiting" -> {"not-running", "running"}
    [] module = "running" -> {"running"}
    [] module = "completed" -> {"completed"}

\* "rear status" asks the module unless monitoring is enabled, and believes it.
RearStatus ==
  /\ request = "rear status"
  /\ IF enabled
       THEN UNCHANGED <<calibration, snapshot_after_pending, inConfig, frames,
                        timerVars, budget, pc, stop_requested>>
       ELSE \E x \in Outcomes :
              /\ Exchange(x)
              /\ \E state \in QueryAnswers :
                   /\ calibration' = CASE x.ok /\ state = "running" -> "running"
                                       [] x.ok /\ state = "completed" -> "success"
                                       [] OTHER -> calibration
                   /\ snapshot_after_pending' =
                        (snapshot_after_pending \/ (x.ok /\ state = "completed"))
  /\ ready' = ready \union {"finish"}
  /\ UNCHANGED <<enabled, alarmVars, beforeValid, record_pending, record, compared,
                 unrecorded, module, scene>>

MayCalibrate == ~enabled /\ ~CalibrationIsActive

\* start_calibration: a snapshot of the parameters, then the start command.  Only its full
\* success is believed and recorded, whatever the module did.
StartCalibration ==
  /\ request = "rear calibrate"
  /\ \/ /\ ~MayCalibrate
        /\ UNCHANGED <<calVars, inConfig, module, frames, timerVars, budget, pc,
                       stop_requested>>
     \/ /\ MayCalibrate                          \* the snapshot fails
        /\ \E x \in LostIn : Exchange(x)
        /\ beforeValid' = FALSE
        /\ snapshot_after_pending' = FALSE /\ record_pending' = FALSE
        /\ UNCHANGED <<calibration, record, compared, unrecorded, module>>
     \/ /\ MayCalibrate                          \* the start command follows it
        /\ \E x \in Outcomes, written \in BOOLEAN :
             /\ Exchange(x)
             /\ module' = IF x.done THEN "waiting" ELSE module
             /\ unrecorded' = IF x.done THEN ~(x.ok /\ written) ELSE unrecorded
             /\ IF x.ok
                  THEN calibration' = "waiting" /\ WriteRecord("waiting", FALSE, written)
                  ELSE UNCHANGED <<calibration, record, compared>>
        /\ beforeValid' = TRUE
        /\ snapshot_after_pending' = FALSE /\ record_pending' = FALSE
  /\ UNCHANGED <<enabled, alarmVars, ready, scene>>

\* handle_control_clients, one client.
HandleRequest ==
  /\ pc = "pass" /\ ready = {"control"}
  /\ \/ \E on \in BOOLEAN : SetAi(on)
     \/ EnableRearMonitor \/ DisableRearMonitor
     \/ RearStatus \/ StartCalibration
  /\ request' = "none"
  /\ UNCHANGED due

\* accept returned EAGAIN.
ControlDrained ==
  /\ pc = "pass" /\ ready = {"control"} /\ request = "none"
  /\ ready' = {}
  /\ UNCHANGED <<pc, due, stop_requested, enabled, alarmVars, timerVars, calVars,
                 moduleVars, frames, request, budget>>

\* A crash inside start_calibration, once the module has started: before the record is
\* opened, or between that and the writing.
CrashInCalibration ==
  /\ pc = "pass" /\ ready = {"control"} /\ request = "rear calibrate" /\ MayCalibrate
  /\ Spend("crashes", MaxCrashes)
  /\ Forget
  /\ module' = "waiting" /\ unrecorded' = TRUE
  /\ \/ inConfig' \in BOOLEAN /\ UNCHANGED <<record, compared>>
     \/ inConfig' = FALSE /\ record' = "none" /\ compared' = FALSE
  /\ UNCHANGED <<enabled, alarmVars, timerVars, calibration, beforeValid,
                 snapshot_after_pending, record_pending, scene>>

\* A crash inside another handler: in an exchange that reads, or while
\* finish_calibration_if_needed writes the record.
CrashInExchange ==
  /\ pc = "pass"
  /\ \/ "finish" \in ready /\ "uart" \notin ready /\ snapshot_after_pending
     \/ ready = {"control"} /\ request = "rear status" /\ ~enabled
     \/ ready = {"control"} /\ request = "rear calibrate" /\ MayCalibrate
  /\ Spend("crashes", MaxCrashes)
  /\ Forget
  /\ inConfig' = TRUE
  /\ UNCHANGED <<enabled, alarmVars, timerVars, calVars, module, scene>>

CrashInWrite ==
  /\ pc = "pass" /\ "finish" \in ready /\ "uart" \notin ready
  /\ snapshot_after_pending \/ record_pending
  /\ Spend("crashes", MaxCrashes)
  /\ Forget
  /\ record' = "none" /\ compared' = FALSE
  /\ inConfig' = (inConfig /\ ~snapshot_after_pending)
  /\ UNCHANGED <<enabled, alarmVars, timerVars, calibration, beforeValid,
                 snapshot_after_pending, record_pending, unrecorded, module,
                 scene>>

-----------------------------------------------------------------------------
(* The module and the clients.                                             *)

SceneChanges ==
  /\ scene' \in Scene \ {scene}
  /\ UNCHANGED <<loopVars, enabled, alarmVars, timerVars, calVars, module, inConfig,
                 frames, request, budget>>

\* The module streams unless it is in configuration mode.  Nothing collects its
\* frames while the daemon is down; a wait for an acknowledgement drops them.
Emit(frame) ==
  /\ Streaming
  /\ CASE pc = "down" -> UNCHANGED <<frames, due>>
       [] pc = "ack"  -> due' = FALSE /\ UNCHANGED frames
       [] OTHER       -> /\ pc = "poll" /\ Len(frames) < MaxFrames
                         /\ frames' = Append(frames, frame)
                         /\ UNCHANGED due

RadarSends ==
  /\ Emit(IF module = "running" THEN "calibrating" ELSE scene)
  /\ UNCHANGED <<pc, ready, stop_requested, enabled, alarmVars, timerVars, calVars,
                 moduleVars, request, budget>>

\* Ten seconds after the start the module samples the room, then reports.
CalibrationProceeds ==
  /\ \/ module = "waiting" /\ module' = "running" /\ UNCHANGED <<frames, due>>
     \/ module = "running" /\ module' = "completed" /\ Emit("success")
     \/ module = "running" /\ module' = "idle" /\ Emit("failed")
  /\ UNCHANGED <<pc, ready, stop_requested, enabled, alarmVars, timerVars, calVars,
                 inConfig, scene, request, budget>>

-----------------------------------------------------------------------------
Loop == \/ Wake \/ UartFrame \/ UartDrained \/ FinishCalibration
        \/ HandleRequest \/ ControlDrained \/ ExpireStaleTimers \/ AckTimeout
Radar == RadarSends \/ CalibrationProceeds \/ SceneChanges

Next == \/ Tick \/ Start \/ Loop \/ Stop \/ Interrupt \/ Exit
        \/ Crash \/ CrashInCalibration \/ CrashInExchange \/ CrashInWrite
        \/ Radar

Spec == Init /\ [][Next]_vars

\* Time passes and a live module sends, however often poll returns early; the
\* loop and the supervisor are scheduled.  No client need ever ask, and nobody
\* need stop the daemon.
Fairness ==
  /\ SF_vars(Tick) /\ WF_vars(Loop) /\ WF_vars(Start) /\ WF_vars(Exit)
  /\ SF_vars(RadarSends)

FairSpec == Spec /\ Fairness

-----------------------------------------------------------------------------
(* Properties.                                                             *)

InLoop == pc \in {"poll", "pass", "ack"}
Ages(limit) == -1..limit

LoopTypeOK ==
  /\ pc \in {"down", "poll", "pass", "ack", "exit"}
  /\ ready \subseteq {"uart", "finish", "control"} /\ due \in BOOLEAN
  /\ stop_requested \in BOOLEAN
AlarmTypeOK ==
  /\ user_alarm_on \in BOOLEAN /\ ai_alarm_on \in BOOLEAN
  /\ applied \in -1..1 /\ driverUser \in BOOLEAN /\ confirmed \in BOOLEAN
TimerTypeOK ==
  /\ sampleAge \in Ages(Stale + 2)
  /\ nearTimer \in Ages(NearHold) /\ nobodyTimer \in Ages(NobodyHold)
  /\ nearSpan \in Ages(NearHold) /\ clearSpan \in Ages(NobodyHold)
CalTypeOK ==
  /\ calibration \in CalibrationState /\ record \in CalibrationState \union {"none"}
  /\ beforeValid \in BOOLEAN /\ compared \in BOOLEAN /\ unrecorded \in BOOLEAN
  /\ snapshot_after_pending \in BOOLEAN /\ record_pending \in BOOLEAN
ModuleTypeOK ==
  /\ module \in {"idle", "waiting", "running", "completed"}
  /\ inConfig \in BOOLEAN /\ scene \in Scene
FrameTypeOK == frames \in Seq(Frame) /\ Len(frames) <= MaxFrames
BudgetTypeOK ==
  budget \in [faults : 0..MaxFaults, crashes : 0..MaxCrashes, losses : 0..MaxLosses]

\* Types of all the variables: among them that the record file never holds
\* anything but a calibration state.
TypeOK ==
  /\ LoopTypeOK /\ enabled \in BOOLEAN /\ AlarmTypeOK /\ TimerTypeOK /\ CalTypeOK
  /\ ModuleTypeOK /\ FrameTypeOK /\ request \in Commands \union {"none"}
  /\ BudgetTypeOK

\* Whatever crashed, restarted or was refused before, while the loop runs and
\* the latest ioctl went through, the driver holds radar OR ai: no request is
\* forgotten by a cached value, and no alarm of a dead process survives.
MergeDelivered ==
  InLoop /\ confirmed => driverUser = (user_alarm_on \/ ai_alarm_on)

\* The radar raises its alarm only on evidence: near frames, and no clear one,
\* over at least the hold time, with no silence longer than the stale limit and
\* one poll period; monitoring being enabled all along.
AlarmIsEarned ==
  ~user_alarm_on /\ user_alarm_on' => enabled /\ nearSpan' = NearHold
RadarAlarmEarned == [][AlarmIsEarned]_vars

\* The radar's alarm goes only on a command, at the end of the process, or when
\* nothing near was reported for the whole clear time: a radar that falls
\* silent, and AI commands, never take it back.
ReleaseIsEarned ==
  user_alarm_on /\ ~user_alarm_on' =>
    \/ clearSpan = NobodyHold
    \/ request \in {"rear enable", "rear disable"}
    \/ "down" \in {pc, pc'}
RadarReleaseEarned == [][ReleaseIsEarned]_vars

\* The radar's request follows a target that stays near, and one that stays
\* away, provided nobody touches the monitor any more and the radar can send.
Watching(what) ==
  /\ enabled /\ scene = what /\ ~inConfig /\ module = "idle"
  /\ request \notin {"rear enable", "rear disable"}
RequestFollowsTarget ==
  /\ <>[]Watching("near") => <>[]user_alarm_on
  /\ <>[]Watching("clear") => <>[]~user_alarm_on

\* Monitoring is never enabled while a calibration is under way, whatever messages are
\* lost, waits cut off by a signal, or processes killed and replaced in the meantime: the
\* daemon that started it knows, and the next one reads the record of its predecessor.
\* Except for a calibration that never got on record, since start_calibration was cut off
\* after the module had started, or the record could not be written.
MonitorExcludesCalibration ==
  ~unrecorded =>
    ~(enabled /\ (CalibrationIsActive \/ module \in {"waiting", "running"}))

\* A success is on record only if the parameters before and after were both
\* read: a daemon that restarted in between records "unknown".
RecordedSuccessWasCompared ==
  record = "success" => compared

\* An alarm that a source keeps asking for is raised in the driver and kept.
ActiveSourceSounds ==
  <>[](InLoop /\ (user_alarm_on \/ ai_alarm_on)) => <>[]driverUser

\* The loop keeps coming back to poll, where it samples SHT3x every second.
LoopKeepsTurning == []<>(pc \in {"poll", "down"})
=============================================================================
