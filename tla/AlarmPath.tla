------------------------------ MODULE AlarmPath ------------------------------
(***************************************************************************)
(* From the camera to the alarm daemon: the intrusion detector of          *)
(* userspace/ai_yolov5/src/main.cc, the pipe on its standard output,       *)
(* userspace/safety_alarmd/ai_alarm_bridge.c at the other end, and the     *)
(* control socket of userspace/safety_alarmd/safety_alarmd.c.              *)
(*                                                                         *)
(* The pipe holds only the lines that the bridge acts on.  Of the daemon   *)
(* there is the AI request and what becomes of it in the driver, while the *)
(* radar asks for nothing; module AlarmDaemon has the rest.  Both ends of  *)
(* the pipe are started together and by hand; only the daemon has a        *)
(* supervisor.                                                             *)
(***************************************************************************)
EXTENDS Integers, Sequences

CONSTANTS
  ClearAfter,   \* clear_after_missed_inferences
  MaxPipe,      \* lines that the pipe takes before fflush blocks
  MaxRefusals,  \* bound on the requests that the daemon cannot apply
  MaxCrashes    \* bound on the crashes of the daemon

ASSUME PathAssumption ==
  ClearAfter \in Nat \ {0} /\ MaxPipe \in Nat \ {0}
  /\ MaxRefusals \in Nat /\ MaxCrashes \in Nat

VARIABLES
  \* The detector.
  ai,        \* "running" or "ended"
  active,    \* intrusion_active
  misses,    \* intrusion_miss_streak
  pipe,      \* "event" and "clear" lines, oldest first
  \* The bridge.
  bridge,    \* "reading" (in fgets), "asking", "ending" (the last request is due),
             \* "last" (waiting for its answer), "ended" or "killed"
  ai_alarm_on,  \* what the bridge last had confirmed
  stop,      \* stop_requested
  failed,    \* rc = EXIT_FAILURE
  socket,    \* its connection: "none", a request "on" or "off", or the answer
             \* "ok", "error" or "closed"
  \* The daemon.
  daemon,    \* "up" or "down"
  requested, \* ai_alarm_on of the daemon
  applied,   \* applied_user_alarm_on
  refusals, crashes,
  \* The driver.
  driver,    \* user_alarm, with which the next sample drives the outputs
  \* Observation.
  absent,    \* inferences since the latest person, up to ClearAfter
  confirmed  \* the latest ioctl succeeded

detectorVars == <<ai, active, misses, absent>>
bridgeVars   == <<bridge, ai_alarm_on, stop, failed>>
driverVars   == <<requested, applied, driver, confirmed>>
daemonVars   == <<daemon, driverVars, refusals, crashes>>
vars == <<detectorVars, pipe, bridgeVars, socket, daemonVars>>

Init ==
  /\ ai = "running" /\ active = FALSE /\ misses = 0 /\ pipe = <<>> /\ absent = 0
  /\ bridge = "reading" /\ ai_alarm_on = FALSE /\ stop = FALSE /\ failed = FALSE
  /\ socket = "none"
  /\ daemon = "up" /\ refusals = 0 /\ crashes = 0
  /\ requested = FALSE /\ applied = FALSE /\ driver = FALSE /\ confirmed = TRUE

-----------------------------------------------------------------------------
(* The detector.                                                           *)

\* printf and fflush.  Nothing handles SIGPIPE: without a reader it is the end.
Emit(line) ==
  IF bridge \in {"ended", "killed"}
  THEN ai' = "ended" /\ UNCHANGED pipe
  ELSE Len(pipe) < MaxPipe /\ pipe' = Append(pipe, line) /\ UNCHANGED ai

Quiet == UNCHANGED <<ai, active, pipe>>

\* Mutant of SeePerson: each person in the zone is an event.
SeePersonAgain ==
  /\ misses' = 0 /\ absent' = 0
  /\ active' = TRUE /\ Emit("event")

\* A person stands in the zone.
SeePerson ==
  /\ misses' = 0 /\ absent' = 0
  /\ IF active THEN Quiet ELSE active' = TRUE /\ Emit("event")

\* Mutant of SeeNobody: one miss too many.
SeeNobodyLate ==
  /\ absent' = IF absent < ClearAfter THEN absent + 1 ELSE absent
  /\ IF ~active THEN Quiet /\ UNCHANGED misses
     ELSE IF misses < ClearAfter
          THEN Quiet /\ misses' = misses + 1
          ELSE active' = FALSE /\ misses' = 0 /\ Emit("clear")

\* Nobody does.
SeeNobody ==
  /\ absent' = IF absent < ClearAfter THEN absent + 1 ELSE absent
  /\ IF ~active THEN Quiet /\ UNCHANGED misses
     ELSE IF misses + 1 < ClearAfter
          THEN Quiet /\ misses' = misses + 1
          ELSE active' = FALSE /\ misses' = 0 /\ Emit("clear")

Infer ==
  /\ ai = "running"
  /\ SeePerson \/ SeeNobody
  /\ UNCHANGED <<bridgeVars, socket, daemonVars>>

\* The loop ends: its time is over, a signal came, or something failed.  Other
\* output that finds no reader ends the process as well.
Finish ==
  /\ ai = "running"
  /\ ai' = "ended"
  /\ UNCHANGED <<active, misses, absent, pipe, bridgeVars, socket, daemonVars>>

-----------------------------------------------------------------------------
(* The bridge.                                                             *)

Command(on) == IF on THEN "on" ELSE "off"

\* request_ai_alarm up to the answer; connect fails when nobody listens.
Ask(on, waiting, refused) ==
  IF daemon = "up"
  THEN socket' = Command(on) /\ bridge' = waiting /\ UNCHANGED failed
  ELSE UNCHANGED socket /\ bridge' = refused /\ failed' = TRUE

\* The test of the loop.
Again == IF stop THEN "ending" ELSE "reading"

\* fgets; a line that asks for nothing new is dropped.  A signal that came just
\* before fgets does not keep it from one more line.
ReadLine ==
  /\ bridge = "reading" /\ pipe # <<>>
  /\ pipe' = Tail(pipe)
  /\ LET on == Head(pipe) = "event" IN
     IF on = ai_alarm_on THEN bridge' = Again /\ UNCHANGED <<socket, failed>>
                         ELSE Ask(on, "asking", "ending")
  /\ UNCHANGED <<ai_alarm_on, stop, detectorVars, daemonVars>>

\* Mutant of Answered: the bridge does not note that the alarm is off.
AnsweredSticky ==
  /\ bridge = "asking" /\ socket \in {"ok", "error", "closed"}
  /\ socket' = "none"
  /\ IF socket = "ok"
     THEN bridge' = Again /\ ai_alarm_on' = TRUE /\ UNCHANGED failed
     ELSE bridge' = "ending" /\ failed' = TRUE /\ UNCHANGED ai_alarm_on
  /\ UNCHANGED <<stop, pipe, detectorVars, daemonVars>>

\* read of the answer.
Answered ==
  /\ bridge = "asking" /\ socket \in {"ok", "error", "closed"}
  /\ socket' = "none"
  /\ IF socket = "ok"
     THEN bridge' = Again /\ ai_alarm_on' = ~ai_alarm_on /\ UNCHANGED failed
     ELSE bridge' = "ending" /\ failed' = TRUE /\ UNCHANGED ai_alarm_on
  /\ UNCHANGED <<stop, pipe, detectorVars, daemonVars>>

\* SIGTERM or SIGINT.
Stop ==
  /\ bridge \in {"reading", "asking"} /\ ~stop
  /\ stop' = TRUE
  /\ UNCHANGED <<bridge, ai_alarm_on, failed, pipe, socket, detectorVars, daemonVars>>

\* The signal interrupts fgets, which counts as a failure of stdin.
Interrupted ==
  /\ bridge = "reading" /\ stop
  /\ bridge' = "ending" /\ failed' = TRUE
  /\ UNCHANGED <<ai_alarm_on, stop, pipe, socket, detectorVars, daemonVars>>

EndOfInput ==
  /\ bridge = "reading" /\ ai = "ended" /\ pipe = <<>>
  /\ bridge' = "ending"
  /\ UNCHANGED <<ai_alarm_on, stop, failed, pipe, socket, detectorVars, daemonVars>>

\* Mutant of LastRequest: the alarm is withdrawn only if the bridge thinks it is on.
LastRequestIfOn ==
  /\ bridge = "ending"
  /\ IF ai_alarm_on THEN Ask(FALSE, "last", "ended")
                    ELSE bridge' = "ended" /\ UNCHANGED <<socket, failed>>
  /\ UNCHANGED <<ai_alarm_on, stop, pipe, detectorVars, daemonVars>>

\* Whatever ended the loop, the alarm is withdrawn.
LastRequest ==
  /\ bridge = "ending"
  /\ Ask(FALSE, "last", "ended")
  /\ UNCHANGED <<ai_alarm_on, stop, pipe, detectorVars, daemonVars>>

Exit ==
  /\ bridge = "last" /\ socket \in {"ok", "error", "closed"}
  /\ socket' = "none" /\ bridge' = "ended"
  /\ failed' = (failed \/ socket # "ok")
  /\ UNCHANGED <<ai_alarm_on, stop, pipe, detectorVars, daemonVars>>

\* A signal that cannot be handled, or SIGPIPE from the daemon's side.
Kill ==
  /\ bridge \notin {"ended", "killed"}
  /\ bridge' = "killed"
  /\ UNCHANGED <<ai_alarm_on, stop, failed, pipe, socket, detectorVars, daemonVars>>

-----------------------------------------------------------------------------
(* The daemon.                                                             *)

\* The ioctl.  The driver stores the request before it drives the outputs, and so
\* also when that fails.
SetUserAlarm(on) ==
  /\ driver' = on
  /\ \/ applied' = on /\ confirmed' = TRUE /\ UNCHANGED refusals
     \/ confirmed' = FALSE /\ refusals < MaxRefusals /\ refusals' = refusals + 1
        /\ UNCHANGED applied

\* apply_user_alarm: what was applied last is not sent again.
Apply(on) ==
  IF applied = on THEN UNCHANGED <<applied, driver, confirmed, refusals>>
                  ELSE SetUserAlarm(on)

\* handle_control_clients and set_ai_user_alarm: the request is stored even when
\* the driver refuses it.
Serve ==
  /\ daemon = "up" /\ socket \in {"on", "off"}
  /\ requested' = (socket = "on")
  /\ Apply(requested')
  /\ socket' = IF applied' = requested' THEN "ok" ELSE "error"
  /\ UNCHANGED <<daemon, crashes, pipe, bridgeVars, detectorVars>>

\* The connection breaks with the process; its driver keeps the alarm.
DaemonCrash ==
  /\ daemon = "up" /\ crashes < MaxCrashes
  /\ daemon' = "down" /\ crashes' = crashes + 1
  /\ socket' = IF socket \in {"on", "off"} THEN "closed" ELSE socket
  /\ UNCHANGED <<driverVars, refusals, pipe, bridgeVars, detectorVars>>

\* The supervisor; main begins by withdrawing every request, with nothing applied yet,
\* and gives up if it cannot.
DaemonStart ==
  /\ daemon = "down"
  /\ requested' = FALSE
  /\ SetUserAlarm(FALSE)
  /\ daemon' = IF confirmed' THEN "up" ELSE "down"
  /\ UNCHANGED <<crashes, socket, pipe, bridgeVars, detectorVars>>

-----------------------------------------------------------------------------
Detector == Infer \/ Finish
Bridge == \/ ReadLine \/ Answered \/ Stop \/ Interrupted \/ EndOfInput \/ LastRequest
          \/ Exit \/ Kill
Daemon == Serve \/ DaemonCrash \/ DaemonStart

Next == Detector \/ Bridge \/ Daemon

Spec == Init /\ [][Next]_vars

\* The bridge runs while it is not blocked, the daemon serves whoever
\* connects, and the supervisor starts it again.
Fairness ==
  /\ WF_vars(ReadLine) /\ WF_vars(EndOfInput) /\ WF_vars(Answered) /\ WF_vars(LastRequest)
  /\ WF_vars(Exit) /\ WF_vars(Serve) /\ WF_vars(DaemonStart)

FairSpec == Spec /\ Fairness

-----------------------------------------------------------------------------
(* Properties.                                                             *)

\* Types of all the variables.  A request or its answer waits only for a bridge
\* that is reading it, unless the bridge was killed.
TypeOK ==
  /\ ai \in {"running", "ended"} /\ active \in BOOLEAN
  /\ misses \in 0..(ClearAfter - 1) /\ absent \in 0..ClearAfter
  /\ pipe \in Seq({"event", "clear"}) /\ Len(pipe) <= MaxPipe
  /\ bridge \in {"reading", "asking", "ending", "last", "ended", "killed"}
  /\ ai_alarm_on \in BOOLEAN /\ stop \in BOOLEAN /\ failed \in BOOLEAN
  /\ socket \in {"none", "on", "off", "ok", "error", "closed"}
  /\ bridge # "killed" => (socket # "none" <=> bridge \in {"asking", "last"})
  /\ daemon \in {"up", "down"} /\ requested \in BOOLEAN /\ applied \in BOOLEAN
  /\ driver \in BOOLEAN /\ confirmed \in BOOLEAN
  /\ refusals \in 0..MaxRefusals /\ crashes \in 0..MaxCrashes

\* What the daemon holds is a state of the detector, delivered in order, or
\* nothing; when the bridge leaves its loop it can only be withdrawn, but for a
\* request that a killed bridge has left in the socket.
Undelivered == IF bridge = "asking" /\ socket \in {"on", "off"} THEN 1 ELSE 0
Closed == \/ bridge \notin {"reading", "asking"}
          \/ bridge = "asking" /\ socket = "closed"
Feed == INSTANCE DetectionFeed WITH
          detected <- active, closed <- Closed,
          late <- bridge = "killed" /\ socket = "on",
          pending <- IF Closed THEN 0 ELSE Len(pipe) + Undelivered
FollowsDetector == Feed!Spec

\* However the detector ends, its request ends as well, unless the bridge was killed
\* before it could withdraw it; and with the request the driver's alarm, unless the
\* daemon's latest ioctl failed.  The exemption is the code's: an "ai on" that the
\* driver refuses has set its flag and not applied_user_alarm_on, so that the last
\* "ai off" finds it applied, sends nothing, and the next sample sounds the alarm.
EndWithdraws ==
  (ai = "ended") ~> (bridge = "killed" \/ (~requested /\ (confirmed => ~driver)))

\* A crash of the daemon costs at most the intrusion that it falls into: as long
\* as the bridge lives and intrusions keep coming, so does the alarm, down to the
\* driver.
IntrusionsKeepComing == []<>active /\ []<>~active
RecoversFromCrash ==
  IntrusionsKeepComing /\ []~Closed => []<>(requested /\ driver)
=============================================================================
