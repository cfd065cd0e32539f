-------------------------- MODULE RadarParameters --------------------------
(***************************************************************************)
(* The commands that set the radar's parameters: set_radar_maximum_gate,    *)
(* set_radar_nobody_seconds and set_radar_resolution of                     *)
(* userspace/safety_alarmd/safety_alarmd.c, served by AlarmDaemon's loop.   *)
(*                                                                         *)
(* Each reads what the module has, writes, reads again and compares before  *)
(* it answers "verified"; two of them write nothing that is there already.  *)
(* Range and nobody time are written together, so that one is preserved     *)
(* only by what was read of it.  A resolution is only stored by its command;*)
(* the module works with it from the next restart on.                      *)
(***************************************************************************)
EXTENDS AlarmDaemon

CONSTANT Settings   \* the valid values of each parameter

VARIABLES
  stored,        \* the parameters that the module has stored
  operating,     \* the resolution that it works with
  command,       \* the command being served
  step,          \* what it does next; "verified" and "failed" are its answers
  before,        \* the parameters as it has read them first
  interrupted    \* observation: a set-resolution ended between its write and the
                 \* restart, and the module has not been restarted since

serving == <<command, step, before>>
parameters == <<stored, operating, serving, interrupted>>

Parameter == {"moving", "stationary", "nobody", "resolution"}
Setter == {"set-range", "set-nobody", "set-resolution"}
Readings == [Parameter -> Settings]
NoReading == [p \in {} |-> 0]
NoCommand == [name |-> "none", value |-> 0]

Idle == command' = NoCommand /\ step' = "none" /\ before' = NoReading

ParametersInit ==
  /\ Init
  /\ stored \in Readings
  /\ operating = stored["resolution"]
  /\ command = NoCommand /\ step = "none" /\ before = NoReading
  /\ interrupted = FALSE

\* What a command is about.
Target(name) ==
  CASE name = "set-range" -> {"moving", "stationary"}
    [] name = "set-nobody" -> {"nobody"}
    [] name = "set-resolution" -> {"resolution"}
    [] OTHER -> {}

\* What the module is to have, for one that had what was read.
Wanted(reading) ==
  [p \in Parameter |-> IF p \in Target(command.name) THEN command.value ELSE reading[p]]

-----------------------------------------------------------------------------
(* The steps of a command, each an exchange with the module.               *)

\* handle_control_clients may take another client; monitoring and calibration exclude
\* what is asked for here.
Acceptable ==
  /\ step = "none"
  /\ pc = "pass" /\ ready \subseteq {"control"} /\ request = "none"
  /\ ~enabled /\ ~CalibrationIsActive

Accept ==
  /\ Acceptable
  /\ command' \in [name : Setter, value : Settings]
  /\ step' = "before" /\ UNCHANGED before
  /\ UNCHANGED <<vars, stored, operating, interrupted>>

\* An exchange with the daemon's other state untouched.
Session(x) ==
  /\ Exchange(x)
  /\ UNCHANGED <<ready, due, enabled, alarmVars, calVars, module, scene, request>>

\* "rear resolution", and each half of "rear config", which only read.
Query ==
  /\ Acceptable
  /\ \E x \in Outcomes : Session(x)
  /\ UNCHANGED parameters

\* An exchange that is acknowledged, but in which the module did not store the values.
Refusal ==
  /\ Spend("losses", MaxLosses)
  /\ inConfig' = FALSE /\ frames' = <<>>
  /\ UNCHANGED <<loopVars, enabled, alarmVars, timerVars, calVars, module, scene, request>>

\* read_radar_parameters or read_radar_resolution, which tells what is stored (the code
\* expects the new value before the restart).
AlreadyThere == command.name # "set-nobody" /\ Wanted(stored) = stored

ReadBefore ==
  /\ pc = "pass" /\ step = "before"
  /\ \E x \in Outcomes :
       /\ Session(x)
       /\ before' = IF x.ok THEN stored ELSE before
       /\ step' = CASE ~x.ok -> "failed"
                    [] x.ok /\ AlreadyThere -> "verified"
                    [] OTHER -> "write"
  /\ UNCHANGED <<stored, operating, command, interrupted>>

\* SET_PARAMETERS: both maximum gates and the nobody time.
WriteParameters ==
  /\ pc = "pass" /\ step = "write" /\ command.name # "set-resolution"
  /\ \/ \E x \in Outcomes :
          /\ Session(x)
          /\ stored' = IF x.done THEN Wanted(before) ELSE stored
          /\ step' = IF x.ok THEN "after" ELSE "failed"
     \/ Refusal /\ step' = "after" /\ UNCHANGED stored
  /\ UNCHANGED <<operating, command, before, interrupted>>

\* SET_RESOLUTION, and a query in the same session, which goes on if both succeed.
WriteResolution ==
  /\ pc = "pass" /\ step = "write" /\ command.name = "set-resolution"
  /\ \/ /\ step' = "restart" /\ inConfig' = TRUE /\ frames' = <<>>
        /\ stored' = Wanted(stored)
        /\ UNCHANGED <<loopVars, enabled, alarmVars, timerVars, calVars, module, scene,
                       request, budget, interrupted>>
     \/ /\ \E x \in LostIn :
             /\ x.done => ~x.config /\ ~x.hangs     \* no DISABLE_CONFIG yet
             /\ Session(x)
             /\ stored' = IF x.done THEN Wanted(stored) ELSE stored
             /\ interrupted' = (interrupted \/ x.done)
        /\ step' = "failed"
     \/ Refusal /\ step' = "failed" /\ UNCHANGED <<stored, interrupted>>
  /\ UNCHANGED <<operating, command, before>>

\* The module restarts, which ends its configuration mode.
Restarts == operating' = stored["resolution"] /\ inConfig' = FALSE

\* RESTART, and the time to settle.  Without its acknowledgement nothing ends the
\* configuration mode of a module that did not get it; one that did streams again,
\* and may do so early enough to prolong the wait.
Restart ==
  /\ pc = "pass" /\ step = "restart"
  /\ frames' = <<>>
  /\ \/ /\ Restarts /\ step' = "after" /\ interrupted' = FALSE
        /\ sampleAge' = -1 /\ nearTimer' = -1 /\ nobodyTimer' = -1
        /\ UNCHANGED <<pc, nearSpan, clearSpan, budget>>
        /\ UNCHANGED stop_requested
     \/ /\ Spend("losses", MaxLosses)
        /\ \E d \in {1, Stale + 1} : Elapse(d)
        /\ \/ UNCHANGED <<operating, inConfig, pc>> /\ interrupted' = TRUE
           \/ Restarts /\ pc' \in {"pass", "ack"} /\ interrupted' = FALSE
        /\ step' = "failed"
        /\ UNCHANGED stop_requested
     \/ /\ stop_requested' = TRUE           \* a signal ends the wait
        /\ Restarts /\ step' = "failed" /\ interrupted' = FALSE
        /\ UNCHANGED <<pc, timerVars, budget>>
  /\ UNCHANGED <<ready, due, enabled, alarmVars, calVars, module, scene, request,
                 stored, command, before>>

\* Mutant of ReadAfter: the acknowledgement is enough.
ReadAfterUnseen ==
  /\ pc = "pass" /\ step = "after"
  /\ step' = "verified"
  /\ UNCHANGED <<vars, stored, operating, command, before, interrupted>>

\* Read again, and compare.
ReadAfter ==
  /\ pc = "pass" /\ step = "after"
  /\ \E x \in Outcomes :
       /\ Session(x)
       /\ step' = IF x.ok /\ stored = Wanted(before) THEN "verified" ELSE "failed"
  /\ UNCHANGED <<stored, operating, command, before, interrupted>>

\* The client is answered.
Reply ==
  /\ pc = "pass" /\ step \in {"verified", "failed"}
  /\ Idle
  /\ UNCHANGED <<vars, stored, operating, interrupted>>

\* The daemon dies while it serves a command, whose present step has its effect or not.
CrashInCommand ==
  /\ pc = "pass" /\ step # "none"
  /\ Spend("crashes", MaxCrashes)
  /\ Forget /\ Idle
  /\ inConfig' \in BOOLEAN
  /\ stored' \in IF step # "write" THEN {stored}
                 ELSE IF command.name = "set-resolution" THEN {stored, Wanted(stored)}
                 ELSE {stored, Wanted(before)}
  /\ operating' \in IF step = "restart" THEN {operating, stored["resolution"]} ELSE {operating}
  /\ interrupted' = (stored'["resolution"] # operating')
  /\ UNCHANGED <<enabled, alarmVars, timerVars, calVars, module, scene>>

-----------------------------------------------------------------------------
\* The loop, between two commands and in a wait that does not end.
Otherwise ==
  /\ step = "none" \/ pc = "ack"
  /\ Next
  /\ IF pc' = "down" THEN Idle ELSE UNCHANGED serving
  /\ UNCHANGED <<stored, operating, interrupted>>

Serve == ReadBefore \/ WriteParameters \/ WriteResolution \/ Restart \/ ReadAfter \/ Reply

ParametersNext == Query \/ Accept \/ Serve \/ CrashInCommand \/ Otherwise

ParametersSpec == ParametersInit /\ [][ParametersNext]_<<vars, parameters>>

\* The daemon goes on with a command that it serves: every exchange ends, or waits as in
\* AlarmDaemon.
ParametersFairSpec ==
  ParametersSpec /\ Fairness /\ WF_<<vars, parameters>>(Serve)

-----------------------------------------------------------------------------
(* Properties.                                                             *)

\* Types of all the variables, those of AlarmDaemon included; what is written has been
\* read before.
ParametersTypeOK ==
  /\ TypeOK
  /\ stored \in Readings /\ operating \in Settings
  /\ command \in [name : Setter, value : Settings] \union {NoCommand}
  /\ step \in {"none", "before", "write", "restart", "after", "verified", "failed"}
  /\ before \in Readings \union {NoReading}
  /\ step \in {"write", "restart", "after"} => before \in Readings
  /\ interrupted \in BOOLEAN

\* A parameter changes only to what the command being served asks for it.
ChangedAsAsked ==
  \A p \in Parameter : stored'[p] # stored[p] =>
    step # "none" /\ p \in Target(command.name) /\ stored'[p] = command.value

\* What is "verified" is true: the module has it and works with it, unless an earlier
\* set-resolution ended between the storing and the restart, which no later one repeats.
VerifiedIsTrue ==
  step' = "verified" =>
    /\ \A p \in Target(command.name) : stored'[p] = command.value
    /\ ~inConfig'
    /\ command.name = "set-resolution" => operating' = command.value \/ interrupted

\* Both, whatever is lost, refused or killed: among them that the parameter that shares
\* its message with the one asked for keeps its value.
ParametersAsAsked == [][ChangedAsAsked /\ VerifiedIsTrue]_<<vars, parameters>>
=============================================================================
