------------------------- MODULE AlarmDaemonProofs -------------------------
(***************************************************************************)
(* Theorems about the alarm daemon and its commands for the radar's        *)
(* parameters, for all hold times, stale limits, sets of commands and      *)
(* values, and all budgets of failures.                                    *)
(***************************************************************************)
EXTENDS RadarParameters, TLAPS

-----------------------------------------------------------------------------
(* Lemmas about the operators.                                             *)

\* An age stays between -1 and its limit.
LEMMA OlderType ==
  ASSUME NEW limit \in Nat, NEW age \in Ages(limit), NEW ticks \in Nat
  PROVE  Older(age, ticks, limit) \in Ages(limit)
BY DEF Older, Ages

\* Two ages that pass the same time keep their order.
LEMMA OlderKeepsOrder ==
  ASSUME NEW limit \in Nat, NEW ticks \in Nat,
         NEW a \in 0..limit, NEW b \in a..limit
  PROVE  Older(b, ticks, limit) \in Older(a, ticks, limit)..limit
BY DEF Older

\* Time keeps the types.
LEMMA ElapseType ==
  ASSUME TimerTypeOK, NEW ticks \in Nat, Elapse(ticks)
  PROVE  TimerTypeOK'
<1>1. Stale + 2 \in Nat /\ NearHold \in Nat /\ NobodyHold \in Nat
  BY DaemonAssumption
<1>2. QED
  BY <1>1, OlderType DEF TimerTypeOK, Elapse

\* A failure leaves the budget within its bounds.
LEMMA SpendType ==
  /\ BudgetTypeOK /\ Spend("faults", MaxFaults) => BudgetTypeOK'
  /\ BudgetTypeOK /\ Spend("crashes", MaxCrashes) => BudgetTypeOK'
  /\ BudgetTypeOK /\ Spend("losses", MaxLosses) => BudgetTypeOK'
BY DaemonAssumption DEF Spend, BudgetTypeOK

\* apply_user_alarm keeps the types and stores both requests.
LEMMA ApplyType ==
  ASSUME AlarmTypeOK, BudgetTypeOK, NEW cached \in -1..1,
         NEW radar \in BOOLEAN, NEW ai \in BOOLEAN, NEW ok \in BOOLEAN,
         ApplyUserAlarm(cached, radar, ai, ok)
  PROVE  /\ AlarmTypeOK' /\ BudgetTypeOK'
         /\ user_alarm_on' = radar /\ ai_alarm_on' = ai
<1> DEFINE active == IF radar \/ ai THEN 1 ELSE 0
<1>1. active \in {0, 1}
  OBVIOUS
<1>2. /\ user_alarm_on' = radar /\ ai_alarm_on' = ai
      /\ applied' = IF ok THEN active ELSE cached
  BY DEF ApplyUserAlarm
<1>3. applied' \in -1..1
  BY <1>1, <1>2
<1>4. CASE cached = active
  BY <1>2, <1>3, <1>4 DEF ApplyUserAlarm, AlarmTypeOK, BudgetTypeOK
<1>5. CASE cached # active
  <2>1. /\ driverUser' = (active = 1) /\ confirmed' = ok
        /\ IF ok THEN UNCHANGED budget ELSE Spend("faults", MaxFaults)
    BY <1>5 DEF ApplyUserAlarm
  <2>2. driverUser' \in BOOLEAN /\ confirmed' \in BOOLEAN
    BY <2>1
  <2>3. BudgetTypeOK'
    BY <2>1, SpendType DEF BudgetTypeOK
  <2>4. QED
    BY <1>2, <1>3, <2>2, <2>3 DEF AlarmTypeOK
<1>6. QED
  BY <1>4, <1>5

\* The end of a process.
LEMMA ForgetType ==
  ASSUME Forget
  PROVE  LoopTypeOK' /\ FrameTypeOK'
<1>1. LoopTypeOK'
  BY DEF Forget, LoopTypeOK
<1>2. FrameTypeOK'
  BY DaemonAssumption DEF Forget, FrameTypeOK
<1>3. QED
  BY <1>1, <1>2

\* A group of variables that does not change keeps its type.
LEMMA UnchangedTypes ==
  /\ LoopTypeOK /\ UNCHANGED loopVars => LoopTypeOK'
  /\ AlarmTypeOK /\ UNCHANGED alarmVars => AlarmTypeOK'
  /\ TimerTypeOK /\ UNCHANGED timerVars => TimerTypeOK'
  /\ CalTypeOK /\ UNCHANGED calVars => CalTypeOK'
  /\ ModuleTypeOK /\ UNCHANGED moduleVars => ModuleTypeOK'
  /\ FrameTypeOK /\ UNCHANGED frames => FrameTypeOK'
  /\ BudgetTypeOK /\ UNCHANGED budget => BudgetTypeOK'
<1>1. LoopTypeOK /\ UNCHANGED loopVars => LoopTypeOK'
  BY DEF loopVars, LoopTypeOK
<1>2. AlarmTypeOK /\ UNCHANGED alarmVars => AlarmTypeOK'
  BY DEF alarmVars, AlarmTypeOK
<1>3. TimerTypeOK /\ UNCHANGED timerVars => TimerTypeOK'
  BY DEF timerVars, TimerTypeOK
<1>4. CalTypeOK /\ UNCHANGED calVars => CalTypeOK'
  BY DEF calVars, CalTypeOK
<1>5. ModuleTypeOK /\ UNCHANGED moduleVars => ModuleTypeOK'
  BY DEF moduleVars, ModuleTypeOK
<1>6. FrameTypeOK /\ UNCHANGED frames => FrameTypeOK'
  BY DEF FrameTypeOK
<1>7. BudgetTypeOK /\ UNCHANGED budget => BudgetTypeOK'
  BY DEF BudgetTypeOK
<1>8. QED
  BY <1>1, <1>2, <1>3, <1>4, <1>5, <1>6, <1>7

\* The mode the module is left in, and whether the wait ends.
LEMMA OutcomeType ==
  ASSUME inConfig \in BOOLEAN, NEW x \in Outcomes
  PROVE  x.config \in BOOLEAN /\ x.hangs \in BOOLEAN
<1>1. CASE x = Exchanged
  BY <1>1 DEF Exchanged
<1>2. ASSUME NEW done, NEW config \in BOOLEAN, NEW hangs \in BOOLEAN,
             x = Broken(done, config, hangs)
      PROVE  x.config \in BOOLEAN /\ x.hangs \in BOOLEAN
  <2>1. x.config = config /\ x.hangs = hangs
    BY <1>2 DEF Broken
  <2>2. QED
    BY <2>1
<1>3. CASE x \in LostIn
  <2>1. (~inConfig) \in BOOLEAN
    OBVIOUS
  <2>2. \E config, hangs \in BOOLEAN, done \in BOOLEAN : x = Broken(done, config, hangs)
    BY <1>3, <2>1, Zenon DEF LostIn
  <2>3. QED
    BY <1>2, <2>2
<1>4. QED
  BY <1>1, <1>3 DEF Outcomes

\* Whether every acknowledgement was seen.
LEMMA OutcomeOk ==
  ASSUME NEW x \in Outcomes
  PROVE  x.ok \in BOOLEAN
<1>1. CASE x = Exchanged
  BY <1>1 DEF Exchanged
<1>2. ASSUME NEW done, NEW config, NEW hangs, x = Broken(done, config, hangs)
      PROVE  x.ok \in BOOLEAN
  BY <1>2 DEF Broken
<1>3. x \in LostIn => \E done, config, hangs : x = Broken(done, config, hangs)
  BY Zenon DEF LostIn
<1>4. QED
  BY <1>1, <1>2, <1>3 DEF Outcomes

\* An exchange comes to one of the outcomes.
LEMMA ExchangeOutcome ==
  ASSUME NEW x, Exchange(x)
  PROVE  x \in Outcomes
<1>1. SignalledIn \subseteq LostIn
  BY Zenon DEF SignalledIn, LostIn
<1>2. x = Exchanged \/ x \in LostIn \/ x \in SignalledIn
  BY DEF Exchange
<1>3. QED
  BY <1>1, <1>2 DEF Outcomes

\* An exchange with the module, whatever it comes to.
LEMMA ExchangeType ==
  ASSUME TimerTypeOK, BudgetTypeOK, inConfig \in BOOLEAN, stop_requested \in BOOLEAN,
         NEW x, Exchange(x)
  PROVE  /\ TimerTypeOK' /\ BudgetTypeOK' /\ FrameTypeOK'
         /\ inConfig' \in BOOLEAN /\ stop_requested' \in BOOLEAN
         /\ pc' \in {"pass", "ack"} /\ (x.hangs => pc' = "ack")
         /\ (~x.hangs => pc' = "pass")
<1>1. x.config \in BOOLEAN /\ x.hangs \in BOOLEAN
  BY OutcomeType, ExchangeOutcome
<1>2. FrameTypeOK' /\ stop_requested' \in BOOLEAN
  <2>1. FrameTypeOK'
    BY DaemonAssumption DEF Exchange, FrameTypeOK
  <2>2. stop_requested' = TRUE \/ UNCHANGED stop_requested
    BY DEF Exchange
  <2>3. QED
    BY <2>1, <2>2
<1>3. CASE UNCHANGED <<timerVars, budget>>
  BY <1>1, <1>2, <1>3, UnchangedTypes DEF Exchange
<1>4. CASE Spend("losses", MaxLosses) /\ \E d \in {1, Stale + 1} : Elapse(d)
  <2>1. \A d \in {1, Stale + 1} : d \in Nat
    BY DaemonAssumption
  <2>2. TimerTypeOK'
    BY <1>4, <2>1, ElapseType
  <2>3. BudgetTypeOK'
    BY <1>4, SpendType
  <2>4. QED
    BY <1>1, <1>2, <2>2, <2>3 DEF Exchange
<1>5. QED
  BY <1>3, <1>4 DEF Exchange

\* What is written to the record, or was left of it by a write that failed.
LEMMA WriteRecordType ==
  ASSUME CalTypeOK, NEW state \in CalibrationState, NEW sound \in BOOLEAN,
         NEW written \in BOOLEAN, WriteRecord(state, sound, written)
  PROVE  record' \in CalibrationState \union {"none"} /\ compared' \in BOOLEAN
BY DEF WriteRecord, CalTypeOK

\* The end of a calibration.
LEMMA ConcludeType ==
  ASSUME CalTypeOK, NEW read \in BOOLEAN, Conclude(read)
  PROVE  CalTypeOK'
<1>1. /\ calibration' \in CalibrationState /\ UNCHANGED <<beforeValid, unrecorded>>
      /\ snapshot_after_pending' = FALSE /\ record_pending' = FALSE
  BY DEF Conclude, CalTypeOK, CalibrationState
<1>2. PICK written \in BOOLEAN : WriteRecord(calibration', read /\ beforeValid, written)
  BY DEF Conclude
<1>3. record' \in CalibrationState \union {"none"} /\ compared' \in BOOLEAN
  BY <1>1, <1>2 DEF WriteRecord, CalTypeOK
<1>4. QED
  BY <1>1, <1>3 DEF CalTypeOK

\* A wait that fails.
LEMMA WaitFailsType ==
  ASSUME TypeOK, WaitFails, UNCHANGED stop_requested \/ stop_requested' = TRUE
  PROVE  LoopTypeOK' /\ CalTypeOK'
<1>1. LoopTypeOK'
  BY DEF WaitFails, TypeOK, LoopTypeOK
<1>2. CalTypeOK'
  <2>1. CASE Conclude(FALSE)
    BY <2>1, ConcludeType DEF TypeOK
  <2>2. CASE UNCHANGED calVars
    BY <2>2, UnchangedTypes DEF TypeOK
  <2>3. QED
    BY <2>1, <2>2 DEF WaitFails
<1>3. QED
  BY <1>1, <1>2

-----------------------------------------------------------------------------
(* Type correctness.                                                       *)

\* What an action may change of the output, of the loop and of the calibration.
LEMMA UpdateType ==
  ASSUME TypeOK, NEW frame, NEW ok \in BOOLEAN, UpdateRearMonitor(frame, ok)
  PROVE  /\ AlarmTypeOK' /\ BudgetTypeOK'
         /\ nearTimer' \in Ages(NearHold) /\ nobodyTimer' \in Ages(NobodyHold)
         /\ pc' \in {pc, "exit"}
<1> DEFINE raise == frame # "clear" /\ nearTimer = NearHold
<1> DEFINE release == frame = "clear" /\ user_alarm_on /\ nobodyTimer = NobodyHold
<1>1. 0 \in Ages(NearHold) /\ 0 \in Ages(NobodyHold) /\ -1 \in Ages(NearHold)
      /\ -1 \in Ages(NobodyHold)
  BY DaemonAssumption DEF Ages
<1>2. nearTimer' \in Ages(NearHold) /\ nobodyTimer' \in Ages(NobodyHold)
  BY <1>1 DEF UpdateRearMonitor, Started, TypeOK, TimerTypeOK
<1>3. CASE raise \/ release
  <2>1. /\ ApplyUserAlarm(applied, raise, ai_alarm_on, ok)
        /\ pc' = IF ok THEN pc ELSE "exit"
    BY <1>3 DEF UpdateRearMonitor
  <2>2. raise \in BOOLEAN
    OBVIOUS
  <2>3. AlarmTypeOK' /\ BudgetTypeOK'
    <3> HIDE DEF raise
    <3>1. applied \in -1..1 /\ ai_alarm_on \in BOOLEAN /\ AlarmTypeOK /\ BudgetTypeOK
      BY DEF TypeOK, AlarmTypeOK
    <3>2. QED
      BY <2>1, <2>2, <3>1, ApplyType
  <2>4. QED
    BY <1>2, <2>1, <2>3
<1>4. CASE ~(raise \/ release)
  <2>1. UNCHANGED <<alarmVars, budget, pc>>
    BY <1>4 DEF UpdateRearMonitor
  <2>2. QED
    BY <1>2, <2>1, UnchangedTypes DEF TypeOK
<1>5. QED
  BY <1>3, <1>4

\* The initial state is well typed.
LEMMA InitType == Init => TypeOK
<1> SUFFICES ASSUME Init PROVE TypeOK
  OBVIOUS
<1>1. LoopTypeOK /\ AlarmTypeOK /\ enabled \in BOOLEAN
  <2>1. LoopTypeOK
    BY DEF Init, LoopTypeOK
  <2>2. applied \in -1..1
    BY DEF Init
  <2>3. AlarmTypeOK /\ enabled \in BOOLEAN
    BY <2>2 DEF Init, AlarmTypeOK
  <2>4. QED
    BY <2>1, <2>3
<1>2. CalTypeOK /\ ModuleTypeOK
  <2>1. CalTypeOK
    BY DEF Init, CalTypeOK, CalibrationState
  <2>2. ModuleTypeOK
    BY DEF Init, ModuleTypeOK
  <2>3. QED
    BY <2>1, <2>2
<1>3. TimerTypeOK
  BY DaemonAssumption DEF Init, TimerTypeOK, Ages
<1>4. FrameTypeOK
  BY DaemonAssumption DEF Init, FrameTypeOK
<1>5. BudgetTypeOK
  BY DaemonAssumption DEF Init, BudgetTypeOK
<1>6. QED
  BY <1>1, <1>2, <1>3, <1>4, <1>5 DEF Init, TypeOK

\* apply_user_alarm on the present requests, with the cached value.
LEMMA ApplyCached ==
  ASSUME TypeOK, NEW radar \in BOOLEAN, NEW ai \in BOOLEAN, NEW ok \in BOOLEAN,
         ApplyUserAlarm(applied, radar, ai, ok)
  PROVE  AlarmTypeOK' /\ BudgetTypeOK' /\ user_alarm_on' = radar /\ ai_alarm_on' = ai
<1>1. applied \in -1..1 /\ AlarmTypeOK /\ BudgetTypeOK
  BY DEF TypeOK, AlarmTypeOK
<1>2. QED
  BY <1>1, ApplyType

\* Every step keeps the types.
LEMMA NextType ==
  ASSUME TypeOK, [Next]_vars
  PROVE  TypeOK'
<1> USE UnchangedTypes DEF TypeOK
<1>1. CASE Tick
  <2>1. TimerTypeOK'
    BY <1>1, ElapseType DEF Tick
  <2>2. LoopTypeOK'
    BY <1>1 DEF Tick, LoopTypeOK
  <2>3. QED
    BY <1>1, <2>1, <2>2 DEF Tick
<1>2. CASE Start
  <2>1. PICK ok \in BOOLEAN : ApplyUserAlarm(Unsent, FALSE, FALSE, ok)
    BY <1>2 DEF Start
  <2>2. Unsent \in -1..1
    BY DEF Unsent
  <2>3. AlarmTypeOK' /\ BudgetTypeOK'
    BY <2>1, <2>2, ApplyType
  <2>4. LoopTypeOK'
    BY <1>2 DEF Start, LoopTypeOK
  <2>5. TimerTypeOK'
    BY <1>2, DaemonAssumption DEF Start, TimerTypeOK, Ages
  <2>6. CalTypeOK'
    BY <1>2 DEF Start, Loaded, CalTypeOK, CalibrationState
  <2>7. QED
    BY <1>2, <2>3, <2>4, <2>5, <2>6 DEF Start
<1>3. CASE Wake
  <2>1. LoopTypeOK'
    BY <1>3 DEF Wake, LoopTypeOK
  <2>2. request' \in Commands \union {"none"}
    BY <1>3 DEF Wake
  <2>3. QED
    BY <1>3, <2>1, <2>2 DEF Wake
<1>4. CASE UartFrame
  <2> DEFINE frame == Head(frames)
  <2>1. frames' \in Seq(Frame) /\ Len(frames') <= MaxFrames
    BY <1>4, DaemonAssumption DEF UartFrame, FrameTypeOK
  <2>2. nearSpan' \in Ages(NearHold) /\ clearSpan' \in Ages(NobodyHold)
    BY <1>4, DaemonAssumption DEF UartFrame, Witness, TimerTypeOK, Ages
  <2>3. sampleAge' \in Ages(Stale + 2)
    BY <1>4, DaemonAssumption DEF UartFrame, Ages
  <2>4. CASE frame \in {"near", "clear"} /\ enabled
    <3>1. PICK ok \in BOOLEAN : UpdateRearMonitor(frame, ok)
      BY <1>4, <2>4 DEF UartFrame
    <3>2. /\ AlarmTypeOK' /\ BudgetTypeOK' /\ pc' \in {pc, "exit"}
          /\ nearTimer' \in Ages(NearHold) /\ nobodyTimer' \in Ages(NobodyHold)
      BY <3>1, UpdateType
    <3>3. TimerTypeOK'
      BY <2>2, <2>3, <3>2 DEF TimerTypeOK
    <3>4. LoopTypeOK'
      BY <1>4, <3>2 DEF UartFrame, LoopTypeOK
    <3>5. CalTypeOK'
      BY <1>4 DEF UartFrame, CalTypeOK, CalibrationState
    <3>6. QED
      BY <1>4, <2>1, <3>2, <3>3, <3>4, <3>5 DEF UartFrame, FrameTypeOK
  <2>5. CASE ~(frame \in {"near", "clear"} /\ enabled)
    <3>1. UNCHANGED <<nearTimer, nobodyTimer, alarmVars, budget, pc>>
      BY <1>4, <2>5 DEF UartFrame
    <3>2. TimerTypeOK'
      BY <2>2, <2>3, <3>1 DEF TimerTypeOK
    <3>3. LoopTypeOK'
      BY <1>4, <3>1 DEF UartFrame, LoopTypeOK
    <3>4. CalTypeOK'
      BY <1>4 DEF UartFrame, CalTypeOK, CalibrationState
    <3>5. QED
      BY <1>4, <2>1, <3>1, <3>2, <3>3, <3>4 DEF UartFrame, FrameTypeOK
  <2>6. QED
    BY <2>4, <2>5
<1>5. CASE UartDrained
  BY <1>5 DEF UartDrained, LoopTypeOK
<1>6. CASE FinishCalibration
  <2>1. CASE snapshot_after_pending
    <3>1. PICK x \in Outcomes :
            /\ Exchange(x)
            /\ IF x.hangs THEN UNCHANGED <<calVars, ready>>
               ELSE Conclude(x.ok) /\ ready' = ready \ {"finish"}
      BY <1>6, <2>1 DEF FinishCalibration
    <3>2. /\ TimerTypeOK' /\ BudgetTypeOK' /\ FrameTypeOK' /\ inConfig' \in BOOLEAN
          /\ pc' \in {"pass", "ack"} /\ stop_requested' \in BOOLEAN
      BY <3>1, ExchangeType DEF ModuleTypeOK, LoopTypeOK
    <3>3. LoopTypeOK'
      BY <1>6, <3>1, <3>2 DEF FinishCalibration, LoopTypeOK
    <3>4. CalTypeOK'
      <4>1. x.ok \in BOOLEAN
        BY <3>1, OutcomeOk
      <4>2. CASE Conclude(x.ok)
        BY <4>1, <4>2, ConcludeType
      <4>3. CASE UNCHANGED calVars
        BY <4>3
      <4>4. QED
        BY <3>1, <4>2, <4>3
    <3>5. ModuleTypeOK'
      BY <1>6, <3>2 DEF FinishCalibration, ModuleTypeOK
    <3>6. QED
      BY <1>6, <3>2, <3>3, <3>4, <3>5 DEF FinishCalibration
  <2>2. CASE ~snapshot_after_pending
    <3>1. LoopTypeOK'
      BY <1>6, <2>2 DEF FinishCalibration, LoopTypeOK
    <3>2. CalTypeOK'
      <4>1. /\ record_pending' = FALSE
            /\ UNCHANGED <<calibration, beforeValid, snapshot_after_pending, unrecorded>>
        BY <1>6, <2>2 DEF FinishCalibration
      <4>2. record' \in CalibrationState \union {"none"} /\ compared' \in BOOLEAN
        BY <1>6, <2>2, WriteRecordType DEF FinishCalibration, CalTypeOK
      <4>3. QED
        BY <4>1, <4>2 DEF CalTypeOK
    <3>3. ModuleTypeOK'
      BY <1>6, <2>2 DEF FinishCalibration, ModuleTypeOK
    <3>4. QED
      BY <1>6, <2>2, <3>1, <3>2, <3>3 DEF FinishCalibration
  <2>3. QED
    BY <2>1, <2>2
<1>7. CASE HandleRequest
  <2>1. CASE \E on \in BOOLEAN : SetAi(on)
    <3>1. PICK on \in BOOLEAN : SetAi(on)
      BY <2>1
    <3>2. PICK ok \in BOOLEAN : ApplyUserAlarm(applied, user_alarm_on, on, ok)
      BY <3>1 DEF SetAi
    <3>3. AlarmTypeOK' /\ BudgetTypeOK'
      BY <3>2, ApplyCached DEF AlarmTypeOK
    <3>4. LoopTypeOK'
      BY <1>7, <3>1 DEF HandleRequest, SetAi, LoopTypeOK
    <3>5. QED
      BY <1>7, <3>1, <3>3, <3>4 DEF HandleRequest, SetAi
  <2>2. CASE EnableRearMonitor
    <3>1. LoopTypeOK'
      BY <1>7, <2>2 DEF HandleRequest, EnableRearMonitor, LoopTypeOK
    <3>2. CASE CalibrationIsActive \/ ~SampleIsFresh
      BY <1>7, <2>2, <3>1, <3>2 DEF HandleRequest, EnableRearMonitor
    <3>3. CASE ~(CalibrationIsActive \/ ~SampleIsFresh)
      <4>1. PICK ok \in BOOLEAN : ApplyUserAlarm(applied, FALSE, ai_alarm_on, ok)
        BY <2>2, <3>3 DEF EnableRearMonitor
      <4>2. AlarmTypeOK' /\ BudgetTypeOK'
        BY <4>1, ApplyCached DEF AlarmTypeOK
      <4>3. enabled' = TRUE /\ ClearTimers /\ ForgetEvidence
        BY <2>2, <3>3 DEF EnableRearMonitor
      <4>4. TimerTypeOK'
        BY <4>3, DaemonAssumption DEF ClearTimers, ForgetEvidence, TimerTypeOK, Ages
      <4>5. QED
        BY <1>7, <2>2, <3>1, <4>2, <4>3, <4>4 DEF HandleRequest, EnableRearMonitor
    <3>4. QED
      BY <3>2, <3>3
  <2>3. CASE DisableRearMonitor
    <3>1. PICK ok \in BOOLEAN : ApplyUserAlarm(applied, FALSE, ai_alarm_on, ok)
      BY <2>3 DEF DisableRearMonitor
    <3>2. AlarmTypeOK' /\ BudgetTypeOK'
      BY <3>1, ApplyCached DEF AlarmTypeOK
    <3>3. TimerTypeOK'
      <4>1. ClearTimers /\ ForgetEvidence
        BY <2>3 DEF DisableRearMonitor
      <4>2. QED
        BY <4>1, DaemonAssumption DEF ClearTimers, ForgetEvidence, TimerTypeOK, Ages
    <3>4. LoopTypeOK'
      BY <1>7, <2>3 DEF HandleRequest, DisableRearMonitor, LoopTypeOK
    <3>5. QED
      BY <1>7, <2>3, <3>2, <3>3, <3>4 DEF HandleRequest, DisableRearMonitor
  <2>4. CASE RearStatus
    <3>1. CASE enabled
      <4>1. LoopTypeOK' /\ CalTypeOK' /\ ModuleTypeOK'
        BY <1>7, <2>4, <3>1
        DEF HandleRequest, RearStatus, LoopTypeOK, CalTypeOK, ModuleTypeOK
      <4>2. QED
        BY <1>7, <2>4, <3>1, <4>1 DEF HandleRequest, RearStatus
    <3>2. CASE ~enabled
      <4>1. PICK x \in Outcomes, state \in QueryAnswers :
              /\ Exchange(x)
              /\ calibration' = CASE x.ok /\ state = "running" -> "running"
                                  [] x.ok /\ state = "completed" -> "success"
                                  [] OTHER -> calibration
              /\ snapshot_after_pending' =
                   (snapshot_after_pending \/ (x.ok /\ state = "completed"))
        BY <2>4, <3>2 DEF RearStatus
      <4>2. /\ TimerTypeOK' /\ BudgetTypeOK' /\ FrameTypeOK'
            /\ inConfig' \in BOOLEAN /\ pc' \in {"pass", "ack"}
            /\ stop_requested' \in BOOLEAN
        BY <4>1, ExchangeType DEF ModuleTypeOK, LoopTypeOK
      <4>3. snapshot_after_pending' \in BOOLEAN
        BY <4>1
      <4>4. calibration' \in CalibrationState
        BY <4>1 DEF CalTypeOK, CalibrationState
      <4>5. CalTypeOK'
        BY <2>4, <4>3, <4>4 DEF RearStatus, CalTypeOK
      <4>6. LoopTypeOK' /\ ModuleTypeOK'
        BY <1>7, <2>4, <4>2 DEF HandleRequest, RearStatus, LoopTypeOK, ModuleTypeOK
      <4>7. QED
        BY <1>7, <2>4, <4>2, <4>5, <4>6 DEF HandleRequest, RearStatus
    <3>3. QED
      BY <3>1, <3>2
  <2>5. CASE StartCalibration
    <3>1. CASE UNCHANGED <<calVars, inConfig, module, frames, timerVars, budget, pc,
                           stop_requested>>
      <4>1. LoopTypeOK' /\ ModuleTypeOK'
        BY <1>7, <2>5, <3>1
        DEF HandleRequest, StartCalibration, LoopTypeOK, ModuleTypeOK
      <4>2. QED
        BY <1>7, <2>5, <3>1, <4>1 DEF HandleRequest, StartCalibration
    <3>2. CASE \E x \in Outcomes :
                 /\ Exchange(x)
                 /\ module' \in {module, "waiting"}
                 /\ calibration' \in {calibration, "waiting"}
                 /\ record' \in {record, "waiting", "none"}
                 /\ beforeValid' \in BOOLEAN /\ compared' \in BOOLEAN
                 /\ unrecorded' \in BOOLEAN
                 /\ snapshot_after_pending' = FALSE /\ record_pending' = FALSE
      <4>1. /\ TimerTypeOK' /\ BudgetTypeOK' /\ FrameTypeOK'
            /\ inConfig' \in BOOLEAN /\ pc' \in {"pass", "ack"}
            /\ stop_requested' \in BOOLEAN
        BY <3>2, ExchangeType DEF ModuleTypeOK, LoopTypeOK
      <4>2. CalTypeOK'
        BY <3>2 DEF CalTypeOK, CalibrationState
      <4>3. ModuleTypeOK'
        BY <2>5, <3>2, <4>1 DEF StartCalibration, ModuleTypeOK
      <4>4. LoopTypeOK'
        BY <1>7, <2>5, <4>1 DEF HandleRequest, StartCalibration, LoopTypeOK
      <4>5. QED
        BY <1>7, <2>5, <4>1, <4>2, <4>3, <4>4 DEF HandleRequest, StartCalibration
    <3>3. CASE /\ \E x \in LostIn : Exchange(x)
               /\ beforeValid' = FALSE
               /\ snapshot_after_pending' = FALSE /\ record_pending' = FALSE
               /\ UNCHANGED <<calibration, record, compared, unrecorded, module>>
      BY <3>2, <3>3 DEF Outcomes, CalTypeOK
    <3>4. CASE /\ \E x \in Outcomes, written \in BOOLEAN :
                    /\ Exchange(x)
                    /\ module' = IF x.done THEN "waiting" ELSE module
                    /\ unrecorded' = IF x.done THEN ~(x.ok /\ written) ELSE unrecorded
                    /\ IF x.ok
                         THEN calibration' = "waiting"
                              /\ WriteRecord("waiting", FALSE, written)
                         ELSE UNCHANGED <<calibration, record, compared>>
               /\ beforeValid' = TRUE
               /\ snapshot_after_pending' = FALSE /\ record_pending' = FALSE
      <4>1. PICK x \in Outcomes, written \in BOOLEAN :
              /\ Exchange(x)
              /\ module' = IF x.done THEN "waiting" ELSE module
              /\ unrecorded' = IF x.done THEN ~(x.ok /\ written) ELSE unrecorded
              /\ IF x.ok
                   THEN calibration' = "waiting" /\ WriteRecord("waiting", FALSE, written)
                   ELSE UNCHANGED <<calibration, record, compared>>
        BY <3>4
      <4>2. unrecorded' \in BOOLEAN
        BY <4>1, Zenon DEF CalTypeOK
      <4>3. /\ calibration' \in {calibration, "waiting"} /\ compared' \in BOOLEAN
            /\ record' \in {record, "waiting", "none"}
        BY <4>1 DEF WriteRecord, CalTypeOK
      <4>4. QED
        BY <3>2, <3>4, <4>1, <4>2, <4>3
    <3>5. QED
      BY <2>5, <3>1, <3>3, <3>4 DEF StartCalibration
  <2>6. QED
    BY <1>7, <2>1, <2>2, <2>3, <2>4, <2>5 DEF HandleRequest
<1>8. CASE ControlDrained
  BY <1>8 DEF ControlDrained, LoopTypeOK
<1>9. CASE ExpireStaleTimers
  <2>1. TimerTypeOK'
    BY <1>9, DaemonAssumption DEF ExpireStaleTimers, TimerTypeOK, Ages
  <2>2. QED
    BY <1>9, <2>1 DEF ExpireStaleTimers, LoopTypeOK
<1>10. CASE AckTimeout
  <2>1. LoopTypeOK' /\ CalTypeOK'
    BY <1>10, WaitFailsType DEF AckTimeout
  <2>2. QED
    BY <1>10, <2>1 DEF AckTimeout
<1>11. CASE Interrupt
  <2>1. LoopTypeOK' /\ CalTypeOK'
    BY <1>11, WaitFailsType DEF Interrupt
  <2>2. QED
    BY <1>11, <2>1 DEF Interrupt
<1>12. CASE Exit \/ Stop
  <2>1. EndOfMain
    BY <1>12 DEF Exit, Stop
  <2>2. PICK ok \in BOOLEAN : ApplyUserAlarm(applied, FALSE, FALSE, ok)
    BY <2>1 DEF EndOfMain
  <2>3. AlarmTypeOK' /\ BudgetTypeOK'
    BY <2>2, ApplyCached
  <2>4. LoopTypeOK' /\ FrameTypeOK'
    BY <2>1, ForgetType DEF EndOfMain
  <2>5. QED
    BY <2>1, <2>3, <2>4 DEF EndOfMain, Forget
<1>13. CASE Crash
  <2>1. LoopTypeOK' /\ FrameTypeOK'
    BY <1>13, ForgetType DEF Crash
  <2>2. QED
    BY <1>13, <2>1, SpendType DEF Crash, Forget
<1>14. CASE CrashInCalibration
  <2>1. LoopTypeOK' /\ FrameTypeOK'
    BY <1>14, ForgetType DEF CrashInCalibration
  <2>2. ModuleTypeOK'
    BY <1>14 DEF CrashInCalibration, ModuleTypeOK
  <2>3. CalTypeOK'
    BY <1>14 DEF CrashInCalibration, CalTypeOK
  <2>4. QED
    BY <1>14, <2>1, <2>2, <2>3, SpendType DEF CrashInCalibration, Forget
<1>19. CASE CrashInExchange
  <2>1. LoopTypeOK' /\ FrameTypeOK'
    BY <1>19, ForgetType DEF CrashInExchange
  <2>2. ModuleTypeOK'
    BY <1>19 DEF CrashInExchange, ModuleTypeOK
  <2>3. QED
    BY <1>19, <2>1, <2>2, SpendType DEF CrashInExchange, Forget
<1>22. CASE CrashInWrite
  <2>1. LoopTypeOK' /\ FrameTypeOK'
    BY <1>22, ForgetType DEF CrashInWrite
  <2>2. ModuleTypeOK'
    <3>1. inConfig' \in BOOLEAN /\ UNCHANGED <<module, scene>>
      BY <1>22 DEF CrashInWrite
    <3>2. QED
      BY <3>1 DEF ModuleTypeOK
  <2>3. CalTypeOK'
    BY <1>22 DEF CrashInWrite, CalTypeOK
  <2>4. QED
    BY <1>22, <2>1, <2>2, <2>3, SpendType DEF CrashInWrite, Forget
<1>15. CASE SceneChanges
  BY <1>15 DEF SceneChanges, ModuleTypeOK
<1>16. ASSUME NEW frame \in Frame, Emit(frame)
       PROVE  FrameTypeOK' /\ due' \in BOOLEAN
  <2>1. due' \in BOOLEAN
    BY <1>16 DEF Emit, LoopTypeOK
  <2>2. CASE UNCHANGED frames
    BY <2>1, <2>2
  <2>3. CASE Len(frames) < MaxFrames /\ frames' = Append(frames, frame)
    <3>1. frames' \in Seq(Frame) /\ Len(frames') = Len(frames) + 1
      BY <2>3 DEF FrameTypeOK
    <3>2. Len(frames) \in Nat /\ MaxFrames \in Nat
      BY DaemonAssumption DEF FrameTypeOK
    <3>3. QED
      BY <2>1, <2>3, <3>1, <3>2 DEF FrameTypeOK
  <2>4. QED
    BY <1>16, <2>2, <2>3 DEF Emit
<1>17. CASE RadarSends
  <2>1. PICK frame \in Frame : Emit(frame)
    BY <1>17 DEF RadarSends, Emit, Streaming, ModuleTypeOK, Scene, Frame
  <2>2. FrameTypeOK' /\ due' \in BOOLEAN
    BY <1>16, <2>1
  <2>3. QED
    BY <1>17, <2>2 DEF RadarSends, LoopTypeOK
<1>18. CASE CalibrationProceeds
  <2>1. FrameTypeOK' /\ due' \in BOOLEAN
    BY <1>16, <1>18 DEF CalibrationProceeds, Frame, LoopTypeOK
  <2>2. ModuleTypeOK'
    BY <1>18 DEF CalibrationProceeds, ModuleTypeOK
  <2>3. QED
    BY <1>18, <2>1, <2>2 DEF CalibrationProceeds, LoopTypeOK
<1>20. CASE UNCHANGED vars
  BY <1>20 DEF vars
<1>21. QED
  BY <1>1, <1>2, <1>3, <1>4, <1>5, <1>6, <1>7, <1>8, <1>9, <1>10, <1>11, <1>12,
     <1>13, <1>14, <1>15, <1>17, <1>18, <1>19, <1>20, <1>22 DEF Next, Loop, Radar

\* Every variable of the daemon keeps its type.
THEOREM TypeCorrect == Spec => []TypeOK
BY InitType, NextType, PTL DEF Spec

-----------------------------------------------------------------------------
(* The merge is delivered.                                                 *)

\* What the cache is for: after a successful ioctl the cached value and the
\* driver both show the merge, so that a skipped ioctl loses nothing.
CacheIsDriver ==
  confirmed =>
    /\ applied = (IF user_alarm_on \/ ai_alarm_on THEN 1 ELSE 0)
    /\ driverUser = (user_alarm_on \/ ai_alarm_on)

\* apply_user_alarm keeps it, whether it is called with the cached value or, by a
\* new process, with a value that matches nothing.
LEMMA ApplyKeepsCache ==
  ASSUME TypeOK, CacheIsDriver, NEW cached \in {applied, Unsent},
         NEW radar \in BOOLEAN, NEW ai \in BOOLEAN, NEW ok \in BOOLEAN,
         ApplyUserAlarm(cached, radar, ai, ok)
  PROVE  CacheIsDriver'
<1> DEFINE active == IF radar \/ ai THEN 1 ELSE 0
<1>1. /\ user_alarm_on' = radar /\ ai_alarm_on' = ai
      /\ applied' = IF ok THEN active ELSE cached
  BY DEF ApplyUserAlarm
<1>2. active \in {0, 1} /\ (active = 1) = (radar \/ ai)
  OBVIOUS
<1>3. CASE cached = active
  <2>1. cached = applied
    BY <1>2, <1>3 DEF Unsent
  <2>2. ok /\ UNCHANGED <<driverUser, confirmed>>
    BY <1>3 DEF ApplyUserAlarm
  <2>3. confirmed => (user_alarm_on \/ ai_alarm_on) = (radar \/ ai)
    BY <1>3, <2>1 DEF CacheIsDriver
  <2>4. QED
    BY <1>1, <2>2, <2>3 DEF CacheIsDriver
<1>4. CASE cached # active
  <2>1. driverUser' = (active = 1) /\ confirmed' = ok
    BY <1>4 DEF ApplyUserAlarm
  <2>2. QED
    BY <1>1, <1>2, <2>1 DEF CacheIsDriver
<1>5. QED
  BY <1>3, <1>4

\* While the loop runs, a confirmed ioctl means that the driver holds radar OR ai.
THEOREM MergeCorrect == Spec => []MergeDelivered
<1>1. Init => CacheIsDriver
  BY DEF Init, CacheIsDriver
<1>2. TypeOK /\ CacheIsDriver /\ [Next]_vars => CacheIsDriver'
  <2> SUFFICES ASSUME TypeOK, CacheIsDriver, [Next]_vars PROVE CacheIsDriver'
    OBVIOUS
  <2>1. ASSUME UNCHANGED alarmVars PROVE CacheIsDriver'
    BY <2>1 DEF alarmVars, CacheIsDriver
  <2>2. user_alarm_on \in BOOLEAN /\ ai_alarm_on \in BOOLEAN
    BY DEF TypeOK, AlarmTypeOK
  <2>3. CASE Start
    BY <2>3, ApplyKeepsCache DEF Start
  <2>4. CASE UartFrame
    <3>1. CASE UNCHANGED alarmVars
      BY <2>1, <3>1
    <3>2. ASSUME NEW ok \in BOOLEAN, NEW frame, UpdateRearMonitor(frame, ok)
          PROVE  CacheIsDriver'
      <4> DEFINE raise == frame # "clear" /\ nearTimer = NearHold
      <4>1. CASE UNCHANGED alarmVars
        BY <2>1, <4>1
      <4>2. CASE ApplyUserAlarm(applied, raise, ai_alarm_on, ok)
        <5>1. raise \in BOOLEAN
          OBVIOUS
        <5> HIDE DEF raise
        <5>2. QED
          BY <2>2, <4>2, <5>1, ApplyKeepsCache
      <4>3. QED
        BY <3>2, <4>1, <4>2 DEF UpdateRearMonitor
    <3>3. QED
      BY <2>4, <3>1, <3>2 DEF UartFrame
  <2>5. CASE HandleRequest
    <3>1. CASE UNCHANGED alarmVars
      BY <2>1, <3>1
    <3>2. CASE \E on \in BOOLEAN : SetAi(on)
      BY <2>2, <3>2, ApplyKeepsCache DEF SetAi
    <3>3. CASE \E ok \in BOOLEAN : ApplyUserAlarm(applied, FALSE, ai_alarm_on, ok)
      BY <2>2, <3>3, ApplyKeepsCache
    <3>4. EnableRearMonitor => \/ UNCHANGED alarmVars
            \/ \E ok \in BOOLEAN : ApplyUserAlarm(applied, FALSE, ai_alarm_on, ok)
      BY DEF EnableRearMonitor
    <3>5. DisableRearMonitor =>
            \E ok \in BOOLEAN : ApplyUserAlarm(applied, FALSE, ai_alarm_on, ok)
      BY DEF DisableRearMonitor
    <3>6. RearStatus => UNCHANGED alarmVars
      BY DEF RearStatus
    <3>7. StartCalibration => UNCHANGED alarmVars
      BY DEF StartCalibration
    <3>8. QED
      BY <2>5, <3>1, <3>2, <3>3, <3>4, <3>5, <3>6, <3>7 DEF HandleRequest
  <2>6. CASE Exit \/ Stop
    BY <2>6, ApplyKeepsCache DEF Exit, Stop, EndOfMain
  <2>7. CASE \/ Tick \/ Wake \/ UartDrained \/ FinishCalibration \/ ControlDrained
             \/ ExpireStaleTimers \/ AckTimeout \/ Interrupt
             \/ Crash \/ CrashInCalibration \/ CrashInExchange \/ CrashInWrite
    BY <2>1, <2>7 DEF Tick, Wake, UartDrained, FinishCalibration, ControlDrained,
       ExpireStaleTimers, AckTimeout, Interrupt, Crash, CrashInCalibration,
       CrashInExchange, CrashInWrite
  <2>8. CASE Radar
    BY <2>1, <2>8 DEF Radar, RadarSends, CalibrationProceeds, SceneChanges
  <2>9. CASE UNCHANGED vars
    BY <2>1, <2>9 DEF vars
  <2>10. QED
    BY <2>3, <2>4, <2>5, <2>6, <2>7, <2>8, <2>9 DEF Next, Loop
<1>3. CacheIsDriver => MergeDelivered
  BY DEF CacheIsDriver, MergeDelivered
<1>4. QED
  BY <1>1, <1>2, <1>3, TypeCorrect, PTL DEF Spec

-----------------------------------------------------------------------------
(* The radar's alarm is earned.                                            *)

\* While the near timer runs, monitoring is enabled, the evidence is at least as
\* old as the timer, and the latest frame is recent enough to extend it.  The
\* limit is one tick beyond the stale limit where the next pass will see the
\* frames that came in during the wait of poll before it expires the timers.
TimerHasEvidence ==
  /\ pc = "ack" => "uart" \notin ready
  /\ InLoop /\ nearTimer # -1 =>
       /\ enabled /\ sampleAge # -1
       /\ nearSpan \in nearTimer..NearHold
       /\ pc = "poll" => sampleAge \in 0..(IF due THEN Stale + 1 ELSE Stale)
       /\ pc = "pass" /\ "uart" \in ready => sampleAge \in 0..(Stale + 1)

\* Passing time keeps the evidence at least as old as the timer.
LEMMA ElapseKeepsEvidence ==
  ASSUME TimerTypeOK, NEW ticks \in Nat, Elapse(ticks),
         nearTimer # -1 => nearSpan \in nearTimer..NearHold
  PROVE  /\ nearTimer' # -1 => nearTimer # -1 /\ nearSpan' \in nearTimer'..NearHold
         /\ sampleAge # -1 => sampleAge' # -1
<1>1. NearHold \in Nat
  BY DaemonAssumption
<1> sampleAge # -1 => sampleAge' # -1
  BY DaemonAssumption DEF Elapse, Older, TimerTypeOK, Ages
<1>2. CASE nearTimer = -1
  BY <1>2 DEF Elapse, Older
<1>3. CASE nearTimer # -1
  <2>1. nearTimer \in 0..NearHold
    BY <1>1, <1>3 DEF TimerTypeOK, Ages
  <2>2. nearSpan \in nearTimer..NearHold
    BY <1>3
  <2>3. QED
    BY <1>1, <1>3, <2>1, <2>2, OlderKeepsOrder DEF Elapse
<1>4. QED
  BY <1>2, <1>3

\* So does an exchange, whatever time it takes.
LEMMA ExchangeKeepsEvidence ==
  ASSUME TimerTypeOK, NEW x, Exchange(x),
         nearTimer # -1 => nearSpan \in nearTimer..NearHold
  PROVE  /\ nearTimer' # -1 => nearTimer # -1 /\ nearSpan' \in nearTimer'..NearHold
         /\ sampleAge # -1 => sampleAge' # -1
<1>1. CASE UNCHANGED timerVars
  BY <1>1 DEF timerVars
<1>2. CASE \E d \in {1, Stale + 1} : Elapse(d)
  <2>1. \A d \in {1, Stale + 1} : d \in Nat
    BY DaemonAssumption
  <2>2. QED
    BY <1>2, <2>1, ElapseKeepsEvidence
<1>3. QED
  BY <1>1, <1>2 DEF Exchange

\* A frame extends the timer only together with the evidence.
LEMMA FrameKeepsEvidence ==
  ASSUME TypeOK, TimerHasEvidence, UartFrame
  PROVE  /\ TimerHasEvidence'
         /\ AlarmIsEarned
<1> DEFINE frame == Head(frames)
<1>1. /\ pc = "pass" /\ "uart" \in ready /\ UNCHANGED <<enabled, ready>>
      /\ sampleAge' = 0 /\ Witness(frame)
  BY DEF UartFrame
<1>2. /\ NearHold \in Nat \ {0} /\ Stale \in Nat
      /\ nearTimer \in Ages(NearHold) /\ nearSpan \in Ages(NearHold)
  BY DaemonAssumption DEF TypeOK, TimerTypeOK
<1>3. nearTimer # -1 => /\ enabled /\ nearSpan \in nearTimer..NearHold
                        /\ sampleAge \in 0..(Stale + 1) /\ nearTimer \in 0..NearHold
  BY <1>1, <1>2 DEF TimerHasEvidence, InLoop, Ages
<1>4. nearTimer # -1 => ~(nearSpan = -1 \/ sampleAge > Stale + 1)
  BY <1>2, <1>3
<1>5. nearTimer # -1 /\ frame # "clear" => nearSpan' = nearSpan
  BY <1>1, <1>3, <1>4 DEF Witness
<1>6. CASE frame \in {"near", "clear"} /\ enabled
  <2>1. PICK ok \in BOOLEAN : UpdateRearMonitor(frame, ok)
    BY <1>6 DEF UartFrame
  <2>2. nearTimer' = IF frame = "clear" THEN -1 ELSE Started(nearTimer)
    BY <2>1 DEF UpdateRearMonitor
  <2>3. nearTimer' # -1 => nearSpan' \in nearTimer'..NearHold
    <3>1. CASE frame = "clear"
      BY <2>2, <3>1
    <3>2. CASE frame # "clear" /\ nearTimer # -1
      BY <1>3, <1>5, <2>2, <3>2 DEF Started
    <3>3. CASE frame # "clear" /\ nearTimer = -1
      <4>1. nearTimer' = 0 /\ frame = "near"
        BY <1>6, <2>2, <3>3 DEF Started
      <4>2. nearSpan' \in 0..NearHold
        BY <1>1, <1>2, <1>6, <4>1 DEF Witness, Ages
      <4>3. QED
        BY <4>1, <4>2
    <3>4. QED
      BY <3>1, <3>2, <3>3
  <2>4. TimerHasEvidence'
    <3>1. pc' \in {"pass", "exit"}
      BY <1>1, <2>1, UpdateType
    <3>2. QED
      BY <1>1, <1>2, <1>6, <2>3, <3>1 DEF TimerHasEvidence, InLoop
  <2>5. ~user_alarm_on /\ user_alarm_on' => frame # "clear" /\ nearTimer = NearHold
    <3> DEFINE raise == frame # "clear" /\ nearTimer = NearHold
    <3>1. user_alarm_on' = user_alarm_on \/ user_alarm_on' = raise
      BY <2>1 DEF UpdateRearMonitor, ApplyUserAlarm, alarmVars
    <3>2. QED
      BY <3>1
  <2>6. AlarmIsEarned
    <3> SUFFICES ASSUME ~user_alarm_on, user_alarm_on'
                 PROVE  enabled /\ nearSpan' = NearHold
      BY DEF AlarmIsEarned
    <3>1. frame # "clear" /\ nearTimer = NearHold
      BY <2>5
    <3>2. QED
      BY <1>2, <1>3, <1>5, <1>6, <3>1
  <2>7. QED
    BY <2>4, <2>6
<1>7. CASE ~(frame \in {"near", "clear"} /\ enabled)
  <2>1. UNCHANGED <<nearTimer, user_alarm_on, pc>>
    BY <1>7 DEF UartFrame, alarmVars
  <2>2. nearTimer # -1 => frame # "clear"
    BY <1>3, <1>7
  <2>3. TimerHasEvidence'
    BY <1>1, <1>2, <1>3, <1>5, <2>1, <2>2 DEF TimerHasEvidence, InLoop
  <2>4. QED
    BY <2>1, <2>3 DEF AlarmIsEarned
<1>8. QED
  BY <1>6, <1>7

\* The radar's alarm is raised only after near frames that span the hold time.
THEOREM AlarmsEarned == Spec => RadarAlarmEarned
<1>1. Init => TimerHasEvidence
  BY DEF Init, TimerHasEvidence, InLoop
<1>2. TypeOK /\ TimerHasEvidence /\ [Next]_vars => TimerHasEvidence' /\ AlarmIsEarned
  <2> SUFFICES ASSUME TypeOK, TimerHasEvidence, [Next]_vars
               PROVE  TimerHasEvidence' /\ AlarmIsEarned
    OBVIOUS
  <2>1. /\ NearHold \in Nat /\ Stale \in Nat /\ TimerTypeOK
        /\ sampleAge \in Ages(Stale + 2)
    BY DaemonAssumption DEF TypeOK, TimerTypeOK
  <2>2. ASSUME user_alarm_on' = user_alarm_on \/ ~user_alarm_on'
        PROVE  AlarmIsEarned
    BY <2>2 DEF AlarmIsEarned
  <2>3. ASSUME UNCHANGED <<pc, ready, due, enabled, sampleAge, nearTimer, nearSpan>>
        PROVE  TimerHasEvidence'
    BY <2>3 DEF TimerHasEvidence, InLoop
  <2>4. CASE Tick
    <3>1. /\ pc \in {"poll", "ack", "down"} /\ ~due /\ due' = (pc # "down")
          /\ Elapse(1) /\ UNCHANGED <<pc, ready, enabled, user_alarm_on>>
      BY <2>4 DEF Tick, alarmVars
    <3>2. CASE pc # "down" /\ nearTimer' # -1
      <4>1. nearTimer # -1 => sampleAge # -1 /\ nearSpan \in nearTimer..NearHold
        BY <3>1, <3>2 DEF TimerHasEvidence, InLoop
      <4>2. nearTimer # -1 /\ nearSpan' \in nearTimer'..NearHold /\ sampleAge' # -1
        BY <2>1, <3>1, <3>2, <4>1, ElapseKeepsEvidence
      <4>3. pc = "poll" => sampleAge \in 0..Stale
        BY <3>1, <4>2 DEF TimerHasEvidence, InLoop
      <4>4. pc = "poll" => sampleAge' \in 0..(Stale + 1)
        BY <2>1, <3>1, <4>3 DEF Elapse, Older
      <4>5. QED
        BY <2>2, <3>1, <3>2, <4>2, <4>4 DEF TimerHasEvidence, InLoop
    <3>3. CASE pc = "down" \/ nearTimer' = -1
      BY <2>2, <3>1, <3>3 DEF TimerHasEvidence, InLoop
    <3>4. QED
      BY <3>2, <3>3
  <2>5. CASE Start
    <3>1. nearTimer' = -1 /\ pc' \in {"poll", "exit"} /\ ~user_alarm_on'
      BY <2>5 DEF Start, ApplyUserAlarm
    <3>2. QED
      BY <2>2, <3>1 DEF TimerHasEvidence
  <2>6. CASE Wake
    <3>1. /\ pc = "poll" /\ pc' = "pass"
          /\ UNCHANGED <<enabled, sampleAge, nearTimer, nearSpan, user_alarm_on>>
      BY <2>6 DEF Wake, timerVars, alarmVars
    <3>2. nearTimer # -1 => /\ enabled /\ nearSpan \in nearTimer..NearHold
                            /\ sampleAge \in 0..(Stale + 1)
      BY <2>1, <3>1 DEF TimerHasEvidence, InLoop
    <3>3. QED
      BY <2>2, <3>1, <3>2 DEF TimerHasEvidence
  <2>7. CASE UartFrame
    BY <2>7, FrameKeepsEvidence
  <2>8. CASE UartDrained
    <3>1. /\ pc = "pass" /\ "uart" \notin ready'
          /\ UNCHANGED <<pc, enabled, sampleAge, nearTimer, nearSpan, user_alarm_on>>
      BY <2>8 DEF UartDrained, timerVars, alarmVars
    <3>2. QED
      BY <2>2, <3>1 DEF TimerHasEvidence, InLoop
  <2>9. CASE FinishCalibration
    <3>1. pc = "pass" /\ "uart" \notin ready /\ UNCHANGED <<enabled, user_alarm_on>>
      BY <2>9 DEF FinishCalibration, alarmVars
    <3>2. "uart" \notin ready'
      BY <2>9, <3>1 DEF FinishCalibration
    <3>3. nearTimer # -1 => enabled /\ sampleAge # -1 /\ nearSpan \in nearTimer..NearHold
      BY <3>1 DEF TimerHasEvidence, InLoop
    <3>4. CASE \E x \in Outcomes : Exchange(x)
      <4>1. /\ nearTimer' # -1 => nearTimer # -1 /\ nearSpan' \in nearTimer'..NearHold
            /\ sampleAge # -1 => sampleAge' # -1
        BY <2>1, <3>3, <3>4, ExchangeKeepsEvidence
      <4>2. pc' \in {"pass", "ack"}
        BY <3>4 DEF Exchange
      <4>3. QED
        BY <2>2, <3>1, <3>2, <3>3, <4>1, <4>2 DEF TimerHasEvidence
    <3>5. CASE UNCHANGED <<timerVars, pc>>
      BY <2>2, <3>1, <3>2, <3>3, <3>5 DEF TimerHasEvidence, timerVars
    <3>6. QED
      BY <2>9, <3>4, <3>5 DEF FinishCalibration
  <2>10. CASE HandleRequest
    <3>1. pc = "pass" /\ ready = {"control"}
      BY <2>10 DEF HandleRequest
    <3>2. nearTimer # -1 => enabled /\ sampleAge # -1 /\ nearSpan \in nearTimer..NearHold
      BY <3>1 DEF TimerHasEvidence, InLoop
    <3>3. ASSUME "uart" \notin ready', UNCHANGED <<pc, timerVars, enabled>>
          PROVE  TimerHasEvidence'
      BY <3>1, <3>2, <3>3 DEF TimerHasEvidence, timerVars
    <3>4. ASSUME NEW x \in Outcomes, Exchange(x), "uart" \notin ready',
                 UNCHANGED enabled
          PROVE  TimerHasEvidence'
      <4>1. /\ nearTimer' # -1 => nearTimer # -1 /\ nearSpan' \in nearTimer'..NearHold
            /\ sampleAge # -1 => sampleAge' # -1
        BY <2>1, <3>2, <3>4, ExchangeKeepsEvidence
      <4>2. pc' \in {"pass", "ack"}
        BY <3>4 DEF Exchange
      <4>3. QED
        BY <3>2, <3>4, <4>1, <4>2 DEF TimerHasEvidence
    <3>5. CASE \E on \in BOOLEAN : SetAi(on)
      <4>1. UNCHANGED <<pc, ready, timerVars, enabled, user_alarm_on>>
        BY <3>5 DEF SetAi, ApplyUserAlarm
      <4>2. QED
        BY <2>2, <3>1, <3>3, <4>1
    <3>6. CASE EnableRearMonitor
      <4>1. CASE UNCHANGED <<enabled, alarmVars, timerVars>>
        BY <2>2, <3>1, <3>3, <3>6, <4>1 DEF EnableRearMonitor, alarmVars
      <4>2. CASE /\ ClearTimers
                 /\ \E ok \in BOOLEAN : ApplyUserAlarm(applied, FALSE, ai_alarm_on, ok)
        <5>1. nearTimer' = -1 /\ ~user_alarm_on' /\ pc' = "pass"
          BY <3>1, <3>6, <4>2 DEF EnableRearMonitor, ClearTimers, ApplyUserAlarm
        <5>2. QED
          BY <2>2, <5>1 DEF TimerHasEvidence
      <4>3. QED
        BY <3>6, <4>1, <4>2 DEF EnableRearMonitor
    <3>7. CASE DisableRearMonitor
      <4>1. nearTimer' = -1 /\ ~user_alarm_on' /\ pc' = "pass"
        BY <3>1, <3>7 DEF DisableRearMonitor, ClearTimers, ApplyUserAlarm
      <4>2. QED
        BY <2>2, <4>1 DEF TimerHasEvidence
    <3>8. CASE RearStatus
      <4>1. "uart" \notin ready' /\ UNCHANGED <<enabled, user_alarm_on>>
        BY <3>1, <3>8 DEF RearStatus, alarmVars
      <4>2. QED
        BY <2>2, <3>3, <3>4, <3>8, <4>1 DEF RearStatus
    <3>9. CASE StartCalibration
      <4>1. "uart" \notin ready' /\ UNCHANGED <<enabled, user_alarm_on>>
        BY <3>1, <3>9 DEF StartCalibration, alarmVars
      <4>2. QED
        BY <2>2, <3>3, <3>4, <3>9, <4>1 DEF StartCalibration, Outcomes
    <3>10. QED
      BY <2>10, <3>5, <3>6, <3>7, <3>8, <3>9 DEF HandleRequest
  <2>11. CASE ControlDrained
    <3>1. /\ pc = "pass" /\ "uart" \notin ready'
          /\ UNCHANGED <<pc, enabled, sampleAge, nearTimer, nearSpan, user_alarm_on>>
      BY <2>11 DEF ControlDrained, timerVars, alarmVars
    <3>2. QED
      BY <2>2, <3>1 DEF TimerHasEvidence, InLoop
  <2>12. CASE ExpireStaleTimers
    <3>1. /\ pc = "pass" /\ pc' = "poll"
          /\ UNCHANGED <<due, enabled, sampleAge, nearSpan, user_alarm_on>>
          /\ IF sampleAge > Stale THEN nearTimer' = -1 ELSE UNCHANGED nearTimer
      BY <2>12 DEF ExpireStaleTimers, alarmVars
    <3>2. nearTimer # -1 => sampleAge # -1
      BY <3>1 DEF TimerHasEvidence, InLoop
    <3>3. nearTimer' # -1 => nearTimer # -1 /\ sampleAge' \in 0..Stale
      BY <2>1, <3>1, <3>2 DEF Ages
    <3>4. QED
      BY <2>1, <2>2, <3>1, <3>3 DEF TimerHasEvidence, InLoop
  <2>13. CASE AckTimeout \/ Interrupt
    <3>1. WaitFails /\ UNCHANGED <<enabled, alarmVars, timerVars>>
      BY <2>13 DEF AckTimeout, Interrupt
    <3>2. /\ pc = "ack" /\ "uart" \notin ready /\ ready' \subseteq ready
          /\ pc' = "pass"
          /\ UNCHANGED <<enabled, sampleAge, nearTimer, nearSpan, user_alarm_on>>
      BY <3>1 DEF WaitFails, timerVars, alarmVars, TimerHasEvidence
    <3>3. QED
      BY <2>2, <3>2 DEF TimerHasEvidence, InLoop
  <2>14. CASE Exit \/ Stop
    <3>1. pc' = "down" /\ ~user_alarm_on'
      BY <2>14 DEF Exit, Stop, EndOfMain, Forget, ApplyUserAlarm
    <3>2. QED
      BY <2>2, <3>1 DEF TimerHasEvidence, InLoop
  <2>16. CASE Crash \/ CrashInCalibration \/ CrashInExchange \/ CrashInWrite
    <3>1. pc' = "down" /\ UNCHANGED user_alarm_on
      BY <2>16
      DEF Crash, CrashInCalibration, CrashInExchange, CrashInWrite, Forget, alarmVars
    <3>2. QED
      BY <2>2, <3>1 DEF TimerHasEvidence, InLoop
  <2>17. CASE Radar
    <3>1. Emit("success") \/ Emit("failed") \/ Emit(scene) \/ Emit("calibrating")
            => due' = due \/ (pc = "ack" /\ ~due')
      BY DEF Emit
    <3>2. /\ UNCHANGED <<pc, ready, enabled, timerVars, alarmVars>>
          /\ due' = due \/ pc = "ack"
      BY <2>17, <3>1
      DEF Radar, RadarSends, CalibrationProceeds, SceneChanges, loopVars, Emit
    <3>3. QED
      BY <2>2, <3>2 DEF TimerHasEvidence, InLoop, timerVars, alarmVars
  <2>19. CASE UNCHANGED vars
    BY <2>2, <2>3, <2>19 DEF vars, loopVars, timerVars, alarmVars
  <2>20. QED
    BY <2>4, <2>5, <2>6, <2>7, <2>8, <2>9, <2>10, <2>11, <2>12, <2>13, <2>14, <2>16,
       <2>17, <2>19 DEF Next, Loop
<1>3. TypeOK /\ TimerHasEvidence /\ [Next]_vars => [AlarmIsEarned]_vars
  BY <1>2
<1>4. QED
  BY <1>1, <1>2, <1>3, TypeCorrect, PTL DEF Spec, RadarAlarmEarned

-----------------------------------------------------------------------------
(* The end of the radar's alarm is earned.                                 *)

\* While the nobody timer runs, so does a run of clear frames that is at least as old.
TimerHasClearance ==
  nobodyTimer # -1 => enabled /\ clearSpan \in nobodyTimer..NobodyHold

\* Passing time keeps it.
LEMMA ElapseKeepsClearance ==
  ASSUME TypeOK, TimerHasClearance, UNCHANGED enabled, NEW ticks \in Nat, Elapse(ticks)
  PROVE  TimerHasClearance'
<1>1. NobodyHold \in Nat
  BY DaemonAssumption
<1>2. CASE nobodyTimer = -1
  BY <1>2 DEF Elapse, Older, TimerHasClearance
<1>3. CASE nobodyTimer # -1
  <2>1. nobodyTimer \in 0..NobodyHold /\ clearSpan \in nobodyTimer..NobodyHold /\ enabled
    BY <1>1, <1>3 DEF TypeOK, TimerTypeOK, Ages, TimerHasClearance
  <2>2. clearSpan' \in nobodyTimer'..NobodyHold
    BY <1>1, <2>1, OlderKeepsOrder DEF Elapse
  <2>3. QED
    BY <2>1, <2>2 DEF TimerHasClearance
<1>4. QED
  BY <1>2, <1>3

\* So does an exchange.
LEMMA ExchangeKeepsClearance ==
  ASSUME TypeOK, TimerHasClearance, UNCHANGED enabled, NEW x, Exchange(x)
  PROVE  TimerHasClearance'
<1>1. CASE UNCHANGED timerVars
  BY <1>1 DEF timerVars, TimerHasClearance
<1>2. CASE \E d \in {1, Stale + 1} : Elapse(d)
  <2>1. \A d \in {1, Stale + 1} : d \in Nat
    BY DaemonAssumption
  <2>2. QED
    BY <1>2, <2>1, ElapseKeepsClearance
<1>3. QED
  BY <1>1, <1>2 DEF Exchange

\* A frame starts the timer only together with the run, and releases only after it.
LEMMA FrameKeepsClearance ==
  ASSUME TypeOK, TimerHasClearance, UartFrame
  PROVE  TimerHasClearance' /\ ReleaseIsEarned
<1> DEFINE frame == Head(frames)
<1>1. UNCHANGED enabled /\ Witness(frame)
  BY DEF UartFrame
<1>2. NobodyHold \in Nat /\ nobodyTimer \in Ages(NobodyHold) /\ clearSpan \in Ages(NobodyHold)
  BY DaemonAssumption DEF TypeOK, TimerTypeOK
<1>3. CASE frame \in {"near", "clear"} /\ enabled
  <2>1. PICK ok \in BOOLEAN : UpdateRearMonitor(frame, ok)
    BY <1>3 DEF UartFrame
  <2>2. nobodyTimer' = IF frame # "clear" \/ ~user_alarm_on THEN -1 ELSE Started(nobodyTimer)
    BY <2>1 DEF UpdateRearMonitor
  <2>3. frame = "clear" => clearSpan' = IF clearSpan = -1 THEN 0 ELSE clearSpan
    BY <1>1, <1>3 DEF Witness
  <2>4. TimerHasClearance'
    BY <1>1, <1>2, <1>3, <2>2, <2>3 DEF TimerHasClearance, Started, Ages
  <2>5. ReleaseIsEarned
    <3> SUFFICES ASSUME user_alarm_on, ~user_alarm_on' PROVE clearSpan = NobodyHold
      BY DEF ReleaseIsEarned
    <3> DEFINE raise == frame # "clear" /\ nearTimer = NearHold
               release == frame = "clear" /\ user_alarm_on /\ nobodyTimer = NobodyHold
    <3>1. IF raise \/ release THEN ApplyUserAlarm(applied, raise, ai_alarm_on, ok)
                              ELSE UNCHANGED alarmVars
      BY <2>1 DEF UpdateRearMonitor
    <3>2. release
      BY <3>1 DEF ApplyUserAlarm, alarmVars
    <3>3. QED
      BY <1>2, <3>2 DEF TimerHasClearance
  <2>6. QED
    BY <2>4, <2>5
<1>4. CASE ~(frame \in {"near", "clear"} /\ enabled)
  <2>1. UNCHANGED <<nobodyTimer, user_alarm_on>>
    BY <1>4 DEF UartFrame, alarmVars
  <2>2. enabled => UNCHANGED clearSpan
    BY <1>1, <1>4 DEF Witness
  <2>3. QED
    BY <1>1, <2>1, <2>2 DEF TimerHasClearance, ReleaseIsEarned
<1>5. QED
  BY <1>3, <1>4

\* Every step keeps it, and releases only on evidence, on a command or at the end.
LEMMA ClearanceNext ==
  ASSUME TypeOK, TimerHasClearance, [Next]_vars
  PROVE  TimerHasClearance' /\ ReleaseIsEarned
<1>1. ASSUME UNCHANGED <<enabled, nobodyTimer, clearSpan>> PROVE TimerHasClearance'
  BY <1>1 DEF TimerHasClearance
<1>2. ASSUME UNCHANGED user_alarm_on PROVE ReleaseIsEarned
  BY <1>2 DEF ReleaseIsEarned
<1>3. ASSUME nobodyTimer' = -1 PROVE TimerHasClearance'
  BY <1>3 DEF TimerHasClearance
<1>4. CASE Tick
  BY <1>2, <1>4, ElapseKeepsClearance DEF Tick, alarmVars
<1>5. CASE Start
  BY <1>3, <1>5 DEF Start, ReleaseIsEarned
<1>6. CASE UartFrame
  BY <1>6, FrameKeepsClearance
<1>7. CASE FinishCalibration
  <2>1. UNCHANGED <<enabled, user_alarm_on>>
    BY <1>7 DEF FinishCalibration, alarmVars
  <2>2. TimerHasClearance'
    <3>1. CASE UNCHANGED timerVars
      BY <1>1, <2>1, <3>1 DEF timerVars
    <3>2. CASE \E x \in Outcomes : Exchange(x)
      BY <2>1, <3>2, ExchangeKeepsClearance
    <3>3. QED
      BY <1>7, <3>1, <3>2 DEF FinishCalibration
  <2>3. QED
    BY <1>2, <2>1, <2>2
<1>8. CASE HandleRequest
  <2>1. CASE \E on \in BOOLEAN : SetAi(on)
    <3>1. UNCHANGED <<enabled, user_alarm_on, timerVars>>
      BY <2>1 DEF SetAi, ApplyUserAlarm
    <3>2. QED
      BY <1>1, <1>2, <3>1 DEF timerVars
  <2>2. CASE EnableRearMonitor \/ DisableRearMonitor
    <3>1. ReleaseIsEarned
      BY <2>2 DEF EnableRearMonitor, DisableRearMonitor, ReleaseIsEarned
    <3>2. nobodyTimer' = -1 \/ UNCHANGED <<enabled, timerVars>>
      BY <2>2 DEF EnableRearMonitor, DisableRearMonitor, ClearTimers
    <3>3. QED
      BY <1>1, <1>3, <3>1, <3>2 DEF timerVars
  <2>3. CASE RearStatus \/ StartCalibration
    <3>1. UNCHANGED <<enabled, user_alarm_on>>
      BY <2>3 DEF RearStatus, StartCalibration, alarmVars
    <3>2. TimerHasClearance'
      <4>1. CASE UNCHANGED timerVars
        BY <1>1, <3>1, <4>1 DEF timerVars
      <4>2. CASE \E x \in Outcomes : Exchange(x)
        BY <3>1, <4>2, ExchangeKeepsClearance
      <4>3. QED
        BY <2>3, <4>1, <4>2 DEF RearStatus, StartCalibration, Outcomes
    <3>3. QED
      BY <1>2, <3>1, <3>2
  <2>4. QED
    BY <1>8, <2>1, <2>2, <2>3 DEF HandleRequest
<1>9. CASE ExpireStaleTimers
  <2>1. nobodyTimer' = -1 \/ UNCHANGED nobodyTimer
    BY <1>9 DEF ExpireStaleTimers
  <2>2. UNCHANGED <<enabled, clearSpan, user_alarm_on>>
    BY <1>9 DEF ExpireStaleTimers, alarmVars
  <2>3. QED
    BY <1>1, <1>2, <1>3, <2>1, <2>2
<1>10. CASE Exit \/ Stop
  BY <1>1, <1>10 DEF Exit, Stop, EndOfMain, Forget, timerVars, ReleaseIsEarned
<1>11. CASE Wake \/ UartDrained \/ ControlDrained \/ AckTimeout \/ Interrupt
  BY <1>1, <1>2, <1>11
  DEF Wake, UartDrained, ControlDrained, AckTimeout, Interrupt, alarmVars, timerVars
<1>12. CASE Crash \/ CrashInCalibration \/ CrashInExchange \/ CrashInWrite
  BY <1>1, <1>2, <1>12
  DEF Crash, CrashInCalibration, CrashInExchange, CrashInWrite, alarmVars, timerVars
<1>13. CASE Radar
  BY <1>1, <1>2, <1>13
  DEF Radar, RadarSends, CalibrationProceeds, SceneChanges, alarmVars, timerVars
<1>14. CASE UNCHANGED vars
  BY <1>1, <1>2, <1>14 DEF vars, alarmVars, timerVars
<1>15. QED
  BY <1>4, <1>5, <1>6, <1>7, <1>8, <1>9, <1>10, <1>11, <1>12, <1>13, <1>14 DEF Next, Loop

\* The radar's alarm goes only after clear frames that span the clear time, on a command,
\* or with the process.
THEOREM ReleasesEarned == Spec => RadarReleaseEarned
<1>1. Init => TimerHasClearance
  BY DEF Init, TimerHasClearance
<1>2. TypeOK /\ TimerHasClearance /\ [Next]_vars => [ReleaseIsEarned]_vars
  BY ClearanceNext
<1>3. QED
  BY InitType, NextType, ClearanceNext, <1>1, <1>2, PTL DEF Spec, RadarReleaseEarned

-----------------------------------------------------------------------------
(* A recorded success was compared.                                        *)

\* What a pass still owes to the record is settled before it serves clients, and a
\* failure that is to be recorded is not taken for a success.
RecordInv ==
  /\ record = "success" => compared
  /\ pc \in {"poll", "down"} => ready = {}
  /\ pc = "poll" \/ (pc = "pass" /\ ready \cap {"uart", "finish"} = {}) =>
       ~record_pending /\ ~snapshot_after_pending
  /\ pc = "ack" => snapshot_after_pending \/ ~record_pending
  /\ pc \in {"pass", "ack"} /\ record_pending /\ ~snapshot_after_pending =>
       calibration # "success"

\* What Conclude writes.
LEMMA ConcludeRecords ==
  ASSUME record = "success" => compared, NEW read, Conclude(read)
  PROVE  /\ record' = "success" => compared'
         /\ ~record_pending' /\ ~snapshot_after_pending'
BY DEF Conclude, WriteRecord

\* Every step keeps the invariant.
LEMMA RecordNext ==
  ASSUME TypeOK, RecordInv, [Next]_vars
  PROVE  RecordInv'
<1> USE DEF RecordInv
<1>1. CASE Start
  BY <1>1 DEF Start
<1>2. CASE UartFrame
  <2>1. pc' \in {pc, "exit"}
    BY <1>2 DEF UartFrame, UpdateRearMonitor
  <2>2. QED
    BY <1>2, <2>1 DEF UartFrame
<1>3. CASE UartDrained
  BY <1>3 DEF UartDrained, calVars
<1>4. CASE FinishCalibration
  <2>1. CASE snapshot_after_pending
    <3>1. PICK x \in Outcomes :
            /\ Exchange(x)
            /\ IF x.hangs THEN UNCHANGED <<calVars, ready>>
               ELSE Conclude(x.ok) /\ ready' = ready \ {"finish"}
      BY <1>4, <2>1 DEF FinishCalibration
    <3>2. pc' = IF x.hangs THEN "ack" ELSE "pass"
      BY <3>1 DEF Exchange
    <3>3. CASE x.hangs
      BY <2>1, <3>1, <3>2, <3>3 DEF calVars
    <3>4. CASE ~x.hangs
      <4>1. /\ record' = "success" => compared'
            /\ ~record_pending' /\ ~snapshot_after_pending'
        BY <3>1, <3>4, ConcludeRecords
      <4>2. QED
        BY <3>2, <3>4, <4>1
    <3>5. QED
      BY <3>3, <3>4
  <2>2. CASE ~snapshot_after_pending
    BY <1>4, <2>2 DEF FinishCalibration, WriteRecord
  <2>3. QED
    BY <2>1, <2>2
<1>5. CASE HandleRequest
  <2>1. pc = "pass" /\ ~record_pending /\ ~snapshot_after_pending
    BY <1>5 DEF HandleRequest
  <2>2. CASE \/ \E on \in BOOLEAN : SetAi(on)
             \/ EnableRearMonitor \/ DisableRearMonitor
    <3>1. UNCHANGED <<pc, ready, calVars>>
      BY <2>2 DEF SetAi, EnableRearMonitor, DisableRearMonitor
    <3>2. QED
      BY <2>1, <3>1 DEF calVars
  <2>3. CASE RearStatus
    <3>1. ~record_pending' /\ UNCHANGED <<record, compared>>
      BY <2>1, <2>3 DEF RearStatus
    <3>2. "finish" \in ready'
      BY <2>3 DEF RearStatus
    <3>3. pc' \in {"pass", "ack"}
      BY <2>1, <2>3 DEF RearStatus, Exchange
    <3>4. QED
      BY <3>1, <3>2, <3>3
  <2>4. CASE StartCalibration
    <3>1. ~record_pending' /\ ~snapshot_after_pending'
      <4>1. CASE UNCHANGED calVars
        BY <2>1, <4>1 DEF calVars
      <4>2. CASE snapshot_after_pending' = FALSE /\ record_pending' = FALSE
        BY <4>2
      <4>3. QED
        BY <2>4, <4>1, <4>2 DEF StartCalibration
    <3>2. record' \in {"waiting", "none"} \/ UNCHANGED <<record, compared>>
      BY <2>4 DEF StartCalibration, WriteRecord, calVars
    <3>3. pc' \in {"pass", "ack"}
      BY <2>1, <2>4 DEF StartCalibration, Exchange
    <3>4. QED
      BY <3>1, <3>2, <3>3
  <2>5. QED
    BY <1>5, <2>2, <2>3, <2>4 DEF HandleRequest
<1>6. CASE AckTimeout \/ Interrupt
  <2>1. WaitFails
    BY <1>6 DEF AckTimeout, Interrupt
  <2>2. CASE snapshot_after_pending
    <3>1. /\ record' = "success" => compared'
          /\ ~record_pending' /\ ~snapshot_after_pending'
      BY <2>1, <2>2, ConcludeRecords DEF WaitFails
    <3>2. QED
      BY <2>1, <3>1 DEF WaitFails
  <2>3. CASE ~snapshot_after_pending
    BY <2>1, <2>3 DEF WaitFails, calVars
  <2>4. QED
    BY <2>2, <2>3
<1>7. CASE Tick \/ ControlDrained \/ ExpireStaleTimers \/ Wake
  BY <1>7 DEF Tick, ControlDrained, ExpireStaleTimers, Wake, calVars
<1>8. CASE Exit \/ Stop \/ Crash \/ CrashInCalibration \/ CrashInExchange \/ CrashInWrite
  <2>1. pc' = "down" /\ ready' = {}
    BY <1>8
    DEF Exit, Stop, EndOfMain, Crash, CrashInCalibration, CrashInExchange, CrashInWrite,
        Forget
  <2>2. record' = "none" \/ UNCHANGED <<record, compared>>
    BY <1>8
    DEF Exit, Stop, EndOfMain, Crash, CrashInCalibration, CrashInExchange, CrashInWrite,
        calVars
  <2>3. QED
    BY <2>1, <2>2
<1>9. CASE Radar
  BY <1>9 DEF Radar, RadarSends, CalibrationProceeds, SceneChanges, loopVars, calVars
<1>10. CASE UNCHANGED vars
  BY <1>10 DEF vars, loopVars, calVars
<1>11. QED
  BY <1>1, <1>2, <1>3, <1>4, <1>5, <1>6, <1>7, <1>8, <1>9, <1>10 DEF Next, Loop

\* Whatever crashed or was lost, a success on record was compared.
THEOREM RecordCorrect == Spec => []RecordedSuccessWasCompared
<1>1. Init => RecordInv
  BY DEF Init, RecordInv
<1>2. RecordInv => RecordedSuccessWasCompared
  BY DEF RecordInv, RecordedSuccessWasCompared
<1>3. QED
  BY InitType, NextType, RecordNext, <1>1, <1>2, PTL DEF Spec

-----------------------------------------------------------------------------
(* Monitoring excludes calibration.                                        *)

ModuleIsCalibrating == module \in {"waiting", "running"}
Reports == {"success", "failed"}

\* No frame that says "calibrating" waits unless the daemon knows of the calibration,
\* and none behind the report of its end.
FramesInv ==
  \A i \in 1..Len(frames) : frames[i] = "calibrating" =>
    CalibrationIsActive /\ \A j \in 1..i : frames[j] \notin Reports

\* While the module calibrates, the record says so, the daemon knows, no report of an end
\* is on its way, and nothing is left to do of an earlier one.
ExclusionInv ==
  /\ enabled => ~CalibrationIsActive /\ ~ModuleIsCalibrating
  /\ ModuleIsCalibrating =>
       /\ record \in {"waiting", "running"}
       /\ \A i \in 1..Len(frames) : frames[i] \notin Reports
       /\ InLoop => CalibrationIsActive /\ ~snapshot_after_pending /\ ~record_pending
  /\ FramesInv

\* No frame waits for a daemon that is down or drops it; and the rest holds but for a
\* calibration that is not on record.
ExclusionSafe ==
  /\ pc \in {"down", "ack"} => frames = <<>>
  /\ ~unrecorded => ExclusionInv

\* A step that leaves the calibration and its frames alone.
LEMMA ExclusionKept ==
  ASSUME ExclusionInv, UNCHANGED <<calVars, module, frames>>,
         enabled' => enabled \/ (pc = "pass" /\ ~CalibrationIsActive),
         InLoop' => InLoop
  PROVE  ExclusionInv'
BY DEF ExclusionInv, FramesInv, ModuleIsCalibrating, CalibrationIsActive, InLoop, calVars

\* A frame is taken from the UART and served.
LEMMA ExclusionFrame ==
  ASSUME TypeOK, ExclusionInv, UartFrame
  PROVE  ExclusionInv'
<1> DEFINE frame == Head(frames)
<1>1. /\ Len(frames) \in Nat \ {0} /\ frame = frames[1]
      /\ Len(frames') = Len(frames) - 1
      /\ \A i \in 1..Len(frames') : i + 1 \in 1..Len(frames) /\ frames'[i] = frames[i + 1]
  BY DEF UartFrame, TypeOK, FrameTypeOK
<1>2. /\ pc = "pass" /\ UNCHANGED <<enabled, module, record>>
      /\ calibration' = CASE frame = "calibrating" -> "running"
                          [] frame = "success" -> "success"
                          [] frame = "failed" -> "failed"
                          [] OTHER -> calibration
      /\ snapshot_after_pending' = (snapshot_after_pending \/ frame = "success")
      /\ record_pending' = (record_pending \/ frame = "failed")
  BY DEF UartFrame, moduleVars
<1>3. pc' \in {"pass", "exit"}
  BY <1>2 DEF UartFrame, UpdateRearMonitor
<1>4. frame = "calibrating" => CalibrationIsActive
  BY <1>1 DEF ExclusionInv, FramesInv
<1>5. enabled' => ~CalibrationIsActive' /\ ~ModuleIsCalibrating'
  BY <1>2, <1>4 DEF ExclusionInv, CalibrationIsActive, ModuleIsCalibrating
<1>6. ModuleIsCalibrating' =>
        /\ record' \in {"waiting", "running"}
        /\ \A i \in 1..Len(frames') : frames'[i] \notin Reports
        /\ CalibrationIsActive' /\ ~snapshot_after_pending' /\ ~record_pending'
  <2> SUFFICES ASSUME ModuleIsCalibrating'
               PROVE  /\ record' \in {"waiting", "running"}
                      /\ \A i \in 1..Len(frames') : frames'[i] \notin Reports
                      /\ CalibrationIsActive' /\ ~snapshot_after_pending' /\ ~record_pending'
    OBVIOUS
  <2>1. /\ record \in {"waiting", "running"}
        /\ \A i \in 1..Len(frames) : frames[i] \notin Reports
        /\ CalibrationIsActive /\ ~snapshot_after_pending /\ ~record_pending
    BY <1>2 DEF ExclusionInv, ModuleIsCalibrating, InLoop
  <2>2. frame \notin Reports
    BY <1>1, <2>1
  <2>3. QED
    BY <1>1, <1>2, <2>1, <2>2 DEF CalibrationIsActive, Reports
<1>7. FramesInv'
  <2> SUFFICES ASSUME NEW i \in 1..Len(frames'), frames'[i] = "calibrating"
               PROVE  CalibrationIsActive' /\ \A j \in 1..i : frames'[j] \notin Reports
    BY DEF FramesInv
  <2>1. CalibrationIsActive /\ \A j \in 1..(i + 1) : frames[j] \notin Reports
    BY <1>1 DEF ExclusionInv, FramesInv
  <2>2. frame \notin Reports
    BY <1>1, <2>1
  <2>3. CalibrationIsActive'
    BY <1>2, <2>1, <2>2 DEF CalibrationIsActive, Reports
  <2>4. ASSUME NEW j \in 1..i PROVE frames'[j] \notin Reports
    BY <1>1, <2>1
  <2>5. QED
    BY <2>3, <2>4
<1>8. QED
  BY <1>5, <1>6, <1>7 DEF ExclusionInv

\* A frame is sent.
LEMMA ExclusionEmit ==
  ASSUME TypeOK, ExclusionInv, NEW frame, Emit(frame),
         frame = "calibrating" => ModuleIsCalibrating,
         UNCHANGED <<pc, enabled, calVars>>,
         UNCHANGED module \/ ~ModuleIsCalibrating',
         ModuleIsCalibrating' => frame \notin Reports
  PROVE  ExclusionInv'
<1>1. CASE UNCHANGED frames
  BY <1>1
  DEF ExclusionInv, FramesInv, ModuleIsCalibrating, CalibrationIsActive, InLoop, calVars
<1>2. CASE pc = "poll" /\ frames' = Append(frames, frame)
  <2>1. /\ Len(frames) \in Nat /\ Len(frames') = Len(frames) + 1
        /\ \A i \in 1..Len(frames) : frames'[i] = frames[i]
        /\ frames'[Len(frames')] = frame
    BY <1>2 DEF TypeOK, FrameTypeOK
  <2>2. frame = "calibrating" =>
          CalibrationIsActive /\ \A i \in 1..Len(frames') : frames'[i] \notin Reports
    BY <1>2, <2>1 DEF ExclusionInv, InLoop, Reports
  <2>3. FramesInv'
    <3> SUFFICES ASSUME NEW i \in 1..Len(frames'), frames'[i] = "calibrating"
                 PROVE  CalibrationIsActive /\ \A j \in 1..i : frames'[j] \notin Reports
      BY DEF FramesInv, CalibrationIsActive, calVars
    <3>1. CASE i \in 1..Len(frames)
      BY <2>1, <3>1 DEF ExclusionInv, FramesInv
    <3>2. CASE i = Len(frames')
      BY <2>1, <2>2, <3>2
    <3>3. QED
      BY <2>1, <3>1, <3>2
  <2>4. ModuleIsCalibrating' =>
          /\ ModuleIsCalibrating
          /\ \A i \in 1..Len(frames') : frames'[i] \notin Reports
    BY <2>1 DEF ExclusionInv, ModuleIsCalibrating
  <2>5. QED
    BY <1>2, <2>3, <2>4
    DEF ExclusionInv, ModuleIsCalibrating, CalibrationIsActive, InLoop, calVars
<1>3. QED
  BY <1>1, <1>2 DEF Emit

\* Nothing waits behind an exchange.
LEMMA ExclusionDrained ==
  ASSUME frames' = <<>>
  PROVE  FramesInv' /\ \A i \in 1..Len(frames') : frames'[i] \notin Reports
BY DEF FramesInv

\* What is left to do of an earlier calibration is done, whatever becomes of the exchange
\* and of the write.
LEMMA ExclusionFinish ==
  ASSUME ExclusionInv, FinishCalibration
  PROVE  ExclusionInv'
<1> USE DEF ModuleIsCalibrating, CalibrationIsActive
<1>1. pc = "pass" /\ UNCHANGED <<enabled, module>>
  BY DEF FinishCalibration
<1>2. CASE snapshot_after_pending
  <2>1. PICK x \in Outcomes :
          /\ Exchange(x)
          /\ IF x.hangs THEN UNCHANGED <<calVars, ready>>
             ELSE Conclude(x.ok) /\ ready' = ready \ {"finish"}
    BY <1>2 DEF FinishCalibration
  <2>2. frames' = <<>>
    BY <2>1 DEF Exchange
  <2>3. calibration' \in {calibration, "unknown"}
    BY <2>1 DEF Conclude, calVars
  <2>4. ~ModuleIsCalibrating
    BY <1>1, <1>2 DEF ExclusionInv, InLoop
  <2>5. QED
    BY <1>1, <2>2, <2>3, <2>4, ExclusionDrained DEF ExclusionInv
<1>3. CASE ~snapshot_after_pending
  <2>1. /\ UNCHANGED <<pc, frames, calibration, snapshot_after_pending>>
        /\ ~record_pending' /\ (~record_pending => UNCHANGED record)
    BY <1>3 DEF FinishCalibration
  <2>2. QED
    BY <1>1, <2>1 DEF ExclusionInv, FramesInv, InLoop
<1>4. QED
  BY <1>2, <1>3

\* The module is asked for its state.
LEMMA ExclusionStatus ==
  ASSUME ExclusionInv, pc = "pass", RearStatus
  PROVE  ExclusionInv'
<1> USE DEF ModuleIsCalibrating, CalibrationIsActive
<1>1. UNCHANGED <<enabled, module, record, record_pending>>
  BY DEF RearStatus
<1>2. CASE enabled
  BY <1>1, <1>2 DEF RearStatus, ExclusionInv, FramesInv, InLoop
<1>3. CASE ~enabled
  <2>1. PICK x \in Outcomes, state \in QueryAnswers :
          /\ Exchange(x)
          /\ calibration' = CASE x.ok /\ state = "running" -> "running"
                              [] x.ok /\ state = "completed" -> "success"
                              [] OTHER -> calibration
          /\ snapshot_after_pending' =
               (snapshot_after_pending \/ (x.ok /\ state = "completed"))
    BY <1>3 DEF RearStatus
  <2>2. frames' = <<>>
    BY <2>1 DEF Exchange
  <2>3. CASE ModuleIsCalibrating
    <3>1. state # "completed"
      BY <2>1, <2>3 DEF QueryAnswers
    <3>2. CalibrationIsActive' /\ ~snapshot_after_pending' /\ ~record_pending'
      BY <1>1, <2>1, <2>3, <3>1 DEF ExclusionInv, InLoop
    <3>3. QED
      BY <1>1, <1>3, <2>2, <2>3, <3>2, ExclusionDrained DEF ExclusionInv
  <2>4. CASE ~ModuleIsCalibrating
    BY <1>1, <1>3, <2>2, <2>4, ExclusionDrained DEF ExclusionInv
  <2>5. QED
    BY <2>3, <2>4
<1>4. QED
  BY <1>2, <1>3

\* A start of the calibration is known and on record, or else unrecorded.
LEMMA ExclusionStart ==
  ASSUME ~unrecorded => ExclusionInv, pc = "pass", StartCalibration, ~unrecorded'
  PROVE  ExclusionInv'
<1> USE DEF ModuleIsCalibrating, CalibrationIsActive
<1>1. UNCHANGED enabled
  BY DEF StartCalibration
<1>2. CASE UNCHANGED <<calVars, inConfig, module, frames, timerVars, budget, pc,
                       stop_requested>>
  <2>1. ExclusionInv
    BY <1>2 DEF calVars
  <2>2. QED
    BY <1>1, <1>2, <2>1, ExclusionKept DEF InLoop
<1>3. ASSUME NEW x, Exchange(x), MayCalibrate,
             snapshot_after_pending' = FALSE /\ record_pending' = FALSE,
             UNCHANGED <<calibration, record, unrecorded, module>>
      PROVE  ExclusionInv'
  <2>1. ExclusionInv /\ frames' = <<>>
    BY <1>3 DEF Exchange
  <2>2. QED
    BY <1>1, <1>3, <2>1, ExclusionDrained DEF ExclusionInv, MayCalibrate, InLoop
<1>4. CASE /\ MayCalibrate
           /\ \E x \in Outcomes, written \in BOOLEAN :
                /\ Exchange(x)
                /\ module' = IF x.done THEN "waiting" ELSE module
                /\ unrecorded' = IF x.done THEN ~(x.ok /\ written) ELSE unrecorded
                /\ IF x.ok
                     THEN calibration' = "waiting" /\ WriteRecord("waiting", FALSE, written)
                     ELSE UNCHANGED <<calibration, record, compared>>
           /\ snapshot_after_pending' = FALSE /\ record_pending' = FALSE
  <2>1. PICK x \in Outcomes, written \in BOOLEAN :
          /\ Exchange(x)
          /\ module' = IF x.done THEN "waiting" ELSE module
          /\ unrecorded' = IF x.done THEN ~(x.ok /\ written) ELSE unrecorded
          /\ IF x.ok
               THEN calibration' = "waiting" /\ WriteRecord("waiting", FALSE, written)
               ELSE UNCHANGED <<calibration, record, compared>>
    BY <1>4
  <2>2. x.ok => x.done
    BY DEF Outcomes, Exchanged, LostIn, Broken
  <2>3. CASE x.done
    <3>1. x.ok /\ written
      BY <2>1, <2>3
    <3>2. calibration' = "waiting" /\ record' = "waiting"
      BY <2>1, <3>1 DEF WriteRecord
    <3>3. frames' = <<>> /\ ~enabled'
      BY <1>1, <1>4, <2>1 DEF Exchange, MayCalibrate
    <3>4. QED
      BY <1>4, <3>2, <3>3, ExclusionDrained DEF ExclusionInv
  <2>4. CASE ~x.done
    <3>1. UNCHANGED <<calibration, record, unrecorded, module>>
      BY <2>1, <2>2, <2>4
    <3>2. QED
      BY <1>3, <1>4, <2>1, <3>1
  <2>5. QED
    BY <2>3, <2>4
<1>5. CASE /\ MayCalibrate
           /\ \E x \in LostIn : Exchange(x)
           /\ snapshot_after_pending' = FALSE /\ record_pending' = FALSE
           /\ UNCHANGED <<calibration, record, compared, unrecorded, module>>
  BY <1>3, <1>5
<1>6. QED
  BY <1>2, <1>4, <1>5 DEF StartCalibration

\* No frame waits for a daemon that is down or drops it.
LEMMA DrainedNext ==
  ASSUME pc \in {"down", "ack"} => frames = <<>>, [Next]_vars
  PROVE  (pc \in {"down", "ack"} => frames = <<>>)'
<1>1. ASSUME NEW x, Exchange(x) PROVE frames' = <<>>
  BY <1>1 DEF Exchange
<1>2. CASE Start \/ Tick \/ Wake \/ UartDrained \/ ControlDrained \/ ExpireStaleTimers
  BY <1>2 DEF Start, Tick, Wake, UartDrained, ControlDrained, ExpireStaleTimers
<1>3. CASE UartFrame
  BY <1>3 DEF UartFrame, UpdateRearMonitor
<1>4. CASE FinishCalibration
  BY <1>1, <1>4 DEF FinishCalibration
<1>5. CASE HandleRequest
  <2>1. CASE (\E on \in BOOLEAN : SetAi(on)) \/ EnableRearMonitor \/ DisableRearMonitor
    BY <1>5, <2>1 DEF HandleRequest, SetAi, EnableRearMonitor, DisableRearMonitor
  <2>2. CASE RearStatus \/ StartCalibration
    BY <1>1, <1>5, <2>2 DEF HandleRequest, RearStatus, StartCalibration
  <2>3. QED
    BY <1>5, <2>1, <2>2 DEF HandleRequest
<1>6. CASE AckTimeout \/ Interrupt
  BY <1>6 DEF AckTimeout, Interrupt, WaitFails
<1>7. CASE \/ Exit \/ Stop
           \/ Crash \/ CrashInCalibration \/ CrashInExchange \/ CrashInWrite
  BY <1>7
  DEF Exit, Stop, EndOfMain, Crash, CrashInCalibration, CrashInExchange, CrashInWrite,
      Forget
<1>8. CASE Radar
  BY <1>8 DEF Radar, RadarSends, CalibrationProceeds, SceneChanges, Emit, loopVars
<1>9. CASE UNCHANGED vars
  BY <1>9 DEF vars, loopVars
<1>10. QED
  BY <1>2, <1>3, <1>4, <1>5, <1>6, <1>7, <1>8, <1>9 DEF Next, Loop

\* Every step keeps the invariant.
LEMMA ExclusionNext ==
  ASSUME TypeOK, ExclusionSafe, [Next]_vars
  PROVE  ExclusionSafe'
<1> SUFFICES ASSUME ~unrecorded' PROVE ExclusionInv'
  BY DrainedNext DEF ExclusionSafe
<1> USE DEF ExclusionSafe
<1>1. ASSUME UNCHANGED unrecorded PROVE ExclusionInv
  BY <1>1
<1>2. CASE Start
  <2>1. /\ frames' = <<>> /\ ~enabled' /\ calibration' = Loaded /\ UNCHANGED <<record, module>>
        /\ ~snapshot_after_pending' /\ ~record_pending'
    BY <1>2 DEF Start, moduleVars
  <2>2. ModuleIsCalibrating' => ExclusionInv
    BY <1>2, <2>1 DEF Start, ModuleIsCalibrating
  <2>3. ModuleIsCalibrating' => record' \in {"waiting", "running"} /\ CalibrationIsActive'
    BY <2>1, <2>2 DEF ExclusionInv, ModuleIsCalibrating, CalibrationIsActive, Loaded
  <2>4. QED
    BY <2>1, <2>3, ExclusionDrained DEF ExclusionInv
<1>3. CASE UartFrame
  <2>1. ExclusionInv
    BY <1>1, <1>3 DEF UartFrame
  <2>2. QED
    BY <1>3, <2>1, ExclusionFrame
<1>4. CASE FinishCalibration
  <2>1. ExclusionInv
    <3>1. UNCHANGED unrecorded
      BY <1>4 DEF FinishCalibration, Conclude, calVars
    <3>2. QED
      BY <1>1, <3>1
  <2>2. QED
    BY <1>4, <2>1, ExclusionFinish
<1>5. CASE HandleRequest
  <2>1. pc = "pass"
    BY <1>5 DEF HandleRequest
  <2>2. CASE \E on \in BOOLEAN : SetAi(on)
    <3>1. UNCHANGED <<pc, enabled, calVars, module, frames>>
      BY <2>2 DEF SetAi, moduleVars
    <3>2. ExclusionInv
      BY <1>1, <3>1 DEF calVars
    <3>3. QED
      BY <3>1, <3>2, ExclusionKept DEF InLoop
  <2>3. CASE EnableRearMonitor \/ DisableRearMonitor
    <3>1. enabled' => enabled \/ ~CalibrationIsActive
      BY <2>3 DEF EnableRearMonitor, DisableRearMonitor
    <3>2. UNCHANGED <<pc, calVars, module, frames>>
      BY <2>3 DEF EnableRearMonitor, DisableRearMonitor, moduleVars
    <3>3. ExclusionInv
      BY <1>1, <3>2 DEF calVars
    <3>4. QED
      BY <2>1, <3>1, <3>2, <3>3, ExclusionKept DEF InLoop
  <2>4. CASE RearStatus
    <3>1. ExclusionInv
      BY <1>1, <2>4 DEF RearStatus
    <3>2. QED
      BY <2>1, <2>4, <3>1, ExclusionStatus
  <2>5. CASE StartCalibration
    BY <2>1, <2>5, ExclusionStart
  <2>6. QED
    BY <1>5, <2>2, <2>3, <2>4, <2>5 DEF HandleRequest
<1>6. CASE Tick \/ Wake \/ UartDrained \/ ControlDrained \/ ExpireStaleTimers
  <2>1. UNCHANGED <<enabled, calVars, module, frames>>
    BY <1>6 DEF Tick, Wake, UartDrained, ControlDrained, ExpireStaleTimers, moduleVars
  <2>2. InLoop' => InLoop
    BY <1>6 DEF Tick, Wake, UartDrained, ControlDrained, ExpireStaleTimers, InLoop
  <2>3. ExclusionInv
    BY <1>1, <2>1 DEF calVars
  <2>4. QED
    BY <2>1, <2>2, <2>3, ExclusionKept
<1>7. CASE AckTimeout \/ Interrupt
  <2>1. WaitFails /\ UNCHANGED <<enabled, module, frames>>
    BY <1>7 DEF AckTimeout, Interrupt, moduleVars
  <2>2. pc = "ack" /\ pc' = "pass" /\ UNCHANGED unrecorded
    BY <2>1 DEF WaitFails, Conclude, calVars
  <2>3. ExclusionInv
    BY <1>1, <2>2
  <2>4. CASE snapshot_after_pending
    <3>1. ~ModuleIsCalibrating
      BY <2>2, <2>3, <2>4 DEF ExclusionInv, InLoop
    <3>2. frames' = <<>>
      BY <2>1, <2>2
    <3>3. calibration' \in {calibration, "unknown"}
      BY <2>1, <2>4 DEF WaitFails, Conclude
    <3>4. QED
      BY <2>1, <2>3, <3>1, <3>2, <3>3, ExclusionDrained
      DEF ExclusionInv, ModuleIsCalibrating, CalibrationIsActive
  <2>5. CASE ~snapshot_after_pending
    <3>1. UNCHANGED calVars
      BY <2>1, <2>5 DEF WaitFails
    <3>2. QED
      BY <2>1, <2>2, <2>3, <3>1, ExclusionKept DEF InLoop
  <2>6. QED
    BY <2>4, <2>5
<1>8. CASE Exit \/ Stop \/ Crash \/ CrashInExchange
  <2>1. /\ pc' = "down" /\ frames' = <<>> /\ UNCHANGED <<enabled, calVars, module>>
    BY <1>8 DEF Exit, Stop, EndOfMain, Crash, CrashInExchange, Forget, moduleVars
  <2>2. ExclusionInv
    BY <1>1, <2>1 DEF calVars
  <2>3. QED
    BY <2>1, <2>2, ExclusionDrained
    DEF ExclusionInv, ModuleIsCalibrating, CalibrationIsActive, InLoop, calVars
<1>9. CASE CrashInWrite
  <2>1. /\ pc = "pass" /\ pc' = "down" /\ frames' = <<>>
        /\ snapshot_after_pending \/ record_pending
        /\ UNCHANGED <<enabled, calibration, unrecorded, module>>
    BY <1>9 DEF CrashInWrite, Forget
  <2>2. ExclusionInv
    BY <1>1, <2>1
  <2>3. QED
    BY <2>1, <2>2, ExclusionDrained
    DEF ExclusionInv, ModuleIsCalibrating, CalibrationIsActive, InLoop
<1>10. CASE RadarSends
  <2>1. UNCHANGED <<pc, enabled, calVars, module>>
    BY <1>10 DEF RadarSends, moduleVars
  <2>2. ExclusionInv
    BY <1>1, <2>1 DEF calVars
  <2>3. CASE module = "running"
    BY <1>10, <2>1, <2>2, <2>3, ExclusionEmit DEF RadarSends, ModuleIsCalibrating, Reports
  <2>4. CASE module # "running"
    <3>1. Emit(scene) /\ scene \in {"near", "clear"}
      BY <1>10, <2>4 DEF RadarSends, Emit, Streaming, TypeOK, ModuleTypeOK, Scene
    <3>2. QED
      BY <2>1, <2>2, <3>1, ExclusionEmit DEF Reports
  <2>5. QED
    BY <2>3, <2>4
<1>11. CASE CalibrationProceeds
  <2>1. UNCHANGED <<pc, enabled, calVars>>
    BY <1>11 DEF CalibrationProceeds
  <2>2. ExclusionInv
    BY <1>1, <2>1 DEF calVars
  <2>3. CASE module = "waiting" /\ module' = "running" /\ UNCHANGED <<frames, due>>
    BY <2>1, <2>2, <2>3
    DEF ExclusionInv, FramesInv, ModuleIsCalibrating, CalibrationIsActive, InLoop, calVars
  <2>4. CASE module' = "completed" /\ Emit("success")
    BY <2>1, <2>2, <2>4, ExclusionEmit DEF ModuleIsCalibrating
  <2>5. CASE module' = "idle" /\ Emit("failed")
    BY <2>1, <2>2, <2>5, ExclusionEmit DEF ModuleIsCalibrating
  <2>6. QED
    BY <1>11, <2>3, <2>4, <2>5 DEF CalibrationProceeds
<1>12. CASE SceneChanges \/ UNCHANGED vars
  <2>1. UNCHANGED <<pc, enabled, calVars, module, frames>>
    BY <1>12 DEF SceneChanges, loopVars, moduleVars, vars
  <2>2. ExclusionInv
    BY <1>1, <2>1 DEF calVars
  <2>3. QED
    BY <2>1, <2>2, ExclusionKept DEF InLoop
<1>13. CASE CrashInCalibration
  BY <1>13 DEF CrashInCalibration
<1>14. QED
  BY <1>2, <1>3, <1>4, <1>5, <1>6, <1>7, <1>8, <1>9, <1>10, <1>11, <1>12, <1>13
  DEF Next, Loop, Radar

\* It holds at first.
LEMMA ExclusionInit == Init => ExclusionSafe
BY DEF Init, ExclusionSafe, ExclusionInv, FramesInv, CalibrationIsActive,
       ModuleIsCalibrating

\* Monitoring and calibration exclude each other across any number of ends and restarts of
\* the daemon, whatever was lost, cut off or killed, unless the start of the calibration did
\* not get on record.
THEOREM ExclusionCorrect == Spec => []MonitorExcludesCalibration
<1>1. ExclusionSafe => MonitorExcludesCalibration
  BY DEF ExclusionSafe, ExclusionInv, MonitorExcludesCalibration, ModuleIsCalibrating
<1>2. QED
  BY InitType, NextType, ExclusionInit, ExclusionNext, <1>1, PTL DEF Spec

-----------------------------------------------------------------------------
(* The commands that set the radar's parameters.                           *)

CommandTypeOK ==
  /\ stored \in Readings /\ operating \in Settings
  /\ command \in [name : Setter, value : Settings] \union {NoCommand}
  /\ step \in {"none", "before", "write", "restart", "after", "verified", "failed"}
  /\ before \in Readings \union {NoReading}
  /\ step \in {"write", "restart", "after"} => before \in Readings

-----------------------------------------------------------------------------
(* Lemmas.                                                                 *)

\* A reading changed where a command says so is a reading.
LEMMA WantedType ==
  ASSUME NEW reading \in Readings,
         command \in [name : Setter, value : Settings] \union {NoCommand}
  PROVE  Wanted(reading) \in Readings
BY DEF Wanted, Readings, Target, NoCommand

\* Only what a command is about is wanted otherwise.
LEMMA WantedElsewhere ==
  ASSUME NEW reading \in Readings
  PROVE  /\ \A p \in Parameter \ Target(command.name) : Wanted(reading)[p] = reading[p]
         /\ \A p \in Parameter \cap Target(command.name) : Wanted(reading)[p] = command.value
BY DEF Wanted, Readings

\* A command is about parameters.
LEMMA TargetType ==
  ASSUME NEW name
  PROVE  Target(name) \subseteq Parameter
BY DEF Target, Parameter

\* An exchange keeps the types of the daemon.
LEMMA SessionType ==
  ASSUME TypeOK, NEW x, Session(x)
  PROVE  TypeOK'
<1> USE DEF TypeOK
<1>1. Exchange(x)
  BY DEF Session
<1>2. /\ TimerTypeOK' /\ BudgetTypeOK' /\ FrameTypeOK' /\ inConfig' \in BOOLEAN
      /\ pc' \in {"pass", "ack"} /\ stop_requested' \in BOOLEAN
  BY <1>1, ExchangeType DEF ModuleTypeOK, LoopTypeOK
<1>3. LoopTypeOK' /\ ModuleTypeOK'
  BY <1>2 DEF Session, LoopTypeOK, ModuleTypeOK
<1>4. AlarmTypeOK' /\ CalTypeOK'
  BY UnchangedTypes DEF Session
<1>5. QED
  BY <1>2, <1>3, <1>4 DEF Session

\* A refused write does, too.
LEMMA RefusalType ==
  ASSUME TypeOK, Refusal
  PROVE  TypeOK'
<1> USE DEF TypeOK
<1>1. BudgetTypeOK'
  BY SpendType DEF Refusal
<1>2. FrameTypeOK'
  BY DaemonAssumption DEF Refusal, FrameTypeOK
<1>3. ModuleTypeOK'
  BY DEF Refusal, ModuleTypeOK
<1>4. LoopTypeOK' /\ AlarmTypeOK' /\ TimerTypeOK' /\ CalTypeOK'
  BY UnchangedTypes DEF Refusal
<1>5. QED
  BY <1>1, <1>2, <1>3, <1>4 DEF Refusal

\* An exchange that succeeds ends the configuration mode and the wait.
LEMMA ExchangedInFull ==
  ASSUME NEW x \in Outcomes
  PROVE  x.ok => x = Exchanged /\ ~x.config /\ ~x.hangs
BY DEF Outcomes, Exchanged, LostIn, Broken

-----------------------------------------------------------------------------
(* Type correctness.                                                       *)

\* The initial states have the types.
LEMMA ParametersInitType == ParametersInit => ParametersTypeOK
<1> SUFFICES ASSUME ParametersInit PROVE ParametersTypeOK
  OBVIOUS
<1>1. TypeOK
  BY InitType DEF ParametersInit
<1>2. stored \in Readings
  BY DEF ParametersInit
<1>3. operating \in Settings
  BY <1>2 DEF ParametersInit, Readings, Parameter
<1>4. QED
  BY <1>1, <1>2, <1>3 DEF ParametersInit, ParametersTypeOK

\* Every step keeps the types.
LEMMA ParametersNextType ==
  ASSUME ParametersTypeOK, [ParametersNext]_<<vars, parameters>>
  PROVE  ParametersTypeOK'
<1>1. TypeOK /\ CommandTypeOK
  BY DEF ParametersTypeOK, CommandTypeOK
<1>2. ASSUME TypeOK', CommandTypeOK', interrupted' \in BOOLEAN
      PROVE  ParametersTypeOK'
  BY <1>2 DEF ParametersTypeOK, CommandTypeOK
<1>3. CASE Query
  BY <1>1, <1>3, SessionType DEF Query, parameters, serving, ParametersTypeOK
<1>4. CASE Accept
  <2>1. TypeOK'
    BY <1>1, <1>4, NextType DEF Accept
  <2>2. CommandTypeOK'
    BY <1>1, <1>4 DEF Accept, CommandTypeOK
  <2>3. QED
    BY <1>2, <1>4, <2>1, <2>2 DEF Accept, ParametersTypeOK
<1>5. CASE ReadBefore
  <2>1. TypeOK'
    BY <1>1, <1>5, SessionType DEF ReadBefore
  <2>2. CommandTypeOK'
    BY <1>1, <1>5 DEF ReadBefore, CommandTypeOK
  <2>3. QED
    BY <1>2, <1>5, <2>1, <2>2 DEF ReadBefore, ParametersTypeOK
<1>6. CASE WriteParameters
  <2>1. TypeOK'
    BY <1>1, <1>6, SessionType, RefusalType DEF WriteParameters
  <2>2. Wanted(before) \in Readings
    BY <1>1, <1>6, WantedType DEF WriteParameters, CommandTypeOK
  <2>3. CommandTypeOK'
    BY <1>1, <1>6, <2>2 DEF WriteParameters, CommandTypeOK
  <2>4. QED
    BY <1>2, <1>6, <2>1, <2>3 DEF WriteParameters, ParametersTypeOK
<1>7. CASE WriteResolution
  <2>1. Wanted(stored) \in Readings
    BY <1>1, WantedType DEF CommandTypeOK
  <2>2. CommandTypeOK'
    BY <1>1, <1>7, <2>1 DEF WriteResolution, CommandTypeOK
  <2>3. interrupted' \in BOOLEAN
    BY <1>7, OutcomeType, <1>1 DEF WriteResolution, ParametersTypeOK, Outcomes, TypeOK, ModuleTypeOK
  <2>4. TypeOK'
    <3>1. CASE \E x \in LostIn : Session(x)
      BY <1>1, <3>1, SessionType
    <3>2. CASE Refusal
      BY <1>1, <3>2, RefusalType
    <3>3. CASE /\ inConfig' = TRUE /\ frames' = <<>>
               /\ UNCHANGED <<loopVars, enabled, alarmVars, timerVars, calVars, module,
                              scene, request, budget>>
      <4>1. ModuleTypeOK' /\ FrameTypeOK'
        BY <1>1, <3>3, DaemonAssumption DEF TypeOK, ModuleTypeOK, FrameTypeOK
      <4>2. QED
        BY <1>1, <3>3, <4>1, UnchangedTypes DEF TypeOK
    <3>4. QED
      BY <1>7, <3>1, <3>2, <3>3 DEF WriteResolution
  <2>5. QED
    BY <1>2, <1>7, <2>2, <2>3, <2>4 DEF WriteResolution
<1>8. CASE Restart
  <2>1. FrameTypeOK' /\ ModuleTypeOK'
    <3>1. FrameTypeOK'
      BY <1>8, DaemonAssumption DEF Restart, FrameTypeOK
    <3>2. inConfig' \in BOOLEAN
      BY <1>1, <1>8 DEF Restart, Restarts, TypeOK, ModuleTypeOK
    <3>3. QED
      BY <1>1, <1>8, <3>1, <3>2 DEF Restart, TypeOK, ModuleTypeOK
  <2>2. LoopTypeOK'
    BY <1>1, <1>8 DEF Restart, TypeOK, LoopTypeOK
  <2>3. TimerTypeOK' /\ BudgetTypeOK'
    <3>1. CASE /\ sampleAge' = -1 /\ nearTimer' = -1 /\ nobodyTimer' = -1
               /\ UNCHANGED <<pc, nearSpan, clearSpan, budget>>
      BY <1>1, <3>1, DaemonAssumption DEF TypeOK, TimerTypeOK, BudgetTypeOK, Ages
    <3>2. CASE Spend("losses", MaxLosses) /\ \E d \in {1, Stale + 1} : Elapse(d)
      <4>1. PICK d \in Nat : Elapse(d)
        BY <3>2, DaemonAssumption
      <4>2. QED
        BY <1>1, <3>2, <4>1, ElapseType, SpendType DEF TypeOK
    <3>3. CASE UNCHANGED <<timerVars, budget>>
      BY <1>1, <3>3, UnchangedTypes DEF TypeOK
    <3>4. QED
      BY <1>8, <3>1, <3>2, <3>3 DEF Restart
  <2>4. TypeOK'
    BY <1>1, <1>8, <2>1, <2>2, <2>3, UnchangedTypes DEF Restart, TypeOK
  <2>5. CommandTypeOK'
    BY <1>1, <1>8 DEF Restart, Restarts, CommandTypeOK, Readings, Parameter
  <2>6. QED
    BY <1>2, <1>8, <2>4, <2>5 DEF Restart, ParametersTypeOK
<1>9. CASE ReadAfter
  <2>1. TypeOK'
    BY <1>1, <1>9, SessionType DEF ReadAfter
  <2>2. CommandTypeOK'
    BY <1>1, <1>9 DEF ReadAfter, CommandTypeOK
  <2>3. QED
    BY <1>2, <1>9, <2>1, <2>2 DEF ReadAfter, ParametersTypeOK
<1>10. CASE Reply
  <2>1. TypeOK'
    BY <1>1, <1>10, NextType DEF Reply
  <2>2. CommandTypeOK'
    BY <1>1, <1>10 DEF Reply, Idle, CommandTypeOK
  <2>3. QED
    BY <1>2, <1>10, <2>1, <2>2 DEF Reply, ParametersTypeOK
<1>11. CASE CrashInCommand
  <2>1. TypeOK'
    <3>1. LoopTypeOK' /\ FrameTypeOK'
      BY <1>11, ForgetType DEF CrashInCommand
    <3>2. ModuleTypeOK' /\ BudgetTypeOK'
      BY <1>1, <1>11, SpendType DEF CrashInCommand, TypeOK, ModuleTypeOK
    <3>3. QED
      BY <1>1, <1>11, <3>1, <3>2, UnchangedTypes DEF CrashInCommand, Forget, TypeOK
  <2>2. stored' \in Readings
    BY <1>1, <1>11, WantedType DEF CrashInCommand, CommandTypeOK
  <2>3. operating' \in Settings
    BY <1>1, <1>11 DEF CrashInCommand, CommandTypeOK, Readings, Parameter
  <2>4. CommandTypeOK'
    BY <1>11, <2>2, <2>3 DEF CrashInCommand, Idle, CommandTypeOK
  <2>5. QED
    BY <1>2, <1>11, <2>1, <2>4 DEF CrashInCommand
<1>12. CASE Otherwise
  <2>1. TypeOK'
    BY <1>1, <1>12, NextType DEF Otherwise
  <2>2. CommandTypeOK'
    BY <1>1, <1>12 DEF Otherwise, Idle, serving, CommandTypeOK
  <2>3. QED
    BY <1>2, <1>12, <2>1, <2>2 DEF Otherwise, ParametersTypeOK
<1>13. CASE UNCHANGED <<vars, parameters>>
  <2>1. TypeOK'
    BY <1>1, <1>13, NextType
  <2>2. QED
    BY <1>1, <1>2, <1>13, <2>1 DEF parameters, serving, CommandTypeOK, ParametersTypeOK
<1>14. QED
  BY <1>3, <1>4, <1>5, <1>6, <1>7, <1>8, <1>9, <1>10, <1>11, <1>12, <1>13
  DEF ParametersNext, Serve

\* Every variable keeps its type.
THEOREM ParametersTypeCorrect == ParametersSpec => []ParametersTypeOK
BY ParametersInitType, ParametersNextType, PTL DEF ParametersSpec

-----------------------------------------------------------------------------
(* Commands do what they are asked, and say so only if they did.           *)

\* Between the exchanges of a command: a wait that does not end has failed; what was read
\* holds until the write, and a written resolution until the restart.  A stored resolution
\* is in effect unless the module is to be restarted.
ScriptOK ==
  /\ pc = "ack" => step \in {"none", "failed"}
  /\ step = "write" => before = stored
  /\ interrupted \/ step = "restart" \/ operating = stored["resolution"]

ParametersInv == ParametersTypeOK /\ ScriptOK

\* It holds at first.
LEMMA ScriptInit == ParametersInit => ScriptOK
BY DEF ParametersInit, Init, ScriptOK

\* Every step keeps it.
LEMMA ScriptNext ==
  ASSUME ParametersInv, [ParametersNext]_<<vars, parameters>>
  PROVE  ScriptOK'
<1>1. ParametersTypeOK /\ ScriptOK
  BY DEF ParametersInv
<1>2. CASE Query
  BY <1>1, <1>2 DEF Query, Acceptable, parameters, serving, ScriptOK
<1>3. CASE Accept
  BY <1>1, <1>3 DEF Accept, Acceptable, vars, loopVars, ScriptOK
<1>4. CASE ReadBefore
  <2>1. PICK x \in Outcomes :
          /\ Session(x)
          /\ before' = IF x.ok THEN stored ELSE before
          /\ step' = CASE ~x.ok -> "failed"
                       [] x.ok /\ AlreadyThere -> "verified"
                       [] OTHER -> "write"
    BY <1>4 DEF ReadBefore
  <2>2. pc' = IF x.hangs THEN "ack" ELSE "pass"
    BY <2>1 DEF Session, Exchange
  <2>3. QED
    BY <1>1, <1>4, <2>1, <2>2, ExchangedInFull DEF ReadBefore, ScriptOK
<1>5. CASE WriteParameters
  <2>1. stored'["resolution"] = stored["resolution"]
    <3>1. "resolution" \in Parameter \ Target(command.name)
      BY <1>5 DEF WriteParameters, Target, Parameter
    <3>2. stored \in Readings /\ before = stored
      BY <1>1, <1>5 DEF WriteParameters, ParametersTypeOK, ScriptOK
    <3>3. QED
      BY <1>5, <3>1, <3>2, WantedElsewhere DEF WriteParameters
  <2>2. pc' = "ack" => step' = "failed"
    <3>1. CASE Refusal
      BY <1>5, <3>1 DEF WriteParameters, Refusal, loopVars
    <3>2. CASE \E x \in Outcomes : Session(x) /\ step' = IF x.ok THEN "after" ELSE "failed"
      BY <3>2, ExchangedInFull DEF Session, Exchange
    <3>3. QED
      BY <1>5, <3>1, <3>2 DEF WriteParameters
  <2>3. step' \in {"after", "failed"}
    BY <1>5 DEF WriteParameters
  <2>4. QED
    BY <1>1, <1>5, <2>1, <2>2, <2>3 DEF WriteParameters, ScriptOK
<1>6. CASE WriteResolution
  <2>1. CASE \E x \in LostIn :
               /\ stored' = IF x.done THEN Wanted(stored) ELSE stored
               /\ interrupted' = (interrupted \/ x.done)
               /\ step' = "failed"
    BY <1>1, <1>6, <2>1 DEF WriteResolution, ScriptOK
  <2>2. CASE Refusal /\ step' = "failed" /\ UNCHANGED <<stored, interrupted>>
    BY <1>1, <1>6, <2>2 DEF WriteResolution, ScriptOK
  <2>3. CASE step' = "restart" /\ UNCHANGED loopVars
    BY <1>1, <1>6, <2>3 DEF WriteResolution, loopVars, ScriptOK
  <2>4. QED
    BY <1>6, <2>1, <2>2, <2>3 DEF WriteResolution
<1>7. CASE Restart
  BY <1>1, <1>7 DEF Restart, Restarts, ScriptOK
<1>8. CASE ReadAfter
  <2>1. PICK x \in Outcomes :
          /\ Session(x)
          /\ step' = IF x.ok /\ stored = Wanted(before) THEN "verified" ELSE "failed"
    BY <1>8 DEF ReadAfter
  <2>2. pc' = IF x.hangs THEN "ack" ELSE "pass"
    BY <2>1 DEF Session, Exchange
  <2>3. QED
    BY <1>1, <1>8, <2>1, <2>2, ExchangedInFull DEF ReadAfter, ScriptOK
<1>9. CASE Reply
  BY <1>1, <1>9 DEF Reply, Idle, ScriptOK
<1>10. CASE CrashInCommand
  BY <1>10 DEF CrashInCommand, Idle, ScriptOK
<1>11. CASE Otherwise
  BY <1>1, <1>11 DEF Otherwise, Idle, serving, ScriptOK
<1>12. CASE UNCHANGED <<vars, parameters>>
  BY <1>1, <1>12 DEF vars, loopVars, parameters, serving, ScriptOK
<1>13. QED
  BY <1>2, <1>3, <1>4, <1>5, <1>6, <1>7, <1>8, <1>9, <1>10, <1>11, <1>12
  DEF ParametersNext, Serve

\* A step changes parameters as asked, and answers truly.
LEMMA StepAsAsked ==
  ASSUME ParametersInv, ParametersNext
  PROVE  ChangedAsAsked /\ VerifiedIsTrue
<1>1. ParametersTypeOK /\ ScriptOK /\ stored \in Readings
  BY DEF ParametersInv, ParametersTypeOK
<1>2. Target(command.name) \subseteq Parameter
  BY TargetType
<1>3. ASSUME step # "none", stored' \in {stored, Wanted(stored)} PROVE ChangedAsAsked
  BY <1>1, <1>2, <1>3, WantedElsewhere DEF ChangedAsAsked
<1>4. ASSUME UNCHANGED stored PROVE ChangedAsAsked
  BY <1>4 DEF ChangedAsAsked
<1>5. ASSUME step' # "verified" PROVE VerifiedIsTrue
  BY <1>5 DEF VerifiedIsTrue
<1>6. CASE Query \/ Accept \/ Reply \/ Otherwise
  <2>1. UNCHANGED stored
    BY <1>6 DEF Query, Accept, Reply, Otherwise, parameters
  <2>2. step' # "verified"
    BY <1>1, <1>6
    DEF Query, Acceptable, Accept, Reply, Idle, Otherwise, parameters, serving, ScriptOK
  <2>3. QED
    BY <1>4, <1>5, <2>1, <2>2
<1>7. CASE ReadBefore
  <2>1. PICK x \in Outcomes :
          /\ Session(x)
          /\ step' = CASE ~x.ok -> "failed"
                       [] x.ok /\ AlreadyThere -> "verified"
                       [] OTHER -> "write"
    BY <1>7 DEF ReadBefore
  <2>2. ASSUME step' = "verified"
        PROVE  /\ \A p \in Target(command.name) : stored'[p] = command.value
               /\ ~inConfig'
               /\ command.name = "set-resolution" => operating' = command.value \/ interrupted
    <3>1. x.ok /\ Wanted(stored) = stored
      BY <2>1, <2>2 DEF AlreadyThere
    <3>2. \A p \in Target(command.name) : stored[p] = command.value
      BY <1>1, <1>2, <3>1, WantedElsewhere
    <3>3. ~inConfig'
      BY <2>1, <3>1, ExchangedInFull DEF Session, Exchange
    <3>4. command.name = "set-resolution" => "resolution" \in Target(command.name)
      BY DEF Target
    <3>5. QED
      BY <1>1, <1>7, <3>2, <3>3, <3>4 DEF ReadBefore, ScriptOK
  <2>3. VerifiedIsTrue
    BY <2>2 DEF VerifiedIsTrue
  <2>4. QED
    BY <1>4, <1>7, <2>3 DEF ReadBefore
<1>8. CASE WriteParameters
  <2>1. before = stored /\ step # "none" /\ step' \in {"after", "failed"}
    BY <1>1, <1>8 DEF WriteParameters, ScriptOK
  <2>2. stored' \in {stored, Wanted(stored)}
    BY <1>8, <2>1 DEF WriteParameters
  <2>3. QED
    BY <1>3, <1>5, <2>1, <2>2
<1>9. CASE WriteResolution
  <2>1. step # "none" /\ step' \in {"restart", "failed"} /\ stored' \in {stored, Wanted(stored)}
    BY <1>9 DEF WriteResolution
  <2>2. QED
    BY <1>3, <1>5, <2>1
<1>10. CASE Restart
  <2>1. UNCHANGED stored /\ step' \in {"after", "failed"}
    BY <1>10 DEF Restart
  <2>2. QED
    BY <1>4, <1>5, <2>1
<1>11. CASE ReadAfter
  <2>1. PICK x \in Outcomes :
          /\ Session(x)
          /\ step' = IF x.ok /\ stored = Wanted(before) THEN "verified" ELSE "failed"
    BY <1>11 DEF ReadAfter
  <2>2. ASSUME step' = "verified"
        PROVE  /\ \A p \in Target(command.name) : stored'[p] = command.value
               /\ ~inConfig'
               /\ command.name = "set-resolution" => operating' = command.value \/ interrupted
    <3>1. x.ok /\ stored = Wanted(before) /\ before \in Readings
      BY <1>1, <1>11, <2>1, <2>2 DEF ReadAfter, ParametersTypeOK
    <3>2. \A p \in Target(command.name) : stored[p] = command.value
      BY <1>2, <3>1, WantedElsewhere
    <3>3. ~inConfig'
      BY <2>1, <3>1, ExchangedInFull DEF Session, Exchange
    <3>4. command.name = "set-resolution" => "resolution" \in Target(command.name)
      BY DEF Target
    <3>5. QED
      BY <1>1, <1>11, <3>2, <3>3, <3>4 DEF ReadAfter, ScriptOK
  <2>3. VerifiedIsTrue
    BY <2>2 DEF VerifiedIsTrue
  <2>4. QED
    BY <1>4, <1>11, <2>3 DEF ReadAfter
<1>12. CASE CrashInCommand
  <2>1. step # "none" /\ step' # "verified"
    BY <1>12 DEF CrashInCommand, Idle
  <2>2. stored' \in {stored, Wanted(stored)}
    BY <1>1, <1>12 DEF CrashInCommand, ScriptOK
  <2>3. QED
    BY <1>3, <1>5, <2>1, <2>2
<1>13. QED
  BY <1>6, <1>7, <1>8, <1>9, <1>10, <1>11, <1>12 DEF ParametersNext, Serve

\* Whatever is lost, refused or killed, a parameter changes only to what a command asks for
\* it, and what the daemon calls verified is true.
THEOREM CommandsDoAsAsked == ParametersSpec => ParametersAsAsked
<1>1. ParametersInit => ParametersInv
  BY ParametersInitType, ScriptInit DEF ParametersInv
<1>2. ParametersInv /\ [ParametersNext]_<<vars, parameters>> => ParametersInv'
  BY ParametersNextType, ScriptNext DEF ParametersInv
<1>3. ParametersInv /\ [ParametersNext]_<<vars, parameters>>
        => [ChangedAsAsked /\ VerifiedIsTrue]_<<vars, parameters>>
  BY StepAsAsked
<1>4. QED
  BY <1>1, <1>2, <1>3, PTL DEF ParametersSpec, ParametersAsAsked

-----------------------------------------------------------------------------
(* What AlarmDaemon promises holds with these commands, too.               *)

\* A command is served last in a pass.
LEMMA ServedLast ==
  ASSUME step # "none" => ready \subseteq {"control"}, [ParametersNext]_<<vars, parameters>>
  PROVE  (step # "none" => ready \subseteq {"control"})'
<1>1. CASE Query \/ ReadBefore \/ WriteParameters \/ WriteResolution \/ ReadAfter
  BY <1>1
  DEF Query, ReadBefore, WriteParameters, WriteResolution, ReadAfter, Session, Refusal,
      loopVars, parameters, serving
<1>2. CASE Accept \/ Restart \/ Reply \/ CrashInCommand
  BY <1>2
  DEF Accept, Acceptable, Restart, Reply, CrashInCommand, Idle, vars, loopVars
<1>3. CASE Otherwise
  <2>1. CASE pc' = "down" \/ step = "none"
    BY <1>3, <2>1 DEF Otherwise, Idle, serving
  <2>2. CASE pc = "ack" /\ step # "none" /\ pc' # "down"
    <3>1. ready' \subseteq ready
      <4>1. CASE AckTimeout \/ Interrupt
        BY <4>1 DEF AckTimeout, Interrupt, WaitFails
      <4>2. CASE Tick \/ RadarSends \/ CalibrationProceeds \/ SceneChanges
        BY <4>2 DEF Tick, RadarSends, CalibrationProceeds, SceneChanges, loopVars
      <4>3. CASE \/ Exit \/ Stop
                 \/ Crash \/ CrashInCalibration \/ CrashInExchange \/ CrashInWrite
        BY <2>2, <4>3
        DEF Exit, Stop, EndOfMain, Crash, CrashInCalibration, CrashInExchange,
            CrashInWrite, Forget
      <4>4. CASE Start \/ Wake \/ UartFrame \/ UartDrained \/ FinishCalibration
                  \/ HandleRequest \/ ControlDrained \/ ExpireStaleTimers
        BY <2>2, <4>4
        DEF Start, Wake, UartFrame, UartDrained, FinishCalibration, HandleRequest,
            ControlDrained, ExpireStaleTimers
      <4>5. QED
        BY <1>3, <4>1, <4>2, <4>3, <4>4 DEF Otherwise, Next, Loop, Radar
    <3>2. QED
      BY <2>2, <3>1
  <2>3. QED
    BY <1>3, <2>1, <2>2 DEF Otherwise
<1>4. CASE UNCHANGED <<vars, parameters>>
  BY <1>4 DEF vars, loopVars, parameters, serving
<1>5. QED
  BY <1>1, <1>2, <1>3, <1>4 DEF ParametersNext, Serve

\* An exchange of a command leaves the calibration alone.
LEMMA CommandStep ==
  ASSUME Query \/ ReadBefore \/ WriteParameters \/ WriteResolution \/ Restart \/ ReadAfter
  PROVE  /\ pc = "pass" /\ pc' \in {"pass", "ack"} /\ frames' = <<>>
         /\ UNCHANGED <<ready, enabled, calVars, module>>
<1>1. ASSUME NEW x, Session(x)
      PROVE  /\ pc' \in {"pass", "ack"} /\ frames' = <<>>
             /\ UNCHANGED <<ready, enabled, calVars, module>>
  BY <1>1 DEF Session, Exchange
<1>2. ASSUME Refusal
      PROVE  /\ UNCHANGED pc /\ frames' = <<>>
             /\ UNCHANGED <<ready, enabled, calVars, module>>
  BY <1>2 DEF Refusal, loopVars
<1>3. CASE Query
  BY <1>1, <1>3 DEF Query, Acceptable
<1>4. CASE ReadBefore \/ ReadAfter
  BY <1>1, <1>4 DEF ReadBefore, ReadAfter
<1>5. CASE WriteParameters
  BY <1>1, <1>2, <1>5 DEF WriteParameters
<1>6. CASE WriteResolution
  BY <1>1, <1>2, <1>6 DEF WriteResolution, loopVars
<1>7. CASE Restart
  BY <1>7 DEF Restart
<1>8. QED
  BY <1>3, <1>4, <1>5, <1>6, <1>7

DaemonInv ==
  /\ ParametersTypeOK /\ (step # "none" => ready \subseteq {"control"})
  /\ RecordInv /\ ExclusionSafe

\* What the theorems about AlarmDaemon rest on holds here, too.
LEMMA DaemonNext ==
  ASSUME DaemonInv, [ParametersNext]_<<vars, parameters>>
  PROVE  DaemonInv'
<1>1. ParametersTypeOK' /\ (step # "none" => ready \subseteq {"control"})'
  BY ParametersNextType, ServedLast DEF DaemonInv
<1>2. CASE [Next]_vars
  BY <1>1, <1>2, RecordNext, ExclusionNext DEF DaemonInv, ParametersTypeOK
<1>3. CASE Query \/ ReadBefore \/ WriteParameters \/ WriteResolution \/ Restart \/ ReadAfter
  <2>1. /\ pc = "pass" /\ pc' \in {"pass", "ack"} /\ frames' = <<>>
        /\ UNCHANGED <<ready, enabled, calVars, module>>
    BY <1>3, CommandStep
  <2>2. ready \subseteq {"control"}
    BY <1>3
    DEF DaemonInv, Query, Acceptable, ReadBefore, WriteParameters, WriteResolution, Restart,
        ReadAfter
  <2>3. RecordInv'
    BY <2>1, <2>2 DEF DaemonInv, RecordInv, calVars
  <2>4. ExclusionSafe'
    BY <2>1, ExclusionDrained
    DEF DaemonInv, ExclusionSafe, ExclusionInv, ModuleIsCalibrating, CalibrationIsActive,
        InLoop, calVars
  <2>5. QED
    BY <1>1, <2>3, <2>4 DEF DaemonInv
<1>4. CASE CrashInCommand
  <2>1. pc' = "down" /\ ready' = {} /\ frames' = <<>> /\ UNCHANGED <<enabled, calVars, module>>
    BY <1>4 DEF CrashInCommand, Forget
  <2>2. RecordInv'
    BY <2>1 DEF DaemonInv, RecordInv, calVars
  <2>3. ExclusionSafe'
    BY <2>1, ExclusionDrained
    DEF DaemonInv, ExclusionSafe, ExclusionInv, ModuleIsCalibrating, CalibrationIsActive,
        InLoop, calVars
  <2>4. QED
    BY <1>1, <2>2, <2>3 DEF DaemonInv
<1>5. QED
  BY <1>2, <1>3, <1>4 DEF ParametersNext, Serve, Accept, Reply, Otherwise

\* Monitoring and calibration exclude each other, and a success on record was compared.
THEOREM ParametersKeepDaemon ==
  ParametersSpec => [](MonitorExcludesCalibration /\ RecordedSuccessWasCompared)
<1>1. ParametersInit => DaemonInv
  <2>1. Init => RecordInv
    BY DEF Init, RecordInv
  <2>2. QED
    BY <2>1, ParametersInitType, ExclusionInit DEF ParametersInit, DaemonInv
<1>2. DaemonInv => MonitorExcludesCalibration /\ RecordedSuccessWasCompared
  BY DEF DaemonInv, RecordInv, ExclusionSafe, ExclusionInv, MonitorExcludesCalibration,
         RecordedSuccessWasCompared, ModuleIsCalibrating
<1>3. QED
  BY DaemonNext, <1>1, <1>2, PTL DEF ParametersSpec
=============================================================================
