--------------------------- MODULE AlarmPathProofs ---------------------------
(***************************************************************************)
(* Theorems about the way from the camera to the alarm daemon, for every   *)
(* number of missed inferences, size of the pipe and budget of failures:   *)
(* what it promises in DetectionFeed is what the bridge implements.        *)
(***************************************************************************)
EXTENDS AlarmPath, SequenceTheorems, TLAPS

-----------------------------------------------------------------------------
(* The inductive invariant.                                                *)

\* What a detector that says now said before its latest n changes.
Before(now, n) == IF n % 2 = 0 THEN now ELSE ~now

Line(on) == IF on THEN "event" ELSE "clear"

\* The pipe holds the latest changes, one line for each.
Alternating == \A i \in 1..Len(pipe) : pipe[i] = Line(Before(active, Len(pipe) - i))

\* While it reads, the bridge has had confirmed what precedes the pipe; while it asks, it
\* asks for that, and had the opposite confirmed.
InStep ==
  /\ bridge = "reading" => ai_alarm_on = Before(active, Len(pipe))
  /\ bridge = "asking" => ai_alarm_on = ~Before(active, Len(pipe))
  /\ bridge = "asking" /\ socket \in {"on", "off"} => socket = Command(Before(active, Len(pipe)))

\* Without its last request, a bridge never asks for the alarm.
LastWithdraws == bridge = "last" => socket # "on"

PathInv == TypeOK /\ LastWithdraws /\ (~Closed => Alternating /\ InStep)

-----------------------------------------------------------------------------
(* Lemmas about the operators.                                             *)

\* One change further back it said the opposite, as it does after one change more.
LEMMA BeforeStep ==
  ASSUME NEW now \in BOOLEAN, NEW n \in Nat
  PROVE  /\ Before(now, n) \in BOOLEAN /\ Before(now, 0) = now
         /\ Before(now, n + 1) = ~Before(now, n)
         /\ Before(~now, n + 1) = Before(now, n)
<1>1. 0 % 2 = 0
  OBVIOUS
<1>2. CASE n % 2 = 0
  <2>1. (n + 1) % 2 # 0
    BY <1>2
  <2>2. QED
    BY <1>1, <1>2, <2>1, Zenon DEF Before
<1>3. CASE n % 2 # 0
  <2>1. (n + 1) % 2 = 0
    BY <1>3
  <2>2. QED
    BY <1>1, <1>3, <2>1, Zenon DEF Before
<1>4. QED
  BY <1>2, <1>3

\* A pipe that takes a line, and gives one up.
LEMMA PipeType ==
  ASSUME NEW q \in Seq({"event", "clear"})
  PROVE  /\ Len(q) \in Nat /\ (q # <<>> => Len(q) > 0)
         /\ \A line \in {"event", "clear"} :
              /\ Append(q, line) \in Seq({"event", "clear"})
              /\ Len(Append(q, line)) = Len(q) + 1
              /\ \A i \in 1..Len(q) : Append(q, line)[i] = q[i]
              /\ Append(q, line)[Len(q) + 1] = line
         /\ q # <<>> =>
              /\ Tail(q) \in Seq({"event", "clear"})
              /\ Len(Tail(q)) = Len(q) - 1
              /\ \A i \in 1..Len(Tail(q)) : Tail(q)[i] = q[i + 1]
              /\ Head(q) = q[1]
BY AppendProperties, HeadTailProperties, EmptySeq

-----------------------------------------------------------------------------
(* Type correctness.                                                       *)

\* TypeOK, in parts.
DetectorTypes ==
  /\ ai \in {"running", "ended"} /\ active \in BOOLEAN
  /\ misses \in 0..(ClearAfter - 1) /\ absent \in 0..ClearAfter
PipeTypes == pipe \in Seq({"event", "clear"}) /\ Len(pipe) <= MaxPipe
BridgeTypes ==
  /\ bridge \in {"reading", "asking", "ending", "last", "ended", "killed"}
  /\ ai_alarm_on \in BOOLEAN /\ stop \in BOOLEAN /\ failed \in BOOLEAN
ConnectionTypes ==
  /\ socket \in {"none", "on", "off", "ok", "error", "closed"}
  /\ bridge # "killed" => (socket # "none" <=> bridge \in {"asking", "last"})
DaemonTypes ==
  /\ daemon \in {"up", "down"} /\ requested \in BOOLEAN /\ applied \in BOOLEAN
  /\ driver \in BOOLEAN /\ confirmed \in BOOLEAN
  /\ refusals \in 0..MaxRefusals /\ crashes \in 0..MaxCrashes

Types == DetectorTypes /\ PipeTypes /\ BridgeTypes /\ ConnectionTypes /\ DaemonTypes

LEMMA TypeParts == (TypeOK <=> Types) /\ (TypeOK' <=> Types')
BY DEF TypeOK, Types, DetectorTypes, PipeTypes, BridgeTypes, ConnectionTypes, DaemonTypes

\* What a step leaves alone keeps its types.
LEMMA UnchangedTypes ==
  /\ DetectorTypes /\ UNCHANGED detectorVars => DetectorTypes'
  /\ PipeTypes /\ UNCHANGED pipe => PipeTypes'
  /\ BridgeTypes /\ UNCHANGED bridgeVars => BridgeTypes'
  /\ ConnectionTypes /\ UNCHANGED bridgeVars /\ UNCHANGED socket => ConnectionTypes'
  /\ DaemonTypes /\ UNCHANGED daemonVars => DaemonTypes'
BY DEF detectorVars, bridgeVars, daemonVars, driverVars, DetectorTypes, PipeTypes, BridgeTypes,
       ConnectionTypes, DaemonTypes

\* The initial states have the types.
LEMMA InitType == Init => TypeOK
<1> SUFFICES ASSUME Init PROVE TypeOK
  OBVIOUS
<1>1. pipe \in Seq({"event", "clear"}) /\ Len(pipe) = 0
  BY EmptySeq DEF Init
<1>2. DetectorTypes
  <2>1. /\ ai = "running" /\ active = FALSE /\ misses = 0 /\ absent = 0
    BY DEF Init
  <2>2. QED
    <3>1. misses \in 0..(ClearAfter - 1) /\ absent \in 0..ClearAfter
      BY <2>1, PathAssumption
    <3>2. QED
      BY <2>1, <3>1 DEF DetectorTypes
<1>3. PipeTypes
  BY <1>1, PathAssumption DEF PipeTypes
<1>4. BridgeTypes /\ ConnectionTypes
  BY DEF Init, BridgeTypes, ConnectionTypes
<1>5. DaemonTypes
  <2>1. /\ daemon = "up" /\ requested = FALSE /\ refusals = 0 /\ crashes = 0
        /\ applied = FALSE /\ driver = FALSE /\ confirmed = TRUE
    BY DEF Init
  <2>2. QED
    <3>1. refusals \in 0..MaxRefusals /\ crashes \in 0..MaxCrashes
      BY <2>1, PathAssumption
    <3>2. QED
      BY <2>1, <3>1 DEF DaemonTypes
<1>6. QED
  BY <1>2, <1>3, <1>4, <1>5, TypeParts DEF Types

\* printf into the pipe, or the end of the process.
LEMMA EmitType ==
  ASSUME PipeTypes, NEW line \in {"event", "clear"}, Emit(line), ai = "running"
  PROVE  PipeTypes' /\ ai' \in {"running", "ended"}
<1>1. pipe' = pipe \/ (Len(pipe) < MaxPipe /\ pipe' = Append(pipe, line))
  BY DEF Emit
<1>2. QED
  BY <1>1, PipeType, PathAssumption DEF Emit, PipeTypes

\* One inference.
LEMMA InferType ==
  ASSUME TypeOK, Infer
  PROVE  DetectorTypes' /\ PipeTypes'
<1>1. DetectorTypes /\ PipeTypes
  BY TypeParts DEF Types
<1>2. PipeTypes' /\ ai' \in {"running", "ended"}
  BY <1>1, EmitType DEF Infer, SeePerson, SeeNobody, Quiet, DetectorTypes, PipeTypes
<1>3. active' \in BOOLEAN
  BY <1>1 DEF Infer, SeePerson, SeeNobody, Quiet, DetectorTypes
<1>4. misses' \in 0..(ClearAfter - 1) /\ absent' \in 0..ClearAfter
  BY <1>1, PathAssumption DEF Infer, SeePerson, SeeNobody, Quiet, DetectorTypes
<1>5. QED
  BY <1>2, <1>3, <1>4 DEF DetectorTypes

\* One step of the bridge.
LEMMA BridgeType ==
  ASSUME TypeOK, Bridge
  PROVE  PipeTypes' /\ BridgeTypes' /\ ConnectionTypes'
<1>1. PipeTypes /\ BridgeTypes /\ ConnectionTypes
  BY TypeParts DEF Types
<1>2. PipeTypes'
  <2>1. CASE ReadLine
    <3>1. pipe' = Tail(pipe) /\ pipe # <<>> /\ pipe \in Seq({"event", "clear"})
      BY <1>1, <2>1 DEF ReadLine, PipeTypes
    <3>2. pipe' \in Seq({"event", "clear"}) /\ Len(pipe') = Len(pipe) - 1 /\ Len(pipe) \in Nat
      BY <3>1, PipeType, Zenon
    <3>3. QED
      BY <1>1, <3>2, PathAssumption DEF PipeTypes
  <2>2. CASE UNCHANGED pipe
    BY <1>1, <2>2, UnchangedTypes
  <2>3. QED
    BY <2>1, <2>2 DEF Bridge, Answered, Stop, Interrupted, EndOfInput, LastRequest, Exit, Kill
<1>3. BridgeTypes' /\ ConnectionTypes'
  <2>1. CASE ReadLine
    BY <1>1, <2>1 DEF ReadLine, Ask, Again, Command, BridgeTypes, ConnectionTypes
  <2>2. CASE Answered
    BY <1>1, <2>2 DEF Answered, Again, BridgeTypes, ConnectionTypes
  <2>3. CASE Stop \/ Interrupted \/ EndOfInput \/ Kill
    BY <1>1, <2>3 DEF Stop, Interrupted, EndOfInput, Kill, BridgeTypes, ConnectionTypes
  <2>4. CASE LastRequest \/ Exit
    BY <1>1, <2>4 DEF LastRequest, Exit, Ask, Command, BridgeTypes, ConnectionTypes
  <2>5. QED
    BY <2>1, <2>2, <2>3, <2>4 DEF Bridge
<1>4. QED
  BY <1>2, <1>3

\* One ioctl, or none.
LEMMA ApplyType ==
  ASSUME TypeOK, NEW on \in BOOLEAN, SetUserAlarm(on) \/ Apply(on)
  PROVE  applied' \in BOOLEAN /\ driver' \in BOOLEAN /\ confirmed' \in BOOLEAN
         /\ refusals' \in 0..MaxRefusals
<1>1. /\ applied \in BOOLEAN /\ driver \in BOOLEAN /\ confirmed \in BOOLEAN
      /\ refusals \in 0..MaxRefusals
  BY DEF TypeOK
<1>2. \/ UNCHANGED <<applied, driver, confirmed, refusals>>
      \/ driver' = on /\ applied' \in {on, applied} /\ confirmed' \in BOOLEAN
         /\ (refusals' = refusals \/ (refusals < MaxRefusals /\ refusals' = refusals + 1))
  BY DEF Apply, SetUserAlarm
<1>3. refusals' \in 0..MaxRefusals
  BY <1>1, <1>2, PathAssumption
<1>4. applied' \in BOOLEAN /\ driver' \in BOOLEAN /\ confirmed' \in BOOLEAN
  BY <1>1, <1>2
<1>5. QED
  BY <1>3, <1>4

\* One step of the daemon.
LEMMA DaemonType ==
  ASSUME TypeOK, Daemon
  PROVE  DaemonTypes' /\ ConnectionTypes'
<1>1. DaemonTypes /\ ConnectionTypes
  BY TypeParts DEF Types
<1>2. CASE Serve
  <2>1. /\ requested' \in BOOLEAN /\ Apply(requested') /\ UNCHANGED daemon /\ UNCHANGED crashes
        /\ socket \in {"on", "off"} /\ socket' \in {"ok", "error"} /\ UNCHANGED bridge
    BY <1>2 DEF Serve, bridgeVars
  <2>2. DaemonTypes'
    BY <1>1, <2>1, ApplyType DEF DaemonTypes
  <2>3. ConnectionTypes'
    BY <1>1, <2>1 DEF ConnectionTypes
  <2>4. QED
    BY <2>2, <2>3
<1>3. CASE DaemonCrash
  <2>1. /\ UNCHANGED requested /\ UNCHANGED applied /\ UNCHANGED driver /\ UNCHANGED confirmed
        /\ UNCHANGED refusals /\ daemon' = "down" /\ crashes < MaxCrashes
        /\ crashes' = crashes + 1 /\ UNCHANGED bridge
        /\ socket' = IF socket \in {"on", "off"} THEN "closed" ELSE socket
    BY <1>3 DEF DaemonCrash, bridgeVars, driverVars
  <2>2. crashes' \in 0..MaxCrashes
    BY <1>1, <2>1, PathAssumption DEF DaemonTypes
  <2>3. DaemonTypes'
    BY <1>1, <2>1, <2>2 DEF DaemonTypes
  <2>4. ConnectionTypes'
    BY <1>1, <2>1 DEF ConnectionTypes
  <2>5. QED
    BY <2>3, <2>4
<1>4. CASE DaemonStart
  <2>1. /\ requested' = FALSE /\ SetUserAlarm(FALSE) /\ daemon' \in {"up", "down"}
        /\ UNCHANGED crashes /\ UNCHANGED socket /\ UNCHANGED bridge
    BY <1>4 DEF DaemonStart, bridgeVars
  <2>2. DaemonTypes'
    BY <1>1, <2>1, ApplyType DEF DaemonTypes
  <2>3. ConnectionTypes'
    BY <1>1, <2>1 DEF ConnectionTypes
  <2>4. QED
    BY <2>2, <2>3
<1>5. QED
  BY <1>2, <1>3, <1>4 DEF Daemon

\* Every step keeps the types.
LEMMA NextType == TypeOK /\ [Next]_vars => TypeOK'
<1> SUFFICES ASSUME TypeOK, [Next]_vars PROVE TypeOK'
  OBVIOUS
<1>1. DetectorTypes /\ PipeTypes /\ BridgeTypes /\ ConnectionTypes /\ DaemonTypes
  BY TypeParts DEF Types
<1>2. CASE Infer
  BY <1>1, <1>2, InferType, UnchangedTypes, TypeParts DEF Types, Infer
<1>3. CASE Finish
  <2>1. DetectorTypes'
    BY <1>1, <1>3 DEF Finish, DetectorTypes
  <2>2. QED
    BY <1>1, <1>3, <2>1, UnchangedTypes, TypeParts DEF Types, Finish
<1>4. CASE Bridge
  <2>1. UNCHANGED <<detectorVars, daemonVars>>
    BY <1>4 DEF Bridge, ReadLine, Answered, Stop, Interrupted, EndOfInput, LastRequest, Exit, Kill
  <2>2. QED
    BY <1>1, <1>4, <2>1, BridgeType, UnchangedTypes, TypeParts DEF Types
<1>5. CASE Daemon
  <2>1. UNCHANGED <<detectorVars, pipe, bridgeVars>>
    BY <1>5 DEF Daemon, Serve, DaemonCrash, DaemonStart
  <2>2. QED
    BY <1>1, <1>5, <2>1, DaemonType, UnchangedTypes, TypeParts DEF Types
<1>6. CASE UNCHANGED vars
  BY <1>1, <1>6, UnchangedTypes, TypeParts DEF Types, vars
<1>7. QED
  BY <1>2, <1>3, <1>4, <1>5, <1>6 DEF Next, Detector

\* Every variable keeps its type, and a request or its answer waits only for a bridge that
\* reads it, or that was killed.
THEOREM TypeCorrect == Spec => []TypeOK
BY InitType, NextType, PTL DEF Spec

-----------------------------------------------------------------------------
(* What the bridge knows of the detector.                                  *)

\* A bridge that has left its loop does not come back.
LEMMA ClosedStays == TypeOK /\ Closed /\ [Next]_vars => Closed'
<1> SUFFICES ASSUME TypeOK, Closed, [Next]_vars PROVE Closed'
  OBVIOUS
<1>1. CASE Bridge
  BY <1>1
  DEF Closed, Bridge, ReadLine, Answered, Stop, Interrupted, EndOfInput, LastRequest, Exit,
      Kill, Ask
<1>2. CASE Daemon
  BY <1>2 DEF Closed, Daemon, Serve, DaemonCrash, DaemonStart, bridgeVars
<1>3. CASE Detector \/ UNCHANGED vars
  BY <1>3 DEF Closed, Detector, Infer, Finish, vars, bridgeVars
<1>4. QED
  BY <1>1, <1>2, <1>3 DEF Next

\* While the detector's changes are on their way, they are in step with the bridge.
LEMMA Untouched ==
  ASSUME Alternating, InStep, UNCHANGED <<active, pipe, ai_alarm_on, bridge>>,
         socket' \in {socket, "ok", "error", "closed"}
  PROVE  Alternating' /\ InStep'
<1>1. UNCHANGED active /\ UNCHANGED pipe /\ UNCHANGED ai_alarm_on /\ UNCHANGED bridge
  OBVIOUS
<1>2. Alternating'
  BY <1>1 DEF Alternating
<1>3. InStep'
  BY <1>1 DEF InStep
<1>4. QED
  BY <1>2, <1>3

\* A change of the detector is a line, as long as somebody reads.
LEMMA InferChange ==
  ASSUME TypeOK, Infer
  PROVE  \/ UNCHANGED <<active, pipe>>
         \/ active' = ~active /\ (~Closed => pipe' = Append(pipe, Line(active')))
<1>1. CASE SeePerson
  <2>1. CASE active
    BY <1>1, <2>1 DEF SeePerson, Quiet
  <2>2. CASE ~active
    BY <1>1, <2>2 DEF SeePerson, Emit, Closed, Line, TypeOK
  <2>3. QED
    BY <2>1, <2>2
<1>2. CASE SeeNobody
  <2>1. CASE ~active \/ misses + 1 < ClearAfter
    BY <1>2, <2>1 DEF SeeNobody, Quiet
  <2>2. CASE active /\ ~(misses + 1 < ClearAfter)
    BY <1>2, <2>2 DEF SeeNobody, Emit, Closed, Line, TypeOK
  <2>3. QED
    BY <2>1, <2>2
<1>3. QED
  BY <1>1, <1>2 DEF Infer

LEMMA InferInStep ==
  ASSUME TypeOK, ~Closed, Alternating, InStep, Infer
  PROVE  Alternating' /\ InStep'
<1>1. UNCHANGED <<ai_alarm_on, bridge, socket>>
  BY DEF Infer, bridgeVars
<1>2. CASE UNCHANGED <<active, pipe>>
  BY <1>1, <1>2, Untouched
<1>3. CASE active' = ~active /\ pipe' = Append(pipe, Line(active'))
  <2> DEFINE k == Len(pipe)
  <2>1. active \in BOOLEAN /\ active' \in BOOLEAN /\ Line(active') \in {"event", "clear"}
        /\ pipe \in Seq({"event", "clear"})
    BY <1>3 DEF TypeOK, Line
  <2>2. /\ k \in Nat /\ Len(pipe') = k + 1
        /\ \A i \in 1..k : pipe'[i] = pipe[i]
        /\ pipe'[k + 1] = Line(active')
    BY <1>3, <2>1, PipeType
  <2>3. \A n \in Nat : Before(active', n + 1) = Before(active, n)
    BY <1>3, <2>1, BeforeStep
  <2>4. Alternating'
    <3>1. ASSUME NEW i \in 1..(k + 1)
          PROVE  pipe'[i] = Line(Before(active', k + 1 - i))
      <4>1. CASE i = k + 1
        <5>1. k + 1 - i = 0
          BY <2>2, <4>1
        <5>2. QED
          BY <2>1, <2>2, <4>1, <5>1, BeforeStep
      <4>2. CASE i \in 1..k
        <5>1. k - i \in Nat /\ k + 1 - i = (k - i) + 1
          BY <2>2, <4>2
        <5>2. Before(active', k + 1 - i) = Before(active, k - i)
          BY <2>3, <5>1
        <5>3. QED
          BY <2>2, <4>2, <5>2 DEF Alternating
      <4>3. QED
        BY <2>2, <4>1, <4>2
    <3>2. QED
      BY <2>2, <3>1 DEF Alternating
  <2>5. Before(active', Len(pipe')) = Before(active, k)
    BY <2>2, <2>3
  <2>6. InStep'
    BY <1>1, <2>5 DEF InStep
  <2>7. QED
    BY <2>4, <2>6
<1>4. QED
  BY <1>2, <1>3, InferChange

\* A line that the bridge reads asks for what it has not had confirmed, and is the only
\* change that leaves the pipe.
LEMMA ReadAsks ==
  ASSUME TypeOK, ~Closed, Alternating, InStep, ReadLine
  PROVE  /\ Len(pipe) \in Nat /\ Len(pipe) > 0 /\ Len(pipe') = Len(pipe) - 1
         /\ (Head(pipe) = "event") = Before(active, Len(pipe'))
         /\ ai_alarm_on = ~Before(active, Len(pipe'))
         /\ Alternating'
<1> DEFINE k == Len(pipe)
<1>1. bridge = "reading" /\ pipe # <<>> /\ pipe' = Tail(pipe) /\ UNCHANGED active
  BY DEF ReadLine, detectorVars
<1>2. active \in BOOLEAN /\ pipe \in Seq({"event", "clear"})
  BY DEF TypeOK
<1>3. /\ k \in Nat /\ k > 0 /\ Len(pipe') = k - 1 /\ Head(pipe) = pipe[1]
      /\ \A i \in 1..(k - 1) : pipe'[i] = pipe[i + 1]
  <2>1. /\ Len(Tail(pipe)) = k - 1 /\ Head(pipe) = pipe[1] /\ k \in Nat /\ k > 0
        /\ \A i \in 1..Len(Tail(pipe)) : Tail(pipe)[i] = pipe[i + 1]
    BY <1>1, <1>2, PipeType, Zenon
  <2>2. QED
    BY <1>1, <2>1
<1>4. k - 1 \in Nat /\ (k - 1) + 1 = k
  BY <1>3
<1>5. Before(active, k - 1) \in BOOLEAN /\ Before(active, k) = ~Before(active, k - 1)
  BY <1>2, <1>4, BeforeStep
<1>6. ai_alarm_on = Before(active, k)
  BY <1>1 DEF InStep
<1>7. (Head(pipe) = "event") = Before(active, k - 1)
  <2>1. 1 \in 1..k
    BY <1>3
  <2>2. pipe[1] = Line(Before(active, k - 1))
    BY <2>1 DEF Alternating
  <2>3. QED
    BY <1>3, <1>5, <2>2 DEF Line
<1>8. Alternating'
  <2>1. ASSUME NEW i \in 1..(k - 1)
        PROVE  pipe'[i] = Line(Before(active, (k - 1) - i))
    <3>1. i + 1 \in 1..k /\ k - (i + 1) = (k - 1) - i
      BY <1>3
    <3>2. pipe[i + 1] = Line(Before(active, k - (i + 1)))
      BY <3>1 DEF Alternating
    <3>3. QED
      BY <1>3, <3>1, <3>2
  <2>2. QED
    BY <1>1, <1>3, <2>1 DEF Alternating
<1>9. QED
  BY <1>3, <1>5, <1>6, <1>7, <1>8

LEMMA ReadInStep ==
  ASSUME TypeOK, ~Closed, Alternating, InStep, ReadLine
  PROVE  Alternating' /\ (~Closed' => InStep')
<1>1. /\ (Head(pipe) = "event") = Before(active, Len(pipe'))
      /\ ai_alarm_on = ~Before(active, Len(pipe'))
      /\ Alternating'
  BY ReadAsks
<1>2. UNCHANGED active /\ UNCHANGED ai_alarm_on
  BY DEF ReadLine, detectorVars
<1>3. ai_alarm_on \in BOOLEAN
  BY DEF TypeOK
<1>4. Ask(Head(pipe) = "event", "asking", "ending")
  BY <1>1, <1>3 DEF ReadLine
<1>5. bridge' = "ending"
      \/ (bridge' = "asking" /\ socket' = Command(Before(active, Len(pipe'))))
  BY <1>1, <1>4 DEF Ask
<1>6. QED
  BY <1>1, <1>2, <1>5 DEF InStep, Closed

\* A confirmed request is what the bridge then has had confirmed.
LEMMA AnsweredInStep ==
  ASSUME TypeOK, ~Closed, Alternating, InStep, Answered
  PROVE  Alternating' /\ (~Closed' => InStep')
<1>1. /\ bridge = "asking" /\ UNCHANGED active /\ UNCHANGED pipe
  BY DEF Answered, detectorVars
<1>2. ai_alarm_on = ~Before(active, Len(pipe)) /\ ai_alarm_on \in BOOLEAN
  BY <1>1 DEF InStep, TypeOK
<1>3. Alternating'
  BY <1>1 DEF Alternating
<1>4. bridge' \in {"reading", "ending"}
  BY DEF Answered, Again
<1>5. bridge' = "reading" => ai_alarm_on' = ~ai_alarm_on
  BY DEF Answered
<1>6. bridge' = "reading" => ai_alarm_on' = Before(active, Len(pipe))
  <2>1. Before(active, Len(pipe)) \in BOOLEAN
    BY DEF Before, TypeOK
  <2>2. (~ai_alarm_on) = Before(active, Len(pipe))
    BY <1>2, <2>1
  <2>3. QED
    BY <1>5, <2>2
<1>7. QED
  BY <1>1, <1>3, <1>4, <1>6 DEF InStep

-----------------------------------------------------------------------------
(* The invariant is inductive.                                             *)

LEMMA PathInit == Init => PathInv
<1> SUFFICES ASSUME Init PROVE PathInv
  OBVIOUS
<1>1. /\ active = FALSE /\ pipe = <<>> /\ bridge = "reading" /\ ai_alarm_on = FALSE
  BY DEF Init
<1>2. Len(pipe) = 0
  BY <1>1, EmptySeq
<1>3. Before(active, Len(pipe)) = FALSE
  BY <1>1, <1>2, BeforeStep
<1>4. Alternating
  BY <1>2 DEF Alternating
<1>5. InStep
  BY <1>1, <1>3 DEF InStep
<1>6. QED
  BY <1>1, <1>4, <1>5, InitType DEF PathInv, LastWithdraws

\* While its requests are withdrawn, a bridge asks for nothing else.
LEMMA LastStep == TypeOK /\ LastWithdraws /\ [Next]_vars => LastWithdraws'
<1> SUFFICES ASSUME TypeOK, LastWithdraws, [Next]_vars PROVE LastWithdraws'
  OBVIOUS
<1>1. CASE Bridge
  BY <1>1
  DEF LastWithdraws, TypeOK, Bridge, ReadLine, Answered, Stop, Interrupted, EndOfInput,
      LastRequest, Exit, Kill, Ask, Again, Command
<1>2. CASE Daemon
  BY <1>2 DEF LastWithdraws, Daemon, Serve, DaemonCrash, DaemonStart, bridgeVars
<1>3. CASE Detector \/ UNCHANGED vars
  BY <1>3 DEF LastWithdraws, Detector, Infer, Finish, vars, bridgeVars
<1>4. QED
  BY <1>1, <1>2, <1>3 DEF Next

LEMMA PathStep == PathInv /\ [Next]_vars => PathInv'
<1> SUFFICES ASSUME PathInv, [Next]_vars PROVE PathInv'
  OBVIOUS
<1>1. TypeOK /\ LastWithdraws /\ TypeOK' /\ LastWithdraws'
  BY NextType, LastStep DEF PathInv
<1>2. SUFFICES ASSUME ~Closed' PROVE Alternating' /\ InStep'
  BY <1>1 DEF PathInv
<1>3. ~Closed /\ Alternating /\ InStep
  BY <1>1, <1>2, ClosedStays DEF PathInv
<1>4. CASE Infer
  BY <1>1, <1>3, <1>4, InferInStep
<1>5. CASE Finish \/ UNCHANGED vars
  <2>1. UNCHANGED <<active, pipe, ai_alarm_on, bridge>> /\ UNCHANGED socket
    BY <1>5 DEF Finish, bridgeVars, vars, detectorVars
  <2>2. QED
    BY <1>3, <2>1, Untouched
<1>6. CASE ReadLine
  BY <1>1, <1>2, <1>3, <1>6, ReadInStep
<1>7. CASE Answered
  BY <1>1, <1>2, <1>3, <1>7, AnsweredInStep
<1>8. CASE Stop
  <2>1. UNCHANGED <<active, pipe, ai_alarm_on, bridge>> /\ UNCHANGED socket
    BY <1>8 DEF Stop, detectorVars
  <2>2. QED
    BY <1>3, <2>1, Untouched
<1>9. CASE Interrupted \/ EndOfInput \/ LastRequest \/ Exit \/ Kill
  BY <1>2, <1>9 DEF Closed, Interrupted, EndOfInput, LastRequest, Exit, Kill, Ask
<1>10. CASE Daemon
  <2>1. /\ UNCHANGED <<active, pipe, ai_alarm_on, bridge>>
        /\ socket' \in {socket, "ok", "error", "closed"}
    BY <1>10 DEF Daemon, Serve, DaemonCrash, DaemonStart, bridgeVars, detectorVars
  <2>2. QED
    BY <1>3, <2>1, Untouched
<1>11. QED
  BY <1>4, <1>5, <1>6, <1>7, <1>8, <1>9, <1>10 DEF Next, Detector, Bridge

\* While the bridge is in its loop, the lines in the pipe are the latest changes of the
\* detector, in turn, and the request it last had confirmed, or is asking for, is what the
\* detector said just before them: no line is ever dropped as nothing new.
THEOREM InStepWithDetector == Spec => []PathInv
BY PathInit, PathStep, PTL DEF Spec

-----------------------------------------------------------------------------
(* The refinement.                                                         *)

\* The changes under way and the request left behind, as Feed has them.
Pending == IF Closed THEN 0 ELSE Len(pipe) + Undelivered
Late == bridge = "killed" /\ socket = "on"

\* The steps of DetectionFeed in terms of this module.
Stands ==
  /\ active' = active /\ requested' = requested
  /\ Closed' = Closed /\ Late' = Late /\ Pending' = Pending
Detects ==
  /\ active' = ~active /\ Pending' = IF Closed THEN 0 ELSE Pending + 1
  /\ requested' = requested /\ Closed' = Closed /\ Late' = Late
Delivers ==
  /\ ~Closed /\ Pending > 0
  /\ Pending' = Pending - 1 /\ requested' = Before(active, Pending - 1)
  /\ active' = active /\ Closed' = Closed /\ Late' = Late
Forgets ==
  /\ requested' = FALSE
  /\ active' = active /\ Pending' = Pending /\ Closed' = Closed /\ Late' = Late
Closes ==
  /\ ~Closed /\ Closed'
  /\ Late' => Pending > 0 /\ Before(active, Pending - 1)
  /\ active' = active /\ requested' = requested
ComesLate ==
  /\ Late /\ ~Late' /\ requested' \in {requested, TRUE}
  /\ active' = active /\ Pending' = Pending /\ Closed' = Closed

\* The two ways to say it agree.
LEMMA FeedSteps ==
  Stands \/ Detects \/ Delivers \/ Forgets \/ Closes \/ ComesLate => [Feed!Next]_(Feed!vars)
<1>1. Stands => UNCHANGED Feed!vars
  BY DEF Stands, Feed!vars, Pending, Late
<1>2. Detects => Feed!Detect
  BY DEF Detects, Feed!Detect, Pending, Late
<1>3. Delivers => Feed!Deliver
  BY DEF Delivers, Feed!Deliver, Feed!Behind, Before, Pending, Late
<1>4. Forgets => Feed!Forget
  BY DEF Forgets, Feed!Forget, Pending, Late
<1>5. Closes => Feed!Close
  BY DEF Closes, Feed!Close, Feed!Behind, Before, Pending, Late, Closed
<1>6. ComesLate => Feed!ComeLate
  BY DEF ComesLate, Feed!ComeLate, Pending, Late
<1>7. QED
  BY <1>1, <1>2, <1>3, <1>4, <1>5, <1>6 DEF Feed!Next

\* How many changes are under way.
LEMMA PendingSize ==
  /\ TypeOK => Len(pipe) \in Nat
  /\ TypeOK' => Len(pipe') \in Nat
BY PipeType DEF TypeOK

\* A step that touches neither the detector nor what the bridge is about.
LEMMA StandsStill ==
  UNCHANGED active /\ UNCHANGED pipe /\ UNCHANGED bridge /\ UNCHANGED socket
    /\ UNCHANGED requested => Stands
BY DEF Stands, Pending, Undelivered, Late, Closed

\* After the end of its loop, the bridge stays out of the way.
LEMMA StandsClosed ==
  ASSUME Closed, Closed', UNCHANGED active, UNCHANGED requested, Late' = Late
  PROVE  Stands
<1>1. Pending = 0
  BY DEF Pending
<1>2. Pending' = 0
  BY DEF Pending
<1>3. Closed \in BOOLEAN
  BY DEF Closed
<1>4. QED
  BY <1>1, <1>2, <1>3, Zenon DEF Stands, Closed

LEMMA InferFeed ==
  ASSUME PathInv, Infer
  PROVE  Stands \/ Detects
<1>1. TypeOK /\ TypeOK'
  BY NextType DEF PathInv, Next, Detector
<1>2. UNCHANGED bridge /\ UNCHANGED socket /\ UNCHANGED requested
  BY DEF Infer, bridgeVars, daemonVars, driverVars
<1>3. CASE UNCHANGED <<active, pipe>>
  BY <1>2, <1>3, StandsStill
<1>4. CASE active' = ~active /\ (~Closed => pipe' = Append(pipe, Line(active')))
  <2>1. Closed' = Closed /\ Late' = Late /\ Undelivered' = Undelivered
    BY <1>2 DEF Closed, Late, Undelivered
  <2>2. CASE Closed
    BY <1>2, <1>4, <2>1, <2>2 DEF Detects, Pending
  <2>3. CASE ~Closed
    <3>1. Line(active') \in {"event", "clear"} /\ pipe \in Seq({"event", "clear"})
      BY <1>1 DEF Line, TypeOK
    <3>2. Len(pipe) \in Nat /\ Len(pipe') = Len(pipe) + 1
      BY <1>4, <2>3, <3>1, PipeType
    <3>3. Undelivered \in Nat
      BY DEF Undelivered
    <3>4. Pending = Len(pipe) + Undelivered
      BY <2>3 DEF Pending
    <3>5. Pending' = Len(pipe') + Undelivered'
      BY <2>1, <2>3 DEF Pending
    <3>6. Pending' = Pending + 1
      BY <2>1, <3>2, <3>3, <3>4, <3>5
    <3>7. QED
      BY <1>2, <1>4, <2>1, <2>3, <3>6 DEF Detects
  <2>4. QED
    BY <2>2, <2>3
<1>5. QED
  BY <1>1, <1>3, <1>4, InferChange

LEMMA ServeFeed ==
  ASSUME PathInv, Serve
  PROVE  Delivers \/ Forgets \/ ComesLate
<1>1. /\ UNCHANGED active /\ UNCHANGED pipe /\ UNCHANGED bridge
      /\ socket \in {"on", "off"} /\ socket' \in {"ok", "error"}
      /\ requested' = (socket = "on")
  BY DEF Serve, bridgeVars, detectorVars
<1>2. TypeOK /\ LastWithdraws /\ Len(pipe) \in Nat
  BY PendingSize DEF PathInv
<1>3. bridge \in {"asking", "last", "killed"}
  BY <1>1, <1>2 DEF TypeOK
<1>4. Closed' = Closed
  BY <1>1, <1>3 DEF Closed
<1>5. CASE bridge = "asking"
  <2>1. ~Closed
    BY <1>1, <1>5 DEF Closed
  <2>2. socket = Command(Before(active, Len(pipe)))
    BY <1>1, <1>5, <2>1 DEF PathInv, InStep
  <2>3. Before(active, Len(pipe)) \in BOOLEAN
    BY <1>2 DEF Before, TypeOK
  <2>4. requested' = Before(active, Len(pipe))
    BY <1>1, <2>2, <2>3 DEF Command
  <2>5. Undelivered = 1 /\ Undelivered' = 0
    BY <1>1, <1>5 DEF Undelivered
  <2>6. Pending = Len(pipe) + 1
    BY <2>1, <2>5 DEF Pending
  <2>7. Pending' = Len(pipe) + 0
    BY <1>1, <1>4, <2>1, <2>5 DEF Pending
  <2>8. Pending > 0 /\ Pending' = Pending - 1 /\ Pending - 1 = Len(pipe)
    BY <1>2, <2>6, <2>7
  <2>9. Late' = Late
    BY <1>1, <1>5 DEF Late
  <2>10. QED
    BY <1>1, <1>4, <2>1, <2>4, <2>8, <2>9 DEF Delivers
<1>6. CASE bridge \in {"last", "killed"}
  <2>1. Closed /\ Closed'
    BY <1>1, <1>6 DEF Closed
  <2>2. Pending = 0
    BY <2>1 DEF Pending
  <2>3. Pending' = 0
    BY <2>1 DEF Pending
  <2>4. CASE Late
    <3>1. ~Late' /\ requested' = TRUE
      BY <1>1, <2>4 DEF Late
    <3>2. QED
      BY <1>1, <1>4, <2>2, <2>3, <2>4, <3>1 DEF ComesLate
  <2>5. CASE ~Late
    <3>1. socket # "on"
      BY <1>2, <1>6, <2>5 DEF Late, LastWithdraws
    <3>2. requested' = FALSE /\ Late' = Late
      BY <1>1, <2>5, <3>1 DEF Late
    <3>3. QED
      BY <1>1, <1>4, <2>2, <2>3, <3>2 DEF Forgets
  <2>6. QED
    BY <2>4, <2>5
<1>7. QED
  BY <1>3, <1>5, <1>6

LEMMA CrashFeed ==
  ASSUME PathInv, DaemonCrash
  PROVE  Stands \/ Closes \/ ComesLate
<1>1. /\ UNCHANGED active /\ UNCHANGED pipe /\ UNCHANGED bridge /\ UNCHANGED requested
      /\ socket' = IF socket \in {"on", "off"} THEN "closed" ELSE socket
  BY DEF DaemonCrash, bridgeVars, detectorVars, driverVars
<1>2. CASE ~Closed /\ Closed'
  <2>1. ~Late'
    BY <1>1, <1>2 DEF Late, Closed
  <2>2. QED
    BY <1>1, <1>2, <2>1 DEF Closes
<1>3. CASE ~Closed /\ ~Closed'
  <2>1. UNCHANGED socket
    BY <1>1, <1>3 DEF PathInv, TypeOK, Closed
  <2>2. QED
    BY <1>1, <2>1, StandsStill
<1>4. CASE Closed
  <2>1. Closed'
    BY <1>1, <1>4 DEF Closed
  <2>2. ~Late'
    BY <1>1 DEF Late
  <2>3. CASE ~Late
    <3>1. Late' = Late
      BY <2>2, <2>3 DEF Late
    <3>2. QED
      BY <1>1, <1>4, <2>1, <3>1, StandsClosed
  <2>4. CASE Late
    <3>1. Pending = 0
      BY <1>4 DEF Pending
    <3>2. Pending' = 0
      BY <2>1 DEF Pending
    <3>3. Closed' = Closed
      BY <1>4, <2>1 DEF Closed
    <3>4. QED
      BY <1>1, <2>2, <2>4, <3>1, <3>2, <3>3 DEF ComesLate
  <2>5. QED
    BY <2>3, <2>4
<1>5. QED
  BY <1>2, <1>3, <1>4

LEMMA StartFeed ==
  ASSUME DaemonStart
  PROVE  Forgets
<1>1. /\ UNCHANGED active /\ UNCHANGED pipe /\ UNCHANGED bridge /\ UNCHANGED socket
      /\ requested' = FALSE
  BY DEF DaemonStart, bridgeVars, detectorVars
<1>2. QED
  BY <1>1 DEF Forgets, Pending, Undelivered, Late, Closed

LEMMA ReadFeed ==
  ASSUME PathInv, ReadLine
  PROVE  Stands \/ Closes
<1>1. /\ bridge = "reading" /\ ~Closed
      /\ UNCHANGED active /\ UNCHANGED requested /\ ai_alarm_on \in BOOLEAN
  BY DEF ReadLine, Closed, detectorVars, daemonVars, driverVars, PathInv, TypeOK
<1>2. TypeOK /\ Alternating /\ InStep
  BY <1>1 DEF PathInv
<1>3. /\ Len(pipe) \in Nat /\ Len(pipe') = Len(pipe) - 1
      /\ (Head(pipe) = "event") = Before(active, Len(pipe'))
      /\ ai_alarm_on = ~Before(active, Len(pipe'))
  BY <1>1, <1>2, ReadAsks
<1>4. \/ bridge' = "ending"
      \/ bridge' = "asking" /\ socket' \in {"on", "off"}
  BY <1>1, <1>3 DEF ReadLine, Ask, Command
<1>5. CASE bridge' = "ending"
  BY <1>1, <1>5 DEF Closes, Closed, Late
<1>6. CASE bridge' = "asking" /\ socket' \in {"on", "off"}
  <2>1. ~Closed'
    BY <1>6 DEF Closed
  <2>2. Undelivered = 0 /\ Undelivered' = 1
    BY <1>1, <1>6 DEF Undelivered
  <2>3. Pending = Len(pipe) + 0
    BY <1>1, <2>2 DEF Pending
  <2>4. Pending' = Len(pipe') + 1
    BY <2>1, <2>2 DEF Pending
  <2>5. Pending' = Pending
    BY <1>3, <2>3, <2>4
  <2>6. Late' = Late /\ Closed' = Closed
    BY <1>1, <1>6 DEF Late, Closed
  <2>7. QED
    BY <1>1, <2>5, <2>6 DEF Stands
<1>7. QED
  BY <1>4, <1>5, <1>6

LEMMA AnsweredFeed ==
  ASSUME PathInv, Answered
  PROVE  Stands \/ Closes
<1>1. /\ bridge = "asking" /\ socket \in {"ok", "error", "closed"} /\ socket' = "none"
      /\ bridge' \in {"reading", "ending"} /\ (socket # "ok" => bridge' = "ending")
      /\ UNCHANGED active /\ UNCHANGED requested /\ UNCHANGED pipe
  BY DEF Answered, Again, detectorVars, daemonVars, driverVars
<1>2. Late' = Late
  BY <1>1 DEF Late
<1>3. CASE Closed
  <2>1. Closed'
    BY <1>1, <1>3 DEF Closed
  <2>2. QED
    BY <1>1, <1>2, <1>3, <2>1, StandsClosed
<1>4. CASE ~Closed /\ bridge' = "ending"
  BY <1>1, <1>4 DEF Closes, Closed, Late
<1>5. CASE ~Closed /\ bridge' = "reading"
  <2>1. Undelivered = 0 /\ Undelivered' = 0 /\ Closed' = Closed
    BY <1>1, <1>5 DEF Undelivered, Closed
  <2>2. Pending' = Pending
    BY <1>1, <2>1 DEF Pending
  <2>3. QED
    BY <1>1, <1>2, <2>1, <2>2 DEF Stands
<1>6. QED
  BY <1>1, <1>3, <1>4, <1>5

LEMMA KillFeed ==
  ASSUME PathInv, Kill
  PROVE  Stands \/ Closes
<1>1. /\ bridge \notin {"ended", "killed"} /\ bridge' = "killed"
      /\ UNCHANGED socket /\ UNCHANGED active /\ UNCHANGED requested /\ Closed'
  BY DEF Kill, detectorVars, daemonVars, driverVars, Closed
<1>2. TypeOK /\ LastWithdraws /\ Len(pipe) \in Nat
  BY PendingSize DEF PathInv
<1>3. CASE Closed
  <2>1. Late' = Late
    BY <1>1, <1>2, <1>3 DEF Late, LastWithdraws, TypeOK, Closed
  <2>2. QED
    BY <1>1, <1>3, <2>1, StandsClosed
<1>4. CASE ~Closed /\ socket # "on"
  BY <1>1, <1>4 DEF Closes, Late
<1>5. CASE ~Closed /\ socket = "on"
  <2>1. bridge = "asking"
    BY <1>1, <1>2, <1>5 DEF TypeOK, Closed
  <2>2. "on" = Command(Before(active, Len(pipe)))
    BY <1>5, <2>1 DEF PathInv, InStep
  <2>3. Before(active, Len(pipe))
    BY <2>2 DEF Command
  <2>4. Undelivered = 1
    BY <1>5, <2>1 DEF Undelivered
  <2>5. Pending = Len(pipe) + 1
    BY <1>5, <2>4 DEF Pending
  <2>6. Pending > 0 /\ Pending - 1 = Len(pipe)
    BY <1>2, <2>5
  <2>7. QED
    BY <1>1, <1>5, <2>3, <2>6 DEF Closes
<1>6. QED
  BY <1>3, <1>4, <1>5

\* The steps that end the loop, or come after it.
LEMMA EndingFeed ==
  ASSUME PathInv, Interrupted \/ EndOfInput \/ LastRequest \/ Exit
  PROVE  Stands \/ Closes
<1>1. UNCHANGED active /\ UNCHANGED requested /\ Closed' /\ ~Late /\ ~Late'
  BY DEF Interrupted, EndOfInput, LastRequest, Exit, Ask, Command, detectorVars,
         daemonVars, driverVars, Closed, Late
<1>2. CASE Closed
  <2>1. Late' = Late
    BY <1>1 DEF Late
  <2>2. QED
    BY <1>1, <1>2, <2>1, StandsClosed
<1>3. CASE ~Closed
  BY <1>1, <1>3 DEF Closes
<1>4. QED
  BY <1>2, <1>3

\* The changes of the detector start with none under way.
LEMMA FeedInit == Init => Feed!Init
<1> SUFFICES ASSUME Init PROVE Feed!Init
  OBVIOUS
<1>1. /\ active = FALSE /\ pipe = <<>> /\ bridge = "reading" /\ socket = "none"
      /\ requested = FALSE
  BY DEF Init
<1>2. Len(pipe) = 0 /\ ~Closed /\ Undelivered = 0 /\ ~Late
  BY <1>1, EmptySeq DEF Closed, Undelivered, Late
<1>3. Len(pipe) + Undelivered = 0
  BY <1>2
<1>4. QED
  BY <1>1, <1>2, <1>3 DEF Feed!Init, Late, Closed

\* Every step of the detector, the bridge and the daemon is one of the feed, or none.
LEMMA FeedStep == PathInv /\ [Next]_vars => [Feed!Next]_(Feed!vars)
<1> SUFFICES ASSUME PathInv, [Next]_vars
             PROVE  Stands \/ Detects \/ Delivers \/ Forgets \/ Closes \/ ComesLate
  BY FeedSteps
<1>1. CASE Infer
  BY <1>1, InferFeed
<1>2. CASE Finish \/ Stop \/ UNCHANGED vars
  <2>1. UNCHANGED active /\ UNCHANGED pipe /\ UNCHANGED bridge /\ UNCHANGED socket
        /\ UNCHANGED requested
    BY <1>2 DEF Finish, Stop, vars, detectorVars, bridgeVars, daemonVars, driverVars
  <2>2. QED
    BY <2>1, StandsStill
<1>3. CASE ReadLine
  BY <1>3, ReadFeed
<1>4. CASE Answered
  BY <1>4, AnsweredFeed
<1>5. CASE Interrupted \/ EndOfInput \/ LastRequest \/ Exit
  BY <1>5, EndingFeed
<1>6. CASE Kill
  BY <1>6, KillFeed
<1>7. CASE Serve
  BY <1>7, ServeFeed
<1>8. CASE DaemonCrash
  BY <1>8, CrashFeed
<1>9. CASE DaemonStart
  BY <1>9, StartFeed
<1>10. QED
  BY <1>1, <1>2, <1>3, <1>4, <1>5, <1>6, <1>7, <1>8, <1>9
  DEF Next, Detector, Bridge, Daemon

\* What the daemon holds follows the detector, change by change and in order, through
\* refused requests, crashes and restarts of the daemon and every end of the bridge: the
\* detailed specification implements DetectionFeed.
THEOREM ImplementsFeed == Spec => FollowsDetector
BY InStepWithDetector, FeedInit, FeedStep, PTL DEF Spec, Feed!Spec, FollowsDetector

-----------------------------------------------------------------------------
(* What the daemon holds.                                                  *)

\* A bridge whose last request was answered, or could not be made, leaves no alarm behind, but
\* with a daemon that is down, and that withdraws it when it starts.
Withdrawn ==
  bridge = "ended" \/ (bridge = "last" /\ socket \in {"ok", "error", "closed"}) =>
    ~requested \/ daemon = "down"

\* A daemon that never crashed holds what the bridge had confirmed, or is about to read that it has.
Confirmed ==
  ~Closed /\ crashes = 0 =>
    /\ daemon = "up"
    /\ bridge = "asking" /\ socket \in {"ok", "error"} => requested = ~ai_alarm_on
    /\ ~(bridge = "asking" /\ socket \in {"ok", "error"}) => requested = ai_alarm_on

\* It holds what the detector said before the changes that are still under way.
RequestBehind == ~Closed /\ crashes = 0 => requested = Before(active, Pending)

LEMMA WithdrawnStep == PathInv /\ Withdrawn /\ [Next]_vars => Withdrawn'
<1> SUFFICES ASSUME PathInv, Withdrawn, [Next]_vars PROVE Withdrawn'
  OBVIOUS
<1>1. TypeOK /\ LastWithdraws
  BY DEF PathInv
<1>2. CASE Bridge
  BY <1>1, <1>2
  DEF Withdrawn, TypeOK, Bridge, ReadLine, Answered, Stop, Interrupted, EndOfInput,
      LastRequest, Exit, Kill, Ask, Again, Command, detectorVars, daemonVars, driverVars
<1>3. CASE Daemon
  BY <1>1, <1>3
  DEF Withdrawn, TypeOK, LastWithdraws, Daemon, Serve, DaemonCrash, DaemonStart, bridgeVars
<1>4. CASE Detector \/ UNCHANGED vars
  BY <1>4 DEF Withdrawn, Detector, Infer, Finish, vars, bridgeVars, daemonVars, driverVars
<1>5. QED
  BY <1>2, <1>3, <1>4 DEF Next

\* Unless its latest ioctl failed, the driver alarms for the daemon's request, and the daemon
\* remembers that it does.
DriverFollows == confirmed => driver = requested /\ applied = requested

LEMMA DriverFollowsStep == TypeOK /\ DriverFollows /\ [Next]_vars => DriverFollows'
<1> SUFFICES ASSUME TypeOK, DriverFollows, [Next]_vars PROVE DriverFollows'
  OBVIOUS
<1>1. CASE Serve
  <2>1. requested' \in BOOLEAN /\ Apply(requested')
    BY <1>1 DEF Serve
  <2>2. CASE applied = requested'
    <3>1. UNCHANGED applied /\ UNCHANGED driver /\ UNCHANGED confirmed
      BY <2>1, <2>2 DEF Apply
    <3>2. QED
      BY <2>2, <3>1 DEF DriverFollows
  <2>3. CASE applied # requested'
    <3>1. SetUserAlarm(requested')
      BY <2>1, <2>3 DEF Apply
    <3>2. QED
      BY <3>1 DEF SetUserAlarm, DriverFollows
  <2>4. QED
    BY <2>2, <2>3
<1>2. CASE DaemonStart
  BY <1>2 DEF DaemonStart, SetUserAlarm, DriverFollows
<1>3. CASE UNCHANGED driverVars
  BY <1>3 DEF driverVars, DriverFollows
<1>4. QED
  BY <1>1, <1>2, <1>3
  DEF Next, Detector, Infer, Finish, Bridge, ReadLine, Answered, Stop, Interrupted, EndOfInput,
      LastRequest, Exit, Kill, Daemon, DaemonCrash, vars, daemonVars

LEMMA ConfirmedStep == PathInv /\ Confirmed /\ [Next]_vars => Confirmed'
<1> SUFFICES ASSUME PathInv, Confirmed, [Next]_vars, ~Closed', crashes' = 0
             PROVE  /\ daemon' = "up"
                    /\ bridge' = "asking" /\ socket' \in {"ok", "error"} =>
                         requested' = ~ai_alarm_on'
                    /\ ~(bridge' = "asking" /\ socket' \in {"ok", "error"}) =>
                         requested' = ai_alarm_on'
  BY DEF Confirmed
<1>1. TypeOK /\ ~Closed
  BY ClosedStays DEF PathInv
<1>2. InStep
  BY <1>1 DEF PathInv
<1>3. CASE Detector \/ Stop \/ UNCHANGED vars
  <2>1. /\ UNCHANGED bridge /\ UNCHANGED socket /\ UNCHANGED ai_alarm_on
        /\ UNCHANGED daemon /\ UNCHANGED requested /\ UNCHANGED crashes
    BY <1>3 DEF Detector, Infer, Finish, Stop, vars, bridgeVars, daemonVars, driverVars
  <2>2. QED
    BY <1>1, <2>1 DEF Confirmed
<1>4. CASE ReadLine
  <2>1. /\ bridge = "reading" /\ UNCHANGED ai_alarm_on
        /\ UNCHANGED daemon /\ UNCHANGED requested /\ UNCHANGED crashes
    BY <1>4 DEF ReadLine, daemonVars, driverVars
  <2>2. daemon = "up" /\ requested = ai_alarm_on
    BY <1>1, <2>1 DEF Confirmed
  <2>3. ~(bridge' = "asking" /\ socket' \in {"ok", "error"})
    BY <1>4, <2>1 DEF ReadLine, Ask, Again, Command
  <2>4. QED
    BY <2>1, <2>2, <2>3
<1>5. CASE Answered
  <2>1. /\ bridge = "asking" /\ socket = "ok" /\ bridge' = "reading"
        /\ ai_alarm_on' = ~ai_alarm_on
        /\ UNCHANGED daemon /\ UNCHANGED requested /\ UNCHANGED crashes
    BY <1>5 DEF Answered, Closed, Again, daemonVars, driverVars
  <2>2. QED
    BY <1>1, <2>1 DEF Confirmed
<1>6. CASE Interrupted \/ EndOfInput \/ LastRequest \/ Exit \/ Kill
  BY <1>6 DEF Closed, Interrupted, EndOfInput, LastRequest, Exit, Kill, Ask
<1>7. CASE Serve
  <2>1. /\ socket \in {"on", "off"} /\ socket' \in {"ok", "error"} /\ UNCHANGED bridge
        /\ UNCHANGED daemon /\ UNCHANGED crashes /\ UNCHANGED ai_alarm_on
        /\ requested' = (socket = "on")
    BY <1>7 DEF Serve, bridgeVars
  <2>2. bridge = "asking"
    BY <1>1, <2>1 DEF TypeOK, Closed
  <2>3. /\ socket = Command(Before(active, Len(pipe)))
        /\ ai_alarm_on = ~Before(active, Len(pipe))
    BY <1>2, <2>1, <2>2 DEF InStep
  <2>4. Before(active, Len(pipe)) \in BOOLEAN
    BY <1>1 DEF Before, TypeOK
  <2>5. requested' = ~ai_alarm_on
    BY <2>1, <2>3, <2>4 DEF Command
  <2>6. daemon = "up"
    BY <1>1, <2>1 DEF Confirmed
  <2>7. QED
    BY <2>1, <2>2, <2>5, <2>6
<1>8. CASE DaemonCrash
  <2>1. crashes' = crashes + 1 /\ crashes \in Nat
    BY <1>1, <1>8, PathAssumption DEF DaemonCrash, TypeOK
  <2>2. QED
    BY <2>1
<1>9. CASE DaemonStart
  BY <1>1, <1>9 DEF DaemonStart, Confirmed
<1>10. QED
  BY <1>3, <1>4, <1>5, <1>6, <1>7, <1>8, <1>9 DEF Next, Bridge, Daemon

\* When the bridge has ended by itself, for whatever reason and with whatever answers, the
\* request that it made is withdrawn, and with it the driver's alarm unless the daemon's latest
\* ioctl failed; or the daemon is down, and withdraws both when it starts.
THEOREM EndWithdrawsAtOnce ==
  Spec => [](bridge = "ended" =>
               (~requested /\ (confirmed => ~driver)) \/ daemon = "down")
<1>1. Init => Withdrawn /\ DriverFollows
  BY DEF Init, Withdrawn, DriverFollows
<1>2. Withdrawn /\ DriverFollows =>
        (bridge = "ended" => (~requested /\ (confirmed => ~driver)) \/ daemon = "down")
  BY DEF Withdrawn, DriverFollows
<1>3. PathInv => TypeOK
  BY DEF PathInv
<1>4. QED
  BY <1>1, <1>2, <1>3, WithdrawnStep, DriverFollowsStep, InStepWithDetector, PTL DEF Spec

\* Until the daemon crashes or the bridge leaves its loop, the daemon holds exactly what the
\* detector said before the changes that are under way: with none, what it says now.
THEOREM RequestIsBehind == Spec => []RequestBehind
<1>1. Init => Confirmed
  BY DEF Init, Confirmed
<1>2. PathInv /\ Confirmed => RequestBehind
  <2> SUFFICES ASSUME PathInv, Confirmed, ~Closed, crashes = 0
               PROVE  requested = Before(active, Pending)
    BY DEF RequestBehind
  <2>1. TypeOK /\ InStep /\ Len(pipe) \in Nat
    BY PendingSize DEF PathInv
  <2>2. /\ Before(active, Len(pipe)) \in BOOLEAN
        /\ Before(active, Len(pipe) + 1) = ~Before(active, Len(pipe))
    BY <2>1, BeforeStep DEF TypeOK
  <2>3. bridge \in {"reading", "asking"}
    BY DEF Closed
  <2>4. CASE bridge = "reading"
    <3>1. Undelivered = 0
      BY <2>4 DEF Undelivered
    <3>2. Pending = Len(pipe) + 0
      BY <3>1 DEF Pending
    <3>3. Pending = Len(pipe)
      BY <2>1, <3>2
    <3>4. QED
      BY <2>1, <2>4, <3>3 DEF InStep, Confirmed
  <2>5. CASE bridge = "asking" /\ socket \in {"on", "off"}
    <3>1. Undelivered = 1
      BY <2>5 DEF Undelivered
    <3>2. Pending = Len(pipe) + 1
      BY <3>1 DEF Pending
    <3>3. requested = ai_alarm_on /\ ai_alarm_on = ~Before(active, Len(pipe))
      BY <2>1, <2>5 DEF InStep, Confirmed
    <3>4. QED
      BY <2>2, <3>2, <3>3
  <2>6. CASE bridge = "asking" /\ socket \in {"ok", "error"}
    <3>1. Undelivered = 0
      BY <2>6 DEF Undelivered
    <3>2. Pending = Len(pipe) + 0
      BY <3>1 DEF Pending
    <3>3. Pending = Len(pipe)
      BY <2>1, <3>2
    <3>4. requested = ~ai_alarm_on /\ ai_alarm_on = ~Before(active, Len(pipe))
      BY <2>1, <2>6 DEF InStep, Confirmed
    <3>5. requested = Before(active, Len(pipe))
      BY <2>2, <3>4
    <3>6. QED
      BY <3>3, <3>5
  <2>7. QED
    BY <2>1, <2>3, <2>4, <2>5, <2>6 DEF TypeOK, Closed
<1>3. QED
  BY <1>1, <1>2, ConfirmedStep, InStepWithDetector, PTL DEF Spec

=============================================================================
