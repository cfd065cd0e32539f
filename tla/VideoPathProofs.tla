---------------------------- MODULE VideoPathProofs ----------------------------
(***************************************************************************)
(* The composition of ai_yolov5 with its viewer keeps what its parts        *)
(* promise: what is proved of the threads and of the handoff alone holds of *)
(* both together, over any number of starts of the program.                *)
(***************************************************************************)
EXTENDS VideoPath, CapturePipelineProofs, VideoHandoffProofs

\* The encoder's thread is over when main is.
Joined == main = "ended" => encoder \in {"off", "ended"}

PathInv == IInv /\ Joined /\ VInv

-----------------------------------------------------------------------------
(* Each step of the whole is a step of its parts.                          *)

\* The handoff sees only its own steps.
LEMMA HandoffSteps ==
  ASSUME [PathNext]_all
  PROVE  [VideoNext]_video
<1>1. CASE CaptureThread
  BY <1>1 DEF CaptureThread, Alone
<1>2. CASE EncoderThread
  BY <1>2 DEF EncoderThread, Alone, EncodeAndPublish, VideoNext
<1>3. CASE MainThread
  BY <1>3 DEF MainThread, Alone, SetupAndListen, JoinAndStop, VideoNext
<1>4. CASE Alone(Signal) \/ Relaunch
  BY <1>4 DEF Alone, Relaunch
<1>5. CASE Hmi(Poll) \/ Hmi(User) \/ Hmi(DecoderError)
  BY <1>5 DEF Hmi, VideoNext
<1>6. CASE UNCHANGED all
  BY <1>6 DEF all
<1>7. QED
  BY <1>1, <1>2, <1>3, <1>4, <1>5, <1>6 DEF PathNext

\* The threads see only theirs, and a new start.
LEMMA ThreadSteps ==
  ASSUME [PathNext]_all
  PROVE  [Next]_vars \/ Relaunch
<1>1. CASE CaptureThread
  BY <1>1 DEF CaptureThread, Alone, Next
<1>2. CASE EncoderThread
  BY <1>2 DEF EncoderThread, Alone, EncodeAndPublish, Next, EncoderStep
<1>3. CASE MainThread
  BY <1>3 DEF MainThread, Alone, SetupAndListen, JoinAndStop, Next, MainStep
<1>4. CASE Alone(Signal)
  BY <1>4 DEF Alone, Next
<1>5. CASE Hmi(Poll) \/ Hmi(User) \/ Hmi(DecoderError)
  BY <1>5 DEF Hmi
<1>6. CASE UNCHANGED all
  BY <1>6 DEF all
<1>7. QED
  BY <1>1, <1>2, <1>3, <1>4, <1>5, <1>6 DEF PathNext

-----------------------------------------------------------------------------
(* The invariant.                                                          *)

\* main ends only after the encoder's thread.
LEMMA JoinedKeeps ==
  ASSUME IInv, Joined, [Next]_vars \/ Relaunch
  PROVE  Joined'
<1>1. CASE CaptureStep \/ Signal \/ UNCHANGED vars
  BY <1>1 DEF Joined, CaptureStep, Open, CaptureTop, ReadFrame, ReadFails, CopyFails, Tell,
              Signal, vars
<1>2. CASE EncoderStep
  BY <1>2 DEF Joined, EncoderStep, EncoderInit, EncoderTop, EncoderWait, Encode
<1>3. CASE MainStep
  BY <1>3 DEF Joined, MainStep, Launch, Launched, Setup, EncoderLaunched, Loop, Deadline,
              MainWait, Timeout, Infer, RequestStop, TellStop, Join
<1>4. CASE Relaunch
  BY <1>4 DEF Joined, Relaunch
<1>5. QED
  BY <1>1, <1>2, <1>3, <1>4 DEF Next

\* A new start finds no sleeper of the last one.
LEMMA RelaunchKeeps ==
  ASSUME IInv, Joined, Relaunch
  PROVE  IInv'
<1>1. MaxFailures \in Nat /\ 0 < MaxFailures
  BY FailuresAssumption
<1>2. "encoder" \notin asleep /\ asleep \subseteq Waiter
  BY DEF Joined, Relaunch, IInv, StopOrder, ThreadTypes
<1>3. ThreadTypes'
  BY <1>2 DEF Relaunch, ThreadTypes
<1>4. StartOrder' /\ StopOrder'
  BY <1>2 DEF Relaunch, StartOrder, StopOrder
<1>5. FailureTypes' /\ SlotTypes'
  BY <1>1 DEF Relaunch, FailureTypes, SlotTypes, Slot
<1>6. FramesAccounted' /\ LateBound'
  BY DEF Relaunch, FramesAccounted, LateBound, Slot
<1>7. NoLostWakeup'
  BY <1>2 DEF Relaunch, NoLostWakeup
<1>8. QED
  BY <1>3, <1>4, <1>5, <1>6, <1>7 DEF IInv

\* The invariants of the parts hold in every state of the whole.
THEOREM PathInductive == PathSpec => []PathInv
<1>1. PathInit => PathInv
  BY InitIInv, InitVInv DEF PathInit, PathInv, Joined, Init
<1>2. PathInv /\ [PathNext]_all => PathInv'
  <2> SUFFICES ASSUME PathInv, [PathNext]_all PROVE PathInv'
    OBVIOUS
  <2>1. VInv'
    BY HandoffSteps, VideoStep DEF PathInv
  <2>2. [Next]_vars \/ Relaunch
    BY ThreadSteps
  <2>3. Joined'
    BY <2>2, JoinedKeeps DEF PathInv
  <2>4. CASE [Next]_vars
    <3>1. IInv'
      BY <2>4, CaptureKeeps, EncoderKeeps, MainKeeps, SignalKeeps DEF Next, PathInv
    <3>2. QED
      BY <2>1, <2>3, <3>1 DEF PathInv
  <2>5. CASE Relaunch
    BY <2>1, <2>3, <2>5, RelaunchKeeps DEF PathInv
  <2>6. QED
    BY <2>2, <2>4, <2>5
<1>3. QED
  BY <1>1, <1>2, PTL DEF PathSpec

-----------------------------------------------------------------------------
(* The theorems.                                                           *)

\* The whole is an execution of the handoff: all that is proved of VideoSpec holds with
\* the program's threads around it.
THEOREM PathImplementsHandoff == PathSpec => VideoSpec
<1>1. PathInit => VideoInit
  BY DEF PathInit
<1>2. [PathNext]_all => [VideoNext]_video
  BY HandoffSteps
<1>3. QED
  BY <1>1, <1>2, PTL DEF PathSpec, VideoSpec

\* The decoder at the end of the path gets only what it can decode, over restarts of
\* the program, of the HMI and of their connection.
THEOREM PathImplementsFeed == PathSpec => FeedSpec
  BY PathImplementsHandoff, VideoImplementsFeed, PTL

\* What the encoder publishes and the socket accepts is used by the viewer.
THEOREM PathSentIsUsed == PathSpec => []SentIsUsed
  BY PathImplementsHandoff, WhatIsSentIsUsed, PTL

\* Every variable of both keeps its type, for all thresholds, distances of key frames,
\* buffers and queues.
THEOREM PathTypesHold == PathSpec => []PathTypeOK
<1>1. ThreadTypes /\ FailureTypes /\ SlotTypes /\ late \in Nat => TypeOK
  BY DEF ThreadTypes, FailureTypes, SlotTypes, TypeOK
<1>2. PathInv => ThreadTypes /\ FailureTypes /\ SlotTypes /\ late \in Nat
  BY DEF PathInv, IInv, LateBound
<1>3. QED
  BY <1>1, <1>2, PathInductive, PathImplementsHandoff, VideoTypesHold, PTL DEF PathTypeOK

\* Over any number of starts no frame is processed twice or lost from the counts, no
\* wakeup is lost, and the encoder stops promptly.
THEOREM ThreadsOverStarts ==
  PathSpec => [](FramesAccounted /\ NoLostWakeup /\ StopIsPrompt)
<1>1. PathInv => FramesAccounted /\ NoLostWakeup /\ StopIsPrompt
  BY DEF PathInv, IInv, LateBound, StopIsPrompt
<1>2. QED
  BY <1>1, PathInductive, PTL
=============================================================================
