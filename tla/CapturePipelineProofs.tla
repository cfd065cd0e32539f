------------------------ MODULE CapturePipelineProofs ------------------------
(***************************************************************************)
(* Theorems about the threads of the AI process, for every threshold of    *)
(* failures in a row.                                                      *)
(***************************************************************************)
EXTENDS CapturePipeline, TLAPS

-----------------------------------------------------------------------------
(* The inductive invariant.                                                *)

\* TypeOK, in parts.
ThreadTypes ==
  /\ capture \in {"off", "opening", "top", "reading", "telling", "telling end", "ended"}
  /\ main \in {"start", "launching", "setup", "launching encoder", "loop", "waiting",
               "inferring", "stopping", "telling", "joining", "ended"}
  /\ encoder \in {"off", "starting", "top", "waiting", "encoding", "ended"}
  /\ asleep \subseteq Waiter /\ startup \in {"pending", "ok", "failed"}
  /\ stop_requested \in BOOLEAN /\ terminal_failure \in BOOLEAN /\ g_stop \in BOOLEAN

FailureTypes ==
  /\ failures \in 0..MaxFailures
  /\ capture \notin {"telling end", "ended"} => failures < MaxFailures
SlotTypes == has_latest \in [Slot -> BOOLEAN] /\ unaccounted \in [Slot -> Int]

\* Who has been started when: the camera is opened before main goes on, and the
\* encoder is started by a main that knows of the camera.
StartOrder ==
  /\ main = "start" => capture = "off"
  /\ main \in {"start", "launching", "setup"} => encoder = "off" /\ ~stop_requested
  /\ capture \in {"off", "opening"} => main \in {"start", "launching"}
  /\ startup # "pending" => capture \notin {"off", "opening"}
  /\ main \notin {"start", "launching"} => startup # "pending"

\* The request to stop is one of main's last steps, and only a waiting encoder
\* sleeps.
StopOrder ==
  /\ stop_requested <=> main \in {"telling", "joining", "ended"}
  /\ "encoder" \in asleep => encoder = "waiting"

\* What the encoder can still take after the request to stop.
LateBound ==
  /\ late \in 0..2 /\ (~stop_requested => late = 0)
  /\ has_latest["encode"] \/ capture = "reading" => late <= 1
  /\ has_latest["encode"] /\ capture = "reading" => late = 0

IInv ==
  /\ ThreadTypes /\ FailureTypes /\ SlotTypes /\ StartOrder /\ StopOrder
  /\ FramesAccounted /\ NoLostWakeup /\ LateBound

-----------------------------------------------------------------------------
(* The initial states and the steps.                                       *)

\* The initial state satisfies the invariant.
LEMMA InitIInv == Init => IInv
<1> SUFFICES ASSUME Init PROVE IInv
  OBVIOUS
<1>1. MaxFailures \in Nat /\ 0 < MaxFailures
  BY FailuresAssumption
<1>2. ThreadTypes /\ StartOrder /\ StopOrder
  BY DEF Init, ThreadTypes, StartOrder, StopOrder, Waiter
<1>3. FailureTypes /\ SlotTypes
  BY <1>1 DEF Init, FailureTypes, SlotTypes, Slot
<1>4. FramesAccounted /\ NoLostWakeup /\ LateBound
  BY DEF Init, FramesAccounted, NoLostWakeup, LateBound, Slot
<1>5. QED
  BY <1>2, <1>3, <1>4 DEF IInv

\* A frame that is taken leaves the accounts of its slot balanced, and the other slot
\* alone.
LEMMA TakeEffect ==
  ASSUME SlotTypes, FramesAccounted, NEW s \in Slot, TakeFrom(s)
  PROVE  /\ SlotTypes' /\ FramesAccounted'
         /\ has_latest[s] /\ ~has_latest'[s]
         /\ \A x \in Slot \ {s} : has_latest'[x] = has_latest[x]
<1>1. /\ has_latest' = [has_latest EXCEPT ![s] = FALSE]
      /\ unaccounted' = [unaccounted EXCEPT ![s] = @ - 1]
  BY DEF TakeFrom
<1>2. has_latest' \in [Slot -> BOOLEAN]
  BY <1>1 DEF SlotTypes
<1>3. unaccounted[s] \in Int
  BY DEF SlotTypes
<1>4. unaccounted' \in [Slot -> Int]
  BY <1>1, <1>3 DEF SlotTypes
<1>5. has_latest[s] /\ unaccounted[s] = 1
  BY DEF TakeFrom, FramesAccounted
<1>6. ~has_latest'[s] /\ unaccounted'[s] = 0
  BY <1>1, <1>5 DEF SlotTypes
<1>7. \A x \in Slot \ {s} : has_latest'[x] = has_latest[x] /\ unaccounted'[x] = unaccounted[x]
  BY <1>1 DEF SlotTypes
<1>8. QED
  BY <1>2, <1>4, <1>5, <1>6, <1>7 DEF SlotTypes, FramesAccounted

\* A new frame fills both slots; what it overwrites is dropped.
LEMMA ReadEffect ==
  ASSUME SlotTypes, FramesAccounted, ReadFrame
  PROVE  SlotTypes' /\ FramesAccounted' /\ has_latest'["encode"]
<1>1. /\ has_latest' = [s \in Slot |-> TRUE]
      /\ unaccounted' = [s \in Slot |-> unaccounted[s] + 1 - Dropped(s)]
  BY DEF ReadFrame
<1>2. \A s \in Slot : unaccounted[s] + 1 - Dropped(s) = 1
  BY DEF FramesAccounted, Dropped
<1>3. QED
  BY <1>1, <1>2 DEF SlotTypes, FramesAccounted, Slot

\* The capture thread keeps the invariant.
LEMMA CaptureKeeps ==
  ASSUME IInv, CaptureStep
  PROVE  IInv'
<1>0. MaxFailures \in Nat /\ 0 < MaxFailures
  BY FailuresAssumption
<1>1. CASE Open
  <2>1. ThreadTypes'
    BY <1>1 DEF IInv, Open, frames, ThreadTypes, Waiter
  <2>2. StartOrder' /\ StopOrder'
    BY <1>1 DEF IInv, Open, frames, ThreadTypes, StartOrder, StopOrder
  <2>3. FailureTypes'
    BY <1>0, <1>1 DEF IInv, Open, frames, FailureTypes, ThreadTypes
  <2>4. SlotTypes' /\ FramesAccounted'
    BY <1>1 DEF IInv, Open, frames, SlotTypes, FramesAccounted
  <2>5. NoLostWakeup'
    BY <1>1 DEF IInv, Open, frames, NoLostWakeup, ThreadTypes, StopOrder, StartOrder
  <2>6. LateBound'
    BY <1>1 DEF IInv, Open, frames, LateBound, StopOrder, ThreadTypes
  <2>7. QED
    BY <2>1, <2>2, <2>3, <2>4, <2>5, <2>6 DEF IInv
<1>2. CASE CaptureTop
  <2>1. ThreadTypes'
    BY <1>2 DEF IInv, CaptureTop, flags, frames, ThreadTypes, Waiter
  <2>2. StartOrder' /\ StopOrder'
    BY <1>2 DEF IInv, CaptureTop, flags, frames, ThreadTypes, StartOrder, StopOrder
  <2>3. FailureTypes'
    BY <1>2 DEF IInv, CaptureTop, flags, frames, FailureTypes, ThreadTypes
  <2>4. SlotTypes' /\ FramesAccounted'
    BY <1>2 DEF IInv, CaptureTop, flags, frames, SlotTypes, FramesAccounted
  <2>5. NoLostWakeup'
    BY <1>2 DEF IInv, CaptureTop, flags, frames, NoLostWakeup, ThreadTypes, StopOrder, StartOrder
  <2>6. LateBound'
    <3>1. capture' = "reading" => ~stop_requested
      BY <1>2 DEF CaptureTop
    <3>2. UNCHANGED <<late, has_latest, stop_requested>>
      BY <1>2 DEF CaptureTop, flags, frames
    <3>3. QED
      BY <3>1, <3>2 DEF IInv, LateBound
  <2>7. QED
    BY <2>1, <2>2, <2>3, <2>4, <2>5, <2>6 DEF IInv
<1>3. CASE ReadFrame
  <2>1. ThreadTypes'
    BY <1>3 DEF IInv, ReadFrame, flags, ThreadTypes, Waiter
  <2>2. StartOrder' /\ StopOrder'
    BY <1>3 DEF IInv, ReadFrame, flags, ThreadTypes, StartOrder, StopOrder
  <2>3. FailureTypes'
    <3>1. failures' = 0 /\ capture' = "telling"
      BY <1>3 DEF ReadFrame
    <3>2. QED
      BY <1>0, <3>1 DEF FailureTypes
  <2>4. SlotTypes' /\ FramesAccounted' /\ has_latest'["encode"]
    BY <1>3, ReadEffect DEF IInv
  <2>5. NoLostWakeup'
    BY <1>3 DEF IInv, ReadFrame, flags, NoLostWakeup, ThreadTypes, StopOrder, StartOrder
  <2>6. LateBound'
    BY <1>3, <2>4 DEF IInv, ReadFrame, flags, LateBound, StopOrder, ThreadTypes
  <2>7. QED
    BY <2>1, <2>2, <2>3, <2>4, <2>5, <2>6 DEF IInv
<1>4. CASE ReadFails
  <2>1. ThreadTypes'
    BY <1>4 DEF IInv, ReadFails, frames, ThreadTypes, Waiter
  <2>2. StartOrder' /\ StopOrder'
    BY <1>4 DEF IInv, ReadFails, frames, ThreadTypes, StartOrder, StopOrder
  <2>3. FailureTypes'
    <3>1. failures \in Nat /\ failures < MaxFailures
      <4>1. capture = "reading" /\ FailureTypes
        BY <1>4 DEF ReadFails, IInv
      <4>2. QED
        BY <1>0, <4>1 DEF FailureTypes
    <3>2. failures' = failures + 1
      BY <1>4 DEF ReadFails
    <3>3. failures' \in 0..MaxFailures
      BY <1>0, <3>1, <3>2
    <3>4. failures' >= MaxFailures => capture' = "telling end"
      BY <1>4 DEF ReadFails
    <3>5. failures' < MaxFailures \/ failures' >= MaxFailures
      BY <1>0, <3>3
    <3>6. QED
      BY <3>3, <3>4, <3>5 DEF FailureTypes
  <2>4. SlotTypes' /\ FramesAccounted'
    BY <1>4 DEF IInv, ReadFails, frames, SlotTypes, FramesAccounted
  <2>5. NoLostWakeup'
    BY <1>4 DEF IInv, ReadFails, frames, NoLostWakeup, ThreadTypes, StopOrder, StartOrder
  <2>6. LateBound'
    BY <1>4 DEF IInv, ReadFails, frames, LateBound, StopOrder, ThreadTypes
  <2>7. QED
    BY <2>1, <2>2, <2>3, <2>4, <2>5, <2>6 DEF IInv
<1>5. CASE CopyFails
  <2>1. ThreadTypes'
    BY <1>5 DEF IInv, CopyFails, frames, ThreadTypes, Waiter
  <2>2. StartOrder' /\ StopOrder'
    BY <1>5 DEF IInv, CopyFails, frames, ThreadTypes, StartOrder, StopOrder
  <2>3. FailureTypes'
    BY <1>0, <1>5 DEF IInv, CopyFails, frames, FailureTypes, ThreadTypes
  <2>4. SlotTypes' /\ FramesAccounted'
    BY <1>5 DEF IInv, CopyFails, frames, SlotTypes, FramesAccounted
  <2>5. NoLostWakeup'
    BY <1>5 DEF IInv, CopyFails, frames, NoLostWakeup, ThreadTypes, StopOrder, StartOrder
  <2>6. LateBound'
    BY <1>5 DEF IInv, CopyFails, frames, LateBound, StopOrder, ThreadTypes
  <2>7. QED
    BY <2>1, <2>2, <2>3, <2>4, <2>5, <2>6 DEF IInv
<1>6. CASE Tell
  <2>1. ThreadTypes'
    BY <1>6 DEF IInv, Tell, flags, frames, ThreadTypes, Waiter
  <2>2. StartOrder' /\ StopOrder'
    BY <1>6 DEF IInv, Tell, flags, frames, ThreadTypes, StartOrder, StopOrder
  <2>3. FailureTypes'
    BY <1>6 DEF IInv, Tell, flags, frames, FailureTypes, ThreadTypes
  <2>4. SlotTypes' /\ FramesAccounted'
    BY <1>6 DEF IInv, Tell, flags, frames, SlotTypes, FramesAccounted
  <2>5. NoLostWakeup'
    BY <1>6 DEF IInv, Tell, flags, frames, NoLostWakeup, ThreadTypes, StopOrder, StartOrder
  <2>6. LateBound'
    BY <1>6 DEF IInv, Tell, flags, frames, LateBound, StopOrder, ThreadTypes
  <2>7. QED
    BY <2>1, <2>2, <2>3, <2>4, <2>5, <2>6 DEF IInv
<1>7. QED
  BY <1>1, <1>2, <1>3, <1>4, <1>5, <1>6 DEF CaptureStep

\* The encoder keeps the invariant.
LEMMA EncoderKeeps ==
  ASSUME IInv, EncoderStep
  PROVE  IInv'
<1>1. CASE EncoderInit
  <2>1. ThreadTypes'
    BY <1>1 DEF IInv, EncoderInit, flags, frames, ThreadTypes, Waiter
  <2>2. StartOrder' /\ StopOrder'
    BY <1>1 DEF IInv, EncoderInit, flags, frames, ThreadTypes, StartOrder, StopOrder
  <2>3. FailureTypes'
    BY <1>1 DEF IInv, EncoderInit, flags, frames, FailureTypes, ThreadTypes
  <2>4. SlotTypes' /\ FramesAccounted'
    BY <1>1 DEF IInv, EncoderInit, flags, frames, SlotTypes, FramesAccounted
  <2>5. NoLostWakeup'
    BY <1>1 DEF IInv, EncoderInit, flags, frames, NoLostWakeup, ThreadTypes, StopOrder, StartOrder
  <2>6. LateBound'
    BY <1>1 DEF IInv, EncoderInit, flags, frames, LateBound, StopOrder, ThreadTypes
  <2>7. QED
    BY <2>1, <2>2, <2>3, <2>4, <2>5, <2>6 DEF IInv
<1>2. CASE EncoderTop
  <2>1. ThreadTypes'
    BY <1>2 DEF IInv, EncoderTop, flags, frames, ThreadTypes, Waiter
  <2>2. StartOrder' /\ StopOrder'
    BY <1>2 DEF IInv, EncoderTop, flags, frames, ThreadTypes, StartOrder, StopOrder
  <2>3. FailureTypes'
    BY <1>2 DEF IInv, EncoderTop, flags, frames, FailureTypes, ThreadTypes
  <2>4. SlotTypes' /\ FramesAccounted'
    BY <1>2 DEF IInv, EncoderTop, flags, frames, SlotTypes, FramesAccounted
  <2>5. NoLostWakeup'
    BY <1>2 DEF IInv, EncoderTop, flags, frames, NoLostWakeup, ThreadTypes, StopOrder, StartOrder
  <2>6. LateBound'
    BY <1>2 DEF IInv, EncoderTop, flags, frames, LateBound, StopOrder, ThreadTypes
  <2>7. QED
    BY <2>1, <2>2, <2>3, <2>4, <2>5, <2>6 DEF IInv
<1>3. CASE EncoderWait
  <2>1. ThreadTypes' /\ StartOrder' /\ StopOrder' /\ FailureTypes'
    BY <1>3 DEF IInv, EncoderWait, flags, ThreadTypes, Waiter, StartOrder, StopOrder, FailureTypes
  <2>2. CASE TakeFrom("encode")
    <3>1. /\ SlotTypes' /\ FramesAccounted'
          /\ has_latest["encode"] /\ ~has_latest'["encode"]
      BY <2>2, TakeEffect DEF IInv, Slot
    <3>2. NoLostWakeup'
      BY <1>3, <2>2, <3>1 DEF IInv, EncoderWait, flags, NoLostWakeup, Waits
    <3>3. LateBound'
      BY <1>3, <2>2, <3>1 DEF IInv, EncoderWait, flags, LateBound, Waits
    <3>4. QED
      BY <2>1, <3>1, <3>2, <3>3 DEF IInv
  <2>3. CASE UNCHANGED frames
    <3>1. SlotTypes' /\ FramesAccounted' /\ LateBound'
      BY <1>3, <2>3 DEF IInv, EncoderWait, flags, frames, SlotTypes, FramesAccounted, LateBound
    <3>2. NoLostWakeup'
      BY <1>3, <2>3 DEF IInv, EncoderWait, flags, frames, NoLostWakeup, Waits
    <3>3. QED
      BY <2>1, <3>1, <3>2 DEF IInv
  <2>4. QED
    BY <1>3, <2>2, <2>3 DEF EncoderWait
<1>4. CASE Encode
  <2>1. ThreadTypes'
    BY <1>4 DEF IInv, Encode, flags, frames, ThreadTypes, Waiter
  <2>2. StartOrder' /\ StopOrder'
    BY <1>4 DEF IInv, Encode, flags, frames, ThreadTypes, StartOrder, StopOrder
  <2>3. FailureTypes'
    BY <1>4 DEF IInv, Encode, flags, frames, FailureTypes, ThreadTypes
  <2>4. SlotTypes' /\ FramesAccounted'
    BY <1>4 DEF IInv, Encode, flags, frames, SlotTypes, FramesAccounted
  <2>5. NoLostWakeup'
    BY <1>4 DEF IInv, Encode, flags, frames, NoLostWakeup, ThreadTypes, StopOrder, StartOrder
  <2>6. LateBound'
    BY <1>4 DEF IInv, Encode, flags, frames, LateBound, StopOrder, ThreadTypes
  <2>7. QED
    BY <2>1, <2>2, <2>3, <2>4, <2>5, <2>6 DEF IInv
<1>5. QED
  BY <1>1, <1>2, <1>3, <1>4 DEF EncoderStep

\* The main thread keeps the invariant.
LEMMA MainKeeps ==
  ASSUME IInv, MainStep
  PROVE  IInv'
<1>0. MaxFailures \in Nat /\ 0 < MaxFailures
  BY FailuresAssumption
<1>1. CASE Launch
  <2>1. ThreadTypes'
    BY <1>1 DEF IInv, Launch, flags, frames, ThreadTypes, Waiter
  <2>2. StartOrder' /\ StopOrder'
    BY <1>1 DEF IInv, Launch, flags, frames, ThreadTypes, StartOrder, StopOrder
  <2>3. FailureTypes'
    BY <1>0, <1>1 DEF IInv, Launch, FailureTypes, StartOrder
  <2>4. SlotTypes' /\ FramesAccounted'
    BY <1>1 DEF IInv, Launch, flags, frames, SlotTypes, FramesAccounted
  <2>5. NoLostWakeup'
    BY <1>1 DEF IInv, Launch, flags, frames, NoLostWakeup, ThreadTypes, StopOrder, StartOrder
  <2>6. LateBound'
    BY <1>1 DEF IInv, Launch, flags, frames, LateBound, StopOrder, ThreadTypes
  <2>7. QED
    BY <2>1, <2>2, <2>3, <2>4, <2>5, <2>6 DEF IInv
<1>2. CASE Launched
  <2>1. ThreadTypes'
    BY <1>2 DEF IInv, Launched, flags, frames, ThreadTypes, Waiter
  <2>2. StartOrder' /\ StopOrder'
    BY <1>2 DEF IInv, Launched, flags, frames, ThreadTypes, StartOrder, StopOrder
  <2>3. FailureTypes'
    BY <1>2 DEF IInv, Launched, flags, frames, FailureTypes, ThreadTypes
  <2>4. SlotTypes' /\ FramesAccounted'
    BY <1>2 DEF IInv, Launched, flags, frames, SlotTypes, FramesAccounted
  <2>5. NoLostWakeup'
    BY <1>2 DEF IInv, Launched, flags, frames, NoLostWakeup, ThreadTypes, StopOrder, StartOrder
  <2>6. LateBound'
    BY <1>2 DEF IInv, Launched, flags, frames, LateBound, StopOrder, ThreadTypes
  <2>7. QED
    BY <2>1, <2>2, <2>3, <2>4, <2>5, <2>6 DEF IInv
<1>3. CASE Setup
  <2>1. ThreadTypes'
    BY <1>3 DEF IInv, Setup, flags, frames, ThreadTypes, Waiter
  <2>2. StartOrder' /\ StopOrder'
    BY <1>3 DEF IInv, Setup, flags, frames, ThreadTypes, StartOrder, StopOrder
  <2>3. FailureTypes'
    BY <1>3 DEF IInv, Setup, flags, frames, FailureTypes, ThreadTypes
  <2>4. SlotTypes' /\ FramesAccounted'
    BY <1>3 DEF IInv, Setup, flags, frames, SlotTypes, FramesAccounted
  <2>5. NoLostWakeup'
    BY <1>3 DEF IInv, Setup, flags, frames, NoLostWakeup, ThreadTypes, StopOrder, StartOrder
  <2>6. LateBound'
    BY <1>3 DEF IInv, Setup, flags, frames, LateBound, StopOrder, ThreadTypes
  <2>7. QED
    BY <2>1, <2>2, <2>3, <2>4, <2>5, <2>6 DEF IInv
<1>4. CASE EncoderLaunched
  <2>1. ThreadTypes'
    BY <1>4 DEF IInv, EncoderLaunched, flags, frames, ThreadTypes, Waiter
  <2>2. StartOrder' /\ StopOrder'
    BY <1>4 DEF IInv, EncoderLaunched, flags, frames, ThreadTypes, StartOrder, StopOrder
  <2>3. FailureTypes'
    BY <1>4 DEF IInv, EncoderLaunched, flags, frames, FailureTypes, ThreadTypes
  <2>4. SlotTypes' /\ FramesAccounted'
    BY <1>4 DEF IInv, EncoderLaunched, flags, frames, SlotTypes, FramesAccounted
  <2>5. NoLostWakeup'
    BY <1>4 DEF IInv, EncoderLaunched, flags, frames, NoLostWakeup, ThreadTypes, StopOrder, StartOrder
  <2>6. LateBound'
    BY <1>4 DEF IInv, EncoderLaunched, flags, frames, LateBound, StopOrder, ThreadTypes
  <2>7. QED
    BY <2>1, <2>2, <2>3, <2>4, <2>5, <2>6 DEF IInv
<1>5. CASE Loop
  <2>1. ThreadTypes'
    BY <1>5 DEF IInv, Loop, flags, frames, ThreadTypes, Waiter
  <2>2. StartOrder' /\ StopOrder'
    BY <1>5 DEF IInv, Loop, flags, frames, ThreadTypes, StartOrder, StopOrder
  <2>3. FailureTypes'
    BY <1>5 DEF IInv, Loop, flags, frames, FailureTypes, ThreadTypes
  <2>4. SlotTypes' /\ FramesAccounted'
    BY <1>5 DEF IInv, Loop, flags, frames, SlotTypes, FramesAccounted
  <2>5. NoLostWakeup'
    BY <1>5 DEF IInv, Loop, flags, frames, NoLostWakeup, ThreadTypes, StopOrder, StartOrder
  <2>6. LateBound'
    BY <1>5 DEF IInv, Loop, flags, frames, LateBound, StopOrder, ThreadTypes
  <2>7. QED
    BY <2>1, <2>2, <2>3, <2>4, <2>5, <2>6 DEF IInv
<1>6. CASE Deadline
  <2>1. ThreadTypes'
    BY <1>6 DEF IInv, Deadline, flags, frames, ThreadTypes, Waiter
  <2>2. StartOrder' /\ StopOrder'
    BY <1>6 DEF IInv, Deadline, flags, frames, ThreadTypes, StartOrder, StopOrder
  <2>3. FailureTypes'
    BY <1>6 DEF IInv, Deadline, flags, frames, FailureTypes, ThreadTypes
  <2>4. SlotTypes' /\ FramesAccounted'
    BY <1>6 DEF IInv, Deadline, flags, frames, SlotTypes, FramesAccounted
  <2>5. NoLostWakeup'
    BY <1>6 DEF IInv, Deadline, flags, frames, NoLostWakeup, ThreadTypes, StopOrder, StartOrder
  <2>6. LateBound'
    BY <1>6 DEF IInv, Deadline, flags, frames, LateBound, StopOrder, ThreadTypes
  <2>7. QED
    BY <2>1, <2>2, <2>3, <2>4, <2>5, <2>6 DEF IInv
<1>7. CASE MainWait
  <2>1. ThreadTypes' /\ StartOrder' /\ StopOrder' /\ FailureTypes'
    BY <1>7 DEF IInv, MainWait, flags, ThreadTypes, Waiter, StartOrder, StopOrder, FailureTypes
  <2>2. CASE TakeFrom("infer")
    <3>1. /\ SlotTypes' /\ FramesAccounted'
          /\ has_latest'["encode"] = has_latest["encode"]
      BY <2>2, TakeEffect DEF IInv, Slot
    <3>2. NoLostWakeup' /\ LateBound'
      BY <1>7, <3>1 DEF IInv, MainWait, flags, NoLostWakeup, LateBound
    <3>3. QED
      BY <2>1, <3>1, <3>2 DEF IInv
  <2>3. CASE UNCHANGED <<has_latest, unaccounted>>
    <3>1. SlotTypes' /\ FramesAccounted' /\ NoLostWakeup' /\ LateBound'
      BY <1>7, <2>3 DEF IInv, MainWait, flags, SlotTypes, FramesAccounted, NoLostWakeup, LateBound
    <3>2. QED
      BY <2>1, <3>1 DEF IInv
  <2>4. QED
    BY <1>7, <2>2, <2>3 DEF MainWait
<1>8. CASE Timeout
  <2>1. ThreadTypes' /\ StartOrder' /\ StopOrder' /\ FailureTypes'
    BY <1>8 DEF IInv, Timeout, flags, ThreadTypes, Waiter, StartOrder, StopOrder, FailureTypes
  <2>2. CASE TakeFrom("infer")
    <3>1. /\ SlotTypes' /\ FramesAccounted'
          /\ has_latest'["encode"] = has_latest["encode"]
      BY <2>2, TakeEffect DEF IInv, Slot
    <3>2. NoLostWakeup' /\ LateBound'
      BY <1>8, <3>1 DEF IInv, Timeout, flags, NoLostWakeup, LateBound
    <3>3. QED
      BY <2>1, <3>1, <3>2 DEF IInv
  <2>3. CASE UNCHANGED <<has_latest, unaccounted>>
    <3>1. SlotTypes' /\ FramesAccounted' /\ NoLostWakeup' /\ LateBound'
      BY <1>8, <2>3 DEF IInv, Timeout, flags, SlotTypes, FramesAccounted, NoLostWakeup, LateBound
    <3>2. QED
      BY <2>1, <3>1 DEF IInv
  <2>4. QED
    BY <1>8, <2>2, <2>3 DEF Timeout
<1>9. CASE Infer
  <2>1. ThreadTypes'
    BY <1>9 DEF IInv, Infer, flags, frames, ThreadTypes, Waiter
  <2>2. StartOrder' /\ StopOrder'
    BY <1>9 DEF IInv, Infer, flags, frames, ThreadTypes, StartOrder, StopOrder
  <2>3. FailureTypes'
    BY <1>9 DEF IInv, Infer, flags, frames, FailureTypes, ThreadTypes
  <2>4. SlotTypes' /\ FramesAccounted'
    BY <1>9 DEF IInv, Infer, flags, frames, SlotTypes, FramesAccounted
  <2>5. NoLostWakeup'
    BY <1>9 DEF IInv, Infer, flags, frames, NoLostWakeup, ThreadTypes, StopOrder, StartOrder
  <2>6. LateBound'
    BY <1>9 DEF IInv, Infer, flags, frames, LateBound, StopOrder, ThreadTypes
  <2>7. QED
    BY <2>1, <2>2, <2>3, <2>4, <2>5, <2>6 DEF IInv
<1>10. CASE RequestStop
  <2>1. ThreadTypes'
    BY <1>10 DEF IInv, RequestStop, frames, ThreadTypes, Waiter
  <2>2. StartOrder' /\ StopOrder'
    BY <1>10 DEF IInv, RequestStop, frames, ThreadTypes, StartOrder, StopOrder
  <2>3. FailureTypes'
    BY <1>10 DEF IInv, RequestStop, frames, FailureTypes, ThreadTypes
  <2>4. SlotTypes' /\ FramesAccounted'
    BY <1>10 DEF IInv, RequestStop, frames, SlotTypes, FramesAccounted
  <2>5. NoLostWakeup'
    BY <1>10 DEF IInv, RequestStop, frames, NoLostWakeup, ThreadTypes, StopOrder, StartOrder
  <2>6. LateBound'
    BY <1>10 DEF IInv, RequestStop, frames, LateBound, StopOrder, ThreadTypes
  <2>7. QED
    BY <2>1, <2>2, <2>3, <2>4, <2>5, <2>6 DEF IInv
<1>11. CASE TellStop
  <2>1. ThreadTypes'
    BY <1>11 DEF IInv, TellStop, flags, frames, ThreadTypes, Waiter
  <2>2. StartOrder' /\ StopOrder'
    BY <1>11 DEF IInv, TellStop, flags, frames, ThreadTypes, StartOrder, StopOrder
  <2>3. FailureTypes'
    BY <1>11 DEF IInv, TellStop, flags, frames, FailureTypes, ThreadTypes
  <2>4. SlotTypes' /\ FramesAccounted'
    BY <1>11 DEF IInv, TellStop, flags, frames, SlotTypes, FramesAccounted
  <2>5. NoLostWakeup'
    BY <1>11 DEF IInv, TellStop, flags, frames, NoLostWakeup, ThreadTypes, StopOrder, StartOrder
  <2>6. LateBound'
    BY <1>11 DEF IInv, TellStop, flags, frames, LateBound, StopOrder, ThreadTypes
  <2>7. QED
    BY <2>1, <2>2, <2>3, <2>4, <2>5, <2>6 DEF IInv
<1>12. CASE Join
  <2>1. ThreadTypes'
    BY <1>12 DEF IInv, Join, flags, frames, ThreadTypes, Waiter
  <2>2. StartOrder' /\ StopOrder'
    BY <1>12 DEF IInv, Join, flags, frames, ThreadTypes, StartOrder, StopOrder
  <2>3. FailureTypes'
    BY <1>12 DEF IInv, Join, flags, frames, FailureTypes, ThreadTypes
  <2>4. SlotTypes' /\ FramesAccounted'
    BY <1>12 DEF IInv, Join, flags, frames, SlotTypes, FramesAccounted
  <2>5. NoLostWakeup'
    BY <1>12 DEF IInv, Join, flags, frames, NoLostWakeup, ThreadTypes, StopOrder, StartOrder
  <2>6. LateBound'
    BY <1>12 DEF IInv, Join, flags, frames, LateBound, StopOrder, ThreadTypes
  <2>7. QED
    BY <2>1, <2>2, <2>3, <2>4, <2>5, <2>6 DEF IInv
<1>13. QED
  BY <1>1, <1>2, <1>3, <1>4, <1>5, <1>6, <1>7, <1>8, <1>9, <1>10, <1>11, <1>12 DEF MainStep

\* The handler of SIGINT keeps the invariant, and so does a step of no thread.
LEMMA SignalKeeps ==
  ASSUME IInv, Signal \/ UNCHANGED vars
  PROVE  IInv'
<1>1. UNCHANGED <<capture, main, encoder, asleep, startup, failures, stop_requested,
                  terminal_failure, has_latest, unaccounted, late>>
  BY DEF Signal, vars, frames
<1>2. g_stop' \in BOOLEAN
  BY DEF IInv, ThreadTypes, Signal, vars
<1>3. ThreadTypes'
  BY <1>1, <1>2 DEF IInv, ThreadTypes
<1>4. StartOrder' /\ StopOrder' /\ FailureTypes'
  BY <1>1 DEF IInv, StartOrder, StopOrder, FailureTypes
<1>5. SlotTypes' /\ FramesAccounted'
  BY <1>1 DEF IInv, SlotTypes, FramesAccounted
<1>6. NoLostWakeup' /\ LateBound'
  BY <1>1 DEF IInv, NoLostWakeup, LateBound
<1>7. QED
  BY <1>3, <1>4, <1>5, <1>6 DEF IInv

-----------------------------------------------------------------------------
(* The theorems.                                                           *)

\* The invariant holds in every state.
THEOREM Inductive == Spec => []IInv
<1>1. IInv /\ [Next]_vars => IInv'
  BY CaptureKeeps, EncoderKeeps, MainKeeps, SignalKeeps DEF Next
<1>2. QED
  BY InitIInv, <1>1, PTL DEF Spec

\* Types; the camera is not read any more after the last tolerated failure.
THEOREM TypeCorrect == Spec => []TypeOK
<1>1. ThreadTypes /\ FailureTypes /\ SlotTypes /\ late \in Nat => TypeOK
  BY DEF ThreadTypes, FailureTypes, SlotTypes, TypeOK
<1>2. IInv => ThreadTypes /\ FailureTypes /\ SlotTypes /\ late \in Nat
  BY DEF IInv, LateBound
<1>3. QED
  BY Inductive, <1>1, <1>2, PTL

\* No frame is processed twice or lost from the counts.
THEOREM FramesAddUp == Spec => []FramesAccounted
<1>1. IInv => FramesAccounted
  BY DEF IInv
<1>2. QED
  BY Inductive, <1>1, PTL

\* The encoder never sleeps over a frame, the end of the camera or the request to
\* stop whose notification has been given.
THEOREM WakeupsArrive == Spec => []NoLostWakeup
<1>1. IInv => NoLostWakeup
  BY DEF IInv
<1>2. QED
  BY Inductive, <1>1, PTL

\* After the request to stop the encoder takes at most two more frames.
THEOREM PromptStop == Spec => []StopIsPrompt
<1>1. IInv => StopIsPrompt
  BY DEF IInv, LateBound, StopIsPrompt
<1>2. QED
  BY Inductive, <1>1, PTL
==============================================================================
