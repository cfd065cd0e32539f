--------------------------- MODULE CapturePipeline ---------------------------
(***************************************************************************)
(* The threads of userspace/ai_yolov5/src/main.cc: CaptureWorker, which    *)
(* owns the camera, the main thread, which infers, and EncoderWorker, which*)
(* is optional.  Frames pass through two slots that hold the latest frame, *)
(* one for each consumer, under one mutex with one condition variable; the *)
(* same variable carries the end of the camera and the request to stop.    *)
(*                                                                         *)
(* One step is what a thread does under the mutex, or between two uses of  *)
(* it.  A frame is known by the slots it is in.  The content of frames, the*)
(* inference and the encoder are left out, except that they can fail.      *)
(***************************************************************************)
EXTENDS Integers

CONSTANT MaxFailures   \* max_consecutive_capture_failures

ASSUME FailuresAssumption == MaxFailures \in Nat \ {0}

Slot == {"infer", "encode"}
Waiter == {"main", "encoder"}

VARIABLES
  \* The three threads; asleep are those that wait in frame_cv_.
  capture, main, encoder, asleep,
  \* CaptureWorker's fields, under its mutex; has_latest for both slots.
  startup, failures, has_latest, stop_requested, terminal_failure,
  \* Set by the handler of SIGINT, which tells nobody.
  g_stop,
  \* Observations.
  unaccounted,   \* for each slot, frames captured minus frames taken or dropped
  late           \* frames that the encoder took after the request to stop

vars == <<capture, main, encoder, asleep, startup, failures, has_latest, stop_requested,
          terminal_failure, g_stop, unaccounted, late>>

flags == <<stop_requested, terminal_failure, g_stop>>
frames == <<has_latest, unaccounted, late>>

Init ==
  /\ capture = "off" /\ main = "start" /\ encoder = "off" /\ asleep = {}
  /\ startup = "pending" /\ failures = 0
  /\ has_latest = [s \in Slot |-> FALSE]
  /\ stop_requested = FALSE /\ terminal_failure = FALSE /\ g_stop = FALSE
  /\ unaccounted = [s \in Slot |-> 0] /\ late = 0

-----------------------------------------------------------------------------
(* The capture thread.                                                     *)

\* The camera cannot be opened, with or without an exception, or has another format.
Open ==
  /\ capture = "opening"
  /\ \/ capture' = "top" /\ startup' = "ok" /\ UNCHANGED terminal_failure
     \/ capture' = "ended" /\ startup' = "failed"
        /\ terminal_failure' \in {terminal_failure, TRUE}
  /\ UNCHANGED <<main, encoder, asleep, failures, stop_requested, g_stop, frames>>

\* Mutant of CaptureTop: only the signal ends the loop.
CaptureTopOnSignal ==
  /\ capture = "top"
  /\ capture' = IF g_stop THEN "ended" ELSE "reading"
  /\ UNCHANGED <<main, encoder, asleep, startup, failures, flags, frames>>

CaptureTop ==
  /\ capture = "top"
  /\ capture' = IF g_stop \/ stop_requested THEN "ended" ELSE "reading"
  /\ UNCHANGED <<main, encoder, asleep, startup, failures, flags, frames>>

\* Mutant of Dropped: a frame that is overwritten is not counted.
DroppedUnseen(s) == 0

\* dropped_infer and dropped_encode: the frame in the slot is overwritten.
Dropped(s) == IF has_latest[s] THEN 1 ELSE 0

\* Mutant of ReadFrame: a frame is passed on only when the encoder has taken the last.
ReadFrameInStep ==
  /\ capture = "reading"
  /\ failures' = 0
  /\ IF has_latest["encode"]
     THEN capture' = "top" /\ UNCHANGED <<has_latest, unaccounted>>
     ELSE /\ capture' = "telling"
          /\ has_latest' = [s \in Slot |-> TRUE]
          /\ unaccounted' = [s \in Slot |-> unaccounted[s] + 1 - Dropped(s)]
  /\ UNCHANGED <<main, encoder, asleep, startup, flags, late>>

\* A frame goes into both slots.
ReadFrame ==
  /\ capture = "reading"
  /\ capture' = "telling" /\ failures' = 0
  /\ has_latest' = [s \in Slot |-> TRUE]
  /\ unaccounted' = [s \in Slot |-> unaccounted[s] + 1 - Dropped(s)]
  /\ UNCHANGED <<main, encoder, asleep, startup, flags, late>>

\* Mutant of ReadFails: one failure too many.
ReadFailsLate ==
  /\ capture = "reading"
  /\ failures' = failures + 1
  /\ IF failures' > MaxFailures
     THEN capture' = "telling end" /\ terminal_failure' = TRUE
     ELSE capture' = "top" /\ UNCHANGED terminal_failure
  /\ UNCHANGED <<main, encoder, asleep, startup, stop_requested, g_stop, frames>>

\* Reading fails, for the last time after MaxFailures in a row.
ReadFails ==
  /\ capture = "reading"
  /\ failures' = failures + 1
  /\ IF failures' >= MaxFailures
     THEN capture' = "telling end" /\ terminal_failure' = TRUE
     ELSE capture' = "top" /\ UNCHANGED terminal_failure
  /\ UNCHANGED <<main, encoder, asleep, startup, stop_requested, g_stop, frames>>

\* The frame that was read cannot be copied.
CopyFails ==
  /\ capture = "reading"
  /\ capture' = "telling end" /\ terminal_failure' = TRUE
  /\ UNCHANGED <<main, encoder, asleep, startup, failures, stop_requested, g_stop, frames>>

\* notify_all after the mutex was released.
Tell ==
  /\ capture \in {"telling", "telling end"}
  /\ capture' = IF capture = "telling" THEN "top" ELSE "ended"
  /\ asleep' = {}
  /\ UNCHANGED <<main, encoder, startup, failures, flags, frames>>

CaptureStep == Open \/ CaptureTop \/ ReadFrame \/ ReadFails \/ CopyFails \/ Tell

-----------------------------------------------------------------------------
(* The consumers.                                                          *)

TakeFrom(s) ==
  /\ has_latest[s]
  /\ has_latest' = [has_latest EXCEPT ![s] = FALSE]
  /\ unaccounted' = [unaccounted EXCEPT ![s] = @ - 1]

\* Mutant of Waits: the request to stop is not waited for.
WaitsForFrames(s) == ~has_latest[s] /\ ~terminal_failure /\ ~g_stop

\* The predicate of the two waits does not hold.
Waits(s) == ~has_latest[s] /\ ~stop_requested /\ ~terminal_failure /\ ~g_stop

\* EncoderWorker::initialize; main waits for its result.
EncoderInit ==
  /\ encoder = "starting"
  /\ encoder' \in {"top", "ended"}
  /\ UNCHANGED <<capture, main, asleep, startup, failures, flags, frames>>

EncoderTop ==
  /\ encoder = "top"
  /\ encoder' = IF g_stop \/ terminal_failure THEN "ended" ELSE "waiting"
  /\ UNCHANGED <<capture, main, asleep, startup, failures, flags, frames>>

\* wait_take_latest_encode, without a timeout.  A frame is taken even after the
\* request to stop.
EncoderWait ==
  /\ encoder = "waiting" /\ "encoder" \notin asleep
  /\ \/ /\ TakeFrom("encode")
        /\ encoder' = "encoding" /\ asleep' = asleep
        /\ late' = IF stop_requested THEN late + 1 ELSE late
     \/ /\ ~has_latest["encode"] /\ ~Waits("encode")
        /\ encoder' = "ended" /\ asleep' = asleep /\ UNCHANGED frames
     \/ /\ Waits("encode")
        /\ encoder' = encoder /\ asleep' = asleep \union {"encoder"} /\ UNCHANGED frames
  /\ UNCHANGED <<capture, main, startup, failures, flags>>

\* encode_frame, with the publication; its first failure ends the thread.
Encode ==
  /\ encoder = "encoding"
  /\ encoder' \in {"top", "ended"}
  /\ UNCHANGED <<capture, main, asleep, startup, failures, flags, frames>>

EncoderStep == EncoderInit \/ EncoderTop \/ EncoderWait \/ Encode

-----------------------------------------------------------------------------
(* The main thread.                                                        *)

Launch ==
  /\ main = "start"
  /\ main' = "launching" /\ capture' = "opening"
  /\ UNCHANGED <<encoder, asleep, startup, failures, flags, frames>>

\* CaptureWorker::start returns.
Launched ==
  /\ main = "launching" /\ startup # "pending"
  /\ main' = IF startup = "ok" THEN "setup" ELSE "stopping"
  /\ UNCHANGED <<capture, encoder, asleep, startup, failures, flags, frames>>

\* The model is loaded and the encoder's thread is started, or main gives up.
Setup ==
  /\ main = "setup"
  /\ \/ main' = "stopping" /\ UNCHANGED encoder
     \/ main' = "launching encoder" /\ encoder' = "starting"
  /\ UNCHANGED <<capture, asleep, startup, failures, flags, frames>>

\* EncoderWorker::start returns; main goes on without an encoder.
EncoderLaunched ==
  /\ main = "launching encoder" /\ encoder # "starting"
  /\ main' = "loop"
  /\ UNCHANGED <<capture, encoder, asleep, startup, failures, flags, frames>>

\* The loop ends with a signal or with the camera; else the next frame is due.
Loop ==
  /\ main = "loop"
  /\ main' = IF g_stop \/ terminal_failure THEN "stopping" ELSE "waiting"
  /\ UNCHANGED <<capture, encoder, asleep, startup, failures, flags, frames>>

\* duration_sec has passed.
Deadline ==
  /\ main = "loop"
  /\ main' = "stopping"
  /\ UNCHANGED <<capture, encoder, asleep, startup, failures, flags, frames>>

\* wait_take_latest_infer: at once, or after a notification.
MainWait ==
  /\ main = "waiting" /\ "main" \notin asleep
  /\ \/ TakeFrom("infer") /\ main' = "inferring" /\ asleep' = asleep
     \/ /\ ~has_latest["infer"] /\ ~Waits("infer")
        /\ main' = "loop" /\ asleep' = asleep /\ UNCHANGED <<has_latest, unaccounted>>
     \/ /\ Waits("infer")
        /\ main' = main /\ asleep' = asleep \union {"main"}
        /\ UNCHANGED <<has_latest, unaccounted>>
  /\ UNCHANGED <<capture, encoder, startup, failures, flags, late>>

\* Its 5 ms have passed.
Timeout ==
  /\ main = "waiting" /\ "main" \in asleep
  /\ asleep' = asleep \ {"main"}
  /\ \/ TakeFrom("infer") /\ main' = "inferring"
     \/ ~has_latest["infer"] /\ main' = "loop" /\ UNCHANGED <<has_latest, unaccounted>>
  /\ UNCHANGED <<capture, encoder, startup, failures, flags, late>>

\* One inference; an error of the NPU ends the loop.
Infer ==
  /\ main = "inferring"
  /\ main' \in {"loop", "stopping"}
  /\ UNCHANGED <<capture, encoder, asleep, startup, failures, flags, frames>>

RequestStop ==
  /\ main = "stopping"
  /\ main' = "telling" /\ stop_requested' = TRUE
  /\ UNCHANGED <<capture, encoder, asleep, startup, failures, terminal_failure, g_stop, frames>>

\* Mutant of TellStop: the sleepers are not woken.
TellNobody ==
  /\ main = "telling"
  /\ main' = "joining"
  /\ UNCHANGED <<capture, encoder, asleep, startup, failures, flags, frames>>

TellStop ==
  /\ main = "telling"
  /\ main' = "joining" /\ asleep' = {}
  /\ UNCHANGED <<capture, encoder, startup, failures, flags, frames>>

\* encoder_worker.join() and capture_worker.join().
Join ==
  /\ main = "joining"
  /\ encoder \in {"off", "ended"} /\ capture = "ended"
  /\ main' = "ended"
  /\ UNCHANGED <<capture, encoder, asleep, startup, failures, flags, frames>>

MainStep ==
  \/ Launch \/ Launched \/ Setup \/ EncoderLaunched \/ Loop \/ Deadline \/ MainWait
  \/ Timeout \/ Infer \/ RequestStop \/ TellStop \/ Join

\* SIGINT; its handler is installed before the encoder's thread is started.
Signal ==
  /\ encoder # "off" /\ main # "ended" /\ ~g_stop
  /\ g_stop' = TRUE
  /\ UNCHANGED <<capture, main, encoder, asleep, startup, failures, stop_requested,
                 terminal_failure, frames>>

Next == CaptureStep \/ EncoderStep \/ MainStep \/ Signal

\* Threads are scheduled; the camera, the NPU and the encoder answer, if only with
\* an error.  Nothing is assumed of signals.
Fairness == WF_vars(CaptureStep) /\ WF_vars(EncoderStep) /\ WF_vars(MainStep)

Spec == Init /\ [][Next]_vars /\ Fairness

-----------------------------------------------------------------------------
(* Properties.                                                             *)

\* Types of all the variables; the camera is read only while the failures in a row
\* are below the threshold.
TypeOK ==
  /\ capture \in {"off", "opening", "top", "reading", "telling", "telling end", "ended"}
  /\ main \in {"start", "launching", "setup", "launching encoder", "loop", "waiting",
               "inferring", "stopping", "telling", "joining", "ended"}
  /\ encoder \in {"off", "starting", "top", "waiting", "encoding", "ended"}
  /\ asleep \subseteq Waiter /\ startup \in {"pending", "ok", "failed"}
  /\ failures \in 0..MaxFailures /\ (capture \notin {"telling end", "ended"} => failures < MaxFailures)
  /\ has_latest \in [Slot -> BOOLEAN] /\ unaccounted \in [Slot -> Int] /\ late \in Nat
  /\ stop_requested \in BOOLEAN /\ terminal_failure \in BOOLEAN /\ g_stop \in BOOLEAN

\* Each captured frame is, for each consumer, taken once, or counted as dropped, or
\* in the slot: no frame is processed twice and the summary at the end adds up.
FramesAccounted == \A s \in Slot : unaccounted[s] = IF has_latest[s] THEN 1 ELSE 0

\* No wakeup is lost: the encoder, which waits without a timeout, sleeps over a
\* frame, the end of the camera or the request to stop only until the thread that
\* caused it has notified.  (A signal is not notified; its sleepers are woken by the
\* next frame or by the request to stop that follows.)
NoLostWakeup ==
  "encoder" \in asleep =>
    /\ has_latest["encode"] => capture = "telling"
    /\ terminal_failure => capture = "telling end"
    /\ stop_requested => main = "telling"

\* Shutdown is prompt: after the request to stop the encoder still takes at most
\* the frame in its slot and the one that is being read.
StopIsPrompt == late <= 2

\* A signal, the end of the camera and a request to stop end all the threads.
ShutdownCompletes ==
  g_stop \/ terminal_failure \/ stop_requested ~> main = "ended"

\* Inference goes on whatever becomes of the encoder, until main is told to stop.
InferenceGoesOn == main = "loop" ~> main \in {"inferring", "stopping"}
=============================================================================
