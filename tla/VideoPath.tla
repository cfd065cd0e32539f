------------------------------- MODULE VideoPath -------------------------------
(***************************************************************************)
(* ai_yolov5 with its viewer: the threads of CapturePipeline, whose encoder *)
(* publishes each access unit through VideoHandoff to the HMI.              *)
(*                                                                         *)
(* Both are large, so an execution has either trouble or a viewer: without  *)
(* a viewer the camera and the start of the publisher may fail and signals  *)
(* arrive; with one they do not, and the program ends by its deadline, an   *)
(* NPU error or a camera that cannot be opened.  The encoder may fail in    *)
(* both, and the program is started again.                                  *)
(***************************************************************************)
EXTENDS CapturePipeline, VideoHandoff

all == <<vars, video>>

PathInit == Init /\ VideoInit

Calm == viewer # "none" => ~terminal_failure' /\ ~g_stop' /\ failures' = 0

\* What a thread does on its own.
Alone(step) == step /\ Calm /\ UNCHANGED video

CaptureThread == Alone(CaptureStep)

\* encode_frame ends with publish.
EncodeAndPublish ==
  /\ Encode /\ encoder' = "top"
  /\ Publish

EncoderThread ==
  \/ Alone(EncoderInit \/ EncoderTop \/ EncoderWait \/ (Encode /\ encoder' = "ended"))
  \/ EncodeAndPublish

\* The publisher is started before the encoder, and stopped by its destructor.
SetupAndListen ==
  /\ Setup /\ main' = "launching encoder"
  /\ StartPublisher /\ (viewer # "none" => listening')

JoinAndStop == Join /\ StopPublisher

MainThread ==
  \/ Alone(\/ Launch \/ Launched \/ (Setup /\ main' = "stopping") \/ EncoderLaunched \/ Loop
           \/ Deadline \/ MainWait \/ Timeout \/ Infer \/ RequestStop \/ TellStop)
  \/ SetupAndListen \/ JoinAndStop

\* The program is started again.
Relaunch ==
  /\ main = "ended" /\ main' = "start" /\ capture' = "off" /\ encoder' = "off"
  /\ startup' = "pending" /\ failures' = 0 /\ has_latest' = [s \in Slot |-> FALSE]
  /\ stop_requested' = FALSE /\ terminal_failure' = FALSE /\ g_stop' = FALSE
  /\ unaccounted' = [s \in Slot |-> 0] /\ late' = 0
  /\ UNCHANGED <<asleep, video>>

Hmi(step) == step /\ UNCHANGED vars

PathNext ==
  \/ CaptureThread \/ EncoderThread \/ MainThread \/ Alone(Signal) \/ Relaunch
  \/ Hmi(Poll) \/ Hmi(User) \/ Hmi(DecoderError)

PathFairness ==
  /\ WF_all(CaptureThread) /\ WF_all(EncoderThread) /\ WF_all(MainThread)
  /\ WF_all(Hmi(Poll))

PathSpec == PathInit /\ [][PathNext]_all /\ PathFairness

-----------------------------------------------------------------------------
(* Properties.                                                             *)

\* Types of all the variables of both.
PathTypeOK == TypeOK /\ VideoTypeOK

\* A client is dropped although there was room: the key frame was too large.
Oversized == Linked /\ client' = "none" /\ position' # position /\ Len(inbox') < Room

\* A key frame reaches the decoder.
Shown == inbox # <<>> /\ Head(inbox) = "key" /\ inbox' = Tail(inbox) /\ decoder' = "playing"

\* While the page stays open, the publisher listens and the encoder goes on, the
\* viewer gets key frames again and again: a full buffer, an oversize key frame or a
\* program that ended in between only interrupts the picture.
VideoGoesOn ==
  /\ <>[](active_ /\ decoder # "failed")
  /\ <>[][~Hmi(User) /\ ~Oversized]_video
  /\ <>[]listening /\ []<>(encoder = "encoding")
  => []<><<Shown>>_video
=============================================================================
