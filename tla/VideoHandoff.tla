----------------------------- MODULE VideoHandoff -----------------------------
(***************************************************************************)
(* The handoff of encoded video from ai_yolov5 to an HMI over a local socket*)
(* that keeps message boundaries: H264AccessUnitPublisher                   *)
(* (userspace/ai_yolov5/src/main.cc), and either H264VideoBridge of the QML  *)
(* HMI (userspace/hmi_qml/src/h264_video_bridge.cpp) or MonitorWindow of the *)
(* widget HMI (userspace/hmi_qt/src/monitor_window.cpp).                    *)
(*                                                                         *)
(* The publisher serves one client, never waits for it and keeps nothing:   *)
(* what cannot be sent at once costs the client its connection, and the next*)
(* connection starts again with the parameter sets and a key frame.  The    *)
(* bridge outlives its connections and its decoder, and so do the flags in  *)
(* which it remembers what it has seen; the monitor resets them with every  *)
(* connection, but keeps one decoder for all of them.                       *)
(*                                                                         *)
(* A message is one of                                                     *)
(*   "config"  the parameter sets,                                         *)
(*   "key"     an access unit with an IDR frame (and the parameter sets:    *)
(*             the encoder puts them before every IDR frame),               *)
(*   "next"    another one, whose predecessor went to the same connection,  *)
(*   "stray"   another one, whose predecessor did not.                      *)
(* An HMI has at most one connection; those it has closed are "gone".       *)
(***************************************************************************)
EXTENDS Naturals, SequencesExt

CONSTANTS
  Gop,           \* rc:gop, access units from one IDR frame to the next
  Room,          \* messages that fit into the socket buffer
  Backlog        \* connections that wait to be accepted: listen(fd, 1) admits two

ASSUME HandoffAssumption ==
  /\ Gop \in Nat \ {0} /\ Room \in Nat \ {0} /\ Backlog \in Nat \ {0}

VARIABLES
  \* H264AccessUnitPublisher
  listening, parameter_sets,
  client,        \* client_fd_: "none", "hmi" or "gone"
  client_needs_config, client_needs_idr,
  queue,         \* connections to be accepted, oldest first
  \* the encoder
  position,      \* access units since the last IDR frame
  contiguous,    \* the last access unit went to the present client
  \* The HMI
  viewer,        \* constant: "qml", "qt", or "none" if there is no HMI
  active_,       \* the page is open, or the window has been shown
  fd_,           \* whether there is a connection
  inbox,         \* messages of that connection, oldest first
  configReceived_, waitingIdr_,
  decoder        \* as in VideoFeed, or "garbled"

publisher == <<listening, parameter_sets, client, client_needs_config, client_needs_idr>>
encoded == <<position, contiguous>>
memory == <<configReceived_, waitingIdr_>>
bridge == <<viewer, active_, fd_, inbox, memory, decoder>>
video == <<publisher, queue, encoded, bridge>>

Message == {"config", "key", "next", "stray"}

VideoInit ==
  /\ listening = FALSE /\ parameter_sets = FALSE
  /\ client = "none" /\ client_needs_config = TRUE /\ client_needs_idr = TRUE
  /\ queue = <<>>
  /\ position = 0 /\ contiguous = FALSE
  /\ viewer \in {"none", "qml", "qt"} /\ active_ = FALSE /\ fd_ = FALSE /\ inbox = <<>>
  /\ configReceived_ = FALSE /\ waitingIdr_ = TRUE
  /\ decoder = "off"

-----------------------------------------------------------------------------
(* The publisher.                                                          *)

\* start; when it fails the program goes on without the publisher.
StartPublisher ==
  /\ ~listening /\ listening' \in BOOLEAN
  /\ parameter_sets' = FALSE /\ position' = 0 /\ contiguous' = FALSE
  /\ UNCHANGED <<client, client_needs_config, client_needs_idr, queue, bridge>>

\* drop_client.
DropClient ==
  /\ client' = "none" /\ client_needs_config' = TRUE /\ client_needs_idr' = TRUE
  /\ contiguous' = FALSE

\* stop: with the listening socket the kernel closes what it had queued.
StopPublisher ==
  /\ listening' = FALSE /\ queue' = <<>>
  /\ DropClient
  /\ UNCHANGED <<parameter_sets, position, bridge>>

\* Mutant of ToSend: the parameter sets are enough.
ToSendAtOnce(kind, needsConfig, needsIdr) ==
  (IF needsConfig THEN <<"config">> ELSE <<>>) \o <<kind>>

\* The messages that publish sends for a unit, to a client of whom it believes
\* needsConfig and needsIdr.
ToSend(kind, needsConfig, needsIdr) ==
  (IF needsConfig THEN <<"config">> ELSE <<>>)
  \o (IF kind = "key" \/ ~(needsConfig \/ needsIdr) THEN <<kind>> ELSE <<>>)

\* The n-th of the messages cannot be sent: the client is gone, its buffer is
\* full, or the key frame is too large for any buffer.
Refused(peer, messages, n) ==
  \/ peer = "gone" /\ n = 1
  \/ peer = "hmi" /\ Len(inbox) + n = Room + 1
  \/ peer = "hmi" /\ Len(inbox) + n <= Room /\ messages[n] = "key"

\* send_message for all of them, up to the first that is refused.
Send(peer, needsConfig, needsIdr, messages) ==
  \/ /\ messages # <<>> => peer = "hmi" /\ Len(inbox) + Len(messages) <= Room
     /\ inbox' = inbox \o messages
     /\ client' = peer
     /\ client_needs_config' = (needsConfig /\ messages = <<>>)
     /\ contiguous' = (messages # <<>> /\ Last(messages) # "config")
     /\ client_needs_idr' = (~contiguous' /\ (needsConfig \/ needsIdr))
  \/ \E n \in 1..Len(messages) :
       /\ Refused(peer, messages, n)
       /\ inbox' = IF peer = "hmi" THEN inbox \o SubSeq(messages, 1, n - 1) ELSE inbox
       /\ DropClient

\* publish, for the next access unit.  accept_latest_client takes every connection
\* that waits and keeps the last.
Publish ==
  LET kind == IF position = 0 THEN "key" ELSE IF contiguous THEN "next" ELSE "stray"
      fresh == listening /\ queue # <<>>
      peer == IF fresh THEN Last(queue) ELSE client
      needsConfig == fresh \/ client_needs_config
      needsIdr == fresh \/ client_needs_idr
      cached == parameter_sets \/ kind = "key" IN
  /\ position' = (position + 1) % Gop
  /\ parameter_sets' = cached
  /\ queue' = <<>>
  /\ Send(peer, needsConfig, needsIdr,
          IF peer = "none" \/ (needsConfig /\ ~cached) THEN <<>>
          ELSE ToSend(kind, needsConfig, needsIdr))
  /\ UNCHANGED <<listening, viewer, active_, fd_, memory, decoder>>

-----------------------------------------------------------------------------
(* The connection, as both HMIs see it.                                    *)

\* close(fd_): whoever holds the other end will find out.
Close ==
  /\ fd_' = FALSE /\ inbox' = <<>>
  /\ client' = IF client = "hmi" THEN "gone" ELSE client
  /\ queue' = [i \in DOMAIN queue |-> "gone"]

\* The publisher holds, or will hold, the other end.
Linked == client = "hmi" \/ \E i \in DOMAIN queue : queue[i] = "hmi"

\* connect, when the publisher listens and its queue has room.
Connected ==
  /\ listening /\ Len(queue) < Backlog
  /\ fd_' = TRUE /\ queue' = Append(queue, "hmi")

\* recv finds the connection closed, and the HMI closes its end.
Eof == fd_ /\ inbox = <<>> /\ ~Linked /\ fd_' = FALSE

\* The tests that a message must pass on its way to the decoder.
Accepts(message) ==
  \/ message = "config"
  \/ message = "key" /\ configReceived_
  \/ configReceived_ /\ ~waitingIdr_

\* What becomes of the decoder with a message that is pushed, and with one that is not.
Decoded(message) ==
  CASE decoder = "failed" -> "failed"
    [] decoder # "failed" /\ message = "config" ->
         IF decoder = "empty" THEN "configured" ELSE decoder
    [] decoder # "failed" /\ message = "key" ->
         IF decoder = "empty" THEN "garbled" ELSE "playing"
    [] OTHER -> IF decoder = "playing" /\ message = "next" THEN "playing" ELSE "garbled"
Skipped == IF decoder = "playing" THEN "configured" ELSE decoder

\* The message is taken from the socket and pushed, if it passes.
Take(message) ==
  /\ inbox' = Tail(inbox)
  /\ configReceived_' = (configReceived_ \/ message = "config")
  /\ decoder' = IF Accepts(message) THEN Decoded(message) ELSE Skipped

\* The pipeline stops with an error of its own.
DecoderError ==
  /\ decoder \notin {"off", "failed"}
  /\ decoder' = "failed"
  /\ UNCHANGED <<publisher, queue, encoded, viewer, active_, fd_, inbox, memory>>

Forget == configReceived_' = FALSE /\ waitingIdr_' = TRUE

-----------------------------------------------------------------------------
(* H264VideoBridge.                                                        *)

\* Mutant of StopBridge: only the decoder is stopped.
StopDecoder == decoder' = "off" /\ UNCHANGED <<fd_, inbox, client, queue>>

\* stop().
StopBridge == Close /\ decoder' = "off"

Others == <<listening, parameter_sets, client_needs_config, client_needs_idr, encoded,
            viewer>>

\* setActive(true): the page of the video is opened.
Enter ==
  /\ viewer = "qml" /\ ~active_
  /\ active_' = TRUE
  /\ UNCHANGED <<publisher, queue, encoded, viewer, fd_, inbox, memory, decoder>>

\* setActive(false) keeps what was seen.
Leave ==
  /\ viewer = "qml" /\ active_
  /\ active_' = FALSE /\ StopBridge
  /\ UNCHANGED <<Others, memory>>

\* Mutant of Reconnect: the connection is kept.
ReconnectInName ==
  /\ viewer = "qml" /\ active_
  /\ Forget
  /\ UNCHANGED <<publisher, queue, encoded, viewer, active_, fd_, inbox, decoder>>

\* reconnect(), a button of the page.
Reconnect ==
  /\ viewer = "qml" /\ active_
  /\ StopBridge /\ Forget
  /\ UNCHANGED <<Others, active_>>

\* poll builds the pipeline, if there is none, and connects.
BridgeConnect ==
  /\ viewer = "qml" /\ active_ /\ ~fd_
  /\ decoder' = IF decoder = "off" THEN "empty" ELSE decoder
  /\ Connected \/ UNCHANGED <<fd_, queue>>
  /\ UNCHANGED <<publisher, encoded, viewer, active_, inbox, memory>>

\* Mutant of BridgeEof: recv returning 0 is taken for EAGAIN.
BridgeEofUnseen == viewer = "qml" /\ active_ /\ Eof /\ UNCHANGED video

BridgeEof ==
  /\ viewer = "qml" /\ active_ /\ Eof
  /\ UNCHANGED <<publisher, queue, encoded, viewer, active_, inbox, memory, decoder>>

\* poll receives a message.  A decoder that has failed is not rebuilt.
BridgeReceive ==
  LET message == Head(inbox) IN
  /\ viewer = "qml" /\ active_ /\ inbox # <<>>
  /\ Take(message)
  /\ waitingIdr_' = (waitingIdr_ /\ ~(message = "key" /\ Accepts(message)))
  /\ UNCHANGED <<publisher, queue, encoded, viewer, active_, fd_>>

-----------------------------------------------------------------------------
(* MonitorWindow.                                                          *)

\* showEvent starts the pipeline, which is kept until the end.
MonitorShow ==
  /\ viewer = "qt" /\ ~active_
  /\ active_' = TRUE /\ decoder' = "empty"
  /\ UNCHANGED <<publisher, queue, encoded, viewer, fd_, inbox, memory>>

\* connectH264Socket, tried with every timer.  The socket is made nonblocking only
\* afterwards: with the queue full the window waits in connect.
MonitorConnect ==
  /\ viewer = "qt" /\ active_ /\ ~fd_
  /\ Connected /\ Forget
  /\ UNCHANGED <<publisher, encoded, viewer, active_, inbox, decoder>>

\* disconnectH264Socket.
MonitorDisconnect ==
  /\ Close /\ Forget
  /\ UNCHANGED <<Others, active_, decoder>>

MonitorEof ==
  /\ viewer = "qt" /\ Eof /\ Forget
  /\ UNCHANGED <<publisher, queue, encoded, viewer, active_, inbox, decoder>>

\* drainH264Socket: parameter sets start the wait for a key frame anew, and a failed
\* push costs the connection.
MonitorReceive ==
  LET message == Head(inbox) IN
  /\ viewer = "qt" /\ inbox # <<>>
  /\ IF Accepts(message) /\ decoder = "failed"
       THEN MonitorDisconnect
       ELSE /\ Take(message)
            /\ waitingIdr_' = \/ message = "config"
                              \/ waitingIdr_ /\ ~(message = "key" /\ Accepts(message))
            /\ UNCHANGED <<publisher, queue, encoded, viewer, active_, fd_>>

\* pollGStreamerBus finds an error.
MonitorBusError ==
  /\ viewer = "qt" /\ fd_ /\ decoder = "failed"
  /\ MonitorDisconnect

-----------------------------------------------------------------------------

\* The HMI ends or crashes, and starts again.
RestartHmi ==
  /\ viewer # "none"
  /\ active_' = FALSE /\ StopBridge /\ Forget
  /\ UNCHANGED Others

Poll ==
  \/ BridgeConnect \/ BridgeEof \/ BridgeReceive
  \/ MonitorConnect \/ MonitorEof \/ MonitorReceive \/ MonitorBusError
User == Enter \/ Leave \/ Reconnect \/ MonitorShow \/ RestartHmi

VideoNext == StartPublisher \/ StopPublisher \/ Publish \/ Poll \/ User \/ DecoderError
VideoSpec == VideoInit /\ [][VideoNext]_video

-----------------------------------------------------------------------------
(* Properties.                                                             *)

\* Types of all the variables; only a bridge that has a connection, and a decoder,
\* is at the other end of one.
VideoTypeOK ==
  /\ listening \in BOOLEAN /\ parameter_sets \in BOOLEAN
  /\ client \in {"none", "hmi", "gone"}
  /\ client_needs_config \in BOOLEAN /\ client_needs_idr \in BOOLEAN
  /\ queue \in Seq({"hmi", "gone"}) /\ Len(queue) <= Backlog
  /\ position \in 0..Gop - 1 /\ contiguous \in BOOLEAN
  /\ viewer \in {"none", "qml", "qt"}
  /\ active_ \in BOOLEAN /\ fd_ \in BOOLEAN
  /\ inbox \in Seq(Message) /\ Len(inbox) <= Room
  /\ configReceived_ \in BOOLEAN /\ waitingIdr_ \in BOOLEAN
  /\ decoder \in {"off", "empty", "configured", "playing", "failed", "garbled"}
  /\ Linked => fd_
  /\ decoder = "off" => ~fd_

\* What the publisher sends, the HMI uses: both remember on their own what the
\* connection has carried, over reconnections that only one of them knows of, and
\* a unit that the HMI dropped would stop the picture until the next key frame.
SentIsUsed == inbox # <<>> => Accepts(Head(inbox))

\* The decoder, which outlives the connections, is never given what it cannot
\* decode: publisher, socket and bridge together implement VideoFeed.
Feed == INSTANCE VideoFeed
FeedSpec == Feed!Spec
=============================================================================
