-------------------------- MODULE VideoHandoffProofs --------------------------
(***************************************************************************)
(* Theorems about the handoff of encoded video, for every distance between *)
(* key frames, socket buffer and queue of connections.                     *)
(***************************************************************************)
EXTENDS VideoHandoff, SequenceTheorems, TLAPS

-----------------------------------------------------------------------------
(* The inductive invariant.                                                *)

\* VideoTypeOK, in parts.
PublisherTypes ==
  /\ listening \in BOOLEAN /\ parameter_sets \in BOOLEAN
  /\ client \in {"none", "hmi", "gone"}
  /\ client_needs_config \in BOOLEAN /\ client_needs_idr \in BOOLEAN
  /\ position \in 0..Gop - 1 /\ contiguous \in BOOLEAN
QueueTypes == queue \in Seq({"hmi", "gone"}) /\ Len(queue) <= Backlog
InboxTypes == inbox \in Seq(Message) /\ Len(inbox) <= Room
HmiTypes ==
  /\ viewer \in {"none", "qml", "qt"}
  /\ active_ \in BOOLEAN /\ fd_ \in BOOLEAN
  /\ configReceived_ \in BOOLEAN /\ waitingIdr_ \in BOOLEAN
  /\ decoder \in {"off", "empty", "configured", "playing", "failed", "garbled"}
Ends == (Linked => fd_) /\ (decoder = "off" => ~fd_)

\* What there is without a publisher, a page, a connection; the monitor's decoder.
Lifetimes ==
  /\ ~listening => client = "none" /\ queue = <<>>
  /\ ~active_ => ~fd_
  /\ ~fd_ => inbox = <<>>
  /\ viewer = "qt" => (active_ <=> decoder # "off")
  /\ decoder # "garbled"

\* The HMI is ready for a key frame, and for the successor of the last unit.
Ready == configReceived_ /\ decoder \notin {"off", "empty"}
Following == Ready /\ ~waitingIdr_ /\ decoder \in {"playing", "failed"}

\* What is on its way can be used when it arrives.
Transit ==
  /\ \A i \in DOMAIN inbox : inbox[i] # "stray"
  /\ \A i \in DOMAIN inbox \ {1} : inbox[i] = "next" => inbox[i - 1] \in {"key", "next"}
  /\ inbox # <<>> /\ inbox[1] = "key" => Ready
  /\ inbox # <<>> /\ inbox[1] = "next" => Following

\* What the publisher believes of its client is true, or will be when everything
\* that is on its way has arrived.
Belief ==
  client = "hmi" =>
    /\ ~client_needs_config /\ inbox = <<>> => Ready
    /\ ~client_needs_config /\ ~client_needs_idr => contiguous
    /\ contiguous /\ inbox = <<>> => Following
    /\ contiguous /\ inbox # <<>> => inbox[Len(inbox)] \in {"key", "next"}

Types == PublisherTypes /\ QueueTypes /\ InboxTypes /\ HmiTypes
VInv == Types /\ Ends /\ Lifetimes /\ Transit /\ Belief

-----------------------------------------------------------------------------
(* Steps that leave the messages alone, and steps that close the connection.*)

\* The initial states satisfy the invariant.
LEMMA InitVInv == VideoInit => VInv
<1> SUFFICES ASSUME VideoInit PROVE VInv
  OBVIOUS
<1>0. 0 \in 0..Gop - 1 /\ 0 <= Room /\ 0 <= Backlog
  BY HandoffAssumption
<1>1. PublisherTypes
  BY <1>0 DEF VideoInit, PublisherTypes
<1>2. QueueTypes /\ InboxTypes
  BY <1>0 DEF VideoInit, QueueTypes, InboxTypes
<1>3. HmiTypes
  BY DEF VideoInit, HmiTypes
<1>4. Ends
  BY DEF VideoInit, Ends, Linked
<1>5. Lifetimes /\ Transit /\ Belief
  BY DEF VideoInit, Lifetimes, Transit, Belief
<1>6. QED
  BY <1>1, <1>2, <1>3, <1>4, <1>5 DEF VInv, Types

\* A closed connection: its other end is gone, wherever it was.
LEMMA CloseEffect ==
  ASSUME VInv, Close
  PROVE  /\ QueueTypes' /\ InboxTypes' /\ ~Linked' /\ client' # "hmi"
         /\ client' \in {"none", "gone"} /\ (client = "none" => client' = "none")
         /\ (queue = <<>> => queue' = <<>>)
<1>1. queue \in Seq({"hmi", "gone"}) /\ Len(queue) <= Backlog
  BY DEF VInv, Types, QueueTypes
<1>2. queue' = [i \in 1..Len(queue) |-> "gone"]
  BY <1>1 DEF Close
<1>3. queue' \in Seq({"hmi", "gone"}) /\ Len(queue') = Len(queue)
  BY <1>1, <1>2
<1>4. QueueTypes'
  BY <1>1, <1>3 DEF QueueTypes
<1>5. client' # "hmi" /\ client' \in {"none", "gone"} /\ (client = "none" => client' = "none")
  BY DEF Close, VInv, Types, PublisherTypes
<1>6. ~Linked'
  BY <1>1, <1>2, <1>3, <1>5 DEF Linked
<1>7. InboxTypes'
  BY HandoffAssumption DEF Close, InboxTypes
<1>8. queue = <<>> => queue' = <<>>
  BY <1>1, <1>2
<1>9. QED
  BY <1>4, <1>5, <1>6, <1>7, <1>8

\* With the connection closed nothing is left to be believed or used.
LEMMA ClosedKeeps ==
  ASSUME VInv, Close, PublisherTypes', HmiTypes',
         UNCHANGED listening,
         viewer' = "qt" => (active_' <=> decoder' # "off"),
         decoder' # "garbled"
  PROVE  VInv'
<1>1. /\ QueueTypes' /\ InboxTypes' /\ ~Linked' /\ client' # "hmi"
      /\ (client = "none" => client' = "none") /\ (queue = <<>> => queue' = <<>>)
  BY CloseEffect
<1>2. inbox' = <<>> /\ ~fd_'
  BY DEF Close
<1>3. Ends'
  BY <1>1, <1>2 DEF Ends
<1>4. Lifetimes'
  BY <1>1, <1>2 DEF VInv, Lifetimes
<1>5. Transit'
  BY <1>2 DEF Transit
<1>6. Belief'
  BY <1>1 DEF Belief
<1>7. QED
  BY <1>1, <1>3, <1>4, <1>5, <1>6 DEF VInv, Types

-----------------------------------------------------------------------------
(* The publisher.                                                          *)

\* The publisher's start keeps the invariant: it has no client yet.
LEMMA StartKeeps ==
  ASSUME VInv, StartPublisher
  PROVE  VInv'
<1>1. UNCHANGED <<client, client_needs_config, client_needs_idr, queue, viewer, active_,
                  fd_, inbox, configReceived_, waitingIdr_, decoder>>
  BY DEF StartPublisher, bridge, memory
<1>2. client = "none" /\ queue = <<>>
  BY DEF VInv, Lifetimes, StartPublisher
<1>0. 0 \in 0..Gop - 1
  BY HandoffAssumption
<1>3. PublisherTypes'
  BY <1>0, <1>1 DEF VInv, Types, PublisherTypes, StartPublisher
<1>4. QueueTypes' /\ InboxTypes' /\ HmiTypes'
  BY <1>1 DEF VInv, Types, QueueTypes, InboxTypes, HmiTypes
<1>5. Ends'
  BY <1>1 DEF VInv, Ends, Linked
<1>6. Lifetimes'
  BY <1>1, <1>2 DEF VInv, Lifetimes
<1>7. Transit'
  BY <1>1 DEF VInv, Transit, Ready, Following
<1>8. Belief'
  BY <1>1, <1>2 DEF Belief
<1>9. QED
  BY <1>3, <1>4, <1>5, <1>6, <1>7, <1>8 DEF VInv, Types

\* The publisher's end keeps the invariant.
LEMMA StopKeeps ==
  ASSUME VInv, StopPublisher
  PROVE  VInv'
<1>1. UNCHANGED <<parameter_sets, position, viewer, active_, fd_, inbox, configReceived_,
                  waitingIdr_, decoder>>
  BY DEF StopPublisher, bridge, memory
<1>2. client' = "none" /\ queue' = <<>>
  BY DEF StopPublisher, DropClient
<1>3. PublisherTypes'
  BY <1>1 DEF VInv, Types, PublisherTypes, StopPublisher, DropClient
<1>4. QueueTypes' /\ InboxTypes' /\ HmiTypes'
  BY <1>1, <1>2, HandoffAssumption DEF VInv, Types, QueueTypes, InboxTypes, HmiTypes
<1>5. Ends'
  BY <1>1, <1>2 DEF VInv, Ends, Linked
<1>6. Lifetimes'
  BY <1>1, <1>2 DEF VInv, Lifetimes
<1>7. Transit'
  BY <1>1 DEF VInv, Transit, Ready, Following
<1>8. Belief'
  BY <1>1, <1>2 DEF Belief
<1>9. QED
  BY <1>3, <1>4, <1>5, <1>6, <1>7, <1>8 DEF VInv, Types

\* Messages that may follow what is on its way are put behind it.
LEMMA AppendMessages ==
  ASSUME VInv, NEW m \in Seq(Message),
         inbox' = inbox \o m, UNCHANGED <<configReceived_, waitingIdr_, decoder>>,
         Len(inbox) + Len(m) <= Room,
         \A i \in 1..Len(m) : m[i] # "stray" /\ (i > 1 => m[i] # "next"),
         m # <<>> /\ m[1] = "key" /\ inbox = <<>> => Ready,
         m # <<>> /\ m[1] = "next" /\ inbox = <<>> => Following,
         m # <<>> /\ m[1] = "next" /\ inbox # <<>> => inbox[Len(inbox)] \in {"key", "next"}
  PROVE  /\ InboxTypes' /\ Transit'
         /\ m # <<>> => inbox' # <<>> /\ inbox'[Len(inbox')] = m[Len(m)]
<1>1. inbox \in Seq(Message)
  BY DEF VInv, Types, InboxTypes
<1>2. /\ inbox' \in Seq(Message) /\ Len(inbox') = Len(inbox) + Len(m)
      /\ \A i \in 1..Len(inbox) + Len(m) :
           inbox'[i] = IF i <= Len(inbox) THEN inbox[i] ELSE m[i - Len(inbox)]
  BY <1>1, ConcatProperties
<1>3. Len(inbox) \in Nat /\ Len(m) \in Nat /\ DOMAIN inbox = 1..Len(inbox)
      /\ DOMAIN inbox' = 1..Len(inbox') /\ (m # <<>> => Len(m) > 0)
      /\ (inbox # <<>> <=> Len(inbox) > 0) /\ (inbox' # <<>> <=> Len(inbox') > 0)
  BY <1>1, <1>2
<1>4. InboxTypes'
  BY <1>2 DEF InboxTypes
<1>5. \A i \in DOMAIN inbox' : inbox'[i] # "stray"
  BY <1>2, <1>3 DEF VInv, Transit
<1>6. ASSUME NEW i \in DOMAIN inbox' \ {1}, inbox'[i] = "next"
      PROVE  inbox'[i - 1] \in {"key", "next"}
  <2>1. CASE i <= Len(inbox)
    <3>1. i \in DOMAIN inbox \ {1} /\ inbox'[i] = inbox[i] /\ inbox'[i - 1] = inbox[i - 1]
      BY <1>2, <1>3, <2>1
    <3>2. QED
      BY <1>6, <3>1 DEF VInv, Transit
  <2>2. CASE i > Len(inbox)
    <3>1. i - Len(inbox) \in 1..Len(m) /\ m[i - Len(inbox)] = "next"
      BY <1>2, <1>3, <1>6, <2>2
    <3>2. i - Len(inbox) = 1
      BY <3>1
    <3>3. m # <<>> /\ m[1] = "next" /\ inbox # <<>> /\ i - 1 = Len(inbox)
      BY <1>3, <1>6, <3>1, <3>2
    <3>4. inbox'[i - 1] = inbox[Len(inbox)]
      BY <1>2, <1>3, <3>3
    <3>5. QED
      BY <3>3, <3>4
  <2>3. QED
    BY <1>2, <1>3, <2>1, <2>2
<1>7. inbox # <<>> => inbox'[1] = inbox[1]
  BY <1>2, <1>3
<1>8. inbox = <<>> /\ inbox' # <<>> => m # <<>> /\ inbox'[1] = m[1]
  BY <1>2, <1>3
<1>9. /\ inbox' # <<>> /\ inbox'[1] = "key" => Ready
      /\ inbox' # <<>> /\ inbox'[1] = "next" => Following
  BY <1>7, <1>8 DEF VInv, Transit
<1>10. Transit'
  BY <1>5, <1>6, <1>9 DEF Transit, Ready, Following
<1>11. m # <<>> => inbox' # <<>> /\ inbox'[Len(inbox')] = m[Len(m)]
  BY <1>2, <1>3
<1>12. QED
  BY <1>4, <1>10, <1>11

\* The next access unit, as publish sees it.
UnitKind == IF position = 0 THEN "key" ELSE IF contiguous THEN "next" ELSE "stray"
Fresh == listening /\ queue # <<>>
Peer == IF Fresh THEN Last(queue) ELSE client
NeedsConfig == Fresh \/ client_needs_config
NeedsIdr == Fresh \/ client_needs_idr
Messages ==
  IF Peer = "none" \/ (NeedsConfig /\ ~(parameter_sets \/ UnitKind = "key")) THEN <<>>
  ELSE ToSend(UnitKind, NeedsConfig, NeedsIdr)

\* The two messages of a new client, put together.
LEMMA TwoMessages == <<"config">> \o <<"key">> = <<"config", "key">>
<1> DEFINE s == <<"config">> \o <<"key">>
<1>1. <<"config">> \in Seq(Message) /\ <<"key">> \in Seq(Message)
  BY DEF Message
<1>2. Len(<<"config">>) = 1 /\ Len(<<"key">>) = 1
  OBVIOUS
<1>3. s \in Seq(Message) /\ Len(s) = 2 /\ s[1] = "config" /\ s[2] = "key"
  BY <1>1, <1>2, ConcatProperties
<1> HIDE DEF s
<1>4. s = <<"config", "key">>
  BY <1>3
<1>5. QED
  BY <1>4 DEF s

\* To whom, and what, publish sends.
LEMMA PublishedMessages ==
  ASSUME VInv
  PROVE  /\ Peer \in {"none", "hmi", "gone"} /\ (Peer = "hmi" => Linked)
         /\ ~listening => Peer = "none"
         /\ Peer = "hmi" /\ ~NeedsConfig => client = "hmi" /\ ~client_needs_config
                                            /\ (NeedsIdr <=> client_needs_idr)
         /\ \/ Messages = <<>> /\ (Peer = "none" \/ NeedsConfig \/ (UnitKind # "key" /\ NeedsIdr))
            \/ Messages = <<"config">> /\ NeedsConfig
            \/ Messages = <<"config", "key">> /\ NeedsConfig
            \/ /\ Messages = <<UnitKind>> /\ ~NeedsConfig /\ Peer # "none"
               /\ UnitKind = "key" \/ ~NeedsIdr
<1>1. queue \in Seq({"hmi", "gone"})
  BY DEF VInv, Types, QueueTypes
<1>2. Fresh => Last(queue) \in {"hmi", "gone"} /\ Len(queue) \in DOMAIN queue
  BY <1>1 DEF Fresh, Last
<1>3. Peer \in {"none", "hmi", "gone"}
  BY <1>2 DEF Peer, VInv, Types, PublisherTypes
<1>4. Peer = "hmi" => Linked
  BY <1>2 DEF Peer, Linked, Last
<1>5. ~listening => Peer = "none"
  BY DEF Peer, Fresh, VInv, Lifetimes
<1>6. Peer = "hmi" /\ ~NeedsConfig => client = "hmi" /\ ~client_needs_config
                                    /\ (NeedsIdr <=> client_needs_idr)
  BY DEF Peer, NeedsConfig, NeedsIdr
<1>7. CASE Messages = <<>> /\ Peer = "none"
  BY <1>3, <1>4, <1>5, <1>6, <1>7
<1>8. CASE Messages = <<>> /\ NeedsConfig
  BY <1>3, <1>4, <1>5, <1>6, <1>8
<1>9. CASE Peer # "none" /\ Messages = ToSend(UnitKind, NeedsConfig, NeedsIdr)
  <2>1. CASE NeedsConfig /\ UnitKind = "key"
    <3>1. Messages = <<"config">> \o <<"key">>
      BY <1>9, <2>1 DEF ToSend
    <3>2. Messages = <<"config", "key">>
      BY <3>1, TwoMessages
    <3>3. QED
      BY <1>3, <1>4, <1>5, <1>6, <2>1, <3>2
  <2>2. CASE NeedsConfig /\ UnitKind # "key"
    <3>1. Messages = <<"config">> \o <<>>
      BY <1>9, <2>2 DEF ToSend
    <3>2. Messages = <<"config">>
      BY <3>1
    <3>3. QED
      BY <1>3, <1>4, <1>5, <1>6, <2>2, <3>2
  <2>3. CASE ~NeedsConfig /\ (UnitKind = "key" \/ ~NeedsIdr)
    <3>1. Messages = <<>> \o <<UnitKind>>
      BY <1>9, <2>3 DEF ToSend
    <3>2. Messages = <<UnitKind>>
      BY <3>1
    <3>3. QED
      BY <1>3, <1>4, <1>5, <1>6, <1>9, <2>3, <3>2
  <2>4. CASE ~NeedsConfig /\ UnitKind # "key" /\ NeedsIdr
    <3>1. Messages = <<>> \o <<>>
      BY <1>9, <2>4 DEF ToSend
    <3>2. Messages = <<>>
      BY <3>1
    <3>3. QED
      BY <1>3, <1>4, <1>5, <1>6, <2>4, <3>2
  <2>5. QED
    BY <2>1, <2>2, <2>3, <2>4
<1>10. QED
  BY <1>7, <1>8, <1>9 DEF Messages

\* A unit that is sent without the parameter sets finds the client ready for it.
LEMMA UnitMayFollow ==
  ASSUME VInv, Peer = "hmi", ~NeedsConfig, UnitKind = "key" \/ ~NeedsIdr
  PROVE  /\ UnitKind \in {"key", "next"}
         /\ UnitKind = "key" /\ inbox = <<>> => Ready
         /\ UnitKind = "next" /\ inbox = <<>> => Following
         /\ UnitKind = "next" /\ inbox # <<>> => inbox[Len(inbox)] \in {"key", "next"}
<1>1. client = "hmi" /\ ~client_needs_config /\ (NeedsIdr <=> client_needs_idr)
  BY PublishedMessages
<1>2. UnitKind # "key" => contiguous
  BY <1>1 DEF VInv, Belief
<1>3. UnitKind \in {"key", "next"}
  BY <1>2 DEF UnitKind
<1>4. inbox = <<>> => Ready
  BY <1>1 DEF VInv, Belief
<1>5. UnitKind = "next" => contiguous
  BY DEF UnitKind
<1>6. /\ contiguous /\ inbox = <<>> => Following
      /\ contiguous /\ inbox # <<>> => inbox[Len(inbox)] \in {"key", "next"}
  BY <1>1 DEF VInv, Belief
<1>7. QED
  BY <1>3, <1>4, <1>5, <1>6

\* What reaches the inbox of a publication, all or up to a refusal.
LEMMA SentMessages ==
  ASSUME VInv, Publish
  PROVE  \/ /\ Messages # <<>> => Peer = "hmi" /\ Len(inbox) + Len(Messages) <= Room
            /\ inbox' = inbox \o Messages
            /\ client' = Peer
            /\ client_needs_config' = (NeedsConfig /\ Messages = <<>>)
            /\ contiguous' = (Messages # <<>> /\ Last(Messages) # "config")
            /\ client_needs_idr' = (~contiguous' /\ (NeedsConfig \/ NeedsIdr))
         \/ DropClient /\ UNCHANGED inbox
         \/ /\ DropClient /\ inbox' = inbox \o <<"config">>
            /\ Peer = "hmi" /\ Len(inbox) + 1 <= Room
<1>1. Send(Peer, NeedsConfig, NeedsIdr, Messages)
  BY DEF Publish, Peer, NeedsConfig, NeedsIdr, Messages, Fresh, UnitKind
<1>2. ASSUME NEW n \in 1..Len(Messages), Refused(Peer, Messages, n), DropClient,
             inbox' = IF Peer = "hmi" THEN inbox \o SubSeq(Messages, 1, n - 1) ELSE inbox
      PROVE  \/ UNCHANGED inbox
             \/ inbox' = inbox \o <<"config">> /\ Peer = "hmi" /\ Len(inbox) + 1 <= Room
  <2>0. inbox \in Seq(Message) /\ Room \in Nat /\ Len(inbox) \in Nat
    BY HandoffAssumption DEF VInv, Types, InboxTypes
  <2>1. CASE n = 1 \/ Peer # "hmi"
    <3>1. SubSeq(Messages, 1, 0) = <<>>
      BY SubSeqEmpty
    <3>2. n = 1 => SubSeq(Messages, 1, n - 1) = <<>>
      BY <3>1
    <3>3. inbox \o <<>> = inbox
      BY <2>0, ConcatEmptySeq
    <3>4. QED
      BY <1>2, <2>1, <3>2, <3>3
  <2>2. CASE n # 1 /\ Peer = "hmi"
    <3>a. Messages # <<>>
      BY <2>2
    <3>b. ASSUME NEW e, Messages = <<e>> PROVE FALSE
      <4>1. Len(Messages) = 1
        BY <3>b
      <4>2. QED
        BY <2>2, <4>1
    <3>1. Messages = <<"config", "key">>
      BY <3>a, <3>b, PublishedMessages
    <3>2. n = 2
      BY <2>2, <3>1
    <3>3. SubSeq(Messages, 1, 1) = <<"config">>
      <4> DEFINE s == SubSeq(Messages, 1, 1)
      <4>1. \A i \in 1..1 : Messages[i] \in Message
        BY <3>1 DEF Message
      <4>2. s \in Seq(Message) /\ Len(s) = 1 /\ s[1] = Messages[1]
        BY <4>1, SubSeqProperties
      <4>3. Messages[1] = "config"
        BY <3>1
      <4> HIDE DEF s
      <4>4. s = <<"config">>
        BY <4>2, <4>3
      <4>5. QED
        BY <4>4 DEF s
    <3>4. inbox' = inbox \o <<"config">>
      <4>1. SubSeq(Messages, 1, n - 1) = SubSeq(Messages, 1, 1)
        BY <3>2
      <4>2. inbox' = inbox \o SubSeq(Messages, 1, n - 1)
        BY ONLY <1>2, <2>2
      <4>3. QED
        BY <3>3, <4>1, <4>2
    <3>5. Len(inbox) + 2 <= Room + 1
      <4>1. Len(inbox) + n = Room + 1 \/ Len(inbox) + n <= Room
        BY <1>2, <2>2 DEF Refused
      <4>2. QED
        BY <2>0, <3>2, <4>1
    <3>6. QED
      BY <2>0, <2>2, <3>4, <3>5
  <2>3. QED
    BY <2>1, <2>2
<1>3. QED
  BY <1>1, <1>2 DEF Send

\* A publication keeps the invariant.
LEMMA PublishKeeps ==
  ASSUME VInv, Publish
  PROVE  VInv'
<1>0. /\ UNCHANGED <<listening, viewer, active_, fd_, configReceived_, waitingIdr_, decoder>>
      /\ queue' = <<>> /\ position' = (position + 1) % Gop
      /\ parameter_sets' = (parameter_sets \/ UnitKind = "key")
  BY DEF Publish, memory, UnitKind
<1>1. position' \in 0..Gop - 1
  BY <1>0, HandoffAssumption DEF VInv, Types, PublisherTypes
<1>2. parameter_sets' \in BOOLEAN
  BY <1>0 DEF VInv, Types, PublisherTypes
<1>3. HmiTypes'
  BY <1>0 DEF VInv, Types, HmiTypes
<1>4. QueueTypes'
  BY <1>0, HandoffAssumption DEF QueueTypes
<1>5. inbox \in Seq(Message) /\ Len(inbox) <= Room
  BY DEF VInv, Types, InboxTypes
<1>6. Peer \in {"none", "hmi", "gone"} /\ (Peer = "hmi" => fd_) /\ (~listening => Peer = "none")
  BY PublishedMessages DEF VInv, Ends
<1>7. CASE /\ Messages # <<>> => Peer = "hmi" /\ Len(inbox) + Len(Messages) <= Room
           /\ inbox' = inbox \o Messages
           /\ client' = Peer
           /\ client_needs_config' = (NeedsConfig /\ Messages = <<>>)
           /\ contiguous' = (Messages # <<>> /\ Last(Messages) # "config")
           /\ client_needs_idr' = (~contiguous' /\ (NeedsConfig \/ NeedsIdr))
  <2>1. PublisherTypes'
    BY <1>0, <1>1, <1>2, <1>6, <1>7 DEF VInv, Types, PublisherTypes, NeedsConfig, NeedsIdr, Fresh
  <2>2. Ends'
    BY <1>0, <1>6, <1>7 DEF VInv, Ends, Linked
  <2>3. CASE Messages = <<>>
    <3>1. inbox' = inbox
      BY <1>5, <1>7, <2>3, ConcatEmptySeq
    <3>2. InboxTypes' /\ Transit'
      BY <1>0, <3>1 DEF VInv, Types, InboxTypes, Transit, Ready, Following
    <3>3. Lifetimes'
      BY <1>0, <1>6, <1>7, <3>1 DEF VInv, Lifetimes
    <3>4. Peer = "hmi" => NeedsConfig \/ NeedsIdr
      BY <2>3, PublishedMessages
    <3>5. Peer = "hmi" /\ ~NeedsConfig => client = "hmi" /\ ~client_needs_config
      BY PublishedMessages
    <3>6. ~contiguous' /\ (client' = "hmi" => client_needs_idr') /\ (client_needs_config' <=> NeedsConfig)
      BY <1>7, <2>3, <3>4 DEF NeedsConfig, NeedsIdr
    <3>7. client' = "hmi" /\ ~client_needs_config' /\ inbox' = <<>> => Ready'
      BY <1>0, <1>7, <3>1, <3>5, <3>6 DEF VInv, Belief, Ready
    <3>8. Belief'
      BY <3>6, <3>7 DEF Belief
    <3>9. QED
      BY <1>3, <1>4, <2>1, <2>2, <3>2, <3>3, <3>8 DEF VInv, Types
  <2>4. CASE Messages # <<>>
    <3>0. Peer = "hmi" /\ fd_
      BY <1>6, <1>7, <2>4
    <3>1. \/ Messages = <<"config">>
          \/ Messages = <<"config", "key">>
          \/ /\ Messages = <<UnitKind>> /\ ~NeedsConfig /\ (UnitKind = "key" \/ ~NeedsIdr)
      BY <2>4, PublishedMessages
    <3>2. ASSUME Messages = <<UnitKind>>, ~NeedsConfig, UnitKind = "key" \/ ~NeedsIdr
          PROVE  /\ UnitKind \in {"key", "next"}
                 /\ UnitKind = "key" /\ inbox = <<>> => Ready
                 /\ UnitKind = "next" /\ inbox = <<>> => Following
                 /\ UnitKind = "next" /\ inbox # <<>> => inbox[Len(inbox)] \in {"key", "next"}
      BY <3>0, <3>2, UnitMayFollow
    <3>3. Messages \in Seq(Message)
      <4>1. CASE Messages = <<"config", "key">>
        BY <4>1 DEF Message
      <4>2. CASE Messages = <<"config">>
        BY <4>2 DEF Message
      <4>3. CASE Messages = <<UnitKind>> /\ ~NeedsConfig /\ (UnitKind = "key" \/ ~NeedsIdr)
        <5>1. UnitKind \in Message
          BY <3>2, <4>3 DEF Message
        <5>2. <<UnitKind>> \in Seq(Message)
          BY <5>1
        <5>3. QED
          BY <4>3, <5>2
      <4>4. QED
        BY <3>1, <4>1, <4>2, <4>3
    <3>4. \A i \in 1..Len(Messages) : Messages[i] # "stray" /\ (i > 1 => Messages[i] # "next")
      <4>1. CASE Messages = <<"config", "key">>
        BY <4>1
      <4>2. CASE Messages = <<"config">>
        BY <4>2
      <4>3. CASE Messages = <<UnitKind>> /\ ~NeedsConfig /\ (UnitKind = "key" \/ ~NeedsIdr)
        BY <3>2, <4>3
      <4>4. QED
        BY <3>1, <4>1, <4>2, <4>3
    <3>5. /\ Messages[1] = "key" /\ inbox = <<>> => Ready
          /\ Messages[1] = "next" /\ inbox = <<>> => Following
          /\ Messages[1] = "next" /\ inbox # <<>> => inbox[Len(inbox)] \in {"key", "next"}
      <4>1. CASE Messages = <<"config", "key">>
        BY <4>1
      <4>2. CASE Messages = <<"config">>
        BY <4>2
      <4>3. CASE Messages = <<UnitKind>> /\ ~NeedsConfig /\ (UnitKind = "key" \/ ~NeedsIdr)
        BY <3>2, <4>3
      <4>4. QED
        BY <3>1, <4>1, <4>2, <4>3
    <3>6. InboxTypes' /\ Transit' /\ inbox' # <<>> /\ inbox'[Len(inbox')] = Messages[Len(Messages)]
      BY <1>0, <1>7, <2>4, <3>3, <3>4, <3>5, AppendMessages
    <3>7. Lifetimes'
      BY <1>0, <1>6, <1>7, <3>0 DEF VInv, Lifetimes
    <3>8. Messages[Len(Messages)] \in {"config", "key", "next"}
      BY <3>1, <3>2
    <3>9. contiguous' => inbox'[Len(inbox')] \in {"key", "next"}
      BY <1>7, <3>6, <3>8 DEF Last
    <3>10. ~client_needs_config' /\ ~client_needs_idr' => contiguous'
      <4>1. CASE NeedsConfig
        BY <1>7, <4>1
      <4>2. CASE ~NeedsConfig
        <5>1. Messages = <<UnitKind>> /\ UnitKind \in {"key", "next"}
          BY <2>4, <3>2, <4>2, PublishedMessages
        <5>2. Last(Messages) # "config"
          BY <5>1 DEF Last
        <5>3. QED
          BY <1>7, <2>4, <5>2
      <4>3. QED
        BY <4>1, <4>2
    <3>11. Belief'
      BY <3>6, <3>9, <3>10 DEF Belief
    <3>12. QED
      BY <1>3, <1>4, <2>1, <2>2, <3>6, <3>7, <3>11 DEF VInv, Types
  <2>5. QED
    BY <2>3, <2>4
<1>8. ASSUME DropClient, InboxTypes', Transit', ~fd_ => inbox' = <<>>
      PROVE  VInv'
  <2>1. client' = "none"
    BY <1>8 DEF DropClient
  <2>2. PublisherTypes'
    BY <1>0, <1>1, <1>2, <1>8 DEF VInv, Types, PublisherTypes, DropClient
  <2>3. Ends'
    BY <1>0, <2>1 DEF VInv, Ends, Linked
  <2>4. Lifetimes'
    BY <1>0, <1>8, <2>1 DEF VInv, Lifetimes
  <2>5. Belief'
    BY <2>1 DEF Belief
  <2>6. QED
    BY <1>3, <1>4, <1>8, <2>2, <2>3, <2>4, <2>5 DEF VInv, Types
<1>9. CASE DropClient /\ UNCHANGED inbox
  <2>1. InboxTypes' /\ Transit' /\ (~fd_ => inbox' = <<>>)
    BY <1>0, <1>9 DEF VInv, Types, InboxTypes, Transit, Ready, Following, Lifetimes
  <2>2. QED
    BY <1>8, <1>9, <2>1
<1>10. CASE /\ DropClient /\ inbox' = inbox \o <<"config">>
            /\ Peer = "hmi" /\ Len(inbox) + 1 <= Room
  <2>1. <<"config">> \in Seq(Message)
    BY DEF Message
  <2>2. Len(<<"config">>) = 1 /\ <<"config">>[1] = "config"
    OBVIOUS
  <2> DEFINE m == <<"config">>
  <2>3. \A i \in 1..Len(m) : m[i] # "stray" /\ (i > 1 => m[i] # "next")
    BY <2>2
  <2> HIDE DEF m
  <2>4. m \in Seq(Message) /\ Len(m) = 1 /\ m[1] = "config" /\ inbox' = inbox \o m
    BY <1>10, <2>1, <2>2 DEF m
  <2>5. Len(inbox) + Len(m) <= Room
    BY <1>10, <2>4
  <2>6. InboxTypes' /\ Transit'
    BY <1>0, <2>3, <2>4, <2>5, AppendMessages
  <2>7. QED
    BY <1>6, <1>8, <1>10, <2>6
<1>11. QED
  BY <1>7, <1>9, <1>10, SentMessages

-----------------------------------------------------------------------------
(* The HMI.                                                                *)

\* The message that is taken next passes every test.
LEMMA HeadIsUsed ==
  ASSUME VInv, inbox # <<>>
  PROVE  /\ Head(inbox) = inbox[1] /\ Head(inbox) \in {"config", "key", "next"}
         /\ Head(inbox) = "key" => Ready
         /\ Head(inbox) = "next" => Following
         /\ Accepts(Head(inbox))
<1>1. inbox \in Seq(Message) /\ 1 \in DOMAIN inbox /\ Head(inbox) = inbox[1]
  BY DEF VInv, Types, InboxTypes
<1>2. inbox[1] \in Message
  BY <1>1
<1>3. inbox[1] # "stray"
  BY <1>1 DEF VInv, Transit
<1>4. Head(inbox) \in {"config", "key", "next"}
  BY <1>1, <1>2, <1>3 DEF Message
<1>5. (Head(inbox) = "key" => Ready) /\ (Head(inbox) = "next" => Following)
  BY <1>1 DEF VInv, Transit
<1>6. Accepts(Head(inbox))
  BY <1>4, <1>5 DEF Accepts, Ready, Following
<1>7. QED
  BY <1>1, <1>4, <1>5, <1>6

\* A message that is used makes the HMI ready for the next one, and the decoder gets
\* what it can decode.
LEMMA MessageEffect ==
  ASSUME VInv, inbox # <<>>, Take(Head(inbox)), waitingIdr_' \in BOOLEAN,
         Head(inbox) = "key" => ~waitingIdr_',
         Head(inbox) = "next" => waitingIdr_' = waitingIdr_
  PROVE  /\ Ready' /\ (Head(inbox) \in {"key", "next"} => Following')
         /\ decoder' \in {"configured", "playing", "failed"} /\ configReceived_'
         /\ Feed!Next \/ UNCHANGED decoder
<1>1. /\ Head(inbox) \in {"config", "key", "next"}
      /\ Head(inbox) = "key" => Ready
      /\ Head(inbox) = "next" => Following
      /\ Accepts(Head(inbox))
  BY HeadIsUsed
<1>2. decoder \in {"empty", "configured", "playing", "failed"}
  BY DEF VInv, Types, HmiTypes, Ends, Lifetimes
<1>3. decoder' = Decoded(Head(inbox)) /\ configReceived_' = (configReceived_ \/ Head(inbox) = "config")
  BY <1>1 DEF Take
<1>4. CASE Head(inbox) = "config"
  <2>1. decoder' = IF decoder = "empty" THEN "configured" ELSE decoder
    BY <1>2, <1>3, <1>4 DEF Decoded
  <2>2. configReceived_'
    BY <1>3, <1>4
  <2>3. QED
    BY <1>2, <1>4, <2>1, <2>2 DEF Ready, Feed!Next, Feed!Configure
<1>5. CASE Head(inbox) = "key"
  <2>1. configReceived_ /\ decoder # "empty"
    BY <1>1, <1>5 DEF Ready
  <2>2. decoder' = IF decoder = "failed" THEN "failed" ELSE "playing"
    BY <1>2, <1>3, <1>5, <2>1 DEF Decoded
  <2>3. configReceived_' /\ ~waitingIdr_'
    BY <1>3, <1>5, <2>1
  <2>4. QED
    BY <1>2, <2>1, <2>2, <2>3 DEF Ready, Following, Feed!Next, Feed!Key
<1>6. CASE Head(inbox) = "next"
  <2>1. configReceived_ /\ decoder \in {"playing", "failed"} /\ ~waitingIdr_
    BY <1>1, <1>6 DEF Ready, Following
  <2>2. decoder' = decoder
    BY <1>3, <1>6, <2>1 DEF Decoded
  <2>3. configReceived_' /\ ~waitingIdr_'
    BY <1>3, <1>6, <2>1
  <2>4. QED
    BY <2>1, <2>2, <2>3 DEF Ready, Following
<1>7. QED
  BY <1>1, <1>4, <1>5, <1>6

\* Receiving a message keeps the invariant.
LEMMA TakeKeeps ==
  ASSUME VInv, inbox # <<>>, Take(Head(inbox)), waitingIdr_' \in BOOLEAN,
         Head(inbox) = "key" => ~waitingIdr_',
         Head(inbox) = "next" => waitingIdr_' = waitingIdr_,
         UNCHANGED <<publisher, queue, encoded, viewer, active_, fd_>>
  PROVE  VInv'
<1>0. UNCHANGED <<listening, parameter_sets, client, client_needs_config, client_needs_idr,
                  queue, position, contiguous, viewer, active_, fd_>>
  BY DEF publisher, encoded
<1>1. /\ Ready' /\ (Head(inbox) \in {"key", "next"} => Following')
      /\ decoder' \in {"configured", "playing", "failed"} /\ configReceived_'
  BY MessageEffect
<1>2. inbox \in Seq(Message) /\ Len(inbox) <= Room /\ Room \in Nat
  BY HandoffAssumption DEF VInv, Types, InboxTypes
<1>3. inbox' = Tail(inbox) /\ Head(inbox) = inbox[1]
  BY HeadIsUsed DEF Take
<1>4. /\ inbox' \in Seq(Message) /\ Len(inbox') = Len(inbox) - 1 /\ Len(inbox) \in Nat
      /\ \A i \in 1..Len(inbox') : inbox'[i] = inbox[i + 1]
  BY <1>2, <1>3, HeadTailProperties
<1>5. DOMAIN inbox = 1..Len(inbox) /\ DOMAIN inbox' = 1..Len(inbox')
  BY <1>2, <1>4
<1>6. fd_ /\ decoder # "off" /\ decoder # "garbled"
  BY DEF VInv, Ends, Lifetimes
<1>7. PublisherTypes' /\ QueueTypes'
  BY <1>0 DEF VInv, Types, PublisherTypes, QueueTypes
<1>8. InboxTypes'
  BY <1>2, <1>4 DEF InboxTypes
<1>9. HmiTypes'
  <2>1. configReceived_' \in BOOLEAN
    BY <1>3 DEF Take, VInv, Types, HmiTypes
  <2>2. QED
    BY <1>0, <1>1, <2>1 DEF VInv, Types, HmiTypes
<1>10. Ends'
  BY <1>0, <1>1 DEF VInv, Ends, Linked
<1>11. Lifetimes'
  BY <1>0, <1>1, <1>6 DEF VInv, Lifetimes
<1>12. Transit'
  <2>1. \A i \in DOMAIN inbox' : inbox'[i] # "stray"
    BY <1>4, <1>5 DEF VInv, Transit
  <2>2. ASSUME NEW i \in DOMAIN inbox' \ {1}, inbox'[i] = "next"
        PROVE  inbox'[i - 1] \in {"key", "next"}
    <3>1. i + 1 \in DOMAIN inbox \ {1} /\ inbox[i + 1] = "next" /\ (i + 1) - 1 = i
      BY <1>4, <1>5, <2>2
    <3>2. inbox[i] \in {"key", "next"}
      BY <3>1 DEF VInv, Transit
    <3>3. inbox'[i - 1] = inbox[i]
      BY <1>4, <1>5
    <3>4. QED
      BY <3>2, <3>3
  <2>3. ASSUME inbox' # <<>>, inbox'[1] = "next" PROVE Following'
    <3>1. 2 \in DOMAIN inbox \ {1} /\ inbox[2] = "next" /\ 2 - 1 = 1
      BY <1>4, <1>5, <2>3
    <3>2. inbox[1] \in {"key", "next"}
      BY <3>1 DEF VInv, Transit
    <3>3. QED
      BY <1>1, <1>3, <3>2
  <2>4. QED
    BY <1>1, <2>1, <2>2, <2>3 DEF Transit
<1>13. Belief'
  <2>1. contiguous /\ client = "hmi" => inbox[Len(inbox)] \in {"key", "next"}
    BY DEF VInv, Belief
  <2>2. inbox' = <<>> => Len(inbox) = 1
    BY <1>4
  <2>3. inbox' # <<>> => inbox'[Len(inbox')] = inbox[Len(inbox)]
    BY <1>4
  <2>4. contiguous /\ client = "hmi" /\ inbox' = <<>> => Following'
    BY <1>1, <1>3, <2>1, <2>2
  <2>5. client = "hmi" /\ ~client_needs_config /\ ~client_needs_idr => contiguous
    BY DEF VInv, Belief
  <2>6. QED
    BY <1>0, <1>1, <2>1, <2>3, <2>4, <2>5 DEF Belief
<1>14. QED
  BY <1>7, <1>8, <1>9, <1>10, <1>11, <1>12, <1>13 DEF VInv, Types

\* An attempt to connect, whether it succeeds or not, with the flags forgotten or not.
LEMMA ConnectKeeps ==
  ASSUME VInv, ~fd_, active_, Connected \/ UNCHANGED <<fd_, queue>>,
         UNCHANGED <<publisher, encoded, viewer, active_, inbox>>,
         configReceived_' \in BOOLEAN, waitingIdr_' \in BOOLEAN,
         decoder' = IF decoder = "off" THEN "empty" ELSE decoder
  PROVE  VInv'
<1>0. UNCHANGED <<listening, parameter_sets, client, client_needs_config, client_needs_idr,
                  position, contiguous, viewer, active_, inbox>>
  BY DEF publisher, encoded
<1>1. client # "hmi" /\ (\A i \in DOMAIN queue : queue[i] # "hmi") /\ inbox = <<>>
  BY DEF VInv, Ends, Linked, Lifetimes
<1>2. CASE Connected
  <2>0. queue \in Seq({"hmi", "gone"}) /\ Len(queue) \in Nat /\ Backlog \in Nat
    BY HandoffAssumption DEF VInv, Types, QueueTypes
  <2>1. queue' \in Seq({"hmi", "gone"}) /\ Len(queue') = Len(queue) + 1
    BY <1>2, <2>0, AppendProperties DEF Connected
  <2>2. Len(queue) < Backlog /\ listening /\ fd_'
    BY <1>2 DEF Connected
  <2>3. QueueTypes'
    BY <2>0, <2>1, <2>2 DEF QueueTypes
  <2>4. fd_' \in BOOLEAN
    BY <1>2 DEF Connected
  <2>5. PublisherTypes' /\ InboxTypes' /\ HmiTypes'
    BY <1>0, <2>4 DEF VInv, Types, PublisherTypes, InboxTypes, HmiTypes
  <2>6. Ends' /\ Lifetimes'
    BY <1>0, <1>1, <2>2 DEF VInv, Ends, Lifetimes
  <2>7. Transit' /\ Belief'
    BY <1>0, <1>1 DEF Transit, Belief
  <2>8. QED
    BY <2>3, <2>5, <2>6, <2>7 DEF VInv, Types
<1>3. CASE UNCHANGED <<fd_, queue>>
  <2>1. PublisherTypes' /\ QueueTypes' /\ InboxTypes' /\ HmiTypes'
    BY <1>0, <1>3 DEF VInv, Types, PublisherTypes, QueueTypes, InboxTypes, HmiTypes
  <2>2. Ends' /\ Lifetimes'
    BY <1>0, <1>1, <1>3 DEF VInv, Ends, Lifetimes, Linked
  <2>3. Transit' /\ Belief'
    BY <1>0, <1>1 DEF Transit, Belief
  <2>4. QED
    BY <2>1, <2>2, <2>3 DEF VInv, Types
<1>4. QED
  BY <1>2, <1>3

\* The end of a connection that the publisher has closed.
LEMMA EofKeeps ==
  ASSUME VInv, Eof, UNCHANGED <<publisher, queue, encoded, viewer, active_, inbox, decoder>>,
         configReceived_' \in BOOLEAN, waitingIdr_' \in BOOLEAN
  PROVE  VInv'
<1>0. UNCHANGED <<listening, parameter_sets, client, client_needs_config, client_needs_idr,
                  queue, position, contiguous, viewer, active_, inbox, decoder>>
  BY DEF publisher, encoded
<1>1. inbox = <<>> /\ ~Linked /\ ~fd_' /\ client # "hmi"
  BY DEF Eof, Linked
<1>2. PublisherTypes' /\ QueueTypes' /\ InboxTypes' /\ HmiTypes'
  BY <1>0, <1>1 DEF VInv, Types, PublisherTypes, QueueTypes, InboxTypes, HmiTypes, Eof
<1>3. Ends'
  BY <1>0, <1>1 DEF VInv, Ends, Linked
<1>4. Lifetimes'
  BY <1>0, <1>1 DEF VInv, Lifetimes
<1>5. Transit' /\ Belief'
  BY <1>0, <1>1 DEF Transit, Belief
<1>6. QED
  BY <1>2, <1>3, <1>4, <1>5 DEF VInv, Types

\* The end of a connection by the HMI, with or without its decoder.
LEMMA HmiClosesKeeps ==
  ASSUME VInv, Close, UNCHANGED Others, active_' \in BOOLEAN,
         configReceived_' \in BOOLEAN, waitingIdr_' \in BOOLEAN,
         decoder' \in {"off", decoder},
         viewer = "qt" => (active_' <=> decoder' # "off")
  PROVE  VInv'
<1>0. UNCHANGED <<listening, parameter_sets, client_needs_config, client_needs_idr,
                  position, contiguous, viewer>>
  BY DEF Others, encoded
<1>1. client' \in {"none", "gone"} /\ fd_' = FALSE
  BY CloseEffect DEF Close
<1>2. PublisherTypes' /\ HmiTypes'
  BY <1>0, <1>1 DEF VInv, Types, PublisherTypes, HmiTypes
<1>3. decoder' # "garbled"
  BY DEF VInv, Lifetimes
<1>4. QED
  BY <1>0, <1>2, <1>3, ClosedKeeps

\* A change of the page or the decoder, with the connection as it is.
LEMMA StateKeeps ==
  ASSUME VInv, UNCHANGED <<publisher, queue, encoded, viewer, fd_, inbox, memory>>,
         active_' \in BOOLEAN, active_ => active_',
         decoder' \in {decoder, "empty", "failed"},
         decoder' = "empty" /\ decoder # "empty" => ~active_,
         viewer = "qt" => (active_' <=> decoder' # "off")
  PROVE  VInv'
<1>0. UNCHANGED <<listening, parameter_sets, client, client_needs_config, client_needs_idr,
                  queue, position, contiguous, viewer, fd_, inbox, configReceived_, waitingIdr_>>
  BY DEF publisher, encoded, memory
<1>1. decoder # "garbled" /\ (~active_ => ~fd_) /\ (~fd_ => inbox = <<>>)
      /\ (~listening => client = "none" /\ queue = <<>>) /\ (Linked => fd_)
      /\ (decoder = "off" => ~fd_)
  BY DEF VInv, Lifetimes, Ends
<1>2. PublisherTypes' /\ QueueTypes' /\ InboxTypes' /\ HmiTypes'
  BY <1>0 DEF VInv, Types, PublisherTypes, QueueTypes, InboxTypes, HmiTypes
<1>3. Ends' /\ Lifetimes'
  BY <1>0, <1>1 DEF Ends, Lifetimes, Linked
<1>4. CASE ~fd_
  <2>1. inbox = <<>> /\ client # "hmi"
    BY <1>1, <1>4 DEF Linked
  <2>2. Transit' /\ Belief'
    BY <1>0, <2>1 DEF Transit, Belief
  <2>3. QED
    BY <1>2, <1>3, <2>2 DEF VInv, Types
<1>5. CASE fd_
  <2>1. decoder' = decoder \/ decoder' = "failed"
    BY <1>1, <1>5
  <2>2. (Ready => Ready') /\ (Following => Following')
    BY <1>0, <2>1 DEF Ready, Following
  <2>3. Transit'
    BY <1>0, <2>2 DEF VInv, Transit
  <2>4. Belief'
    BY <1>0, <2>2 DEF VInv, Belief
  <2>5. QED
    BY <1>2, <1>3, <2>3, <2>4 DEF VInv, Types
<1>6. QED
  BY <1>4, <1>5 DEF VInv, Types, HmiTypes

\* The timers of the two HMIs keep the invariant.
LEMMA PollKeeps ==
  ASSUME VInv, Poll
  PROVE  VInv'
<1>1. CASE BridgeConnect
  <2>1. UNCHANGED <<configReceived_, waitingIdr_>>
    BY <1>1 DEF BridgeConnect, memory
  <2>2. configReceived_' \in BOOLEAN /\ waitingIdr_' \in BOOLEAN
    BY <2>1 DEF VInv, Types, HmiTypes
  <2>3. QED
    BY <1>1, <2>2, ConnectKeeps DEF BridgeConnect
<1>2. CASE BridgeEof
  <2>1. UNCHANGED <<configReceived_, waitingIdr_>>
    BY <1>2 DEF BridgeEof, memory
  <2>2. configReceived_' \in BOOLEAN /\ waitingIdr_' \in BOOLEAN
    BY <2>1 DEF VInv, Types, HmiTypes
  <2>3. QED
    BY <1>2, <2>2, EofKeeps DEF BridgeEof
<1>3. CASE BridgeReceive
  <2>1. waitingIdr_' = (waitingIdr_ /\ ~(Head(inbox) = "key" /\ Accepts(Head(inbox))))
    BY <1>3 DEF BridgeReceive
  <2>2. Accepts(Head(inbox)) /\ inbox # <<>>
    BY <1>3, HeadIsUsed DEF BridgeReceive
  <2>3. waitingIdr_ \in BOOLEAN
    BY DEF VInv, Types, HmiTypes
  <2>4. waitingIdr_' \in BOOLEAN /\ (Head(inbox) = "key" => ~waitingIdr_')
        /\ (Head(inbox) = "next" => waitingIdr_' = waitingIdr_)
    BY <2>1, <2>2, <2>3
  <2>5. QED
    BY <1>3, <2>4, TakeKeeps DEF BridgeReceive
<1>4. CASE MonitorConnect
  <2>1. decoder # "off"
    BY <1>4 DEF MonitorConnect, VInv, Lifetimes
  <2>2. QED
    BY <1>4, <2>1, ConnectKeeps DEF MonitorConnect, Forget
<1>5. CASE MonitorEof
  BY <1>5, EofKeeps DEF MonitorEof, Forget
<1>6. ASSUME MonitorDisconnect PROVE VInv'
  <2>1. active_' \in BOOLEAN /\ (viewer = "qt" => (active_' <=> decoder' # "off"))
    BY <1>6 DEF MonitorDisconnect, VInv, Types, HmiTypes, Lifetimes
  <2>2. QED
    BY <1>6, <2>1, HmiClosesKeeps DEF MonitorDisconnect, Forget
<1>7. CASE MonitorReceive
  <2>1. Accepts(Head(inbox)) /\ inbox # <<>>
    BY <1>7, HeadIsUsed DEF MonitorReceive
  <2>2. CASE decoder = "failed"
    BY <1>6, <1>7, <2>1, <2>2 DEF MonitorReceive
  <2>3. CASE decoder # "failed"
    <3>1. /\ Take(Head(inbox))
          /\ waitingIdr_' = \/ Head(inbox) = "config"
                            \/ waitingIdr_ /\ ~(Head(inbox) = "key" /\ Accepts(Head(inbox)))
          /\ UNCHANGED <<publisher, queue, encoded, viewer, active_, fd_>>
      BY <1>7, <2>3 DEF MonitorReceive
    <3>2. waitingIdr_ \in BOOLEAN
      BY DEF VInv, Types, HmiTypes
    <3>3. waitingIdr_' \in BOOLEAN /\ (Head(inbox) = "key" => ~waitingIdr_')
          /\ (Head(inbox) = "next" => waitingIdr_' = waitingIdr_)
      BY <2>1, <3>1, <3>2
    <3>4. QED
      BY <2>1, <3>1, <3>3, TakeKeeps
  <2>4. QED
    BY <2>2, <2>3
<1>8. CASE MonitorBusError
  BY <1>6, <1>8 DEF MonitorBusError
<1>9. QED
  BY <1>1, <1>2, <1>3, <1>4, <1>5, <1>7, <1>8 DEF Poll

\* Pages, windows and restarts keep the invariant.
LEMMA UserKeeps ==
  ASSUME VInv, User
  PROVE  VInv'
<1>1. CASE Enter
  BY <1>1, StateKeeps DEF Enter
<1>2. CASE MonitorShow
  BY <1>2, StateKeeps DEF MonitorShow
<1>3. CASE Leave
  <2>1. UNCHANGED <<configReceived_, waitingIdr_>>
    BY <1>3 DEF Leave, memory
  <2>2. configReceived_' \in BOOLEAN /\ waitingIdr_' \in BOOLEAN
    BY <2>1 DEF VInv, Types, HmiTypes
  <2>3. QED
    BY <1>3, <2>2, HmiClosesKeeps DEF Leave, StopBridge
<1>4. CASE Reconnect
  BY <1>4, HmiClosesKeeps DEF Reconnect, StopBridge, Forget
<1>5. CASE RestartHmi
  BY <1>5, HmiClosesKeeps DEF RestartHmi, StopBridge, Forget
<1>6. QED
  BY <1>1, <1>2, <1>3, <1>4, <1>5 DEF User

\* Every step keeps the invariant.
LEMMA VideoStep ==
  ASSUME VInv, [VideoNext]_video
  PROVE  VInv'
<1>1. CASE StartPublisher
  BY <1>1, StartKeeps
<1>2. CASE StopPublisher
  BY <1>2, StopKeeps
<1>3. CASE Publish
  BY <1>3, PublishKeeps
<1>4. CASE Poll
  BY <1>4, PollKeeps
<1>5. CASE User
  BY <1>5, UserKeeps
<1>6. CASE DecoderError
  <2>1. active_ \in BOOLEAN /\ (viewer = "qt" => (active_ <=> decoder # "off"))
    BY DEF VInv, Types, HmiTypes, Lifetimes
  <2>2. QED
    BY <1>6, <2>1, StateKeeps DEF DecoderError
<1>7. CASE UNCHANGED video
  <2>1. UNCHANGED <<publisher, queue, encoded, viewer, fd_, inbox, memory, active_, decoder>>
    BY <1>7 DEF video, bridge
  <2>2. active_ \in BOOLEAN /\ (viewer = "qt" => (active_ <=> decoder # "off"))
    BY DEF VInv, Types, HmiTypes, Lifetimes
  <2>3. QED
    BY <2>1, <2>2, StateKeeps
<1>8. QED
  BY <1>1, <1>2, <1>3, <1>4, <1>5, <1>6, <1>7 DEF VideoNext

\* The invariant holds in every state.
THEOREM VideoInvariant == VideoSpec => []VInv
<1>1. VideoInit => VInv
  BY InitVInv
<1>2. VInv /\ [VideoNext]_video => VInv'
  BY VideoStep
<1>3. QED
  BY <1>1, <1>2, PTL DEF VideoSpec

-----------------------------------------------------------------------------
(* Theorems.                                                               *)

\* The types, and that an HMI without a connection, or a bridge without a decoder,
\* is at the other end of nothing.
THEOREM VideoTypesHold == VideoSpec => []VideoTypeOK
<1>1. VInv => VideoTypeOK
  BY DEF VInv, Types, PublisherTypes, QueueTypes, InboxTypes, HmiTypes, Ends, VideoTypeOK
<1>2. QED
  BY <1>1, VideoInvariant, PTL

\* What the publisher sends, the HMI uses, whatever both remember of connections that
\* were dropped, refused or closed.
THEOREM WhatIsSentIsUsed == VideoSpec => []SentIsUsed
<1>1. VInv => SentIsUsed
  BY HeadIsUsed DEF SentIsUsed
<1>2. QED
  BY <1>1, VideoInvariant, PTL

\* A step of the handoff is a step of the decoder's promise, or none.
LEMMA VideoImplementsStep ==
  ASSUME VInv, [VideoNext]_video
  PROVE  [Feed!Next]_decoder
<1> USE DEF Feed!Next
<1>1. CASE StartPublisher \/ StopPublisher
  BY <1>1 DEF StartPublisher, StopPublisher, bridge
<1>2. CASE Publish
  BY <1>2 DEF Publish
<1>3. CASE BridgeConnect
  BY <1>3 DEF BridgeConnect, Feed!Build
<1>4. CASE BridgeEof \/ MonitorConnect \/ MonitorEof
  BY <1>4 DEF BridgeEof, MonitorConnect, MonitorEof
<1>5. ASSUME MonitorDisconnect PROVE UNCHANGED decoder
  BY <1>5 DEF MonitorDisconnect
<1>6. CASE BridgeReceive
  <2>1. waitingIdr_' = (waitingIdr_ /\ ~(Head(inbox) = "key" /\ Accepts(Head(inbox))))
    BY <1>6 DEF BridgeReceive
  <2>2. Accepts(Head(inbox)) /\ inbox # <<>> /\ Take(Head(inbox))
    BY <1>6, HeadIsUsed DEF BridgeReceive
  <2>3. waitingIdr_ \in BOOLEAN
    BY DEF VInv, Types, HmiTypes
  <2>4. waitingIdr_' \in BOOLEAN /\ (Head(inbox) = "key" => ~waitingIdr_')
        /\ (Head(inbox) = "next" => waitingIdr_' = waitingIdr_)
    BY <2>1, <2>2, <2>3
  <2>5. QED
    BY <2>2, <2>4, MessageEffect
<1>7. CASE MonitorReceive
  <2>1. Accepts(Head(inbox)) /\ inbox # <<>>
    BY <1>7, HeadIsUsed DEF MonitorReceive
  <2>2. CASE decoder = "failed"
    BY <1>5, <1>7, <2>1, <2>2 DEF MonitorReceive
  <2>3. CASE decoder # "failed"
    <3>1. /\ Take(Head(inbox))
          /\ waitingIdr_' = \/ Head(inbox) = "config"
                            \/ waitingIdr_ /\ ~(Head(inbox) = "key" /\ Accepts(Head(inbox)))
      BY <1>7, <2>3 DEF MonitorReceive
    <3>2. waitingIdr_ \in BOOLEAN
      BY DEF VInv, Types, HmiTypes
    <3>3. waitingIdr_' \in BOOLEAN /\ (Head(inbox) = "key" => ~waitingIdr_')
          /\ (Head(inbox) = "next" => waitingIdr_' = waitingIdr_)
      BY <2>1, <3>1, <3>2
    <3>4. QED
      BY <2>1, <3>1, <3>3, MessageEffect
  <2>4. QED
    BY <2>2, <2>3
<1>8. CASE MonitorBusError
  BY <1>5, <1>8 DEF MonitorBusError
<1>9. CASE Enter \/ MonitorShow
  <2>1. CASE Enter
    BY <2>1 DEF Enter
  <2>2. CASE MonitorShow
    <3>1. decoder = "off"
      BY <2>2 DEF MonitorShow, VInv, Lifetimes
    <3>2. QED
      BY <2>2, <3>1 DEF MonitorShow, Feed!Build
  <2>3. QED
    BY <1>9, <2>1, <2>2
<1>10. CASE Leave \/ Reconnect \/ RestartHmi
  BY <1>10 DEF Leave, Reconnect, RestartHmi, StopBridge, Feed!Destroy
<1>11. CASE DecoderError
  BY <1>11 DEF DecoderError, Feed!Fail
<1>12. CASE UNCHANGED video
  BY <1>12 DEF video, bridge
<1>13. QED
  BY <1>1, <1>2, <1>3, <1>4, <1>6, <1>7, <1>8, <1>9, <1>10, <1>11, <1>12
     DEF VideoNext, Poll, User

\* The handoff implements the promise to the decoder: parameter sets, then a key frame,
\* then successors only, and a key frame after every gap.
THEOREM VideoImplementsFeed == VideoSpec => FeedSpec
<1>1. VideoInit => Feed!Init
  BY DEF VideoInit, Feed!Init
<1>2. VInv /\ [VideoNext]_video => [Feed!Next]_decoder
  BY VideoImplementsStep
<1>3. QED
  BY <1>1, <1>2, VideoInvariant, PTL DEF VideoSpec, FeedSpec, Feed!Spec
=============================================================================
