-------------------------- MODULE ReporterPresence --------------------------
(***************************************************************************)
(* What the broker says of the device: the retained message of the topic   *)
(* device/<id>/availability (userspace/mqtt_reporterd/mqtt_reporterd.c,     *)
(* main), over the connections of EventReporting.                          *)
(*                                                                         *)
(* The reporter publishes "online" with each connection and "offline" when  *)
(* it is stopped.  Each connection has a will: the broker publishes         *)
(* "offline" by itself when the connection ends without a DISCONNECT.       *)
(* What the reporter sends arrives in order, up to some point.  The broker  *)
(* notices a dead connection by its keep-alive (20 s) or by the next one of *)
(* the same client; the reporter, whose publications wait for 5 s, does so  *)
(* before.  An outage is one of the network: the broker forgets nothing.    *)
(***************************************************************************)
EXTENDS EventReporting

VARIABLES
  session,       \* the broker holds a connection of the reporter, with its will
  availability,  \* the retained message; "none" before the first
  withdrawn      \* observation: the latest connection ended with a DISCONNECT
                 \* that was not announced by "offline"

presence == <<session, availability, withdrawn>>

PresenceInit == Init /\ session = FALSE /\ availability = "none" /\ withdrawn = FALSE

-----------------------------------------------------------------------------

\* A connection that lasts.
Arrive ==
  /\ Connect
  /\ session' = TRUE /\ availability' = "online" /\ withdrawn' = FALSE

\* Another connection of the client ends the one that the broker still holds.
Overdue == IF session THEN "offline" ELSE availability

\* One whose "online" is not acknowledged in time; its DISCONNECT arrives, or not.
Refuse ==
  /\ ConnectFails
  /\ \/ session' = FALSE /\ availability' = "online" /\ withdrawn' = TRUE
     \/ session' = TRUE /\ availability' \in {"online", Overdue} /\ withdrawn' = FALSE

\* A publication fails, and the reporter disconnects: if that arrives, the will is
\* deleted, and the retained message stays.
BreakOff ==
  /\ StatusFails \/ PublishFails
  /\ \/ broker = "up" /\ session' = FALSE /\ withdrawn' = TRUE
     \/ UNCHANGED <<session, withdrawn>>
  /\ UNCHANGED availability

\* Mutant of Stop: nothing is said before the DISCONNECT.
StopSilently ==
  /\ Crash /\ pc = "top"
  /\ \/ connected /\ broker = "up" /\ session' = FALSE /\ UNCHANGED <<availability, withdrawn>>
     \/ UNCHANGED presence

\* SIGTERM, which main looks at between its passes.
Stop ==
  /\ Crash /\ pc = "top"
  /\ \/ /\ connected /\ broker = "up"
        /\ session' = FALSE /\ availability' = "offline" /\ UNCHANGED withdrawn
     \/ UNCHANGED presence

\* The process dies.
Kill == Crash /\ UNCHANGED presence

WillSent ==
  /\ session /\ (pc = "down" \/ ~connected)
  /\ session' = FALSE /\ availability' = "offline"
  /\ UNCHANGED <<vars, withdrawn>>

Others ==
  /\ Writer \/ Start \/ InitializeCursor \/ Query \/ Publish \/ Advance \/ Outage \/ Recovery
  /\ UNCHANGED presence

PresenceNext == Arrive \/ Refuse \/ BreakOff \/ Stop \/ Kill \/ WillSent \/ Others

PresenceSpec ==
  PresenceInit /\ [][PresenceNext]_<<vars, presence>> /\ Fairness /\ WF_presence(WillSent)

-----------------------------------------------------------------------------
(* Properties.                                                             *)

\* Types of all the variables, those of EventReporting included.
PresenceTypeOK ==
  /\ TypeOK
  /\ session \in BOOLEAN /\ availability \in {"none", "online", "offline"}
  /\ withdrawn \in BOOLEAN

\* The broker tells the truth in the end.  A reporter that has ended for good is not
\* said to be online, however it ended, unless its latest connection was given up for a
\* late acknowledgement; one that runs and reaches the broker is said to be online,
\* whatever wills of earlier connections are still to come.
PresenceIsTold ==
  /\ <>[](pc = "down") => <>[](availability # "online" \/ withdrawn)
  /\ <>[](pc # "down" /\ broker = "up") => <>[](availability = "online")
=============================================================================
