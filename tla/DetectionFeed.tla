---------------------------- MODULE DetectionFeed ----------------------------
(***************************************************************************)
(* What the way from the intrusion detector to the daemon promises: the    *)
(* changes of the detector arrive one by one, in order, and none is        *)
(* invented.  The request that the daemon holds is the state of the        *)
(* detector that was delivered last, or it was forgotten.  Once the feed   *)
(* is closed the request can only be withdrawn, but for one change that    *)
(* was already before the daemon and may come into effect late.            *)
(***************************************************************************)
EXTENDS Integers

VARIABLES
  detected,   \* the detector sees an intrusion
  pending,    \* changes under way
  requested,  \* what the daemon holds
  closed,     \* nothing is sent any more
  late        \* a request for the alarm was left behind at the close

vars == <<detected, pending, requested, closed, late>>

Init ==
  /\ detected = FALSE /\ pending = 0 /\ requested = FALSE
  /\ closed = FALSE /\ late = FALSE

\* The state of the detector before the changes under way.
Behind(changes) == IF changes % 2 = 0 THEN detected ELSE ~detected

Detect ==
  /\ detected' = ~detected
  /\ pending' = IF closed THEN 0 ELSE pending + 1
  /\ UNCHANGED <<requested, closed, late>>

Deliver ==
  /\ ~closed /\ pending > 0
  /\ pending' = pending - 1 /\ requested' = Behind(pending - 1)
  /\ UNCHANGED <<detected, closed, late>>

Forget ==
  /\ requested' = FALSE
  /\ UNCHANGED <<detected, pending, closed, late>>

Close ==
  /\ ~closed
  /\ closed' = TRUE /\ pending' = 0
  /\ late' => pending > 0 /\ Behind(pending - 1)
  /\ late' \in BOOLEAN
  /\ UNCHANGED <<detected, requested>>

ComeLate ==
  /\ late /\ late' = FALSE /\ requested' \in {requested, TRUE}
  /\ UNCHANGED <<detected, pending, closed>>

Next == Detect \/ Deliver \/ Forget \/ Close \/ ComeLate

Spec == Init /\ [][Next]_vars
=============================================================================
