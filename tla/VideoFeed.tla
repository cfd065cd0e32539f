------------------------------- MODULE VideoFeed -------------------------------
(***************************************************************************)
(* What the viewer's decoder is promised: H.264 that it can decode from the *)
(* first byte on.  A new decoder is told the parameter sets first, begins   *)
(* with a key frame, and gets any other access unit only as the successor of*)
(* the one before it; when a unit is missing it waits for a key frame.      *)
(***************************************************************************)
VARIABLE decoder   \* "off", "empty", "configured", "playing" or "failed"

Init == decoder = "off"

\* The pipeline is built, torn down, or stops with an error of its own.
Build == decoder = "off" /\ decoder' = "empty"
Destroy == decoder' = "off"
Fail == decoder # "off" /\ decoder' = "failed"

Configure == decoder = "empty" /\ decoder' = "configured"

\* A key frame needs the parameter sets, and nothing else.
Key == decoder \in {"configured", "playing"} /\ decoder' = "playing"

\* The successor of the last unit, or a gap before the next key frame.
Successor == decoder = "playing" /\ UNCHANGED decoder
Gap == decoder = "playing" /\ decoder' = "configured"

Next == Build \/ Destroy \/ Fail \/ Configure \/ Key \/ Successor \/ Gap

Spec == Init /\ [][Next]_decoder
=============================================================================
