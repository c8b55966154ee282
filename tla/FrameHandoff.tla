---------------------------- MODULE FrameHandoff ----------------------------
(***************************************************************************)
(* What the capture and the inference thread promise each other: a place   *)
(* for one frame.  A frame is offered only when the place is open, is taken*)
(* once, is answered by one result that is about this frame, and is given  *)
(* back before the place opens again.  The camera may write every buffer   *)
(* except the one in the place.  FramePipeline implements it.              *)
(***************************************************************************)
CONSTANTS Buffers, NoBuf

VARIABLES
    slot,     \* "open", "offered", "taken", "answered" or "returned"
    frame,    \* the buffer in the place, NoBuf when there is none
    result,   \* the last result: what was inferred and the image shown with it
    writable  \* the buffers the camera may write

vars == <<slot, frame, result, writable>>

Init ==
    /\ slot = "open"
    /\ frame = NoBuf
    /\ result = [input |-> NoBuf, image |-> NoBuf]
    /\ writable = Buffers

\* The camera is given buffers or gives them up: never the frame's.
Camera ==
    /\ writable' \in SUBSET (Buffers \ {frame})
    /\ UNCHANGED <<slot, frame, result>>

Offer(b) ==
    /\ slot = "open"
    /\ b \notin writable
    /\ slot' = "offered"
    /\ frame' = b
    /\ UNCHANGED <<result, writable>>

Take ==
    /\ slot = "offered"
    /\ slot' = "taken"
    /\ UNCHANGED <<frame, result, writable>>

Answer ==
    /\ slot = "taken"
    /\ slot' = "answered"
    /\ result' = [input |-> frame, image |-> frame]
    /\ UNCHANGED <<frame, writable>>

Return ==
    /\ slot = "answered"
    /\ slot' = "returned"
    /\ frame' = NoBuf
    /\ writable' = writable \cup {frame}
    /\ UNCHANGED result

\* The inference fails: its frame leaves the place without being given back.
Abandon ==
    /\ slot \in {"taken", "answered"}
    /\ slot' = "returned"
    /\ frame' = NoBuf
    /\ UNCHANGED <<result, writable>>

Reopen ==
    /\ slot = "returned"
    /\ slot' = "open"
    /\ UNCHANGED <<frame, result, writable>>

Next ==
    \/ Camera \/ Take \/ Answer \/ Return \/ Abandon \/ Reopen
    \/ \E b \in Buffers : Offer(b)

Spec == Init /\ [][Next]_vars
=============================================================================
