------------------------ MODULE MCMultiProcessCache ------------------------
(* Two parsers whose process numbers are next to each other, one server.   *)
EXTENDS MultiProcessCache, TLC

CONSTANTS p1, p2, s

MCPid == (p1 :> 1) @@ (p2 :> 2)
MCFiles == Slots \cup {0}
MCSlots == 1 .. 4
=============================================================================
