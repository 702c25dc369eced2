--------------------------- MODULE MCHostSession ----------------------------
(* The sizes make the arena and the frames take 11 units with the table and *)
(* the receive buffer, the reused buffer 7; only the arena is longer than a *)
(* frame, and only the frames need more than three handles.                 *)
EXTENDS HostSession
=============================================================================
