--------------------------- MODULE MCSyncTriggers ---------------------------
(* An instance of SyncTriggers with two pumps, so that two could overlap. *)
EXTENDS SyncTriggers

CONSTANTS u1, u2
=============================================================================
