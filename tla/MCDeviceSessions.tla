-------------------------- MODULE MCDeviceSessions --------------------------
(* Small instances of DeviceSessions: two exchanges, two transactions. *)
EXTENDS DeviceSessions, TLC

CONSTANTS c1, c2, h1, h2
=============================================================================
