---------------------------- MODULE GuestCallers ----------------------------
(* The guest threads whose thunk calls interleave.                         *)
CONSTANT Threads
=============================================================================
