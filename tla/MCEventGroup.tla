---------------------------- MODULE MCEventGroup ----------------------------
(* Event groups for TLC; the README explains the bounds.                     *)
EXTENDS EventGroup
=============================================================================
