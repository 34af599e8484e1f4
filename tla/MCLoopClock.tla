---------------------------- MODULE MCLoopClock ----------------------------
(***************************************************************************)
(* LoopClock has numbers for constants; the configurations give them.      *)
(***************************************************************************)
EXTENDS LoopClock
=============================================================================
