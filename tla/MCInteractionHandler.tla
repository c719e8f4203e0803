------------------------ MODULE MCInteractionHandler ------------------------
(***************************************************************************)
(* A small instance of InteractionHandler.  The durations keep the order   *)
(* of the real ones (100 < 1400 < 5650); the requests are clamped from     *)
(* below, left alone, clamped from above, and, for the last one, overflow  *)
(* an int whose largest value is MCInt32Max.                               *)
(***************************************************************************)
EXTENDS InteractionHandler

MCRequestPad    == 1
MCWaitMs        == 1
MCMinDurationMs == 2
MCMaxDurationMs == 4
MCInt32Max      == 9
MCRequests      == {-1, 2, 5, 9}
=============================================================================
