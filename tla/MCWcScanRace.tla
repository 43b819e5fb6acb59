---------------------------- MODULE MCWcScanRace ----------------------------
(***************************************************************************)
(* An array of four: room to append, to remove from the middle and to      *)
(* append again while one walk is under way.                               *)
(***************************************************************************)
EXTENDS WcScanRace
=============================================================================
