---------------------------- MODULE MCWcScanScene ----------------------------
(***************************************************************************)
(* A small instance of WcScanScene for TLC: the constants are numbers,     *)
(* given in the configuration.                                             *)
(***************************************************************************)
EXTENDS WcScanScene
=============================================================================
