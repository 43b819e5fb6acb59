------------------------------ MODULE MCWcSerial ------------------------------
(***************************************************************************)
(* A small instance of WcSerial for TLC: the constants are numbers, given  *)
(* in the configuration.                                                   *)
(***************************************************************************)
EXTENDS WcSerial
=============================================================================
