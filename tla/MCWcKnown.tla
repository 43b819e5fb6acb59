----------------------------- MODULE MCWcKnown ------------------------------
(***************************************************************************)
(* Registries that are absent, damaged, cut, of one rule and full; devices *)
(* with a stable address, with names, and with neither.                    *)
(***************************************************************************)
EXTENDS WcKnown

MCDevices ==
  {[random |-> FALSE, mac |-> 1, ssids |-> <<7>>],
   [random |-> TRUE, mac |-> 2, ssids |-> <<8, 7>>],
   [random |-> TRUE, mac |-> 2, ssids |-> << >>]}

MCNetworks == {8}
MCLabels == {1}

MCRegistries ==
  {<< >>,
   SubSeq(write(<< <<ByMac, 9, 1>>, <<BySsid, 7, 2>> >>), 1, 3),
   write(<< <<BySsid, 9, 1>> >>),
   write(<< <<ByMac, 9, 1>>, <<BySsid, 7, 2>>, <<ByMac, 3, 2>> >>)}
=============================================================================
