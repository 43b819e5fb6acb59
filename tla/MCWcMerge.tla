------------------------------ MODULE MCWcMerge ------------------------------
(***************************************************************************)
(* Small instances of WcCompare for TLC.                                   *)
(***************************************************************************)
EXTENDS WcCompare

CONSTANTS s1, r1, r2, n1, n2

MCMacs == {s1, r1, r2}
MCRandomMacs == {r1, r2}
MCOuiType == [m \in MCMacs |-> "Unknown"]

(* The level an address is heard at; one is never measured.                *)
Level(mac) == CASE mac = s1 -> -1 [] mac = r1 -> -2 [] OTHER -> 0

(* Probes from every address, and one randomized address that beacons.     *)
MCFrames ==
  {[mac |-> mac, mac_random |-> mac \in RandomMacs, is_beacon |-> FALSE,
    probed_ssid |-> name, rssi |-> Level(mac), ie_hash |-> 0] : mac \in Macs, name \in Names \cup {NoName}}
  \cup {[mac |-> r1, mac_random |-> TRUE, is_beacon |-> TRUE,
         probed_ssid |-> name, rssi |-> Level(r1), ie_hash |-> 0] : name \in Names}

Symmetry == Permutations(Names)
=============================================================================
