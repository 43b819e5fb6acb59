----------------------------- MODULE MCWcCensus -----------------------------
(***************************************************************************)
(* Small instances of WcCensus for TLC.                                    *)
(***************************************************************************)
EXTENDS WcCensus

CONSTANTS s1, s2, r1, r2, r3, n1, n2

(* One stable address whose OUI is not listed, one that an OUI types.      *)
MCMacs == {s1, s2, r1, r2, r3}
MCRandomMacs == {r1, r2, r3}
MCOuiType == [m \in Macs |-> IF m = s2 THEN "Iot" ELSE "Unknown"]

Frame(mac, beacon, name, rssi, hash) ==
  [mac |-> mac, mac_random |-> mac \in RandomMacs, is_beacon |-> beacon,
   probed_ssid |-> name, rssi |-> rssi, ie_hash |-> hash]

(* Identity runs: who is heard, and which name is sought.                  *)
IdentityFrames ==
  {Frame(mac, FALSE, name, 0, 0) : mac \in Macs, name \in Names \cup {NoName}}
    \cup {Frame(mac, TRUE, name, 0, 0) : mac \in {s1, r1} \cap Macs, name \in {n1, NoName}}

(* Accumulation runs: readings that may be missing, on few addresses.      *)
ReadingFrames ==
  {Frame(mac, FALSE, name, rssi, hash) :
     mac \in Macs, name \in Names \cup {NoName}, rssi \in {0, -2, -1}, hash \in {0, 7}}
    \cup {Frame(s1, TRUE, NoName, -1, 0)}

Symmetry == Permutations(RandomMacs \ {r1})
=============================================================================
