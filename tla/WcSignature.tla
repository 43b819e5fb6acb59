----------------------------- MODULE WcSignature -----------------------------
(***************************************************************************)
(* The record the census keeps for one device, WcSignature, and the three  *)
(* ways it changes: built from a first frame (from_obs), given a further   *)
(* frame of the same device (merge), or given another record of the same   *)
(* device (absorb).                                                        *)
(*                                                                         *)
(* A MAC address, a network name and an OUI are opaque values.  The vendor *)
(* hint ie_vendor is left out: it follows the rule of ie_hash and is only  *)
(* shown.  The field heard_as is a history field that the code does not    *)
(* have: the addresses whose frames ended up in the record.                *)
(***************************************************************************)
EXTENDS Integers, Sequences

CONSTANTS
  Macs,        \* every address that can be heard
  RandomMacs,  \* those with the locally-administered bit set
  OuiType,     \* the device type the OUI of an address stands for
  Names,       \* network names a probe request can carry
  NoName       \* the empty name of a wildcard probe

DeviceTypes == {"Unknown", "Phone", "Laptop", "Iot", "Ap"}

ASSUME SignatureAssumption ==
  /\ RandomMacs \subseteq Macs
  /\ OuiType \in [Macs -> DeviceTypes \ {"Ap"}]   \* no OUI says "access point"
  /\ NoName \notin Names

WC_SIG_MAX_SSIDS == 2

(* A directed probe, a wildcard probe (probed_ssid = NoName) or a beacon.  *)
(* A reading of 0 means "not measured": rssi from a pcap, ie_hash from a   *)
(* UART summary line.                                                      *)
Observation ==
  [mac : Macs, mac_random : BOOLEAN, is_beacon : BOOLEAN,
   probed_ssid : Names \cup {NoName}, rssi : Int, ie_hash : Nat]

Signature ==
  [mac : Macs, mac_random : BOOLEAN, type : DeviceTypes, ssids : Seq(Names),
   rssi_max : Int, obs_count : Nat, first_seen : Nat, last_seen : Nat,
   ie_hash : Nat, heard_as : SUBSET Macs]

(* What every record made by the operations below satisfies besides: its   *)
(* address bit is that of its address, and it has at most two names, all   *)
(* different.                                                              *)
WellFormed(sig) ==
  /\ sig.mac_random = (sig.mac \in RandomMacs)
  /\ Len(sig.ssids) <= WC_SIG_MAX_SSIDS
  /\ \A j, k \in DOMAIN sig.ssids : sig.ssids[j] = sig.ssids[k] => j = k

-----------------------------------------------------------------------------
wc_device_type_guess(obs) ==
  CASE obs.is_beacon -> "Ap"
    [] ~obs.is_beacon /\ obs.mac_random -> "Phone"
    [] OTHER -> OuiType[obs.mac]

has_ssid(sig, name) == \E k \in DOMAIN sig.ssids : sig.ssids[k] = name

\* Mutant: the name is not looked for among those there.
add_ssid_repeats(sig, name) ==
  IF name = NoName \/ Len(sig.ssids) >= WC_SIG_MAX_SSIDS
  THEN sig
  ELSE [sig EXCEPT !.ssids = Append(@, name)]

(* Record a name unless it is empty, already there, or both slots are      *)
(* taken.                                                                  *)
add_ssid(sig, name) ==
  IF \/ name = NoName
     \/ Len(sig.ssids) >= WC_SIG_MAX_SSIDS
     \/ has_ssid(sig, name)
  THEN sig
  ELSE [sig EXCEPT !.ssids = Append(@, name)]

from_obs(obs, now) ==
  add_ssid([mac |-> obs.mac, mac_random |-> obs.mac_random,
            type |-> wc_device_type_guess(obs), ssids |-> << >>,
            rssi_max |-> obs.rssi, obs_count |-> 1,
            first_seen |-> now, last_seen |-> now,
            ie_hash |-> obs.ie_hash, heard_as |-> {obs.mac}],
           obs.probed_ssid)

StrongerRssi(old, new) ==
  IF new # 0 /\ (old = 0 \/ new > old) THEN new ELSE old

FirstKnown(old, new, unknown) == IF old = unknown THEN new ELSE old

\* Mutant: a plain minimum; a time that is missing is before any other.
EarliestSeen_plain(old, new) == IF new < old THEN new ELSE old

EarliestSeen(old, new) ==
  IF new # 0 /\ (old = 0 \/ new < old) THEN new ELSE old

\* Mutant: a further frame does not fill in the fingerprint.
merge_unfingerprinted(sig, obs, now) ==
  add_ssid([sig EXCEPT
              !.obs_count = @ + 1,
              !.last_seen = now,
              !.rssi_max = StrongerRssi(@, obs.rssi),
              !.type = FirstKnown(@, wc_device_type_guess(obs), "Unknown"),
              !.heard_as = @ \cup {obs.mac}],
           obs.probed_ssid)

merge(sig, obs, now) ==
  add_ssid([sig EXCEPT
              !.obs_count = @ + 1,
              !.last_seen = now,
              !.rssi_max = StrongerRssi(@, obs.rssi),
              !.type = FirstKnown(@, wc_device_type_guess(obs), "Unknown"),
              !.ie_hash = FirstKnown(@, obs.ie_hash, 0),
              !.heard_as = @ \cup {obs.mac}],
           obs.probed_ssid)

(* The names of src in slot order, each under the rules of add_ssid.       *)
add_ssids_of(dst, src) ==
  LET one == IF Len(src.ssids) >= 1 THEN add_ssid(dst, src.ssids[1]) ELSE dst
  IN  IF Len(src.ssids) >= 2 THEN add_ssid(one, src.ssids[2]) ELSE one

\* Mutant: the frames of the absorbed record are not added up.
absorb_uncounted(dst, src) ==
  add_ssids_of([dst EXCEPT
                  !.first_seen = EarliestSeen(@, src.first_seen),
                  !.last_seen = IF src.last_seen > @ THEN src.last_seen ELSE @,
                  !.rssi_max = StrongerRssi(@, src.rssi_max),
                  !.type = FirstKnown(@, src.type, "Unknown"),
                  !.ie_hash = FirstKnown(@, src.ie_hash, 0),
                  !.heard_as = @ \cup src.heard_as],
               src)

absorb(dst, src) ==
  add_ssids_of([dst EXCEPT
                  !.obs_count = @ + src.obs_count,
                  !.first_seen = EarliestSeen(@, src.first_seen),
                  !.last_seen = IF src.last_seen > @ THEN src.last_seen ELSE @,
                  !.rssi_max = StrongerRssi(@, src.rssi_max),
                  !.type = FirstKnown(@, src.type, "Unknown"),
                  !.ie_hash = FirstKnown(@, src.ie_hash, 0),
                  !.heard_as = @ \cup src.heard_as],
               src)
=============================================================================
