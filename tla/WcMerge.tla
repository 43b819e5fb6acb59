------------------------------- MODULE WcMerge -------------------------------
(***************************************************************************)
(* Merging two stored captures into one (wc_merge_service_run): the first  *)
(* is loaded into a census, the records of the second are folded in one by *)
(* one as they are read, and the result is stored as a capture of its own. *)
(*                                                                         *)
(* Captures come from scans, so that every capture merged is one that a    *)
(* scan, or an earlier merge, can have made.  What a capture is on the SD  *)
(* card, and how saving it can fail, is not the subject here: stored holds *)
(* the records of each capture.                                            *)
(***************************************************************************)
EXTENDS WcCensus

CONSTANT MaxCaptures   \* bound of the model: captures on the SD card

VARIABLES
  stored,    \* the captures on the SD card, each the records of one
  merging    \* the merge under way: which two, and the next record of b

mergeVars == <<stored, merging>>

NoMerge == [a |-> 0, b |-> 0, next |-> 0]
Merging == merging # NoMerge

-----------------------------------------------------------------------------
\* Mutant: a name links a record with a stable address too.
find_merge_target_any(devs, sd) ==
  LET named == {k \in DOMAIN sd.ssids : find_client_by_ssid(devs, sd.ssids[k]) # {}}
  IN  IF find_by_mac(devs, sd.mac) # {}
      THEN find_by_mac(devs, sd.mac)
      ELSE IF named # {}
           THEN find_client_by_ssid(devs, sd.ssids[Min(named)])
           ELSE {}

\* Mutant: a randomized address is not looked up, only its names.
find_merge_target_names_only(devs, sd) ==
  LET named == {k \in DOMAIN sd.ssids : find_client_by_ssid(devs, sd.ssids[k]) # {}}
  IN  IF ~sd.mac_random
      THEN find_by_mac(devs, sd.mac)
      ELSE IF named # {}
           THEN find_client_by_ssid(devs, sd.ssids[Min(named)])
           ELSE {}

(* The record of dst that a record of the other capture folds into, as a   *)
(* set of at most one index: its address first, then, for a randomized     *)
(* address, the first of its names that exactly one client seeks.          *)
find_merge_target(devs, sd) ==
  LET named == {k \in DOMAIN sd.ssids : find_client_by_ssid(devs, sd.ssids[k]) # {}}
  IN  IF find_by_mac(devs, sd.mac) # {}
      THEN find_by_mac(devs, sd.mac)
      ELSE IF sd.mac_random /\ named # {}
           THEN find_client_by_ssid(devs, sd.ssids[Min(named)])
           ELSE {}

MergeInit ==
  /\ Init
  /\ stored = << >>
  /\ merging = NoMerge

(* A scan, as in WcCensus.                                                 *)
Scan(obs, now) ==
  /\ ~Merging
  /\ Len(stored) < MaxCaptures - 1
  /\ observe(obs, now)
  /\ UNCHANGED mergeVars

(* The scan is saved, and its census released.                             *)
SaveScan ==
  /\ ~Merging
  /\ devices # << >>
  /\ Len(stored) < MaxCaptures - 1
  /\ stored' = Append(stored, devices)
  /\ free
  /\ UNCHANGED merging

(* wc_capture_service_load of a, then room for both up front.  When the    *)
(* heap refuses, what there is room for is at least a, rounded up to a     *)
(* chunk.                                                                  *)
StartMerge(a, b) ==
  /\ ~Merging
  /\ devices = << >>
  /\ Len(stored[a]) <= MaxDevices /\ Len(stored[b]) <= MaxDevices
  /\ devices' = stored[a]
  /\ capacity' \in Len(stored[a])
                     .. Min({Len(stored[a]) + Max({Len(stored[b]), Grow - 1}), MaxDevices})
  /\ max' = MaxDevices
  /\ dropped' = 0
  /\ merging' = [a |-> a, b |-> b, next |-> 1]
  /\ UNCHANGED <<stored, clock, heard, turned_away>>

(* wc_census_merge_one: absorbed into its target, or added (wc_census_add) *)
(* when it has none, or dropped when there is no slot.                     *)
AbsorbRecord(sd) ==
  /\ \E i \in find_merge_target(devices, sd) :
       devices' = [devices EXCEPT ![i] = absorb(@, sd)]
  /\ UNCHANGED <<capacity, dropped>>

AddRecord(sd) ==
  /\ find_merge_target(devices, sd) = {}
  /\ ensure_one
  /\ devices' = Append(devices, sd)
  /\ UNCHANGED dropped

DropRecord(sd) ==
  /\ find_merge_target(devices, sd) = {}
  /\ ensure_one_fails
  /\ dropped' = (dropped + 1) % U16
  /\ UNCHANGED devices

merge_one ==
  /\ Merging
  /\ merging.next <= Len(stored[merging.b])
  /\ LET sd == stored[merging.b][merging.next]
     IN  AbsorbRecord(sd) \/ AddRecord(sd) \/ DropRecord(sd)
  /\ merging' = [merging EXCEPT !.next = @ + 1]
  /\ UNCHANGED <<max, clock, heard, turned_away, stored>>

(* The result is stored as a capture and the census released.              *)
FinishMerge ==
  /\ Merging
  /\ merging.next > Len(stored[merging.b])
  /\ Len(stored) < MaxCaptures
  /\ stored' = Append(stored, devices)
  /\ free
  /\ merging' = NoMerge

(* The card does not give the rest of b, or does not take the result.      *)
AbortMerge ==
  /\ Merging
  /\ free
  /\ merging' = NoMerge
  /\ UNCHANGED stored

MergeNext ==
  \/ \E obs \in Observations, now \in Times : Scan(obs, now)
  \/ SaveScan
  \/ \E a, b \in DOMAIN stored : StartMerge(a, b)
  \/ merge_one
  \/ FinishMerge
  \/ AbortMerge

MergeSpec == MergeInit /\ [][MergeNext]_<<vars, mergeVars>>

-----------------------------------------------------------------------------
(* Properties.                                                             *)

StableMacs(devs) == {devs[i].mac : i \in {j \in DOMAIN devs : Stable(devs[j])}}
MacsOf(devs) == {devs[i].mac : i \in DOMAIN devs}

(* The records of b that merge_one has been given so far.                  *)
Given == SubSeq(stored[merging.b], 1, merging.next - 1)

(* As long as nothing was dropped, the merge has exactly the devices with  *)
(* a stable address that the two captures have, whatever was folded into   *)
(* what, and the frames of both, each counted once.                        *)
MergeExact ==
  Merging /\ dropped = 0 =>
    /\ StableMacs(devices) = StableMacs(stored[merging.a]) \cup StableMacs(Given)
    /\ FramesIn(devices) = FramesIn(stored[merging.a]) + FramesIn(Given)

(* Merging a capture with itself, or with another copy of the same         *)
(* devices, adds no device and drops none.                                 *)
SelfMergeAddsNobody ==
  Merging /\ MacsOf(Given) \subseteq MacsOf(stored[merging.a]) =>
    MacsOf(devices) = MacsOf(stored[merging.a]) /\ dropped = 0

(* The readings in S that are one: 0 says that nothing was measured.       *)
Measured(S) == S \ {0}

(* r is the earliest (strongest) of two readings as far as they are known. *)
EarliestKnown(r, S) == IF Measured(S) = {} THEN r = 0 ELSE r = Min(Measured(S))
StrongestKnown(r, S) == IF Measured(S) = {} THEN r = 0 ELSE r = Max(Measured(S))

(* Folding two records of the captures on the card, scanned with a clock   *)
(* and without one, measured and not, gives the same whichever of the two  *)
(* is kept, so a merge may be asked for in either order: all frames of     *)
(* both, the latest time, and of the earliest time and the strongest       *)
(* signal whatever one of the two has measured: "plain min/max would let   *)
(* those unknowns beat every real reading they are merged with".           *)
FoldOrderFree ==
  devices = << >> /\ ~Merging =>
  \A c \in DOMAIN stored :
    \A i \in DOMAIN stored[c], j \in DOMAIN Last(stored) :
      LET r == stored[c][i]
          s == Last(stored)[j]
          x == absorb(r, s)
          y == absorb(s, r)
      IN  /\ x.obs_count = y.obs_count
          /\ x.first_seen = y.first_seen /\ x.last_seen = y.last_seen
          /\ x.rssi_max = y.rssi_max
          /\ EarliestKnown(x.first_seen, {r.first_seen, s.first_seen})
          /\ StrongestKnown(x.rssi_max, {r.rssi_max, s.rssi_max})

(* No capture, scanned or merged, ever lists an address twice.             *)
StoredUnique ==
  \A c \in DOMAIN stored :
    \A i, j \in DOMAIN stored[c] : stored[c][i].mac = stored[c][j].mac => i = j
=============================================================================
