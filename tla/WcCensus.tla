------------------------------- MODULE WcCensus -------------------------------
(***************************************************************************)
(* The census: the set of unique devices seen over one scan session, built *)
(* from one frame at a time.  devices is the array of the code up to       *)
(* count, so count is Len(devices).                                        *)
(*                                                                         *)
(* The variables heard, turned_away and the field heard_as of a record are *)
(* history: the code does not have them.                                   *)
(***************************************************************************)
EXTENDS WcSignature, SequencesExt

CONSTANTS
  Observations,  \* the frames the environment may send
  Times,         \* the values of the clock; 0 is "no clock" (a pcap)
  Ceilings,      \* what set_max may be given
  Grow,          \* WC_CENSUS_GROW
  MaxDevices,    \* WC_CENSUS_MAX_DEVICES
  MaxFrames      \* bound of the model: frames heard between two resets

ASSUME CensusAssumption ==
  /\ Observations \subseteq Observation
  /\ \A obs \in Observations : obs.mac_random = (obs.mac \in RandomMacs)
  /\ Times \subseteq Nat
  /\ Ceilings \subseteq Nat
  /\ Grow \in Nat \ {0}
  /\ MaxDevices \in Nat
  /\ MaxFrames \in Nat

VARIABLES
  devices,      \* c->devices[0 .. count - 1]
  capacity,     \* c->capacity, the slots allocated
  dropped,      \* c->dropped, a uint16_t
  max,          \* c->max, the ceiling
  clock,        \* the time of the last frame
  heard,        \* history: frames heard since the last reset
  turned_away   \* history: addresses refused a slot since the last reset

vars == <<devices, capacity, dropped, max, clock, heard, turned_away>>

U16 == 65536   \* the values of a uint16_t

-----------------------------------------------------------------------------
(* Looking a frame up.                                                     *)

(* find_by_mac: the first record with this address.                        *)
find_by_mac(devs, mac) ==
  {i \in DOMAIN devs : /\ devs[i].mac = mac
                       /\ \A j \in 1 .. i - 1 : devs[j].mac # mac}

(* The clients, not access points, that seek a name.                       *)
clients_seeking(devs, name) ==
  {i \in DOMAIN devs : /\ name # NoName
                       /\ devs[i].type # "Ap"
                       /\ has_ssid(devs[i], name)}

(* A name identifies a client only while exactly one client seeks it.      *)
find_client_by_ssid(devs, name) ==
  {i \in DOMAIN devs : clients_seeking(devs, name) = {i}}

(* The record a frame belongs to, as a set of at most one index.           *)
Existing(devs, obs) ==
  IF find_by_mac(devs, obs.mac) # {}
  THEN find_by_mac(devs, obs.mac)
  ELSE IF obs.mac_random /\ ~obs.is_beacon
       THEN find_client_by_ssid(devs, obs.probed_ssid)
       ELSE {}

-----------------------------------------------------------------------------
(* Linking a record that names a network late.                             *)

\* Mutant: the records after the hole are moved down, count is not lowered.
absorb_and_shift(devs, keep, from) ==
  LET both == [devs EXCEPT ![keep] = absorb(@, devs[from])]
  IN  [i \in DOMAIN devs |-> both[IF i < from THEN i ELSE Min({i + 1, Len(devs)})]]

absorb_and_remove(devs, keep, from) ==
  RemoveAt([devs EXCEPT ![keep] = absorb(@, devs[from])], from)

\* Mutant: two stable addresses are linked as well.
LateOther_any(devs, self, name) ==
  {other \in DOMAIN devs \ {self} : clients_seeking(devs, name) = {self, other}}

\* Mutant: the record itself, which has the name by now, is forgotten when
\* the seekers are counted.
LateOther_uncounted_self(devs, self, name) ==
  {other \in DOMAIN devs \ {self} :
     /\ clients_seeking(devs, name) = {other}
     /\ devs[self].mac_random \/ devs[other].mac_random}

(* The other one of exactly two clients that seek the name, unless both    *)
(* have a stable address.                                                  *)
LateOther(devs, self, name) ==
  {other \in DOMAIN devs \ {self} :
     /\ clients_seeking(devs, name) = {self, other}
     /\ devs[self].mac_random \/ devs[other].mac_random}

\* Mutant: the one seen first is kept, stable or not.
KeepsOther_first(devs, self, other) == other < self

(* The stable one is kept when there is one, else the one seen first.      *)
KeepsOther(devs, self, other) ==
  devs[self].mac_random /\ (~devs[other].mac_random \/ other < self)

Linked(devs, self, other) ==
  IF KeepsOther(devs, self, other)
  THEN absorb_and_remove(devs, other, self)
  ELSE absorb_and_remove(devs, self, other)

link_late(devs, self, name) ==
  IF LateOther(devs, self, name) = {}
  THEN devs
  ELSE Linked(devs, self, CHOOSE other \in LateOther(devs, self, name) : TRUE)

-----------------------------------------------------------------------------
Init ==
  /\ devices = << >>
  /\ capacity = 0
  /\ dropped = 0
  /\ max = MaxDevices
  /\ clock = 0
  /\ heard = 0
  /\ turned_away = {}

(* "Call right after wc_census_init, before adding devices."               *)
set_max(m) ==
  /\ devices = << >> /\ capacity = 0 /\ dropped = 0
  /\ max' = m
  /\ UNCHANGED <<devices, capacity, dropped, clock, heard, turned_away>>

(* Room for n devices at once, at most the ceiling.  Nothing changes when  *)
(* there is room already or when the allocation fails.                     *)
reserve(n) ==
  LET room == Min({n, max})
  IN  /\ room > capacity
      /\ capacity' = room
      /\ UNCHANGED <<devices, dropped, max, clock, heard, turned_away>>

\* Mutant: a full chunk is added even when less is left below the ceiling.
ensure_one_uncapped ==
  \/ /\ Len(devices) < capacity
     /\ UNCHANGED capacity
  \/ /\ Len(devices) >= capacity
     /\ capacity < max
     /\ capacity' = capacity + Grow

(* There is a free slot, or the array grows by one chunk, at most to the   *)
(* ceiling.                                                                *)
ensure_one ==
  \/ /\ Len(devices) < capacity
     /\ UNCHANGED capacity
  \/ /\ Len(devices) >= capacity
     /\ capacity < max
     /\ capacity' = Min({capacity + Grow, max})

(* No free slot, and the array is at the ceiling or the allocation fails.  *)
ensure_one_fails ==
  /\ Len(devices) >= capacity
  /\ UNCHANGED capacity

(* The frame of a known device: folded into its record, which is then      *)
(* linked with another one if the name says so.                            *)
ObserveKnown(obs, now) ==
  /\ \E self \in Existing(devices, obs) :
       devices' = link_late([devices EXCEPT ![self] = merge(@, obs, now)],
                            self, obs.probed_ssid)
  /\ UNCHANGED <<capacity, dropped, turned_away>>

ObserveNew(obs, now) ==
  /\ Existing(devices, obs) = {}
  /\ ensure_one
  /\ devices' = Append(devices, from_obs(obs, now))
  /\ UNCHANGED <<dropped, turned_away>>

ObserveRefused(obs) ==
  /\ Existing(devices, obs) = {}
  /\ ensure_one_fails
  /\ dropped' = (dropped + 1) % U16
  /\ turned_away' = turned_away \cup {obs.mac}
  /\ UNCHANGED devices

(* During a session the clock does not go back, and a session has a clock  *)
(* or (a pcap, which carries none) has none at all.  One session may be of *)
(* the one kind and the next of the other.                                 *)
ClockAllows(now) ==
  heard > 0 => now >= clock /\ (now = 0) = (clock = 0)

observe(obs, now) ==
  /\ heard < MaxFrames
  /\ ClockAllows(now)
  /\ \/ ObserveKnown(obs, now)
     \/ ObserveNew(obs, now)
     \/ ObserveRefused(obs)
  /\ heard' = heard + 1
  /\ clock' = now
  /\ UNCHANGED max

free ==
  /\ devices' = << >>
  /\ capacity' = 0
  /\ dropped' = 0
  /\ max' = MaxDevices
  /\ heard' = 0
  /\ turned_away' = {}
  /\ UNCHANGED clock

Next ==
  \/ \E m \in Ceilings : set_max(m)
  \/ \E n \in 1 .. MaxDevices : reserve(n)
  \/ \E obs \in Observations, now \in Times : observe(obs, now)
  \/ free

Spec == Init /\ [][Next]_vars

-----------------------------------------------------------------------------
(* Properties.                                                             *)

Stable(sig) == ~sig.mac_random

(* Every variable has its type, and every record of the array is well      *)
(* formed whatever was added to it, folded into it or shifted over it.     *)
TypeOK ==
  /\ devices \in Seq(Signature)
  /\ \A i \in DOMAIN devices : WellFormed(devices[i])
  /\ capacity \in Nat
  /\ dropped \in 0 .. U16 - 1
  /\ max \in Nat
  /\ clock \in Nat
  /\ heard \in Nat
  /\ turned_away \subseteq Macs

(* The array is never used past its allocation (ensure_one and reserve     *)
(* grow it, a fold closes the gap), and never grows past the ceiling.      *)
InBounds == Len(devices) <= capacity /\ capacity <= max

(* No two records have the same address, through every addition, fold and  *)
(* shift of the array: find_by_mac returns the first match and relies on   *)
(* there being no other.                                                   *)
UniqueMacs ==
  \A i, j \in DOMAIN devices : devices[i].mac = devices[j].mac => i = j

(* A stable address is its own identity: its frames are never counted in   *)
(* the record of another address, whatever was linked or folded            *)
(* (wc_census_observe, link_late).                                         *)
StableIdentity ==
  \A i \in DOMAIN devices :
    \A mac \in devices[i].heard_as \ RandomMacs : devices[i].mac = mac

(* Two randomized clients that seek the same name are one device, unless a *)
(* device with a stable address holds the name too: then it is the name of *)
(* a place.  This is what link_late and the count of exactly one in        *)
(* find_client_by_ssid are for.                                            *)
PlaceNames ==
  \A i, j \in DOMAIN devices :
    \A name \in Names :
      /\ i # j
      /\ {i, j} \subseteq clients_seeking(devices, name)
      => \E k \in DOMAIN devices : Stable(devices[k]) /\ has_ssid(devices[k], name)

(* The frames counted in the records of devs.                              *)
FramesIn(devs) ==
  LET upTo[n \in 0 .. Len(devs)] == IF n = 0 THEN 0 ELSE upTo[n - 1] + devs[n].obs_count
  IN  upTo[Len(devs)]

(* Every frame is counted exactly once, in one record or in dropped: a     *)
(* merge, a fold and a refusal neither lose nor double one.  A device that *)
(* was turned away is counted at least once.                               *)
FramesAccounted ==
  FramesIn(devices) + dropped = heard /\ Cardinality(turned_away) <= dropped

(* One further frame of a device changes its record exactly as absorbing   *)
(* the record that frame alone would have made: wc_signature_merge and     *)
(* wc_signature_absorb are two codings of the same accumulation, and       *)
(* link_late and the merge of captures rely on it.                         *)
MergeIsAbsorb ==
  \A i \in DOMAIN devices, obs \in Observations, now \in Times :
    ClockAllows(now)
    => merge(devices[i], obs, now) = absorb(devices[i], from_obs(obs, now))

(* While frames arrive, a record with a stable address is never folded     *)
(* away and never loses a name it holds.                                   *)
StableKept ==
  [][heard' > heard =>
       \A i \in DOMAIN devices :
         Stable(devices[i]) =>
           \E j \in DOMAIN devices' :
             /\ devices'[j].mac = devices[i].mac
             /\ IsPrefix(devices[i].ssids, devices'[j].ssids)]_vars
=============================================================================
