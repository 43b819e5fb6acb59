----------------------------- MODULE WcScanRace ------------------------------
(***************************************************************************)
(* The live count of a scan: wc_census_stats, with wc_census_ssid_tally,   *)
(* walks the array of devices on the application's thread, twice a second, *)
(* while the serial worker adds, links and removes devices in it           *)
(* (wc_census.c), and nothing locks either out.                            *)
(*                                                                         *)
(* Of a slot of the array only ssid_count is kept: the walk follows it     *)
(* into the slot's two names.  Unset is what the allocation held before.   *)
(* The array itself does not move: that is ReservedWhileScanning of        *)
(* WcScanScene.  The bound of the walk's loops is a plain variable, which  *)
(* the compiler reads again for each device, or keeps in a register.       *)
(***************************************************************************)
EXTENDS Integers

CONSTANT Capacity    \* WC_CENSUS_MAX_DEVICES, all of them reserved

ASSUME RaceAssumption == Capacity \in Nat

VARIABLES
  slots,    \* devices[1 .. Capacity]: their ssid_count
  count,    \* c->count
  worker,   \* the worker's next write: [step, at]
  walk      \* the walk's next read: [step, bound, i, j, p]

vars == <<slots, count, worker, walk>>

Unset == -1
MaxNames == 2    \* WC_SIG_MAX_SSIDS
Slots == 1 .. Capacity

Raw == [s \in Slots |-> Unset]
Resting == [step |-> "Rest", at |-> 0]
Rest == [step |-> "Rest", bound |-> 0, i |-> 0, j |-> 0, p |-> 0]

Init == slots = Raw /\ count = 0 /\ worker = Resting /\ walk = Rest

-----------------------------------------------------------------------------
(* The worker.                                                             *)

Works(step, at) == worker' = [step |-> step, at |-> at]

\* Mutant: the slot is published, then filled.
Append_early ==
  /\ worker.step = "Rest"
  /\ count < Capacity
  /\ count' = count + 1
  /\ Works("Fill", count + 1)
  /\ UNCHANGED <<slots, walk>>

(* wc_census_observe of a new device: wc_signature_from_obs clears the     *)
(* slot, then fills it; "Fill the slot before publishing it".              *)
Append ==
  /\ worker.step = "Rest"
  /\ count < Capacity
  /\ slots' = [slots EXCEPT ![count + 1] = 0]
  /\ Works("Fill", count + 1)
  /\ UNCHANGED <<count, walk>>

FillSlot ==
  /\ worker.step = "Fill"
  /\ \E n \in 0 .. 1 : slots' = [slots EXCEPT ![worker.at] = n]
  /\ Works("Publish", worker.at)
  /\ UNCHANGED <<count, walk>>

Publish ==
  /\ worker.step = "Publish"
  /\ count' = worker.at
  /\ worker' = Resting
  /\ UNCHANGED <<slots, walk>>

(* wc_signature_add_ssid, from wc_signature_merge or wc_signature_absorb:  *)
(* the name first, then the number of names.                               *)
Name ==
  /\ worker.step = "Rest"
  /\ \E s \in 1 .. count :
       /\ slots[s] < MaxNames
       /\ slots' = [slots EXCEPT ![s] = @ + 1]
  /\ UNCHANGED <<count, worker, walk>>

(* absorb_and_remove closes the gap device by device.                      *)
Remove ==
  /\ worker.step = "Rest"
  /\ count > 1
  /\ \E from \in 1 .. count : Works("Shift", from)
  /\ UNCHANGED <<slots, count, walk>>

Shift ==
  /\ worker.step = "Shift"
  /\ IF worker.at < count
     THEN /\ slots' = [slots EXCEPT ![worker.at] = slots[worker.at + 1]]
          /\ Works("Shift", worker.at + 1)
          /\ UNCHANGED count
     ELSE count' = count - 1 /\ worker' = Resting /\ UNCHANGED slots
  /\ UNCHANGED walk

-----------------------------------------------------------------------------
(* The application's thread.                                               *)

Bounds == {walk.bound, count}

(* The device after i, in the same loop: the first (Device) or the tally's *)
(* (Names).  The end of the first loop is the beginning of the second.     *)
Onward(loop, i, bound) ==
  walk' = IF i <= bound
          THEN [step |-> loop, bound |-> bound, i |-> i, j |-> 1, p |-> 0]
          ELSE IF loop = "Device" /\ count > 0
          THEN [step |-> "Names", bound |-> count, i |-> 1, j |-> 1, p |-> 0]
          ELSE Rest

BeginWalk ==
  /\ walk.step = "Rest"
  /\ count > 0
  /\ Onward("Device", 1, count)
  /\ UNCHANGED <<slots, count, worker>>

WalkDevice ==
  /\ walk.step = "Device"
  /\ \E bound \in Bounds : Onward("Device", walk.i + 1, bound)
  /\ UNCHANGED <<slots, count, worker>>

(* The next name of device i is looked for in the devices before it, from  *)
(* the first on, for as long as it is not found.                           *)
WalkName ==
  /\ walk.step = "Names"
  /\ IF walk.j > slots[walk.i]
     THEN \E bound \in Bounds : Onward("Names", walk.i + 1, bound)
     ELSE walk' = [walk EXCEPT !.step = "Earlier", !.p = 1]
  /\ UNCHANGED <<slots, count, worker>>

WalkEarlier ==
  /\ walk.step = "Earlier"
  /\ \/ walk.p < walk.i /\ walk' = [walk EXCEPT !.p = @ + 1]
     \/ walk' = [walk EXCEPT !.step = "Names", !.j = @ + 1, !.p = 0]
  /\ UNCHANGED <<slots, count, worker>>

(* Between two walks the same thread may stop the worker and begin with an *)
(* allocation of its own (WcScanScene): the census is empty again.         *)
NewCensus ==
  /\ walk.step = "Rest" /\ worker.step = "Rest"
  /\ slots' = Raw /\ count' = 0
  /\ UNCHANGED <<worker, walk>>

Walk == BeginWalk \/ WalkDevice \/ WalkName \/ WalkEarlier
Observe == Append \/ FillSlot \/ Publish \/ Name \/ Remove \/ Shift

Next == Walk \/ Observe \/ NewCensus

Spec == Init /\ [][Next]_vars

-----------------------------------------------------------------------------
(* Properties.                                                             *)

TypeOK ==
  /\ slots \in [Slots -> Unset .. MaxNames]
  /\ count \in 0 .. Capacity
  /\ worker \in [step : {"Rest", "Fill", "Publish", "Shift"}, at : 0 .. Capacity]
  /\ walk \in [step : {"Rest", "Device", "Names", "Earlier"}, bound : 0 .. Capacity,
               i : 0 .. Capacity, j : 0 .. MaxNames + 1, p : 0 .. Capacity]

(* The walk reads slots of the array that the worker has filled, and names *)
(* that a slot has room for, whatever the worker does between two reads:   *)
(* "a leftover ssid_count of up to 255 sends that walk off the end of the  *)
(* two SSID slots".                                                        *)
ReadsFilled ==
  /\ walk.step # "Rest" => walk.i \in Slots /\ slots[walk.i] # Unset
  /\ walk.step = "Earlier" => /\ walk.p \in 1 .. walk.i /\ slots[walk.p] # Unset
                              /\ walk.j \in 1 .. MaxNames
=============================================================================
