--------------------------- MODULE WcScanRaceProofs ---------------------------
(***************************************************************************)
(* For an array of any size: the walk of the statistics reads only slots   *)
(* that the worker has filled (ReadsFilled of WcScanRace).                 *)
(*                                                                         *)
(* A slot that was filled once stays filled until the next allocation, and *)
(* the walk goes no further than the bound it has read.  Both the bound    *)
(* and count therefore have only filled slots below them, also when the    *)
(* worker has lowered count since the bound was read.                      *)
(***************************************************************************)
EXTENDS WcScanRace, TLAPS

FilledTo(n) == \A s \in 1 .. n : slots[s] # Unset

(* The worker is at a slot of its own: the one it is about to publish, or  *)
(* one it is moving another slot into.                                     *)
WorkerInv ==
  /\ worker.step \in {"Fill", "Publish"} =>
       worker.at = count + 1 /\ worker.at \in Slots /\ slots[worker.at] # Unset
  /\ worker.step = "Shift" => worker.at \in 1 .. count /\ count > 1

(* The walk is at a device below its bound, and at a name there is room    *)
(* for.                                                                    *)
WalkInv ==
  walk.step # "Rest" =>
    /\ walk.i \in 1 .. walk.bound
    /\ FilledTo(walk.bound)
    /\ walk.j \in 1 .. MaxNames + 1
    /\ walk.step = "Earlier" => walk.p \in 1 .. walk.i /\ walk.j \in 1 .. MaxNames

IInv == TypeOK /\ FilledTo(count) /\ WorkerInv /\ WalkInv

-----------------------------------------------------------------------------

LEMMA InitInv == Init => IInv
BY RaceAssumption
DEF Init, IInv, TypeOK, FilledTo, WorkerInv, WalkInv, Raw, Resting, Rest, Slots, Unset, MaxNames

(* The next device of a loop is below a bound that is filled.              *)
LEMMA OnwardInv ==
  ASSUME IInv, walk.step # "Rest" \/ count > 0,
         NEW loop \in {"Device", "Names"}, NEW i \in Nat \ {0},
         NEW bound \in 0 .. Capacity, FilledTo(bound),
         Onward(loop, i, bound), UNCHANGED <<slots, count, worker>>
  PROVE  IInv'
<1>1. TypeOK'
  BY RaceAssumption DEF Onward, IInv, TypeOK, Rest, Slots, MaxNames
<1>2. FilledTo(count)' /\ WorkerInv'
  BY DEF IInv, FilledTo, WorkerInv
<1>3. WalkInv'
  BY RaceAssumption DEF Onward, IInv, TypeOK, WalkInv, FilledTo, Rest, MaxNames
<1> QED BY <1>1, <1>2, <1>3 DEF IInv

(* Steps of the worker only fill slots.                                    *)
LEMMA WorkerFills ==
  ASSUME TypeOK, UNCHANGED walk, WalkInv,
         \A s \in Slots : slots[s] # Unset => slots'[s] # Unset
  PROVE  WalkInv'
BY RaceAssumption DEF WalkInv, TypeOK, FilledTo, Slots, MaxNames

LEMMA ObserveInv == ASSUME IInv, Observe PROVE IInv'
<1> USE RaceAssumption DEF IInv, TypeOK, Slots, Unset, MaxNames
<1>1. CASE Append
  <2>1. slots' = [slots EXCEPT ![count + 1] = 0] /\ count + 1 \in Slots
    BY <1>1 DEF Append
  <2>2. WalkInv'
    BY <1>1, <2>1, WorkerFills DEF Append
  <2>3. TypeOK' /\ FilledTo(count)' /\ WorkerInv'
    BY <1>1, <2>1 DEF Append, Works, FilledTo, WorkerInv
  <2> QED BY <2>2, <2>3
<1>2. CASE FillSlot
  <2>1. PICK n \in 0 .. 1 : slots' = [slots EXCEPT ![worker.at] = n]
    BY <1>2 DEF FillSlot
  <2>2. worker.at = count + 1 /\ worker.at \in Slots
    BY <1>2 DEF FillSlot, WorkerInv
  <2>3. WalkInv'
    BY <1>2, <2>1, <2>2, WorkerFills DEF FillSlot
  <2>4. TypeOK' /\ FilledTo(count)' /\ WorkerInv'
    BY <1>2, <2>1, <2>2 DEF FillSlot, Works, FilledTo, WorkerInv
  <2> QED BY <2>3, <2>4
<1>3. CASE Publish
  <2>1. WalkInv'
    BY <1>3, WorkerFills DEF Publish
  <2>2. TypeOK' /\ FilledTo(count)' /\ WorkerInv'
    BY <1>3 DEF Publish, Resting, FilledTo, WorkerInv
  <2> QED BY <2>1, <2>2
<1>4. CASE Name
  <2>1. PICK s \in 1 .. count : slots[s] < MaxNames /\ slots' = [slots EXCEPT ![s] = @ + 1]
    BY <1>4 DEF Name
  <2>2. slots[s] \in 0 .. 1
    BY <2>1 DEF FilledTo
  <2>3. WalkInv'
    BY <1>4, <2>1, <2>2, WorkerFills DEF Name
  <2>4. TypeOK' /\ FilledTo(count)' /\ WorkerInv'
    BY <1>4, <2>1, <2>2 DEF Name, FilledTo, WorkerInv
  <2> QED BY <2>3, <2>4
<1>5. CASE Remove
  <2>1. WalkInv'
    BY <1>5, WorkerFills DEF Remove
  <2>2. TypeOK' /\ FilledTo(count)' /\ WorkerInv'
    BY <1>5 DEF Remove, Works, FilledTo, WorkerInv
  <2> QED BY <2>1, <2>2
<1>6. CASE Shift
  <2>1. worker.at \in 1 .. count /\ count > 1
    BY <1>6 DEF Shift, WorkerInv
  <2>2. CASE worker.at < count
    <3>1. slots' = [slots EXCEPT ![worker.at] = slots[worker.at + 1]]
      BY <1>6, <2>2 DEF Shift
    <3>2. worker.at + 1 \in 1 .. count /\ slots[worker.at + 1] # Unset
      BY <2>1, <2>2 DEF FilledTo
    <3>3. WalkInv'
      BY <1>6, <2>1, <3>1, <3>2, WorkerFills DEF Shift
    <3>4. TypeOK' /\ FilledTo(count)' /\ WorkerInv'
      BY <1>6, <2>1, <2>2, <3>1, <3>2 DEF Shift, Works, FilledTo, WorkerInv
    <3> QED BY <3>3, <3>4
  <2>3. CASE ~(worker.at < count)
    <3>1. WalkInv'
      BY <1>6, <2>3, WorkerFills DEF Shift
    <3>2. TypeOK' /\ FilledTo(count)' /\ WorkerInv'
      BY <1>6, <2>1, <2>3 DEF Shift, Resting, FilledTo, WorkerInv
    <3> QED BY <3>1, <3>2
  <2> QED BY <2>2, <2>3
<1> QED BY <1>1, <1>2, <1>3, <1>4, <1>5, <1>6 DEF Observe

LEMMA WalkStepInv == ASSUME IInv, Walk PROVE IInv'
<1> USE RaceAssumption
<1>1. CASE BeginWalk
  <2>1. count \in 0 .. Capacity /\ FilledTo(count)
    BY DEF IInv, TypeOK
  <2> QED BY <1>1, <2>1, OnwardInv DEF BeginWalk
<1>2. CASE WalkDevice
  <2>1. PICK bound \in Bounds : Onward("Device", walk.i + 1, bound)
    BY <1>2 DEF WalkDevice
  <2>2. bound \in 0 .. Capacity /\ FilledTo(bound) /\ walk.i + 1 \in Nat \ {0}
    BY <1>2, <2>1 DEF Bounds, IInv, TypeOK, WalkInv, WalkDevice
  <2> QED BY <1>2, <2>1, <2>2, OnwardInv DEF WalkDevice
<1>3. CASE WalkName
  <2>1. walk.step = "Names"
    BY <1>3 DEF WalkName
  <2>2. CASE walk.j > slots[walk.i]
    <3>1. PICK bound \in Bounds : Onward("Names", walk.i + 1, bound)
      BY <1>3, <2>2 DEF WalkName
    <3>2. bound \in 0 .. Capacity /\ FilledTo(bound) /\ walk.i + 1 \in Nat \ {0}
      BY <2>1, <3>1 DEF Bounds, IInv, TypeOK, WalkInv
    <3> QED BY <1>3, <2>1, <3>1, <3>2, OnwardInv DEF WalkName
  <2>3. CASE ~(walk.j > slots[walk.i])
    <3>1. walk' = [walk EXCEPT !.step = "Earlier", !.p = 1] /\ UNCHANGED <<slots, count, worker>>
      BY <1>3, <2>3 DEF WalkName
    <3>2. walk.i \in Slots /\ walk.j \in 1 .. slots[walk.i] /\ slots[walk.i] \in Unset .. MaxNames
      BY <2>1, <2>3 DEF IInv, TypeOK, WalkInv, Slots, MaxNames, Unset
    <3>3. walk.j \in 1 .. MaxNames /\ walk.i \in 1 .. walk.bound /\ FilledTo(walk.bound)
      BY <2>1, <3>2 DEF IInv, TypeOK, WalkInv, Slots, MaxNames, Unset
    <3>4. TypeOK'
      <4>1. walk' \in [step : {"Rest", "Device", "Names", "Earlier"}, bound : 0 .. Capacity,
                       i : 0 .. Capacity, j : 0 .. MaxNames + 1, p : 0 .. Capacity]
        <5>1. 1 \in 0 .. Capacity
          BY <3>2 DEF Slots
        <5> QED BY <3>1, <5>1 DEF IInv, TypeOK
      <4> QED BY <3>1, <4>1 DEF IInv, TypeOK
    <3>5. /\ walk'.i = walk.i /\ walk'.bound = walk.bound /\ walk'.j = walk.j
          /\ walk'.p = 1 /\ walk'.step = "Earlier"
      BY <3>1 DEF IInv, TypeOK
    <3>6. WalkInv'
      BY <3>1, <3>2, <3>3, <3>5 DEF WalkInv, FilledTo, Slots, MaxNames
    <3> QED BY <3>1, <3>4, <3>6 DEF IInv, WorkerInv, FilledTo
  <2> QED BY <2>2, <2>3
<1>4. CASE WalkEarlier
  <2>1. /\ walk.step = "Earlier" /\ UNCHANGED <<slots, count, worker>>
        /\ walk.i \in 1 .. walk.bound /\ FilledTo(walk.bound)
        /\ walk.p \in 1 .. walk.i /\ walk.j \in 1 .. MaxNames
    BY <1>4 DEF WalkEarlier, IInv, TypeOK, WalkInv, MaxNames
  <2>2. CASE walk.p < walk.i /\ walk' = [walk EXCEPT !.p = @ + 1]
    <3>1. TypeOK'
      <4>1. walk.p + 1 \in 0 .. Capacity
        BY <2>1, <2>2 DEF IInv, TypeOK
      <4> QED BY <2>1, <2>2, <4>1 DEF IInv, TypeOK
    <3>2. WalkInv'
      BY <2>1, <2>2 DEF IInv, TypeOK, WalkInv, FilledTo, MaxNames
    <3> QED BY <2>1, <3>1, <3>2 DEF IInv, WorkerInv, FilledTo
  <2>3. CASE walk' = [walk EXCEPT !.step = "Names", !.j = @ + 1, !.p = 0]
    <3>1. walk.j + 1 \in 1 .. MaxNames + 1 /\ walk.j + 1 \in 0 .. MaxNames + 1 /\ 0 \in 0 .. Capacity
      BY <2>1 DEF MaxNames
    <3>2. TypeOK'
      BY <2>1, <2>3, <3>1 DEF IInv, TypeOK
    <3>3. WalkInv'
      BY <2>1, <2>3, <3>1 DEF IInv, TypeOK, WalkInv, FilledTo
    <3> QED BY <2>1, <3>2, <3>3 DEF IInv, WorkerInv, FilledTo
  <2> QED BY <1>4, <2>2, <2>3 DEF WalkEarlier
<1> QED BY <1>1, <1>2, <1>3, <1>4 DEF Walk

LEMMA StepInv == IInv /\ [Next]_vars => IInv'
<1> SUFFICES ASSUME IInv, [Next]_vars PROVE IInv'
  OBVIOUS
<1>1. CASE Walk
  BY <1>1, WalkStepInv
<1>2. CASE Observe
  BY <1>2, ObserveInv
<1>3. CASE NewCensus
  BY <1>3, RaceAssumption
  DEF NewCensus, IInv, TypeOK, FilledTo, WorkerInv, WalkInv, Raw, Resting, Rest, Slots, Unset, MaxNames
<1>4. CASE UNCHANGED vars
  BY <1>4 DEF vars, IInv, TypeOK, FilledTo, WorkerInv, WalkInv
<1> QED BY <1>1, <1>2, <1>3, <1>4 DEF Next

(* The strengthening of ReadsFilled and TypeOK that every step preserves.  *)
THEOREM Invariance == Spec => []IInv
<1>1. Init => IInv
  BY InitInv
<1>2. IInv /\ [Next]_vars => IInv'
  BY StepInv
<1> QED BY <1>1, <1>2, PTL DEF Spec

(* The walk of wc_census_stats, which nothing locks out, reads only slots  *)
(* that were filled and names that a slot has room for, however large the  *)
(* array is.                                                               *)
THEOREM WalkReadsFilled == Spec => []ReadsFilled
<1>1. IInv => ReadsFilled
  <2> SUFFICES ASSUME IInv PROVE ReadsFilled
    OBVIOUS
  <2>1. walk.step # "Rest" => walk.i \in Slots /\ slots[walk.i] # Unset
    BY RaceAssumption DEF IInv, TypeOK, WalkInv, FilledTo, Slots
  <2>2. walk.step = "Earlier" =>
          walk.p \in 1 .. walk.i /\ slots[walk.p] # Unset /\ walk.j \in 1 .. MaxNames
    BY RaceAssumption DEF IInv, TypeOK, WalkInv, FilledTo, Slots, MaxNames
  <2> QED BY <2>1, <2>2 DEF ReadsFilled
<1> QED BY <1>1, Invariance, PTL
=============================================================================
