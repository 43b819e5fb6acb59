---------------------------- MODULE WcCensusProofs ----------------------------
(***************************************************************************)
(* Theorems about the census, for every set of addresses and names, every  *)
(* ceiling and any number of frames: scanning (WcCensus), merging two      *)
(* captures (WcMerge) and comparing them (WcCompare).                      *)
(*                                                                         *)
(* Every record that an operation makes is good, and no address is twice   *)
(* in the array (IInv); the rest follows from it with one more invariant   *)
(* each: the times of the records, the names that are places, the frames   *)
(* counted, the records of the second capture given so far.                *)
(***************************************************************************)
EXTENDS WcCompare, SequenceTheorems, FiniteSetTheorems, WellFoundedInduction, TLAPS

-----------------------------------------------------------------------------
(* Sequences.                                                              *)

LEMMA RemoveAtProperties ==
  ASSUME NEW S, NEW s \in Seq(S), NEW i \in 1 .. Len(s)
  PROVE  /\ RemoveAt(s, i) \in Seq(S)
         /\ Len(RemoveAt(s, i)) = Len(s) - 1
         /\ \A j \in 1 .. Len(s) - 1 :
              RemoveAt(s, i)[j] = IF j < i THEN s[j] ELSE s[j + 1]
<1> DEFINE front == SubSeq(s, 1, i - 1)
           back  == SubSeq(s, i + 1, Len(s))
<1>0. Len(s) \in Nat /\ \A k \in 1 .. Len(s) : s[k] \in S
  BY LenProperties, ElementOfSeq
<1>1. /\ front \in Seq(S)
      /\ Len(front) = i - 1
      /\ \A j \in 1 .. i - 1 : front[j] = s[j]
  <2>1. \A k \in 1 .. i - 1 : s[k] \in S
    BY <1>0
  <2> QED  BY <2>1, <1>0, SubSeqProperties
<1>2. /\ back \in Seq(S)
      /\ Len(back) = Len(s) - i
      /\ \A j \in 1 .. Len(s) - i : back[j] = s[i + j]
  <2>1. \A k \in i + 1 .. Len(s) : s[k] \in S
    BY <1>0
  <2> QED  BY <2>1, <1>0, SubSeqProperties
<1>3. RemoveAt(s, i) = front \o back
  BY DEF RemoveAt
<1>4. /\ front \o back \in Seq(S)
      /\ Len(front \o back) = Len(front) + Len(back)
      /\ \A k \in 1 .. Len(front) + Len(back) :
           (front \o back)[k] = IF k <= Len(front) THEN front[k] ELSE back[k - Len(front)]
  BY <1>1, <1>2, ConcatProperties
<1> HIDE DEF front, back
<1>5. ASSUME NEW j \in 1 .. Len(s) - 1
      PROVE  (front \o back)[j] = IF j < i THEN s[j] ELSE s[j + 1]
  <2>1. CASE j < i
    BY <2>1, <1>0, <1>1, <1>2, <1>4
  <2>2. CASE ~(j < i)
    <3>1. j - (i - 1) \in 1 .. Len(s) - i /\ i + (j - (i - 1)) = j + 1
      BY <2>2, <1>0
    <3>2. (front \o back)[j] = back[j - (i - 1)]
      BY <2>2, <1>0, <1>1, <1>2, <1>4
    <3> QED  BY <2>2, <3>1, <3>2, <1>2
  <2> QED  BY <2>1, <2>2
<1> QED
  BY <1>0, <1>1, <1>2, <1>3, <1>4, <1>5

-----------------------------------------------------------------------------
(* Records.                                                                *)

(* Only frames of the record's own address and of randomized ones are      *)
(* counted in it.                                                          *)
OwnIdentity(sig) ==
  /\ sig.mac \in sig.heard_as
  /\ \A mac \in sig.heard_as \ RandomMacs : sig.mac = mac

GoodRecord == {sig \in Signature : WellFormed(sig) /\ OwnIdentity(sig)}

(* add_ssid touches nothing but the names, keeps those there and their     *)
(* order, and adds at most the one given.                                  *)
LEMMA AddSsidProperties ==
  ASSUME NEW sig \in Signature, WellFormed(sig), NEW name \in Names \cup {NoName}
  PROVE  /\ add_ssid(sig, name) \in Signature
         /\ WellFormed(add_ssid(sig, name))
         /\ add_ssid(sig, name) = [sig EXCEPT !.ssids = add_ssid(sig, name).ssids]
         /\ Len(add_ssid(sig, name).ssids) >= Len(sig.ssids)
         /\ \A k \in DOMAIN sig.ssids : add_ssid(sig, name).ssids[k] = sig.ssids[k]
         /\ \A n : has_ssid(add_ssid(sig, name), n) => n = name \/ has_ssid(sig, n)
<1> DEFINE longer == [sig EXCEPT !.ssids = Append(@, name)]
<1>0. sig.ssids \in Seq(Names) /\ Len(sig.ssids) \in Nat
      /\ DOMAIN sig.ssids = 1 .. Len(sig.ssids)
  BY LenProperties DEF Signature
<1>1. CASE add_ssid(sig, name) = sig
  BY <1>1, <1>0 DEF Signature
<1>2. CASE add_ssid(sig, name) # sig
  <2>1. /\ add_ssid(sig, name) = longer
        /\ name # NoName
        /\ Len(sig.ssids) < WC_SIG_MAX_SSIDS
        /\ ~has_ssid(sig, name)
    BY <1>2, <1>0 DEF add_ssid, WC_SIG_MAX_SSIDS
  <2>2. name \in Names
    BY <2>1
  <2>3. /\ Append(sig.ssids, name) \in Seq(Names)
        /\ Len(Append(sig.ssids, name)) = Len(sig.ssids) + 1
        /\ \A k \in 1 .. Len(sig.ssids) : Append(sig.ssids, name)[k] = sig.ssids[k]
        /\ Append(sig.ssids, name)[Len(sig.ssids) + 1] = name
    BY <1>0, <2>2, AppendProperties
  <2>4. longer \in Signature /\ longer.ssids = Append(sig.ssids, name)
    BY <2>3 DEF Signature
  <2>5. DOMAIN longer.ssids = 1 .. Len(sig.ssids) + 1
    BY <1>0, <2>3, <2>4, LenProperties
  <2>6. WellFormed(longer)
    <3>1. longer.mac_random = sig.mac_random /\ longer.mac = sig.mac
      BY DEF Signature
    <3>2. \A j, k \in DOMAIN longer.ssids : longer.ssids[j] = longer.ssids[k] => j = k
      BY <1>0, <2>1, <2>3, <2>4, <2>5 DEF WellFormed, has_ssid
    <3>3. Len(longer.ssids) <= WC_SIG_MAX_SSIDS
      BY <1>0, <2>1, <2>3, <2>4 DEF WC_SIG_MAX_SSIDS
    <3> QED  BY <3>1, <3>2, <3>3 DEF WellFormed
  <2>7. \A n : has_ssid(longer, n) => n = name \/ has_ssid(sig, n)
    BY <1>0, <2>3, <2>4, <2>5 DEF has_ssid
  <2>8. longer = [sig EXCEPT !.ssids = longer.ssids]
    BY DEF Signature
  <2> HIDE DEF longer
  <2> QED
    BY <1>0, <2>1, <2>3, <2>4, <2>6, <2>7, <2>8
<1> QED  BY <1>1, <1>2

(* The record of a first frame is good.                                    *)
LEMMA FromObsGood ==
  ASSUME NEW obs \in Observation, obs.mac_random = (obs.mac \in RandomMacs),
         NEW now \in Nat
  PROVE  /\ from_obs(obs, now) \in GoodRecord
         /\ from_obs(obs, now).mac = obs.mac
         /\ \A n : has_ssid(from_obs(obs, now), n) => n = obs.probed_ssid
<1> DEFINE blank ==
      [mac |-> obs.mac, mac_random |-> obs.mac_random,
       type |-> wc_device_type_guess(obs), ssids |-> << >>,
       rssi_max |-> obs.rssi, obs_count |-> 1,
       first_seen |-> now, last_seen |-> now,
       ie_hash |-> obs.ie_hash, heard_as |-> {obs.mac}]
<1>1. wc_device_type_guess(obs) \in DeviceTypes
  BY SignatureAssumption DEF wc_device_type_guess, DeviceTypes, Observation
<1>2. /\ blank \in Signature
      /\ blank.mac = obs.mac /\ blank.heard_as = {obs.mac}
      /\ blank.mac_random = (obs.mac \in RandomMacs)
      /\ blank.ssids = << >>
  BY <1>1 DEF Signature, Observation
<1>3. WellFormed(blank) /\ \A n : ~has_ssid(blank, n)
  BY <1>2 DEF WellFormed, has_ssid, WC_SIG_MAX_SSIDS
<1>4. from_obs(obs, now) = add_ssid(blank, obs.probed_ssid)
      /\ obs.probed_ssid \in Names \cup {NoName}
  BY DEF from_obs, Observation
<1> HIDE DEF blank
<1>5. /\ from_obs(obs, now) \in Signature
      /\ WellFormed(from_obs(obs, now))
      /\ from_obs(obs, now) = [blank EXCEPT !.ssids = from_obs(obs, now).ssids]
      /\ \A n : has_ssid(from_obs(obs, now), n) => n = obs.probed_ssid
  BY <1>2, <1>3, <1>4, AddSsidProperties
<1>6. from_obs(obs, now).mac = obs.mac /\ from_obs(obs, now).heard_as = {obs.mac}
  BY <1>2, <1>5 DEF Signature
<1> QED
  BY <1>5, <1>6 DEF GoodRecord, OwnIdentity

(* merge keeps the address of the record and the names it has, and adds at *)
(* most the name of the frame.                                             *)
LEMMA MergeGood ==
  ASSUME NEW sig \in GoodRecord, NEW obs \in Observation, NEW now \in Nat,
         obs.mac_random = (obs.mac \in RandomMacs),
         obs.mac_random \/ obs.mac = sig.mac
  PROVE  /\ merge(sig, obs, now) \in GoodRecord
         /\ merge(sig, obs, now).mac = sig.mac
         /\ merge(sig, obs, now).mac_random = sig.mac_random
         /\ sig.type = "Ap" => merge(sig, obs, now).type = "Ap"
         /\ Len(merge(sig, obs, now).ssids) >= Len(sig.ssids)
         /\ \A k \in DOMAIN sig.ssids : merge(sig, obs, now).ssids[k] = sig.ssids[k]
         /\ \A n : has_ssid(merge(sig, obs, now), n) => n = obs.probed_ssid \/ has_ssid(sig, n)
<1> DEFINE counted ==
      [sig EXCEPT
         !.obs_count = @ + 1,
         !.last_seen = now,
         !.rssi_max = StrongerRssi(@, obs.rssi),
         !.type = FirstKnown(@, wc_device_type_guess(obs), "Unknown"),
         !.ie_hash = FirstKnown(@, obs.ie_hash, 0),
         !.heard_as = @ \cup {obs.mac}]
<1>1. wc_device_type_guess(obs) \in DeviceTypes
  BY SignatureAssumption DEF wc_device_type_guess, DeviceTypes, Observation
<1>2. /\ StrongerRssi(sig.rssi_max, obs.rssi) \in Int
      /\ FirstKnown(sig.type, wc_device_type_guess(obs), "Unknown") \in DeviceTypes
      /\ FirstKnown(sig.ie_hash, obs.ie_hash, 0) \in Nat
  BY <1>1 DEF StrongerRssi, FirstKnown, GoodRecord, Signature, Observation
<1>3. /\ counted \in Signature
      /\ counted.mac = sig.mac /\ counted.mac_random = sig.mac_random
      /\ counted.ssids = sig.ssids
      /\ counted.heard_as = sig.heard_as \cup {obs.mac}
      /\ counted.type = FirstKnown(sig.type, wc_device_type_guess(obs), "Unknown")
  <2>1. sig \in Signature
    BY DEF GoodRecord
  <2>2. sig.obs_count + 1 \in Nat /\ sig.heard_as \cup {obs.mac} \in SUBSET Macs
    BY <2>1 DEF Signature, Observation
  <2> QED  BY <1>2, <2>1, <2>2 DEF Signature
<1>4. WellFormed(counted) /\ \A n : has_ssid(counted, n) <=> has_ssid(sig, n)
  BY <1>3 DEF GoodRecord, WellFormed, has_ssid
<1>5. merge(sig, obs, now) = add_ssid(counted, obs.probed_ssid)
      /\ obs.probed_ssid \in Names \cup {NoName}
  BY DEF merge, Observation
<1> HIDE DEF counted
<1>6. /\ merge(sig, obs, now) \in Signature
      /\ WellFormed(merge(sig, obs, now))
      /\ merge(sig, obs, now) = [counted EXCEPT !.ssids = merge(sig, obs, now).ssids]
      /\ Len(merge(sig, obs, now).ssids) >= Len(sig.ssids)
      /\ \A k \in DOMAIN sig.ssids : merge(sig, obs, now).ssids[k] = sig.ssids[k]
      /\ \A n : has_ssid(merge(sig, obs, now), n) => n = obs.probed_ssid \/ has_ssid(sig, n)
  BY <1>3, <1>4, <1>5, AddSsidProperties
<1>7. /\ merge(sig, obs, now).mac = sig.mac
      /\ merge(sig, obs, now).mac_random = sig.mac_random
      /\ merge(sig, obs, now).heard_as = sig.heard_as \cup {obs.mac}
      /\ merge(sig, obs, now).type = counted.type
  BY <1>3, <1>6 DEF Signature
<1>8. OwnIdentity(merge(sig, obs, now))
  BY <1>7 DEF OwnIdentity, GoodRecord
<1>9. sig.type = "Ap" => merge(sig, obs, now).type = "Ap"
  BY <1>3, <1>7 DEF FirstKnown
<1> QED
  BY <1>6, <1>7, <1>8, <1>9 DEF GoodRecord

(* absorb keeps the address and the names of the record kept, and adds     *)
(* only names of the other.                                                *)
LEMMA AbsorbGood ==
  ASSUME NEW dst \in GoodRecord, NEW src \in GoodRecord,
         src.mac_random \/ src.mac = dst.mac
  PROVE  /\ absorb(dst, src) \in GoodRecord
         /\ absorb(dst, src).mac = dst.mac
         /\ absorb(dst, src).mac_random = dst.mac_random
         /\ dst.type = "Ap" => absorb(dst, src).type = "Ap"
         /\ Len(absorb(dst, src).ssids) >= Len(dst.ssids)
         /\ \A k \in DOMAIN dst.ssids : absorb(dst, src).ssids[k] = dst.ssids[k]
         /\ \A n : has_ssid(absorb(dst, src), n) => has_ssid(dst, n) \/ has_ssid(src, n)
<1> DEFINE summed ==
      [dst EXCEPT
         !.obs_count = @ + src.obs_count,
         !.first_seen = EarliestSeen(@, src.first_seen),
         !.last_seen = IF src.last_seen > @ THEN src.last_seen ELSE @,
         !.rssi_max = StrongerRssi(@, src.rssi_max),
         !.type = FirstKnown(@, src.type, "Unknown"),
         !.ie_hash = FirstKnown(@, src.ie_hash, 0),
         !.heard_as = @ \cup src.heard_as]
       one == IF Len(src.ssids) >= 1 THEN add_ssid(summed, src.ssids[1]) ELSE summed
       two == IF Len(src.ssids) >= 2 THEN add_ssid(one, src.ssids[2]) ELSE one
<1>0. /\ dst \in Signature /\ src \in Signature
      /\ WellFormed(dst) /\ WellFormed(src)
      /\ OwnIdentity(dst) /\ OwnIdentity(src)
  BY DEF GoodRecord
<1>1. /\ dst.obs_count + src.obs_count \in Nat
      /\ EarliestSeen(dst.first_seen, src.first_seen) \in Nat
      /\ (IF src.last_seen > dst.last_seen THEN src.last_seen ELSE dst.last_seen) \in Nat
      /\ StrongerRssi(dst.rssi_max, src.rssi_max) \in Int
      /\ FirstKnown(dst.type, src.type, "Unknown") \in DeviceTypes
      /\ FirstKnown(dst.ie_hash, src.ie_hash, 0) \in Nat
      /\ dst.heard_as \cup src.heard_as \in SUBSET Macs
  BY <1>0 DEF EarliestSeen, StrongerRssi, FirstKnown, Signature
<1>2. /\ summed \in Signature
      /\ summed.mac = dst.mac /\ summed.mac_random = dst.mac_random
      /\ summed.ssids = dst.ssids
      /\ summed.heard_as = dst.heard_as \cup src.heard_as
      /\ summed.type = FirstKnown(dst.type, src.type, "Unknown")
  BY <1>0, <1>1 DEF Signature
<1>3. WellFormed(summed) /\ \A n : has_ssid(summed, n) <=> has_ssid(dst, n)
  BY <1>0, <1>2 DEF WellFormed, has_ssid
<1>4. absorb(dst, src) = two
  BY DEF absorb, add_ssids_of
<1>5. /\ Len(src.ssids) \in Nat
      /\ \A k \in 1 .. Len(src.ssids) :
           src.ssids[k] \in Names \cup {NoName} /\ has_ssid(src, src.ssids[k])
  BY <1>0, LenProperties, ElementOfSeq DEF Signature, has_ssid
<1> HIDE DEF summed
<1>6. /\ one \in Signature /\ WellFormed(one)
      /\ one.mac = dst.mac /\ one.mac_random = dst.mac_random
      /\ one.heard_as = summed.heard_as /\ one.type = summed.type
      /\ Len(one.ssids) >= Len(dst.ssids)
      /\ \A k \in DOMAIN dst.ssids : one.ssids[k] = dst.ssids[k]
      /\ \A n : has_ssid(one, n) => has_ssid(dst, n) \/ has_ssid(src, n)
  <2>0. Len(dst.ssids) \in Nat
    BY <1>0, LenProperties DEF Signature
  <2>1. CASE Len(src.ssids) >= 1
    <3>1. src.ssids[1] \in Names \cup {NoName} /\ has_ssid(src, src.ssids[1])
      BY <1>5, <2>1
    <3>2. /\ one \in Signature /\ WellFormed(one)
          /\ one = [summed EXCEPT !.ssids = one.ssids]
          /\ Len(one.ssids) >= Len(summed.ssids)
          /\ \A k \in DOMAIN summed.ssids : one.ssids[k] = summed.ssids[k]
          /\ \A n : has_ssid(one, n) => n = src.ssids[1] \/ has_ssid(summed, n)
      BY <1>2, <1>3, <2>1, <3>1, AddSsidProperties
    <3>3. /\ one.mac = summed.mac /\ one.mac_random = summed.mac_random
          /\ one.heard_as = summed.heard_as /\ one.type = summed.type
      BY <1>2, <3>2 DEF Signature
    <3> HIDE DEF one
    <3> QED  BY <1>2, <1>3, <3>1, <3>2, <3>3
  <2>2. CASE ~(Len(src.ssids) >= 1)
    BY <1>2, <1>3, <2>0, <2>2
  <2> QED  BY <2>1, <2>2
<1> HIDE DEF one
<1>7. /\ two \in Signature /\ WellFormed(two)
      /\ two.mac = dst.mac /\ two.mac_random = dst.mac_random
      /\ two.heard_as = summed.heard_as /\ two.type = summed.type
      /\ Len(two.ssids) >= Len(dst.ssids)
      /\ \A k \in DOMAIN dst.ssids : two.ssids[k] = dst.ssids[k]
      /\ \A n : has_ssid(two, n) => has_ssid(dst, n) \/ has_ssid(src, n)
  <2>0. /\ Len(dst.ssids) \in Nat /\ Len(one.ssids) \in Nat
        /\ DOMAIN dst.ssids = 1 .. Len(dst.ssids) /\ DOMAIN one.ssids = 1 .. Len(one.ssids)
    BY <1>0, <1>6, LenProperties DEF Signature
  <2>1. CASE Len(src.ssids) >= 2
    <3>1. src.ssids[2] \in Names \cup {NoName} /\ has_ssid(src, src.ssids[2])
      BY <1>5, <2>1
    <3>2. /\ two \in Signature /\ WellFormed(two)
          /\ two = [one EXCEPT !.ssids = two.ssids]
          /\ Len(two.ssids) >= Len(one.ssids)
          /\ \A k \in DOMAIN one.ssids : two.ssids[k] = one.ssids[k]
          /\ \A n : has_ssid(two, n) => n = src.ssids[2] \/ has_ssid(one, n)
      BY <1>6, <2>1, <3>1, AddSsidProperties
    <3>3. /\ two.mac = one.mac /\ two.mac_random = one.mac_random
          /\ two.heard_as = one.heard_as /\ two.type = one.type
      BY <1>6, <3>2 DEF Signature
    <3>4. Len(two.ssids) \in Nat
      BY <3>2, LenProperties DEF Signature
    <3>5. DOMAIN dst.ssids \subseteq DOMAIN one.ssids
      BY <1>6, <2>0
    <3> HIDE DEF two
    <3> QED  BY <1>6, <2>0, <3>1, <3>2, <3>3, <3>4, <3>5
  <2>2. CASE ~(Len(src.ssids) >= 2)
    BY <1>6, <2>2
  <2> QED  BY <2>1, <2>2
<1> HIDE DEF two
<1>8. OwnIdentity(two)
  BY <1>0, <1>2, <1>7 DEF OwnIdentity, WellFormed
<1>9. dst.type = "Ap" => two.type = "Ap"
  BY <1>2, <1>7 DEF FirstKnown
<1> QED
  BY <1>4, <1>7, <1>8, <1>9 DEF GoodRecord

-----------------------------------------------------------------------------
(* The array.                                                              *)

(* Where the record at j of the folded array was before the fold.         *)
Was(from, j) == IF j < from THEN j ELSE j + 1

(* Folding a randomized record into another one: every record but the one  *)
(* folded is still there, in the same order, and only the one kept changes.*)
LEMMA FoldProperties ==
  ASSUME NEW devs \in Seq(GoodRecord), NEW keep \in DOMAIN devs, NEW from \in DOMAIN devs,
         keep # from, devs[from].mac_random
  PROVE  /\ absorb_and_remove(devs, keep, from) \in Seq(GoodRecord)
         /\ Len(absorb_and_remove(devs, keep, from)) = Len(devs) - 1
         /\ \A j \in DOMAIN absorb_and_remove(devs, keep, from) :
              /\ Was(from, j) \in DOMAIN devs \ {from}
              /\ absorb_and_remove(devs, keep, from)[j]
                   = IF Was(from, j) = keep THEN absorb(devs[keep], devs[from])
                                           ELSE devs[Was(from, j)]
         /\ \A k \in DOMAIN devs \ {from} :
              \E j \in DOMAIN absorb_and_remove(devs, keep, from) : Was(from, j) = k
<1> DEFINE both == [devs EXCEPT ![keep] = absorb(@, devs[from])]
           folded == absorb_and_remove(devs, keep, from)
<1>1. /\ DOMAIN devs = 1 .. Len(devs) /\ Len(devs) \in Nat
      /\ devs[keep] \in GoodRecord /\ devs[from] \in GoodRecord
  BY LenProperties, ElementOfSeq
<1>2. absorb(devs[keep], devs[from]) \in GoodRecord
  BY <1>1, AbsorbGood
<1>3. /\ both \in Seq(GoodRecord) /\ Len(both) = Len(devs)
      /\ \A k \in 1 .. Len(devs) :
           both[k] = IF k = keep THEN absorb(devs[keep], devs[from]) ELSE devs[k]
  BY <1>1, <1>2, ExceptSeq
<1>4. folded = RemoveAt(both, from)
  BY DEF absorb_and_remove
<1> HIDE DEF both, folded
<1>5. /\ folded \in Seq(GoodRecord)
      /\ Len(folded) = Len(devs) - 1
      /\ \A j \in 1 .. Len(devs) - 1 : folded[j] = IF j < from THEN both[j] ELSE both[j + 1]
  BY <1>1, <1>3, <1>4, RemoveAtProperties
<1>6. DOMAIN folded = 1 .. Len(devs) - 1
  BY <1>1, <1>5, LenProperties
<1>7. \A j \in DOMAIN folded :
        /\ Was(from, j) \in DOMAIN devs \ {from}
        /\ folded[j] = IF Was(from, j) = keep THEN absorb(devs[keep], devs[from])
                                              ELSE devs[Was(from, j)]
  BY <1>1, <1>3, <1>5, <1>6 DEF Was
<1>8. ASSUME NEW k \in DOMAIN devs \ {from}
      PROVE  \E j \in DOMAIN folded : Was(from, j) = k
  <2>1. CASE k < from
    BY <1>1, <1>6, <2>1 DEF Was
  <2>2. CASE ~(k < from)
    <3>1. k - 1 \in DOMAIN folded /\ Was(from, k - 1) = k
      BY <1>1, <1>6, <2>2 DEF Was
    <3> QED  BY <3>1
  <2> QED  BY <2>1, <2>2
<1> QED
  BY <1>5, <1>6, <1>1, <1>7, <1>8 DEF folded

(* link_late changes nothing, or folds one of exactly two clients that     *)
(* seek the name, one with a randomized address, into the other.           *)
LEMMA LinkLateCases ==
  ASSUME NEW devs \in Seq(GoodRecord), NEW self \in DOMAIN devs, NEW name
  PROVE  \/ LateOther(devs, self, name) = {} /\ link_late(devs, self, name) = devs
         \/ \E keep, from \in DOMAIN devs :
              /\ keep # from
              /\ devs[from].mac_random
              /\ clients_seeking(devs, name) = {keep, from}
              /\ link_late(devs, self, name) = absorb_and_remove(devs, keep, from)
<1>1. CASE LateOther(devs, self, name) = {}
  BY <1>1 DEF link_late
<1>2. CASE LateOther(devs, self, name) # {}
  <2> DEFINE other == CHOOSE o \in LateOther(devs, self, name) : TRUE
  <2>1. other \in LateOther(devs, self, name)
    BY <1>2
  <2>2. link_late(devs, self, name) = Linked(devs, self, other)
    BY <1>2 DEF link_late
  <2> HIDE DEF other
  <2>3. /\ other \in DOMAIN devs /\ other # self
        /\ clients_seeking(devs, name) = {self, other}
        /\ devs[self].mac_random \/ devs[other].mac_random
    BY <2>1 DEF LateOther
  <2>4. CASE KeepsOther(devs, self, other)
    BY <2>2, <2>3, <2>4 DEF Linked, KeepsOther
  <2>5. CASE ~KeepsOther(devs, self, other)
    <3>1. devs[other].mac_random
      BY <2>3, <2>5 DEF KeepsOther
    <3> QED  BY <2>2, <2>3, <2>5, <3>1 DEF Linked
  <2> QED  BY <2>4, <2>5
<1> QED  BY <1>1, <1>2

(* The record a frame is folded into has its address, or the frame comes   *)
(* from a randomized one.                                                  *)
LEMMA ExistingProperties ==
  ASSUME NEW devs \in Seq(GoodRecord), NEW obs \in Observation,
         NEW self \in Existing(devs, obs)
  PROVE  self \in DOMAIN devs /\ (obs.mac_random \/ obs.mac = devs[self].mac)
<1>1. CASE find_by_mac(devs, obs.mac) # {}
  BY <1>1 DEF Existing, find_by_mac
<1>2. CASE find_by_mac(devs, obs.mac) = {}
  BY <1>2 DEF Existing, find_client_by_ssid
<1> QED  BY <1>1, <1>2

UniqueIn(devs) == \A i, j \in DOMAIN devs : devs[i].mac = devs[j].mac => i = j

(* Folding one record into another leaves no address twice.                *)
LEMMA FoldUnique ==
  ASSUME NEW devs \in Seq(GoodRecord), NEW keep \in DOMAIN devs, NEW from \in DOMAIN devs,
         keep # from, devs[from].mac_random, UniqueIn(devs)
  PROVE  UniqueIn(absorb_and_remove(devs, keep, from))
<1> DEFINE folded == absorb_and_remove(devs, keep, from)
<1>1. /\ folded \in Seq(GoodRecord)
      /\ \A j \in DOMAIN folded :
           /\ Was(from, j) \in DOMAIN devs \ {from}
           /\ folded[j] = IF Was(from, j) = keep THEN absorb(devs[keep], devs[from])
                                                 ELSE devs[Was(from, j)]
  BY FoldProperties
<1>2. devs[keep] \in GoodRecord /\ devs[from] \in GoodRecord
  BY ElementOfSeq, LenProperties
<1>3. absorb(devs[keep], devs[from]).mac = devs[keep].mac
  BY <1>2, AbsorbGood
<1>4. \A j \in DOMAIN folded : folded[j].mac = devs[Was(from, j)].mac
  BY <1>1, <1>3
<1>5. \A i, j \in DOMAIN folded : Was(from, i) = Was(from, j) => i = j
  BY <1>1, LenProperties DEF Was
<1> HIDE DEF folded
<1>6. UniqueIn(folded)
  BY <1>1, <1>4, <1>5 DEF UniqueIn
<1> QED  BY <1>6 DEF folded

(* link_late keeps the array good, whether or not it folds.                *)
LEMMA LinkLateGood ==
  ASSUME NEW devs \in Seq(GoodRecord), NEW self \in DOMAIN devs, NEW name, UniqueIn(devs)
  PROVE  /\ link_late(devs, self, name) \in Seq(GoodRecord)
         /\ UniqueIn(link_late(devs, self, name))
         /\ Len(link_late(devs, self, name)) <= Len(devs)
<1>0. Len(devs) \in Nat
  BY LenProperties
<1>1. CASE link_late(devs, self, name) = devs
  BY <1>0, <1>1
<1>2. CASE link_late(devs, self, name) # devs
  <2>1. PICK keep \in DOMAIN devs, from \in DOMAIN devs :
          /\ keep # from /\ devs[from].mac_random
          /\ link_late(devs, self, name) = absorb_and_remove(devs, keep, from)
    BY <1>2, LinkLateCases
  <2>2. /\ absorb_and_remove(devs, keep, from) \in Seq(GoodRecord)
        /\ Len(absorb_and_remove(devs, keep, from)) = Len(devs) - 1
    BY <2>1, FoldProperties
  <2>3. UniqueIn(absorb_and_remove(devs, keep, from))
    BY <2>1, FoldUnique
  <2> QED  BY <1>0, <2>1, <2>2, <2>3
<1> QED  BY <1>1, <1>2

(* The array after merge has folded a frame into the record at self.       *)
Heard(devs, self, obs, now) == [devs EXCEPT ![self] = merge(@, obs, now)]

(* The array after the merge of a frame, before any link: good, as long as *)
(* before, and with the same addresses.                                    *)
LEMMA MergedArray ==
  ASSUME NEW devs \in Seq(GoodRecord), NEW obs \in Observation, NEW now \in Nat,
         obs.mac_random = (obs.mac \in RandomMacs),
         NEW self \in Existing(devs, obs)
  PROVE  /\ Heard(devs, self, obs, now) \in Seq(GoodRecord)
         /\ Len(Heard(devs, self, obs, now)) = Len(devs)
         /\ DOMAIN Heard(devs, self, obs, now) = DOMAIN devs
         /\ self \in DOMAIN devs
         /\ \A k \in DOMAIN devs :
              /\ Heard(devs, self, obs, now)[k]
                   = IF k = self THEN merge(devs[self], obs, now) ELSE devs[k]
              /\ Heard(devs, self, obs, now)[k].mac = devs[k].mac
              /\ Heard(devs, self, obs, now)[k].mac_random = devs[k].mac_random
         /\ UniqueIn(devs) => UniqueIn(Heard(devs, self, obs, now))
<1> DEFINE merged == [devs EXCEPT ![self] = merge(@, obs, now)]
<1>1. self \in DOMAIN devs /\ (obs.mac_random \/ obs.mac = devs[self].mac)
  BY ExistingProperties
<1>2. devs[self] \in GoodRecord /\ DOMAIN devs = 1 .. Len(devs)
  BY <1>1, ElementOfSeq, LenProperties
<1>3. /\ merge(devs[self], obs, now) \in GoodRecord
      /\ merge(devs[self], obs, now).mac = devs[self].mac
      /\ merge(devs[self], obs, now).mac_random = devs[self].mac_random
  BY <1>1, <1>2, MergeGood
<1>4. /\ merged \in Seq(GoodRecord) /\ Len(merged) = Len(devs)
      /\ \A k \in DOMAIN devs :
           merged[k] = IF k = self THEN merge(devs[self], obs, now) ELSE devs[k]
  BY <1>1, <1>2, <1>3, ExceptSeq
<1>5. DOMAIN merged = DOMAIN devs
  OBVIOUS
<1> HIDE DEF merged
<1>6. \A k \in DOMAIN devs :
        merged[k].mac = devs[k].mac /\ merged[k].mac_random = devs[k].mac_random
  BY <1>3, <1>4
<1>7. UniqueIn(devs) => UniqueIn(merged)
  BY <1>5, <1>6 DEF UniqueIn
<1>8. Heard(devs, self, obs, now) = merged
  BY DEF Heard, merged
<1> QED  BY <1>1, <1>4, <1>5, <1>6, <1>7, <1>8

-----------------------------------------------------------------------------
(* The invariant.  GoodRecord carries WellFormed and OwnIdentity through   *)
(* every record operation; UniqueMacs is needed beside it for the rest.    *)
IInv ==
  /\ devices \in Seq(GoodRecord)
  /\ UniqueMacs
  /\ InBounds
  /\ capacity \in Nat
  /\ dropped \in 0 .. U16 - 1
  /\ max \in Nat
  /\ clock \in Nat
  /\ heard \in Nat
  /\ turned_away \subseteq Macs

(* The frame of a known device preserves the invariant.                    *)
LEMMA KnownStep ==
  ASSUME IInv, NEW obs \in Observations, NEW now \in Times, ObserveKnown(obs, now)
  PROVE  devices' \in Seq(GoodRecord) /\ UniqueMacs' /\ Len(devices') <= Len(devices)
<1>1. obs \in Observation /\ obs.mac_random = (obs.mac \in RandomMacs) /\ now \in Nat
  BY CensusAssumption
<1>2. PICK self \in Existing(devices, obs) :
        devices' = link_late(Heard(devices, self, obs, now), self, obs.probed_ssid)
  BY DEF ObserveKnown, Heard
<1> DEFINE merged == Heard(devices, self, obs, now)
<1>3. devices \in Seq(GoodRecord) /\ UniqueIn(devices)
  BY DEF IInv, UniqueMacs, UniqueIn
<1>4. /\ merged \in Seq(GoodRecord) /\ Len(merged) = Len(devices)
      /\ DOMAIN merged = DOMAIN devices /\ self \in DOMAIN merged
      /\ UniqueIn(merged)
  BY <1>1, <1>3, MergedArray
<1>5. devices' = link_late(merged, self, obs.probed_ssid)
  BY <1>2
<1> HIDE DEF merged
<1>6. /\ link_late(merged, self, obs.probed_ssid) \in Seq(GoodRecord)
      /\ UniqueIn(link_late(merged, self, obs.probed_ssid))
      /\ Len(link_late(merged, self, obs.probed_ssid)) <= Len(merged)
  BY <1>4, LinkLateGood
<1>7. UniqueMacs'
  BY <1>5, <1>6 DEF UniqueIn, UniqueMacs
<1> QED  BY <1>4, <1>5, <1>6, <1>7

(* The frame of a new device preserves the invariant: its address is in no *)
(* record, or it would have been found.                                    *)
LEMMA NewStep ==
  ASSUME IInv, NEW obs \in Observations, NEW now \in Times, ObserveNew(obs, now)
  PROVE  /\ devices' \in Seq(GoodRecord) /\ UniqueMacs'
         /\ Len(devices') <= capacity' /\ capacity' <= max /\ capacity' \in Nat
<1>1. obs \in Observation /\ obs.mac_random = (obs.mac \in RandomMacs) /\ now \in Nat
  BY CensusAssumption
<1>2. from_obs(obs, now) \in GoodRecord /\ from_obs(obs, now).mac = obs.mac
  BY <1>1, FromObsGood
<1>3. devices \in Seq(GoodRecord) /\ Len(devices) \in Nat
      /\ DOMAIN devices = 1 .. Len(devices)
  BY LenProperties DEF IInv
<1>4. /\ devices' \in Seq(GoodRecord) /\ Len(devices') = Len(devices) + 1
      /\ \A i \in 1 .. Len(devices) : devices'[i] = devices[i]
      /\ devices'[Len(devices) + 1] = from_obs(obs, now)
      /\ DOMAIN devices' = 1 .. Len(devices) + 1
  BY <1>2, <1>3, AppendProperties, LenProperties DEF ObserveNew
<1>5. \A i \in DOMAIN devices : devices[i].mac # obs.mac
  <2>1. find_by_mac(devices, obs.mac) = {}
    BY DEF ObserveNew, Existing
  <2> SUFFICES ASSUME NEW i \in DOMAIN devices, devices[i].mac = obs.mac  PROVE FALSE
    OBVIOUS
  <2>2. \A j \in DOMAIN devices : devices[j].mac = obs.mac => j = i
    BY DEF IInv, UniqueMacs
  <2>3. \A j \in 1 .. i - 1 : devices[j].mac # obs.mac
    BY <1>3, <2>2
  <2>4. i \in find_by_mac(devices, obs.mac)
    BY <2>3 DEF find_by_mac
  <2> QED  BY <2>1, <2>4
<1>6. UniqueMacs'
  BY <1>2, <1>3, <1>4, <1>5 DEF IInv, UniqueMacs
<1>7. Len(devices') <= capacity' /\ capacity' <= max /\ capacity' \in Nat
  <2>1. CASE Len(devices) < capacity /\ UNCHANGED capacity
    BY <1>3, <1>4, <2>1 DEF IInv, InBounds
  <2>2. CASE Len(devices) >= capacity /\ capacity < max /\ capacity' = Min({capacity + Grow, max})
    <3>1. capacity \in Nat /\ max \in Nat /\ Grow \in Nat \ {0} /\ Len(devices) <= capacity
      BY CensusAssumption DEF IInv, InBounds
    <3>2. capacity' = IF capacity + Grow <= max THEN capacity + Grow ELSE max
      BY <2>2, <3>1 DEF Min
    <3> QED  BY <1>3, <1>4, <2>2, <3>1, <3>2
  <2> QED  BY <2>1, <2>2 DEF ObserveNew, ensure_one
<1> QED  BY <1>4, <1>6, <1>7
(* A refused frame preserves the invariant: only the counter moves.        *)
LEMMA RefusedStep ==
  ASSUME IInv, NEW obs \in Observations, ObserveRefused(obs)
  PROVE  /\ UNCHANGED <<devices, capacity>> /\ UniqueMacs'
         /\ dropped' \in 0 .. U16 - 1 /\ turned_away' \subseteq Macs
<1>1. obs.mac \in Macs
  BY CensusAssumption DEF Observation
<1>2. UNCHANGED <<devices, capacity>>
  BY DEF ObserveRefused, ensure_one_fails
<1>3. UniqueMacs'
  BY <1>2 DEF IInv, UniqueMacs
<1>4. (dropped + 1) % U16 \in 0 .. U16 - 1
  <2>1. dropped + 1 \in Int /\ U16 \in Int /\ U16 > 0
    <3>1. U16 \in Nat /\ U16 > 0
      BY DEF U16
    <3>2. dropped \in 0 .. U16 - 1
      BY DEF IInv
    <3> QED  BY <3>1, <3>2
  <2>2. ASSUME NEW a \in Int, NEW b \in Int, b > 0  PROVE a % b \in 0 .. b - 1
    BY <2>2
  <2> QED  BY <2>1, <2>2
<1>5. turned_away' \subseteq Macs
  BY <1>1 DEF ObserveRefused, IInv
<1> QED  BY <1>2, <1>3, <1>4, <1>5 DEF ObserveRefused

(* The empty census satisfies the invariant.                               *)
LEMMA Initially == Init => IInv
<1> SUFFICES ASSUME Init  PROVE IInv
  OBVIOUS
<1>1. devices \in Seq(GoodRecord) /\ Len(devices) = 0 /\ DOMAIN devices = {}
  BY DEF Init
<1>2. max \in Nat
  BY CensusAssumption DEF Init
<1> QED  BY <1>1, <1>2 DEF Init, IInv, UniqueMacs, InBounds, U16

(* One step per action; what an action leaves alone needs no argument.     *)
LEMMA Inductive == IInv /\ [Next]_vars => IInv'
<1> SUFFICES ASSUME IInv, [Next]_vars  PROVE IInv'
  OBVIOUS
<1>0. Len(devices) \in Nat
  BY LenProperties DEF IInv
<1>1. ASSUME NEW m \in Ceilings, set_max(m)  PROVE IInv'
  <2>1. UNCHANGED <<devices, capacity, dropped, clock, heard, turned_away>> /\ max' \in Nat
    BY <1>1, CensusAssumption DEF set_max
  <2>2. Len(devices) = 0 /\ capacity = 0
    BY <1>1 DEF set_max
  <2>3. InBounds'
    BY <2>1, <2>2, <1>1 DEF InBounds, set_max
  <2> QED  BY <2>1, <2>3 DEF IInv, UniqueMacs
<1>2. ASSUME NEW n \in 1 .. MaxDevices, reserve(n)  PROVE IInv'
  <2>1. UNCHANGED <<devices, dropped, max, clock, heard, turned_away>>
    BY <1>2 DEF reserve
  <2>2. n \in Nat /\ max \in Nat
    BY CensusAssumption DEF IInv
  <2>3. Min({n, max}) \in Nat /\ Min({n, max}) <= max
    BY <2>2 DEF Min
  <2>4. capacity' \in Nat /\ capacity' > capacity /\ capacity' <= max
    BY <1>2, <2>3 DEF reserve
  <2>5. InBounds'
    BY <1>0, <2>1, <2>4 DEF IInv, InBounds
  <2> QED  BY <2>1, <2>4, <2>5 DEF IInv, UniqueMacs
<1>3. ASSUME NEW obs \in Observations, NEW now \in Times, observe(obs, now)  PROVE IInv'
  <2>1. heard' \in Nat /\ clock' \in Nat /\ UNCHANGED max
    BY <1>3, CensusAssumption DEF observe, IInv
  <2>2. CASE ObserveKnown(obs, now)
    <3>1. UNCHANGED <<capacity, dropped, turned_away>>
      BY <2>2 DEF ObserveKnown
    <3>2. devices' \in Seq(GoodRecord) /\ UniqueMacs' /\ Len(devices') <= Len(devices)
      BY <2>2, KnownStep
    <3>3. InBounds'
      BY <1>0, <2>1, <3>1, <3>2, LenProperties DEF IInv, InBounds
    <3> QED  BY <2>1, <3>1, <3>2, <3>3 DEF IInv
  <2>3. CASE ObserveNew(obs, now)
    <3>1. UNCHANGED <<dropped, turned_away>>
      BY <2>3 DEF ObserveNew
    <3>2. /\ devices' \in Seq(GoodRecord) /\ UniqueMacs'
          /\ Len(devices') <= capacity' /\ capacity' <= max /\ capacity' \in Nat
      BY <2>3, NewStep
    <3> QED  BY <2>1, <3>1, <3>2 DEF IInv, InBounds
  <2>4. CASE ObserveRefused(obs)
    <3>1. /\ UNCHANGED <<devices, capacity>> /\ UniqueMacs'
          /\ dropped' \in 0 .. U16 - 1 /\ turned_away' \subseteq Macs
      BY <2>4, RefusedStep
    <3> QED  BY <2>1, <3>1 DEF IInv, InBounds
  <2> QED  BY <1>3, <2>2, <2>3, <2>4 DEF observe
<1>4. CASE free
  <2>1. /\ devices' = << >> /\ capacity' = 0 /\ dropped' = 0 /\ max' = MaxDevices
        /\ heard' = 0 /\ turned_away' = {} /\ UNCHANGED clock
    BY <1>4 DEF free
  <2>2. devices' \in Seq(GoodRecord) /\ Len(devices') = 0 /\ DOMAIN devices' = {}
    BY <2>1
  <2>3. max' \in Nat /\ 0 \in 0 .. U16 - 1
    BY <2>1, CensusAssumption DEF U16
  <2>4. UniqueMacs' /\ InBounds'
    BY <2>1, <2>2, <2>3 DEF UniqueMacs, InBounds
  <2>5. clock' \in Nat
    BY <2>1 DEF IInv
  <2> QED  BY <2>1, <2>2, <2>3, <2>4, <2>5 DEF IInv
<1>5. CASE UNCHANGED vars
  BY <1>5 DEF vars, IInv, UniqueMacs, InBounds
<1> QED  BY <1>1, <1>2, <1>3, <1>4, <1>5 DEF Next

(* The inductive invariant holds in every state the census can reach, for  *)
(* any frames, clocks, ceilings and chunk size.                            *)
THEOREM Invariance == Spec => []IInv
<1> QED  BY Initially, Inductive, PTL DEF Spec

(* Every record stays well formed and every counter in its range.          *)
THEOREM TypeCorrect == Spec => []TypeOK
<1>1. IInv => TypeOK
  <2> SUFFICES ASSUME IInv  PROVE TypeOK
    OBVIOUS
  <2>1. devices \in Seq(Signature) /\ \A i \in DOMAIN devices : WellFormed(devices[i])
    <3>1. devices \in Seq(GoodRecord) /\ GoodRecord \subseteq Signature
      BY DEF IInv, GoodRecord
    <3>2. \A i \in DOMAIN devices : devices[i] \in GoodRecord
      BY <3>1, ElementOfSeq, LenProperties
    <3>3. devices \in Seq(Signature)
      BY <3>1
    <3> QED  BY <3>2, <3>3 DEF GoodRecord
  <2> QED  BY <2>1 DEF IInv, TypeOK
<1> QED  BY <1>1, Invariance, PTL

(* The array never leaves its allocation, nor the allocation the ceiling.  *)
THEOREM Bounded == Spec => []InBounds
<1>1. IInv => InBounds
  BY DEF IInv
<1> QED  BY <1>1, Invariance, PTL

(* No address is ever listed twice.                                        *)
THEOREM Unique == Spec => []UniqueMacs
<1>1. IInv => UniqueMacs
  BY DEF IInv
<1> QED  BY <1>1, Invariance, PTL

(* A stable address is never counted in another device's record, however   *)
(* frames were linked and records folded.                                  *)
THEOREM StableApart == Spec => []StableIdentity
<1>1. IInv => StableIdentity
  <2> SUFFICES ASSUME IInv, NEW i \in DOMAIN devices,
                      NEW mac \in devices[i].heard_as \ RandomMacs
               PROVE  devices[i].mac = mac
    BY DEF StableIdentity
  <2>1. devices[i] \in GoodRecord
    BY ElementOfSeq, LenProperties DEF IInv
  <2> QED  BY <2>1 DEF GoodRecord, OwnIdentity
<1> QED  BY <1>1, Invariance, PTL

-----------------------------------------------------------------------------
(* What linking does to the devices of the census: a device with a stable  *)
(* address is never folded away (StableKept), and a name two randomized    *)
(* clients seek is the name of a place (PlaceNames).                       *)

(* A longer list of names begins with the shorter one.                     *)
Longer(old, new) ==
  /\ Len(new.ssids) >= Len(old.ssids)
  /\ \A k \in DOMAIN old.ssids : new.ssids[k] = old.ssids[k]

(* Longer is transitive.                                                   *)
LEMMA LongerTransitive ==
  ASSUME NEW a \in GoodRecord, NEW b \in GoodRecord, NEW c \in GoodRecord,
         Longer(a, b), Longer(b, c)
  PROVE  Longer(a, c)
<1>1. /\ Len(a.ssids) \in Nat /\ Len(b.ssids) \in Nat /\ Len(c.ssids) \in Nat
      /\ DOMAIN a.ssids = 1 .. Len(a.ssids) /\ DOMAIN b.ssids = 1 .. Len(b.ssids)
  BY LenProperties DEF GoodRecord, Signature
<1> QED  BY <1>1 DEF Longer

(* A record that is longer has every name the other has.                   *)
LEMMA LongerHas ==
  ASSUME NEW a \in GoodRecord, NEW b \in GoodRecord, Longer(a, b),
         NEW n, has_ssid(a, n)
  PROVE  has_ssid(b, n)
<1>1. /\ Len(a.ssids) \in Nat /\ Len(b.ssids) \in Nat
      /\ DOMAIN a.ssids = 1 .. Len(a.ssids) /\ DOMAIN b.ssids = 1 .. Len(b.ssids)
  BY LenProperties DEF GoodRecord, Signature
<1> QED  BY <1>1 DEF Longer, has_ssid

(* The names of the shorter record are a prefix of the other's.            *)
LEMMA LongerIsPrefix ==
  ASSUME NEW a \in GoodRecord, NEW b \in GoodRecord, Longer(a, b)
  PROVE  IsPrefix(a.ssids, b.ssids)
<1>1. /\ a.ssids \in Seq(Names) /\ b.ssids \in Seq(Names)
      /\ Len(a.ssids) \in Nat /\ Len(b.ssids) \in Nat
      /\ DOMAIN a.ssids = 1 .. Len(a.ssids) /\ DOMAIN b.ssids = 1 .. Len(b.ssids)
  BY LenProperties DEF GoodRecord, Signature
<1>2. \A k \in 1 .. Len(a.ssids) : a.ssids[k] \in Names /\ b.ssids[k] \in Names
  BY <1>1, ElementOfSeq DEF Longer
<1>3. /\ SubSeq(b.ssids, 1, Len(a.ssids)) \in Seq(Names)
      /\ Len(SubSeq(b.ssids, 1, Len(a.ssids))) = Len(a.ssids)
      /\ \A k \in 1 .. Len(a.ssids) : SubSeq(b.ssids, 1, Len(a.ssids))[k] = b.ssids[k]
  <2>1. 1 \in Int /\ Len(a.ssids) \in Int /\ Len(a.ssids) - 1 + 1 = Len(a.ssids)
    BY <1>1
  <2> QED  BY <1>1, <1>2, <2>1, SubSeqProperties
<1>4. /\ SubSeq(a.ssids, 1, Len(a.ssids)) \in Seq(Names)
      /\ Len(SubSeq(a.ssids, 1, Len(a.ssids))) = Len(a.ssids)
      /\ \A k \in 1 .. Len(a.ssids) : SubSeq(a.ssids, 1, Len(a.ssids))[k] = a.ssids[k]
  BY <1>1, <1>2, SubSeqProperties
<1>5. SubSeq(a.ssids, 1, Len(a.ssids)) = SubSeq(b.ssids, 1, Len(a.ssids))
  BY <1>1, <1>3, <1>4, SeqEqual DEF Longer
<1> QED  BY <1>1, <1>5 DEF Longer, IsPrefix
-----------------------------------------------------------------------------
(* A device with a stable address is still listed, with the names it had.  *)
Keeps(old, new) ==
  \A i \in DOMAIN old :
    ~old[i].mac_random =>
      \E j \in DOMAIN new : new[j].mac = old[i].mac /\ ~new[j].mac_random /\ Longer(old[i], new[j])

(* An array keeps the stable records of itself.                            *)
LEMMA KeepsSelf ==
  ASSUME NEW devs \in Seq(GoodRecord)
  PROVE  Keeps(devs, devs)
<1>1. \A i \in DOMAIN devs : devs[i] \in GoodRecord
  BY ElementOfSeq, LenProperties
<1>2. \A i \in DOMAIN devs : Len(devs[i].ssids) \in Nat
  BY <1>1, LenProperties DEF GoodRecord, Signature
<1> QED  BY <1>2 DEF Keeps, Longer

(* Keeping is transitive: what the merge and then the link keep is kept.   *)
LEMMA KeepsTransitive ==
  ASSUME NEW a \in Seq(GoodRecord), NEW b \in Seq(GoodRecord), NEW c \in Seq(GoodRecord),
         Keeps(a, b), Keeps(b, c)
  PROVE  Keeps(a, c)
<1> SUFFICES ASSUME NEW i \in DOMAIN a, ~a[i].mac_random
             PROVE  \E k \in DOMAIN c : /\ c[k].mac = a[i].mac /\ ~c[k].mac_random
                                        /\ Longer(a[i], c[k])
  BY DEF Keeps
<1>1. PICK j \in DOMAIN b : b[j].mac = a[i].mac /\ ~b[j].mac_random /\ Longer(a[i], b[j])
  BY DEF Keeps
<1>2. PICK k \in DOMAIN c : c[k].mac = b[j].mac /\ ~c[k].mac_random /\ Longer(b[j], c[k])
  BY <1>1 DEF Keeps
<1>3. a[i] \in GoodRecord /\ b[j] \in GoodRecord /\ c[k] \in GoodRecord
  BY ElementOfSeq, LenProperties
<1>4. Longer(a[i], c[k])
  BY <1>1, <1>2, <1>3, LongerTransitive
<1> QED  BY <1>1, <1>2, <1>4

(* Folding a randomized record away keeps every stable one.                *)
LEMMA FoldKeeps ==
  ASSUME NEW devs \in Seq(GoodRecord), NEW keep \in DOMAIN devs, NEW from \in DOMAIN devs,
         keep # from, devs[from].mac_random
  PROVE  Keeps(devs, absorb_and_remove(devs, keep, from))
<1> DEFINE folded == absorb_and_remove(devs, keep, from)
<1> SUFFICES ASSUME NEW i \in DOMAIN devs, ~devs[i].mac_random
             PROVE  \E j \in DOMAIN folded : /\ folded[j].mac = devs[i].mac
                                             /\ ~folded[j].mac_random
                                             /\ Longer(devs[i], folded[j])
  BY DEF Keeps
<1>0. i \in DOMAIN devs \ {from}
  OBVIOUS
<1>1. PICK j \in DOMAIN folded : Was(from, j) = i
  BY <1>0, FoldProperties
<1>2. folded[j] = IF i = keep THEN absorb(devs[keep], devs[from]) ELSE devs[i]
  BY <1>1, FoldProperties
<1>3. devs[i] \in GoodRecord /\ devs[keep] \in GoodRecord /\ devs[from] \in GoodRecord
  BY ElementOfSeq, LenProperties
<1>4. /\ absorb(devs[keep], devs[from]).mac = devs[keep].mac
      /\ absorb(devs[keep], devs[from]).mac_random = devs[keep].mac_random
      /\ Longer(devs[keep], absorb(devs[keep], devs[from]))
  BY <1>3, AbsorbGood DEF Longer
<1>5. Longer(devs[i], devs[i])
  BY <1>3, LenProperties DEF Longer, GoodRecord, Signature
<1> HIDE DEF folded
<1> QED  BY <1>1, <1>2, <1>4, <1>5

(* A late link keeps every stable record: it folds a randomized one away.  *)
LEMMA LinkLateKeeps ==
  ASSUME NEW devs \in Seq(GoodRecord), NEW self \in DOMAIN devs, NEW name
  PROVE  Keeps(devs, link_late(devs, self, name))
<1>1. CASE link_late(devs, self, name) = devs
  BY <1>1, KeepsSelf
<1>2. CASE link_late(devs, self, name) # devs
  <2>1. PICK keep \in DOMAIN devs, from \in DOMAIN devs :
          /\ keep # from /\ devs[from].mac_random
          /\ link_late(devs, self, name) = absorb_and_remove(devs, keep, from)
    BY <1>2, LinkLateCases
  <2> QED  BY <2>1, FoldKeeps
<1> QED  BY <1>1, <1>2

(* The merge of a frame keeps every stable record.                         *)
LEMMA MergeKeeps ==
  ASSUME NEW devs \in Seq(GoodRecord), NEW obs \in Observation, NEW now \in Nat,
         obs.mac_random = (obs.mac \in RandomMacs),
         NEW self \in Existing(devs, obs)
  PROVE  Keeps(devs, Heard(devs, self, obs, now))
<1> DEFINE merged == Heard(devs, self, obs, now)
<1>1. /\ DOMAIN merged = DOMAIN devs /\ self \in DOMAIN devs
      /\ \A k \in DOMAIN devs :
           /\ merged[k] = IF k = self THEN merge(devs[self], obs, now) ELSE devs[k]
           /\ merged[k].mac = devs[k].mac /\ merged[k].mac_random = devs[k].mac_random
  BY MergedArray
<1> HIDE DEF merged
<1>2. \A k \in DOMAIN devs : devs[k] \in GoodRecord
  BY ElementOfSeq, LenProperties
<1>3. Longer(devs[self], merge(devs[self], obs, now))
  BY <1>1, <1>2, ExistingProperties, MergeGood DEF Longer
<1>4. \A k \in DOMAIN devs : Longer(devs[k], devs[k])
  BY <1>2, LenProperties DEF Longer, GoodRecord, Signature
<1>5. Keeps(devs, merged)
  BY <1>1, <1>3, <1>4 DEF Keeps
<1> QED  BY <1>5 DEF merged

(* The frame of a known device keeps every stable record.                  *)
LEMMA KnownKeeps ==
  ASSUME IInv, NEW obs \in Observations, NEW now \in Times, ObserveKnown(obs, now)
  PROVE  Keeps(devices, devices')
<1>1. obs \in Observation /\ obs.mac_random = (obs.mac \in RandomMacs) /\ now \in Nat
  BY CensusAssumption
<1>2. PICK self \in Existing(devices, obs) :
        devices' = link_late(Heard(devices, self, obs, now), self, obs.probed_ssid)
  BY DEF ObserveKnown, Heard
<1> DEFINE merged == Heard(devices, self, obs, now)
<1>3. devices \in Seq(GoodRecord) /\ UniqueIn(devices)
  BY DEF IInv, UniqueMacs, UniqueIn
<1>4. merged \in Seq(GoodRecord) /\ self \in DOMAIN merged /\ UniqueIn(merged)
  BY <1>1, <1>3, MergedArray
<1>5. Keeps(devices, merged)
  BY <1>1, <1>3, MergeKeeps
<1> HIDE DEF merged
<1>6. link_late(merged, self, obs.probed_ssid) \in Seq(GoodRecord)
  BY <1>4, LinkLateGood
<1>7. Keeps(merged, link_late(merged, self, obs.probed_ssid))
  BY <1>4, LinkLateKeeps
<1>8. Keeps(devices, link_late(merged, self, obs.probed_ssid))
  BY <1>3, <1>4, <1>5, <1>6, <1>7, KeepsTransitive
<1> QED  BY <1>2, <1>8 DEF merged

(* The frame of a new device keeps every stable record.                    *)
LEMMA NewKeeps ==
  ASSUME IInv, NEW obs \in Observations, NEW now \in Times, ObserveNew(obs, now)
  PROVE  Keeps(devices, devices')
<1>1. devices \in Seq(GoodRecord) /\ Len(devices) \in Nat /\ DOMAIN devices = 1 .. Len(devices)
  BY LenProperties DEF IInv
<1>2. from_obs(obs, now) \in GoodRecord
  BY CensusAssumption, FromObsGood
<1>3. /\ \A i \in 1 .. Len(devices) : devices'[i] = devices[i]
      /\ DOMAIN devices' = 1 .. Len(devices) + 1
  BY <1>1, <1>2, AppendProperties, LenProperties DEF ObserveNew
<1>4. \A i \in DOMAIN devices : i \in DOMAIN devices' /\ devices'[i] = devices[i]
  BY <1>1, <1>3
<1>5. Keeps(devices, devices)
  BY <1>1, KeepsSelf
<1> QED  BY <1>4, <1>5 DEF Keeps

(* While frames arrive, a stable device is never folded away and never     *)
(* loses a name.                                                           *)
THEOREM StableNeverLost == Spec => StableKept
<1> DEFINE A == heard' > heard =>
                  \A i \in DOMAIN devices :
                    Stable(devices[i]) =>
                      \E j \in DOMAIN devices' :
                        /\ devices'[j].mac = devices[i].mac
                        /\ IsPrefix(devices[i].ssids, devices'[j].ssids)
<1>1. IInv /\ IInv' /\ Keeps(devices, devices') => A
  <2> SUFFICES ASSUME IInv, IInv', Keeps(devices, devices'),
                      NEW i \in DOMAIN devices, ~devices[i].mac_random
               PROVE  \E j \in DOMAIN devices' :
                        /\ devices'[j].mac = devices[i].mac
                        /\ IsPrefix(devices[i].ssids, devices'[j].ssids)
    BY DEF Stable
  <2>1. PICK j \in DOMAIN devices' : devices'[j].mac = devices[i].mac /\ Longer(devices[i], devices'[j])
    BY DEF Keeps
  <2>2. devices[i] \in GoodRecord
    BY ElementOfSeq, LenProperties DEF IInv
  <2>3. devices'[j] \in GoodRecord
    <3>1. devices' \in Seq(GoodRecord)
      BY DEF IInv
    <3> QED  BY <3>1, ElementOfSeq, LenProperties
  <2>4. IsPrefix(devices[i].ssids, devices'[j].ssids)
    BY <2>1, <2>2, <2>3, LongerIsPrefix
  <2> QED  BY <2>1, <2>4
<1>2. IInv /\ [Next]_vars => A
  <2> SUFFICES ASSUME IInv, [Next]_vars, heard' > heard  PROVE A
    OBVIOUS
  <2>0. IInv'
    BY Inductive
  <2>1. heard' # heard /\ heard' # 0
    BY <2>0 DEF IInv
  <2>2. PICK obs \in Observations, now \in Times : observe(obs, now)
    BY <2>1 DEF Next, set_max, reserve, free, vars
  <2>3. CASE ObserveKnown(obs, now)
    BY <1>1, <2>0, <2>3, KnownKeeps
  <2>4. CASE ObserveNew(obs, now)
    BY <1>1, <2>0, <2>4, NewKeeps
  <2>5. CASE ObserveRefused(obs)
    <3>1. devices' = devices
      BY <2>5 DEF ObserveRefused
    <3>2. Keeps(devices, devices)
      BY KeepsSelf DEF IInv
    <3> QED  BY <1>1, <2>0, <3>1, <3>2
  <2> QED  BY <2>2, <2>3, <2>4, <2>5 DEF observe
<1> HIDE DEF A
<1>3. Spec => [][A]_vars
  BY <1>2, Invariance, PTL DEF Spec
<1> QED  BY <1>3 DEF A, StableKept
-----------------------------------------------------------------------------
(* A name that two randomized clients of the array seek is the name of a   *)
(* place.                                                                  *)
Holder(devs, name) ==
  \E k \in DOMAIN devs : ~devs[k].mac_random /\ has_ssid(devs[k], name)

Apart(devs, name) ==
  \A i, j \in clients_seeking(devs, name) : i # j => Holder(devs, name)

PlacesIn(devs) == \A name \in Names : Apart(devs, name)

(* PlacesIn is PlaceNames, with the array as an argument.                  *)
LEMMA PlacesInIsPlaceNames == PlacesIn(devices) <=> PlaceNames
<1>1. \A name : clients_seeking(devices, name) \subseteq DOMAIN devices
  BY DEF clients_seeking
<1> QED  BY <1>1 DEF PlacesIn, Apart, Holder, PlaceNames, Stable

(* A name that a stable device holds is held for good.                     *)
LEMMA KeepsHolder ==
  ASSUME NEW a \in Seq(GoodRecord), NEW b \in Seq(GoodRecord), Keeps(a, b),
         NEW name, Holder(a, name)
  PROVE  Holder(b, name)
<1>1. PICK k \in DOMAIN a : ~a[k].mac_random /\ has_ssid(a[k], name)
  BY DEF Holder
<1>2. PICK j \in DOMAIN b : ~b[j].mac_random /\ Longer(a[k], b[j])
  BY <1>1 DEF Keeps
<1>3. a[k] \in GoodRecord /\ b[j] \in GoodRecord
  BY ElementOfSeq, LenProperties
<1>4. has_ssid(b[j], name)
  BY <1>1, <1>2, <1>3, LongerHas
<1> QED  BY <1>2, <1>4 DEF Holder

(* A frame makes only its own record seek, and only the name it carries.   *)
LEMMA HeardSeekers ==
  ASSUME NEW devs \in Seq(GoodRecord), NEW obs \in Observation, NEW now \in Nat,
         obs.mac_random = (obs.mac \in RandomMacs),
         NEW self \in Existing(devs, obs), NEW name,
         NEW k \in clients_seeking(Heard(devs, self, obs, now), name)
  PROVE  k \in clients_seeking(devs, name) \/ (k = self /\ name = obs.probed_ssid)
<1> DEFINE merged == Heard(devs, self, obs, now)
<1>1. /\ DOMAIN merged = DOMAIN devs /\ self \in DOMAIN devs
      /\ \A i \in DOMAIN devs : merged[i] = IF i = self THEN merge(devs[self], obs, now) ELSE devs[i]
  BY MergedArray
<1> HIDE DEF merged
<1>2. k \in DOMAIN devs /\ name # NoName /\ merged[k].type # "Ap" /\ has_ssid(merged[k], name)
  BY <1>1 DEF clients_seeking, merged
<1>3. CASE k # self
  BY <1>1, <1>2, <1>3 DEF clients_seeking
<1>4. CASE k = self
  <2>1. devs[self] \in GoodRecord /\ (obs.mac_random \/ obs.mac = devs[self].mac)
    BY <1>1, ElementOfSeq, LenProperties, ExistingProperties
  <2>2. /\ devs[self].type = "Ap" => merge(devs[self], obs, now).type = "Ap"
        /\ has_ssid(merge(devs[self], obs, now), name)
             => name = obs.probed_ssid \/ has_ssid(devs[self], name)
    BY <2>1, MergeGood
  <2> QED  BY <1>1, <1>2, <1>4, <2>2 DEF clients_seeking
<1> QED  BY <1>3, <1>4

(* If link_late finds nobody to link the record with, the array is as it   *)
(* should be already.                                                      *)
LEMMA HeardPlaces ==
  ASSUME NEW devs \in Seq(GoodRecord), NEW obs \in Observation, NEW now \in Nat,
         obs.mac_random = (obs.mac \in RandomMacs),
         NEW self \in Existing(devs, obs), PlacesIn(devs), NEW name \in Names,
         \/ name # obs.probed_ssid
         \/ LateOther(Heard(devs, self, obs, now), self, name) = {}
  PROVE  Apart(Heard(devs, self, obs, now), name)
<1> DEFINE merged == Heard(devs, self, obs, now)
           seekers == clients_seeking(merged, name)
<1>1. merged \in Seq(GoodRecord) /\ DOMAIN merged = DOMAIN devs /\ self \in DOMAIN devs
  BY MergedArray
<1>2. \A k \in seekers : k \in clients_seeking(devs, name) \/ (k = self /\ name = obs.probed_ssid)
  BY HeardSeekers
<1>3. Holder(devs, name) => Holder(merged, name)
  BY <1>1, MergeKeeps, KeepsHolder
<1>4. \A k \in seekers : k \in DOMAIN merged /\ has_ssid(merged[k], name)
  BY DEF clients_seeking
<1>5. (name = obs.probed_ssid) => LateOther(merged, self, name) = {}
  OBVIOUS
<1> HIDE DEF merged, seekers
<1> SUFFICES ASSUME NEW i \in seekers, NEW j \in seekers, i # j, ~Holder(merged, name)  PROVE FALSE
  BY DEF Apart, seekers, merged
<1>6. \A k, l \in clients_seeking(devs, name) : k = l
  BY <1>3 DEF PlacesIn, Apart
<1>7. name = obs.probed_ssid
  BY <1>2, <1>6
<1>8. PICK other \in seekers : other # self /\ self \in seekers
  BY <1>2, <1>6
<1>9. seekers = {self, other}
  BY <1>2, <1>6, <1>8
<1>10. merged[self].mac_random
  BY <1>4, <1>8 DEF Holder
<1>11. other \in LateOther(merged, self, name)
  BY <1>4, <1>8, <1>9, <1>10 DEF LateOther, seekers
<1> QED  BY <1>5, <1>7, <1>11

(* A fold makes two seekers one, and adds none.                            *)
LEMMA FoldPlaces ==
  ASSUME NEW devs \in Seq(GoodRecord), NEW keep \in DOMAIN devs, NEW from \in DOMAIN devs,
         keep # from, devs[from].mac_random,
         NEW x, clients_seeking(devs, x) = {keep, from},
         NEW name \in Names, name = x \/ Apart(devs, name)
  PROVE  Apart(absorb_and_remove(devs, keep, from), name)
<1> DEFINE folded == absorb_and_remove(devs, keep, from)
<1>1. /\ folded \in Seq(GoodRecord)
      /\ \A j \in DOMAIN folded :
           /\ Was(from, j) \in DOMAIN devs \ {from}
           /\ folded[j] = IF Was(from, j) = keep THEN absorb(devs[keep], devs[from])
                                                 ELSE devs[Was(from, j)]
  BY FoldProperties
<1>2. /\ devs[keep] \in GoodRecord /\ devs[from] \in GoodRecord
      /\ devs[keep].type # "Ap" /\ devs[from].type # "Ap"
  <2>1. keep \in clients_seeking(devs, x) /\ from \in clients_seeking(devs, x)
    OBVIOUS
  <2>2. devs[keep].type # "Ap" /\ devs[from].type # "Ap"
    BY <2>1 DEF clients_seeking
  <2> QED  BY <2>2, ElementOfSeq, LenProperties
<1>3. has_ssid(absorb(devs[keep], devs[from]), name)
        => has_ssid(devs[keep], name) \/ has_ssid(devs[from], name)
  BY <1>2, AbsorbGood
<1>4. \A i, j \in DOMAIN folded : Was(from, i) = Was(from, j) => i = j
  BY <1>1, LenProperties DEF Was
<1>5. Keeps(devs, folded)
  BY FoldKeeps
<1>6. \A j \in clients_seeking(folded, name) :
        /\ j \in DOMAIN folded /\ name # NoName
        /\ folded[j].type # "Ap" /\ has_ssid(folded[j], name)
  BY DEF clients_seeking
<1> HIDE DEF folded
<1>7. \A j \in clients_seeking(folded, name) :
        \/ Was(from, j) \in clients_seeking(devs, name)
        \/ Was(from, j) = keep /\ from \in clients_seeking(devs, name)
  <2> SUFFICES ASSUME NEW j \in clients_seeking(folded, name)
               PROVE  \/ Was(from, j) \in clients_seeking(devs, name)
                      \/ Was(from, j) = keep /\ from \in clients_seeking(devs, name)
    OBVIOUS
  <2>1. CASE Was(from, j) # keep
    BY <1>1, <1>6, <2>1 DEF clients_seeking
  <2>2. CASE Was(from, j) = keep
    <3>1. has_ssid(devs[keep], name) \/ has_ssid(devs[from], name)
      BY <1>1, <1>3, <1>6, <2>2
    <3> QED  BY <1>2, <1>6, <2>2, <3>1 DEF clients_seeking
  <2> QED  BY <2>1, <2>2
<1> SUFFICES ASSUME NEW i \in clients_seeking(folded, name),
                    NEW j \in clients_seeking(folded, name), i # j
             PROVE  Holder(folded, name)
  BY DEF Apart, folded
<1>8. Was(from, i) # Was(from, j) /\ Was(from, i) # from /\ Was(from, j) # from
  BY <1>1, <1>4, <1>6
<1>9. name # x
  BY <1>7, <1>8
<1>10. \E k, l \in clients_seeking(devs, name) : k # l
  BY <1>7, <1>8
<1>11. Holder(devs, name)
  BY <1>9, <1>10 DEF Apart
<1> QED  BY <1>1, <1>5, <1>11, KeepsHolder
(* The frame of a known device preserves PlaceNames: the one name that may *)
(* have got two seekers is linked, or has a stable holder.                 *)
LEMMA KnownPlaces ==
  ASSUME IInv, PlacesIn(devices), NEW obs \in Observations, NEW now \in Times,
         ObserveKnown(obs, now)
  PROVE  PlacesIn(devices')
<1>1. obs \in Observation /\ obs.mac_random = (obs.mac \in RandomMacs) /\ now \in Nat
  BY CensusAssumption
<1>2. PICK self \in Existing(devices, obs) :
        devices' = link_late(Heard(devices, self, obs, now), self, obs.probed_ssid)
  BY DEF ObserveKnown, Heard
<1> DEFINE merged == Heard(devices, self, obs, now)
<1>3. devices \in Seq(GoodRecord)
  BY DEF IInv
<1>4. merged \in Seq(GoodRecord) /\ self \in DOMAIN merged
  BY <1>1, <1>3, MergedArray
<1>5. ASSUME NEW name \in Names, name # obs.probed_ssid  PROVE Apart(merged, name)
  BY <1>1, <1>3, <1>5, HeardPlaces
<1>6. ASSUME LateOther(merged, self, obs.probed_ssid) = {}  PROVE PlacesIn(merged)
  BY <1>1, <1>3, <1>6, HeardPlaces DEF PlacesIn
<1> HIDE DEF merged
<1>7. CASE LateOther(merged, self, obs.probed_ssid) = {}
  <2>1. link_late(merged, self, obs.probed_ssid) = merged
    BY <1>7 DEF link_late
  <2> QED  BY <1>2, <1>6, <1>7, <2>1 DEF merged
<1>8. CASE LateOther(merged, self, obs.probed_ssid) # {}
  <2>1. PICK keep \in DOMAIN merged, from \in DOMAIN merged :
          /\ keep # from /\ merged[from].mac_random
          /\ clients_seeking(merged, obs.probed_ssid) = {keep, from}
          /\ link_late(merged, self, obs.probed_ssid) = absorb_and_remove(merged, keep, from)
    BY <1>4, <1>8, LinkLateCases
  <2>2. ASSUME NEW name \in Names
        PROVE  Apart(absorb_and_remove(merged, keep, from), name)
    <3>1. name = obs.probed_ssid \/ Apart(merged, name)
      BY <1>5
    <3> QED  BY <1>4, <2>1, <3>1, FoldPlaces
  <2> QED  BY <1>2, <2>1, <2>2 DEF merged, PlacesIn
<1> QED  BY <1>7, <1>8

(* The frame of a new device preserves PlaceNames: a name it seeks had no  *)
(* seeker, or more than one, or a stable one.                              *)
LEMMA NewPlaces ==
  ASSUME IInv, PlacesIn(devices), NEW obs \in Observations, NEW now \in Times,
         ObserveNew(obs, now)
  PROVE  PlacesIn(devices')
<1> DEFINE last == Len(devices) + 1
           fresh == from_obs(obs, now)
<1>1. obs \in Observation /\ obs.mac_random = (obs.mac \in RandomMacs) /\ now \in Nat
  BY CensusAssumption
<1>2. /\ fresh \in GoodRecord /\ fresh.mac_random = obs.mac_random
      /\ \A n : has_ssid(fresh, n) => n = obs.probed_ssid
      /\ obs.is_beacon => fresh.type = "Ap"
  <2>1. fresh \in GoodRecord /\ fresh.mac = obs.mac
        /\ \A n : has_ssid(fresh, n) => n = obs.probed_ssid
    BY <1>1, FromObsGood
  <2>2. fresh.mac_random = obs.mac_random
    BY <1>1, <2>1 DEF GoodRecord, WellFormed
  <2>3. obs.is_beacon => fresh.type = "Ap"
    BY DEF from_obs, add_ssid, wc_device_type_guess
  <2> QED  BY <2>1, <2>2, <2>3
<1>3. devices \in Seq(GoodRecord) /\ Len(devices) \in Nat /\ DOMAIN devices = 1 .. Len(devices)
  BY LenProperties DEF IInv
<1>4. /\ devices' \in Seq(GoodRecord)
      /\ \A i \in DOMAIN devices : devices'[i] = devices[i]
      /\ devices'[last] = fresh /\ last \notin DOMAIN devices
      /\ DOMAIN devices' = DOMAIN devices \cup {last}
  BY <1>2, <1>3, AppendProperties, LenProperties DEF ObserveNew
<1> HIDE DEF last, fresh
<1>5. ASSUME NEW name, NEW k \in clients_seeking(devices', name)
      PROVE  \/ k \in clients_seeking(devices, name)
             \/ k = last /\ name = obs.probed_ssid /\ ~obs.is_beacon /\ has_ssid(fresh, name)
  <2>1. k \in DOMAIN devices' /\ name # NoName /\ devices'[k].type # "Ap" /\ has_ssid(devices'[k], name)
    BY <1>5 DEF clients_seeking
  <2> QED  BY <1>2, <1>4, <2>1 DEF clients_seeking
<1>6. \A name : Holder(devices, name) => Holder(devices', name)
  BY <1>4 DEF Holder
<1> SUFFICES ASSUME NEW name \in Names, NEW i \in clients_seeking(devices', name),
                    NEW j \in clients_seeking(devices', name), i # j
             PROVE  Holder(devices', name)
  BY DEF PlacesIn, Apart
<1>7. CASE \E k, l \in clients_seeking(devices, name) : k # l
  BY <1>6, <1>7 DEF PlacesIn, Apart
<1>8. CASE \A k, l \in clients_seeking(devices, name) : k = l
  <2>1. /\ name = obs.probed_ssid /\ ~obs.is_beacon /\ has_ssid(fresh, name)
        /\ clients_seeking(devices, name) # {}
    BY <1>5, <1>8
  <2>2. PICK k : clients_seeking(devices, name) = {k} /\ k \in DOMAIN devices
    BY <1>8, <2>1 DEF clients_seeking
  <2>3. find_client_by_ssid(devices, name) # {}
    BY <2>2 DEF find_client_by_ssid
  <2>4. ~obs.mac_random
    BY <2>1, <2>3 DEF ObserveNew, Existing
  <2> QED  BY <1>2, <1>4, <2>1, <2>4 DEF Holder
<1> QED  BY <1>7, <1>8

(* Two randomized clients never seek the same name unless a stable device  *)
(* holds it too: every frame either is a place's, or links.                *)
THEOREM NamesArePlaces == Spec => []PlaceNames
<1>1. Init => PlacesIn(devices)
  <2> SUFFICES ASSUME Init  PROVE PlacesIn(devices)
    OBVIOUS
  <2>1. DOMAIN devices = {}
    BY DEF Init
  <2> QED  BY <2>1 DEF PlacesIn, Apart, clients_seeking
<1>2. IInv /\ PlacesIn(devices) /\ [Next]_vars => PlacesIn(devices)'
  <2> SUFFICES ASSUME IInv, PlacesIn(devices), [Next]_vars  PROVE PlacesIn(devices')
    OBVIOUS
  <2>1. CASE UNCHANGED devices
    BY <2>1
  <2>2. ASSUME NEW obs \in Observations, NEW now \in Times, observe(obs, now)
        PROVE  PlacesIn(devices')
    <3>1. CASE ObserveKnown(obs, now)
      BY <3>1, KnownPlaces
    <3>2. CASE ObserveNew(obs, now)
      BY <3>2, NewPlaces
    <3>3. CASE ObserveRefused(obs)
      BY <2>1, <3>3 DEF ObserveRefused
    <3> QED  BY <2>2, <3>1, <3>2, <3>3 DEF observe
  <2>3. CASE free
    <3>1. DOMAIN devices' = {}
      BY <2>3 DEF free
    <3> QED  BY <3>1 DEF PlacesIn, Apart, clients_seeking
  <2> QED  BY <2>1, <2>2, <2>3 DEF Next, set_max, reserve, vars
<1>3. PlacesIn(devices) => PlaceNames
  BY PlacesInIsPlaceNames
<1> QED  BY <1>1, <1>2, <1>3, Invariance, PTL DEF Spec

-----------------------------------------------------------------------------
(* What absorb does to everything but the names.                           *)

(* The two records differ in their names at most.                          *)
SameReadings(old, new) ==
  /\ new.mac = old.mac /\ new.mac_random = old.mac_random /\ new.type = old.type
  /\ new.rssi_max = old.rssi_max /\ new.obs_count = old.obs_count
  /\ new.first_seen = old.first_seen /\ new.last_seen = old.last_seen
  /\ new.ie_hash = old.ie_hash /\ new.heard_as = old.heard_as

(* Taking over names touches no reading.                                   *)
LEMMA NamesOnly ==
  ASSUME NEW dst \in Signature, WellFormed(dst), NEW src \in Signature
  PROVE  SameReadings(dst, add_ssids_of(dst, src))
<1> DEFINE one == IF Len(src.ssids) >= 1 THEN add_ssid(dst, src.ssids[1]) ELSE dst
           two == IF Len(src.ssids) >= 2 THEN add_ssid(one, src.ssids[2]) ELSE one
<1>1. /\ Len(src.ssids) \in Nat
      /\ \A k \in 1 .. Len(src.ssids) : src.ssids[k] \in Names \cup {NoName}
  BY LenProperties, ElementOfSeq DEF Signature
<1>2. one \in Signature /\ WellFormed(one) /\ SameReadings(dst, one)
  <2>1. CASE Len(src.ssids) >= 1
    <3>1. src.ssids[1] \in Names \cup {NoName}
      BY <1>1, <2>1
    <3>2. one \in Signature /\ WellFormed(one) /\ one = [dst EXCEPT !.ssids = one.ssids]
      BY <2>1, <3>1, AddSsidProperties
    <3> QED  BY <3>2 DEF Signature, SameReadings
  <2>2. CASE ~(Len(src.ssids) >= 1)
    BY <2>2 DEF SameReadings
  <2> QED  BY <2>1, <2>2
<1> HIDE DEF one
<1>3. SameReadings(one, two)
  <2>1. CASE Len(src.ssids) >= 2
    <3>1. src.ssids[2] \in Names \cup {NoName}
      BY <1>1, <2>1
    <3>2. two \in Signature /\ two = [one EXCEPT !.ssids = two.ssids]
      BY <1>2, <2>1, <3>1, AddSsidProperties
    <3> QED  BY <1>2, <3>2 DEF Signature, SameReadings
  <2>2. CASE ~(Len(src.ssids) >= 2)
    BY <2>2 DEF SameReadings
  <2> QED  BY <2>1, <2>2
<1>4. add_ssids_of(dst, src) = two
  BY DEF add_ssids_of, one
<1> QED  BY <1>2, <1>3, <1>4 DEF SameReadings

(* The readings of a record that absorbed another one.                     *)
LEMMA AbsorbReadings ==
  ASSUME NEW dst \in GoodRecord, NEW src \in GoodRecord
  PROVE  /\ absorb(dst, src).obs_count = dst.obs_count + src.obs_count
         /\ absorb(dst, src).first_seen = EarliestSeen(dst.first_seen, src.first_seen)
         /\ absorb(dst, src).last_seen
              = IF src.last_seen > dst.last_seen THEN src.last_seen ELSE dst.last_seen
         /\ absorb(dst, src).rssi_max = StrongerRssi(dst.rssi_max, src.rssi_max)
<1> DEFINE summed ==
      [dst EXCEPT
         !.obs_count = @ + src.obs_count,
         !.first_seen = EarliestSeen(@, src.first_seen),
         !.last_seen = IF src.last_seen > @ THEN src.last_seen ELSE @,
         !.rssi_max = StrongerRssi(@, src.rssi_max),
         !.type = FirstKnown(@, src.type, "Unknown"),
         !.ie_hash = FirstKnown(@, src.ie_hash, 0),
         !.heard_as = @ \cup src.heard_as]
<1>0. dst \in Signature /\ src \in Signature /\ WellFormed(dst)
  BY DEF GoodRecord
<1>1. /\ dst.obs_count + src.obs_count \in Nat
      /\ EarliestSeen(dst.first_seen, src.first_seen) \in Nat
      /\ (IF src.last_seen > dst.last_seen THEN src.last_seen ELSE dst.last_seen) \in Nat
      /\ StrongerRssi(dst.rssi_max, src.rssi_max) \in Int
      /\ FirstKnown(dst.type, src.type, "Unknown") \in DeviceTypes
      /\ FirstKnown(dst.ie_hash, src.ie_hash, 0) \in Nat
      /\ dst.heard_as \cup src.heard_as \in SUBSET Macs
  BY <1>0 DEF EarliestSeen, StrongerRssi, FirstKnown, Signature
<1>2. /\ summed \in Signature
      /\ summed.mac = dst.mac /\ summed.mac_random = dst.mac_random
      /\ summed.ssids = dst.ssids
      /\ summed.obs_count = dst.obs_count + src.obs_count
      /\ summed.first_seen = EarliestSeen(dst.first_seen, src.first_seen)
      /\ summed.last_seen
           = IF src.last_seen > dst.last_seen THEN src.last_seen ELSE dst.last_seen
      /\ summed.rssi_max = StrongerRssi(dst.rssi_max, src.rssi_max)
  BY <1>0, <1>1 DEF Signature
<1>3. absorb(dst, src) = add_ssids_of(summed, src)
  BY DEF absorb
<1> HIDE DEF summed
<1>4. WellFormed(summed)
  BY <1>0, <1>2 DEF WellFormed
<1>5. SameReadings(summed, add_ssids_of(summed, src))
  BY <1>0, <1>2, <1>4, NamesOnly
<1> QED  BY <1>2, <1>3, <1>5 DEF SameReadings

-----------------------------------------------------------------------------
(* A further frame, and the record of that frame.                          *)

(* The times of a record lie before the last frame, and are missing when,  *)
(* and only when, the session has no clock.                                *)
Timed(sig, time) ==
  /\ sig.first_seen <= time /\ sig.last_seen <= time
  /\ sig.first_seen = 0 <=> time = 0

TimesInv ==
  /\ \A i \in DOMAIN devices : Timed(devices[i], clock)
  /\ devices # << >> => heard > 0

(* The record that a frame alone makes.                                    *)
LEMMA FromObsFields ==
  ASSUME NEW obs \in Observation, NEW now \in Nat
  PROVE  /\ from_obs(obs, now).obs_count = 1
         /\ from_obs(obs, now).first_seen = now /\ from_obs(obs, now).last_seen = now
         /\ from_obs(obs, now).rssi_max = obs.rssi
         /\ from_obs(obs, now).type = wc_device_type_guess(obs)
         /\ from_obs(obs, now).ie_hash = obs.ie_hash
         /\ from_obs(obs, now).heard_as = {obs.mac}
         /\ from_obs(obs, now).ssids
              = IF obs.probed_ssid = NoName THEN << >> ELSE <<obs.probed_ssid>>
<1> DEFINE blank ==
      [mac |-> obs.mac, mac_random |-> obs.mac_random,
       type |-> wc_device_type_guess(obs), ssids |-> << >>,
       rssi_max |-> obs.rssi, obs_count |-> 1,
       first_seen |-> now, last_seen |-> now,
       ie_hash |-> obs.ie_hash, heard_as |-> {obs.mac}]
<1>1. from_obs(obs, now) = add_ssid(blank, obs.probed_ssid)
  BY DEF from_obs
<1>2. CASE obs.probed_ssid = NoName
  <2>1. from_obs(obs, now) = blank
    BY <1>1, <1>2 DEF add_ssid
  <2> QED  BY <1>2, <2>1
<1>3. CASE obs.probed_ssid # NoName
  <2>1. ~has_ssid(blank, obs.probed_ssid) /\ ~(Len(blank.ssids) >= WC_SIG_MAX_SSIDS)
    BY DEF has_ssid, WC_SIG_MAX_SSIDS
  <2>2. from_obs(obs, now) = [blank EXCEPT !.ssids = Append(@, obs.probed_ssid)]
    BY <1>1, <1>3, <2>1 DEF add_ssid
  <2>3. Append(<< >>, obs.probed_ssid) = <<obs.probed_ssid>>
    OBVIOUS
  <2> QED  BY <1>3, <2>2, <2>3
<1> QED  BY <1>2, <1>3

(* The record that a frame alone makes has at most the name of the frame.  *)
LEMMA OneName ==
  ASSUME NEW obs \in Observation, NEW now \in Nat, NEW sig
  PROVE  add_ssids_of(sig, from_obs(obs, now)) = add_ssid(sig, obs.probed_ssid)
<1> DEFINE names == from_obs(obs, now).ssids
<1>1. names = IF obs.probed_ssid = NoName THEN << >> ELSE <<obs.probed_ssid>>
  BY FromObsFields
<1>2. add_ssids_of(sig, from_obs(obs, now))
        = LET one == IF Len(names) >= 1 THEN add_ssid(sig, names[1]) ELSE sig
          IN  IF Len(names) >= 2 THEN add_ssid(one, names[2]) ELSE one
  BY DEF add_ssids_of
<1> HIDE DEF names
<1>3. CASE obs.probed_ssid = NoName
  <2>1. ~(Len(names) >= 1) /\ ~(Len(names) >= 2)
    BY <1>1, <1>3
  <2> QED  BY <1>2, <1>3, <2>1 DEF add_ssid
<1>4. CASE obs.probed_ssid # NoName
  <2>1. Len(names) >= 1 /\ ~(Len(names) >= 2) /\ names[1] = obs.probed_ssid
    BY <1>1, <1>4
  <2> QED  BY <1>2, <2>1
<1> QED  BY <1>3, <1>4

(* wc_signature_merge is wc_signature_absorb of the record of one frame,   *)
(* when the frame is no older than the record.                             *)
LEMMA MergeAbsorbs ==
  ASSUME NEW sig \in GoodRecord, NEW obs \in Observation, NEW now \in Nat,
         sig.last_seen <= now, sig.first_seen <= now, sig.first_seen = 0 <=> now = 0
  PROVE  merge(sig, obs, now) = absorb(sig, from_obs(obs, now))
<1> DEFINE counted ==
      [sig EXCEPT
         !.obs_count = @ + 1,
         !.last_seen = now,
         !.rssi_max = StrongerRssi(@, obs.rssi),
         !.type = FirstKnown(@, wc_device_type_guess(obs), "Unknown"),
         !.ie_hash = FirstKnown(@, obs.ie_hash, 0),
         !.heard_as = @ \cup {obs.mac}]
       src == from_obs(obs, now)
       summed ==
      [sig EXCEPT
         !.obs_count = @ + src.obs_count,
         !.first_seen = EarliestSeen(@, src.first_seen),
         !.last_seen = IF src.last_seen > @ THEN src.last_seen ELSE @,
         !.rssi_max = StrongerRssi(@, src.rssi_max),
         !.type = FirstKnown(@, src.type, "Unknown"),
         !.ie_hash = FirstKnown(@, src.ie_hash, 0),
         !.heard_as = @ \cup src.heard_as]
<1>1. /\ src.obs_count = 1 /\ src.first_seen = now /\ src.last_seen = now
      /\ src.rssi_max = obs.rssi /\ src.type = wc_device_type_guess(obs)
      /\ src.ie_hash = obs.ie_hash /\ src.heard_as = {obs.mac}
  BY FromObsFields
<1>2. merge(sig, obs, now) = add_ssid(counted, obs.probed_ssid)
  BY DEF merge
<1>3. absorb(sig, src) = add_ssids_of(summed, src)
  BY DEF absorb
<1>4. sig \in Signature
  BY DEF GoodRecord
<1> HIDE DEF src
<1>5. EarliestSeen(sig.first_seen, now) = sig.first_seen
  BY <1>4 DEF EarliestSeen, Signature
<1>6. (IF now > sig.last_seen THEN now ELSE sig.last_seen) = now
  BY <1>4 DEF Signature
<1>7. summed = counted
  BY <1>1, <1>4, <1>5, <1>6 DEF Signature
<1>8. add_ssids_of(summed, src) = add_ssid(summed, obs.probed_ssid)
  BY OneName DEF src
<1> QED  BY <1>2, <1>3, <1>7, <1>8 DEF src

(* Absorbing and merging keep a record's times in order.                   *)
LEMMA AbsorbTimed ==
  ASSUME NEW dst \in GoodRecord, NEW src \in GoodRecord, NEW time \in Nat,
         Timed(dst, time), Timed(src, time)
  PROVE  Timed(absorb(dst, src), time)
<1>1. /\ dst.first_seen \in Nat /\ dst.last_seen \in Nat
      /\ src.first_seen \in Nat /\ src.last_seen \in Nat
  BY DEF GoodRecord, Signature
<1> QED  BY <1>1, AbsorbReadings DEF Timed, EarliestSeen

LEMMA MergeTimed ==
  ASSUME NEW sig \in GoodRecord, NEW obs \in Observation, NEW time \in Nat, NEW now \in Nat,
         Timed(sig, time), time <= now, time = 0 <=> now = 0
  PROVE  Timed(merge(sig, obs, now), now)
<1>1. sig.first_seen \in Nat /\ sig.last_seen \in Nat
  BY DEF GoodRecord, Signature
<1>2. sig.last_seen <= now /\ sig.first_seen <= now /\ (sig.first_seen = 0 <=> now = 0)
  BY <1>1 DEF Timed
<1>3. merge(sig, obs, now) = absorb(sig, from_obs(obs, now))
  BY <1>2, MergeAbsorbs
<1> DEFINE counted ==
      [sig EXCEPT
         !.obs_count = @ + 1,
         !.last_seen = now,
         !.rssi_max = StrongerRssi(@, obs.rssi),
         !.type = FirstKnown(@, wc_device_type_guess(obs), "Unknown"),
         !.ie_hash = FirstKnown(@, obs.ie_hash, 0),
         !.heard_as = @ \cup {obs.mac}]
<1>4. merge(sig, obs, now) = add_ssid(counted, obs.probed_ssid)
  BY DEF merge
<1>5. /\ counted.first_seen = sig.first_seen /\ counted.last_seen = now
      /\ add_ssid(counted, obs.probed_ssid)
           \in {counted, [counted EXCEPT !.ssids = Append(@, obs.probed_ssid)]}
  BY DEF GoodRecord, Signature, add_ssid
<1>6. \A names : /\ [counted EXCEPT !.ssids = names].first_seen = sig.first_seen
                 /\ [counted EXCEPT !.ssids = names].last_seen = now
  BY DEF GoodRecord, Signature
<1> HIDE DEF counted
<1>7. merge(sig, obs, now).first_seen = sig.first_seen /\ merge(sig, obs, now).last_seen = now
  BY <1>4, <1>5, <1>6
<1> QED  BY <1>2, <1>7 DEF Timed

(* Linking moves and folds records, and keeps their times in order.        *)
LEMMA LinkTimed ==
  ASSUME NEW devs \in Seq(GoodRecord), NEW self \in DOMAIN devs, NEW name, NEW time \in Nat,
         \A i \in DOMAIN devs : Timed(devs[i], time)
  PROVE  \A i \in DOMAIN link_late(devs, self, name) : Timed(link_late(devs, self, name)[i], time)
<1>1. CASE link_late(devs, self, name) = devs
  BY <1>1
<1>2. CASE link_late(devs, self, name) # devs
  <2>1. PICK keep \in DOMAIN devs, from \in DOMAIN devs :
          /\ keep # from /\ devs[from].mac_random
          /\ link_late(devs, self, name) = absorb_and_remove(devs, keep, from)
    BY <1>2, LinkLateCases
  <2> DEFINE folded == absorb_and_remove(devs, keep, from)
  <2>2. \A j \in DOMAIN folded :
          /\ Was(from, j) \in DOMAIN devs \ {from}
          /\ folded[j] = IF Was(from, j) = keep THEN absorb(devs[keep], devs[from])
                                                ELSE devs[Was(from, j)]
    BY <2>1, FoldProperties
  <2>3. devs[keep] \in GoodRecord /\ devs[from] \in GoodRecord
    BY ElementOfSeq, LenProperties
  <2>4. Timed(absorb(devs[keep], devs[from]), time)
    BY <2>3, AbsorbTimed
  <2> HIDE DEF folded
  <2>5. \A j \in DOMAIN folded : Timed(folded[j], time)
    BY <2>2, <2>4
  <2> QED  BY <2>1, <2>5 DEF folded
<1> QED  BY <1>1, <1>2

(* A frame that the clock allows keeps the times in order.                 *)
LEMMA ObserveTimed ==
  ASSUME IInv, TimesInv, NEW obs \in Observations, NEW now \in Times, observe(obs, now)
  PROVE  TimesInv'
<1>1. obs \in Observation /\ obs.mac_random = (obs.mac \in RandomMacs) /\ now \in Nat
  BY CensusAssumption
<1>2. /\ heard \in Nat /\ clock \in Nat /\ heard' = heard + 1 /\ clock' = now
      /\ heard > 0 => clock <= now /\ (clock = 0 <=> now = 0)
  BY <1>1 DEF IInv, observe, ClockAllows
<1>3. /\ devices \in Seq(GoodRecord) /\ DOMAIN devices = 1 .. Len(devices)
      /\ Len(devices) \in Nat /\ \A i \in DOMAIN devices : devices[i] \in GoodRecord
  BY ElementOfSeq, LenProperties DEF IInv
<1>4. \A i \in DOMAIN devices : clock <= now /\ (clock = 0 <=> now = 0)
  BY <1>2, <1>3 DEF TimesInv
<1>5. \A i \in DOMAIN devices : Timed(devices[i], now)
  <2> SUFFICES ASSUME NEW i \in DOMAIN devices  PROVE Timed(devices[i], now)
    OBVIOUS
  <2>1. devices[i].first_seen \in Nat /\ devices[i].last_seen \in Nat
    BY <1>3 DEF GoodRecord, Signature
  <2> QED  BY <1>1, <1>2, <1>4, <2>1 DEF Timed, TimesInv
<1>6. CASE ObserveKnown(obs, now)
  <2>1. PICK self \in Existing(devices, obs) :
          devices' = link_late(Heard(devices, self, obs, now), self, obs.probed_ssid)
    BY <1>6 DEF ObserveKnown, Heard
  <2> DEFINE merged == Heard(devices, self, obs, now)
  <2>2. /\ merged \in Seq(GoodRecord) /\ DOMAIN merged = DOMAIN devices
        /\ self \in DOMAIN devices
        /\ \A k \in DOMAIN devices :
             merged[k] = IF k = self THEN merge(devices[self], obs, now) ELSE devices[k]
    BY <1>1, <1>3, MergedArray
  <2>3. Timed(merge(devices[self], obs, now), now)
    BY <1>1, <1>2, <1>3, <1>4, <2>2, MergeTimed DEF TimesInv
  <2>4. devices' = link_late(merged, self, obs.probed_ssid)
    BY <2>1
  <2> HIDE DEF merged
  <2>5. \A i \in DOMAIN merged : Timed(merged[i], now)
    BY <1>5, <2>2, <2>3
  <2>6. \A i \in DOMAIN devices' : Timed(devices'[i], now)
    BY <1>1, <2>2, <2>4, <2>5, LinkTimed
  <2>7. clock' = now /\ heard' > 0
    BY <1>2
  <2> QED  BY <2>6, <2>7 DEF TimesInv
<1>7. CASE ObserveNew(obs, now)
  <2>1. from_obs(obs, now) \in GoodRecord /\ Timed(from_obs(obs, now), now)
    <3>1. from_obs(obs, now) \in GoodRecord
      BY <1>1, FromObsGood
    <3>2. from_obs(obs, now).first_seen = now /\ from_obs(obs, now).last_seen = now
      BY <1>1, FromObsFields
    <3>3. now <= now
      BY <1>1
    <3> QED  BY <3>1, <3>2, <3>3 DEF Timed
  <2>2. /\ devices' \in Seq(GoodRecord) /\ Len(devices') = Len(devices) + 1
        /\ \A i \in 1 .. Len(devices) : devices'[i] = devices[i]
        /\ devices'[Len(devices) + 1] = from_obs(obs, now)
        /\ DOMAIN devices' = 1 .. Len(devices) + 1
    BY <1>3, <1>7, <2>1, AppendProperties, LenProperties DEF ObserveNew
  <2>3. \A i \in DOMAIN devices' : Timed(devices'[i], now)
    BY <1>3, <1>5, <2>1, <2>2
  <2> QED  BY <1>2, <2>3 DEF TimesInv
<1>8. CASE ObserveRefused(obs)
  <2>1. devices' = devices
    BY <1>8 DEF ObserveRefused
  <2> QED  BY <1>2, <1>5, <2>1 DEF TimesInv
<1> QED  BY <1>6, <1>7, <1>8 DEF observe

(* The two codings of the accumulation agree in every state of a session.  *)
THEOREM OneAccumulation == Spec => []MergeIsAbsorb
<1>1. Init => TimesInv
  BY DEF Init, TimesInv
<1>2. IInv /\ TimesInv /\ [Next]_vars => TimesInv'
  <2> SUFFICES ASSUME IInv, TimesInv, [Next]_vars  PROVE TimesInv'
    OBVIOUS
  <2>1. ASSUME NEW m \in Ceilings, set_max(m)  PROVE TimesInv'
    BY <2>1 DEF set_max, TimesInv
  <2>2. ASSUME NEW n \in 1 .. MaxDevices, reserve(n)  PROVE TimesInv'
    BY <2>2 DEF reserve, TimesInv
  <2>3. ASSUME NEW obs \in Observations, NEW now \in Times, observe(obs, now)  PROVE TimesInv'
    BY <2>3, ObserveTimed
  <2>4. CASE free
    BY <2>4 DEF free, TimesInv
  <2>5. CASE UNCHANGED vars
    BY <2>5 DEF vars, TimesInv
  <2> QED  BY <2>1, <2>2, <2>3, <2>4, <2>5 DEF Next
<1>3. IInv /\ TimesInv => MergeIsAbsorb
  <2> SUFFICES ASSUME IInv, TimesInv, NEW i \in DOMAIN devices,
                      NEW obs \in Observations, NEW now \in Times, ClockAllows(now)
               PROVE  merge(devices[i], obs, now) = absorb(devices[i], from_obs(obs, now))
    BY DEF MergeIsAbsorb
  <2>1. obs \in Observation /\ now \in Nat
    BY CensusAssumption
  <2>2. devices[i] \in GoodRecord
    BY ElementOfSeq, LenProperties DEF IInv
  <2>3. devices[i].first_seen \in Nat /\ devices[i].last_seen \in Nat
    BY <2>2 DEF GoodRecord, Signature
  <2>4. heard > 0 /\ Timed(devices[i], clock)
    BY DEF TimesInv
  <2>5. clock \in Nat /\ clock <= now /\ (clock = 0 <=> now = 0)
    BY <2>1, <2>4 DEF IInv, ClockAllows
  <2>6. /\ devices[i].last_seen <= now /\ devices[i].first_seen <= now
        /\ devices[i].first_seen = 0 <=> now = 0
    BY <2>1, <2>3, <2>4, <2>5 DEF Timed
  <2> QED  BY <2>1, <2>2, <2>6, MergeAbsorbs
<1> QED  BY <1>1, <1>2, <1>3, Invariance, PTL DEF Spec

-----------------------------------------------------------------------------
(* Counting the frames.                                                    *)

(* A set of naturals that is not empty has a least element.                *)
LEMMA Least ==
  ASSUME NEW T \in SUBSET Nat, T # {}
  PROVE  \E x \in T : \A y \in T : x <= y
<1>1. PICK x \in T : \A y \in T : ~(<<y, x>> \in OpToRel(<, Nat))
  BY NatLessThanWellFounded, WFMin
<1>2. \A y \in T : ~(y < x)
  BY <1>1 DEF OpToRel
<1> QED BY <1>2

(* The sums of the first records, n of them, for each n up to m.           *)
Sums(devs, m, f) ==
  /\ f \in [0 .. m -> Int] /\ f[0] = 0
  /\ \A n \in 1 .. m : f[n] = f[n - 1] + devs[n].obs_count

Countable(devs) ==
  /\ Len(devs) \in Nat /\ \A n \in 1 .. Len(devs) : devs[n].obs_count \in Nat

LEMMA SumsExist ==
  ASSUME NEW devs, Countable(devs), NEW m \in 0 .. Len(devs)
  PROVE  \E f : Sums(devs, m, f)
<1> DEFINE T == {n \in 0 .. Len(devs) : ~ \E f : Sums(devs, n, f)}
<1> SUFFICES ASSUME T # {} PROVE FALSE
  OBVIOUS
<1>1. T \in SUBSET Nat
  OBVIOUS
<1>2. PICK x \in T : \A y \in T : x <= y
  BY <1>1, Least
<1>3. x \in 0 .. Len(devs) /\ (~ \E f : Sums(devs, x, f)) /\ x \in Nat /\ Len(devs) \in Nat
  BY <1>2 DEF Countable
<1>4. CASE x = 0
  <2>1. Sums(devs, 0, [n \in 0 .. 0 |-> 0])
    BY DEF Sums
  <2> QED BY <1>3, <1>4, <2>1
<1>5. CASE x > 0
  <2>1. x - 1 \in 0 .. Len(devs) /\ ~(x <= x - 1)
    BY <1>3, <1>5
  <2>2. x - 1 \notin T
    BY <1>2, <2>1
  <2> PICK f : Sums(devs, x - 1, f)
    BY <2>1, <2>2
  <2> DEFINE g == [n \in 0 .. x |-> IF n < x THEN f[n] ELSE f[x - 1] + devs[x].obs_count]
  <2>3. f[x - 1] \in Int /\ devs[x].obs_count \in Nat
    BY <1>3, <1>5 DEF Sums, Countable
  <2>4. g \in [0 .. x -> Int] /\ g[0] = 0
    BY <1>3, <1>5, <2>3 DEF Sums
  <2>5. ASSUME NEW n \in 1 .. x PROVE g[n] = g[n - 1] + devs[n].obs_count
    <3>1. n \in 0 .. x /\ n - 1 \in 0 .. x /\ n - 1 < x
      BY <1>3
    <3>2. CASE n = x
      BY <3>1, <3>2
    <3>3. CASE n # x
      <4>1. n \in 1 .. x - 1 /\ n < x
        BY <1>3, <3>3
      <4>2. f[n] = f[n - 1] + devs[n].obs_count
        BY <4>1 DEF Sums
      <4> QED  BY <3>1, <4>1, <4>2
    <3> QED  BY <3>2, <3>3
  <2> HIDE DEF g
  <2>6. Sums(devs, x, g)
    BY <2>4, <2>5 DEF Sums
  <2> QED BY <1>3, <2>6
<1> QED BY <1>3, <1>4, <1>5

LEMMA FramesAreSums ==
  ASSUME NEW devs, Countable(devs), NEW f, Sums(devs, Len(devs), f)
  PROVE  FramesIn(devs) = f[Len(devs)]
<1> DEFINE S == 0 .. Len(devs)
           up == CHOOSE up : up = [n \in S |-> IF n = 0 THEN 0 ELSE up[n - 1] + devs[n].obs_count]
<1>1. FramesIn(devs) = up[Len(devs)]
  BY DEF FramesIn
<1>2. f = [n \in S |-> IF n = 0 THEN 0 ELSE f[n - 1] + devs[n].obs_count]
  <2>1. \A n \in S : f[n] = IF n = 0 THEN 0 ELSE f[n - 1] + devs[n].obs_count
    BY DEF Sums, Countable
  <2> QED BY <2>1 DEF Sums
<1>3. up = [n \in S |-> IF n = 0 THEN 0 ELSE up[n - 1] + devs[n].obs_count]
  <2>1. \E u : u = [n \in S |-> IF n = 0 THEN 0 ELSE u[n - 1] + devs[n].obs_count]
    BY <1>2
  <2> QED BY <2>1
<1> HIDE DEF up
<1>4. up[Len(devs)] = f[Len(devs)]
  <2> DEFINE T == {n \in S : up[n] # f[n]}
  <2> SUFFICES ASSUME T # {} PROVE FALSE
    BY DEF Countable
  <2>1. T \in SUBSET Nat
    BY DEF Countable
  <2>2. PICK x \in T : \A y \in T : x <= y
    BY <2>1, Least
  <2>3. x \in S /\ up[x] # f[x] /\ x # 0
    BY <1>3, <2>2 DEF Sums
  <2>4. x - 1 \in S /\ x \in 1 .. Len(devs) /\ ~(x <= x - 1)
    BY <2>3 DEF Countable
  <2>5. up[x - 1] = f[x - 1]
    BY <2>2, <2>4
  <2>6. up[x] = up[x - 1] + devs[x].obs_count
    BY <1>3, <2>3
  <2> QED BY <2>3, <2>4, <2>5, <2>6 DEF Sums
<1> QED BY <1>1, <1>4

(* No sum of counts is negative; a record appended, changed or removed     *)
(* counts for what its own count is.                                       *)
LEMMA FramesNatural ==
  ASSUME NEW devs, Countable(devs) PROVE FramesIn(devs) \in Nat
<1>1. Len(devs) \in Nat /\ Len(devs) \in 0 .. Len(devs)
  BY DEF Countable
<1> PICK f : Sums(devs, Len(devs), f)
  BY <1>1, SumsExist
<1> DEFINE T == {n \in 0 .. Len(devs) : f[n] < 0}
<1>2. T = {}
  <2> SUFFICES ASSUME T # {} PROVE FALSE
    OBVIOUS
  <2>1. T \in SUBSET Nat
    BY <1>1
  <2>2. PICK x \in T : \A y \in T : x <= y
    BY <2>1, Least
  <2>3. x \in 1 .. Len(devs) /\ f[x] < 0
    BY <1>1, <2>2 DEF Sums
  <2>4. x - 1 \in 0 .. Len(devs) /\ ~(x <= x - 1)
    BY <1>1, <2>3
  <2>5. ~(f[x - 1] < 0)
    BY <2>2, <2>4
  <2>6. f[x] = f[x - 1] + devs[x].obs_count /\ f[x - 1] \in Int /\ devs[x].obs_count \in Nat
    BY <2>3, <2>4 DEF Sums, Countable
  <2> QED BY <2>3, <2>5, <2>6
<1>3. f[Len(devs)] \in Int /\ ~(f[Len(devs)] < 0)
  BY <1>1, <1>2 DEF Sums
<1> QED BY <1>3, FramesAreSums

LEMMA FramesEmpty == FramesIn(<< >>) = 0
<1>1. Countable(<< >>) /\ Len(<< >>) = 0
  BY DEF Countable
<1>2. Sums(<< >>, 0, [n \in 0 .. 0 |-> 0])
  BY DEF Sums
<1> QED BY <1>1, <1>2, FramesAreSums

LEMMA FramesAppended ==
  ASSUME NEW devs, NEW more, Countable(devs), Countable(more), Len(more) = Len(devs) + 1,
         \A k \in 1 .. Len(devs) : more[k] = devs[k]
  PROVE  FramesIn(more) = FramesIn(devs) + more[Len(more)].obs_count
<1>1. Len(devs) \in Nat /\ Len(devs) \in 0 .. Len(devs) /\ Len(more) \in Nat
  BY DEF Countable
<1> PICK f : Sums(devs, Len(devs), f)
  BY <1>1, SumsExist
<1> DEFINE last == more[Len(more)].obs_count
           g == [n \in 0 .. Len(more) |-> IF n <= Len(devs) THEN f[n] ELSE f[Len(devs)] + last]
<1>2. last \in Nat /\ f[Len(devs)] \in Int /\ f[0] = 0 /\ \A n \in 0 .. Len(devs) : f[n] \in Int
  BY <1>1 DEF Countable, Sums
<1>3. g \in [0 .. Len(more) -> Int] /\ g[0] = 0 /\ g[Len(more)] = f[Len(devs)] + last
  BY <1>1, <1>2
<1>4. ASSUME NEW n \in 1 .. Len(more) PROVE g[n] = g[n - 1] + more[n].obs_count
  <2>1. CASE n = Len(more)
    BY <1>1, <2>1
  <2>2. CASE n # Len(more)
    <3>1. n \in 1 .. Len(devs) /\ n - 1 \in 0 .. Len(devs)
      BY <1>1, <2>2
    <3> QED BY <1>1, <3>1 DEF Sums
  <2> QED BY <2>1, <2>2
<1> HIDE DEF g
<1>5. Sums(more, Len(more), g)
  BY <1>3, <1>4 DEF Sums
<1> QED BY <1>3, <1>5, FramesAreSums

LEMMA FramesChanged ==
  ASSUME NEW devs, NEW new, Countable(devs), Countable(new), Len(new) = Len(devs),
         NEW i \in 1 .. Len(devs), \A k \in 1 .. Len(devs) : k # i => new[k] = devs[k]
  PROVE  FramesIn(new) = FramesIn(devs) - devs[i].obs_count + new[i].obs_count
<1>1. Len(devs) \in Nat /\ Len(devs) \in 0 .. Len(devs)
  BY DEF Countable
<1> PICK f : Sums(devs, Len(devs), f)
  BY <1>1, SumsExist
<1> DEFINE d == new[i].obs_count - devs[i].obs_count
           g == [n \in 0 .. Len(devs) |-> IF n < i THEN f[n] ELSE f[n] + d]
<1>2. /\ new[i].obs_count \in Nat /\ devs[i].obs_count \in Nat /\ f[0] = 0
      /\ \A n \in 0 .. Len(devs) : f[n] \in Int
  BY <1>1 DEF Countable, Sums
<1>3. g \in [0 .. Len(devs) -> Int] /\ g[0] = 0 /\ g[Len(devs)] = f[Len(devs)] + d
  BY <1>1, <1>2
<1>4. ASSUME NEW n \in 1 .. Len(devs) PROVE g[n] = g[n - 1] + new[n].obs_count
  <2>1. f[n] = f[n - 1] + devs[n].obs_count /\ devs[n].obs_count \in Nat /\ f[n - 1] \in Int
    BY <1>1, <1>2 DEF Sums, Countable
  <2>2. n - 1 \in 0 .. Len(devs)
    BY <1>1
  <2>3. CASE n = i
    BY <1>1, <1>2, <2>1, <2>2, <2>3
  <2>4. CASE n # i
    <3>1. new[n] = devs[n]
      BY <2>4
    <3>2. n < i <=> n - 1 < i
      BY <1>1, <2>4
    <3> QED BY <1>1, <1>2, <2>1, <2>2, <3>1, <3>2
  <2> QED BY <2>3, <2>4
<1> HIDE DEF g
<1>5. Sums(new, Len(new), g)
  BY <1>3, <1>4 DEF Sums
<1>6. FramesIn(new) = g[Len(new)] /\ FramesIn(devs) = f[Len(devs)]
  BY <1>5, FramesAreSums
<1>7. f[Len(devs)] \in Int
  BY <1>1, <1>2
<1> QED BY <1>2, <1>3, <1>6, <1>7

LEMMA FramesRemoved ==
  ASSUME NEW devs, NEW fewer, Countable(devs), Countable(fewer), Len(fewer) = Len(devs) - 1,
         NEW i \in 1 .. Len(devs),
         \A k \in 1 .. Len(fewer) : fewer[k] = IF k < i THEN devs[k] ELSE devs[k + 1]
  PROVE  FramesIn(fewer) = FramesIn(devs) - devs[i].obs_count
<1>1. Len(devs) \in Nat /\ Len(devs) \in 0 .. Len(devs) /\ Len(fewer) \in Nat
  BY DEF Countable
<1> PICK f : Sums(devs, Len(devs), f)
  BY <1>1, SumsExist
<1> DEFINE d == devs[i].obs_count
           g == [n \in 0 .. Len(fewer) |-> IF n < i THEN f[n] ELSE f[n + 1] - d]
<1>2. /\ d \in Nat /\ f[0] = 0
      /\ \A n \in 0 .. Len(devs) : f[n] \in Int
      /\ \A n \in 1 .. Len(devs) : f[n] = f[n - 1] + devs[n].obs_count
  BY <1>1 DEF Countable, Sums
<1>3. g \in [0 .. Len(fewer) -> Int] /\ g[0] = 0
  <2>1. ASSUME NEW n \in 0 .. Len(fewer) PROVE f[n] \in Int /\ f[n + 1] - d \in Int
    <3>1. n \in 0 .. Len(devs) /\ n + 1 \in 0 .. Len(devs)
      BY <1>1
    <3>2. f[n] \in Int /\ f[n + 1] \in Int
      BY <1>2, <3>1
    <3> QED BY <1>2, <3>2
  <2>2. 0 \in 0 .. Len(fewer) /\ 0 < i
    BY <1>1
  <2> QED BY <1>2, <2>1, <2>2
<1>4. g[Len(fewer)] = f[Len(devs)] - d
  <2>1. CASE Len(fewer) < i
    <3>1. i = Len(devs) /\ Len(fewer) = i - 1
      BY <1>1, <2>1
    <3>2. f[i] = f[i - 1] + d /\ f[i - 1] \in Int
      BY <1>1, <1>2
    <3>3. g[Len(fewer)] = f[i - 1]
      BY <1>1, <2>1, <3>1
    <3> QED BY <1>2, <3>1, <3>2, <3>3
  <2>2. CASE ~(Len(fewer) < i)
    BY <1>1, <2>2
  <2> QED BY <2>1, <2>2
<1>5. ASSUME NEW n \in 1 .. Len(fewer) PROVE g[n] = g[n - 1] + fewer[n].obs_count
  <2>1. /\ n - 1 \in 0 .. Len(fewer) /\ n \in 1 .. Len(devs) /\ n + 1 \in 1 .. Len(devs)
        /\ n \in 0 .. Len(fewer) /\ (n + 1) - 1 = n /\ (n - 1) + 1 = n
    BY <1>1
  <2>2. /\ f[n] = f[n - 1] + devs[n].obs_count /\ f[n + 1] = f[n] + devs[n + 1].obs_count
        /\ f[n - 1] \in Int /\ f[n] \in Int
        /\ devs[n].obs_count \in Nat /\ devs[n + 1].obs_count \in Nat
    <3>1. f[n] = f[n - 1] + devs[n].obs_count
      BY <1>2, <2>1
    <3>2. f[n + 1] = f[n] + devs[n + 1].obs_count
      BY <1>2, <2>1
    <3>3. n - 1 \in 0 .. Len(devs) /\ n \in 0 .. Len(devs)
      BY <1>1, <2>1
    <3> QED BY <1>2, <2>1, <3>1, <3>2, <3>3 DEF Countable
  <2>3. CASE n < i
    BY <1>1, <2>1, <2>2, <2>3
  <2>4. CASE n = i
    <3>1. g[n] = f[n + 1] - d /\ g[n - 1] = f[n - 1] /\ fewer[n] = devs[n + 1] /\ d = devs[n].obs_count
      BY <1>1, <2>1, <2>4
    <3> QED BY <2>2, <3>1
  <2>5. CASE n > i
    <3>1. g[n] = f[n + 1] - d /\ g[n - 1] = f[n] - d /\ fewer[n] = devs[n + 1]
      BY <1>1, <2>1, <2>5
    <3> QED BY <1>2, <2>2, <3>1
  <2> QED BY <1>1, <2>3, <2>4, <2>5
<1> HIDE DEF g
<1>6. Sums(fewer, Len(fewer), g)
  BY <1>3, <1>5 DEF Sums
<1> QED BY <1>4, <1>6, FramesAreSums
LEMMA GoodCountable ==
  ASSUME NEW devs \in Seq(GoodRecord)  PROVE Countable(devs)
<1>1. Len(devs) \in Nat /\ \A n \in 1 .. Len(devs) : devs[n] \in GoodRecord
  BY LenProperties, ElementOfSeq
<1> QED  BY <1>1 DEF Countable, GoodRecord, Signature

(* A frame merged into a record adds one to its count.                     *)
LEMMA MergeCounts ==
  ASSUME NEW sig \in GoodRecord, NEW obs \in Observation, NEW now \in Nat
  PROVE  merge(sig, obs, now).obs_count = sig.obs_count + 1
<1> DEFINE counted ==
      [sig EXCEPT
         !.obs_count = @ + 1,
         !.last_seen = now,
         !.rssi_max = StrongerRssi(@, obs.rssi),
         !.type = FirstKnown(@, wc_device_type_guess(obs), "Unknown"),
         !.ie_hash = FirstKnown(@, obs.ie_hash, 0),
         !.heard_as = @ \cup {obs.mac}]
<1>1. merge(sig, obs, now) = add_ssid(counted, obs.probed_ssid)
  BY DEF merge
<1>2. /\ counted.obs_count = sig.obs_count + 1
      /\ add_ssid(counted, obs.probed_ssid)
           \in {counted, [counted EXCEPT !.ssids = Append(@, obs.probed_ssid)]}
  BY DEF GoodRecord, Signature, add_ssid
<1>3. \A names : [counted EXCEPT !.ssids = names].obs_count = sig.obs_count + 1
  BY DEF GoodRecord, Signature
<1> HIDE DEF counted
<1> QED  BY <1>1, <1>2, <1>3

(* A fold moves the frames of one record to the other one, and the link of *)
(* a late name is a fold at most.                                          *)
LEMMA FoldFrames ==
  ASSUME NEW devs \in Seq(GoodRecord), NEW keep \in DOMAIN devs, NEW from \in DOMAIN devs,
         keep # from, devs[from].mac_random
  PROVE  FramesIn(absorb_and_remove(devs, keep, from)) = FramesIn(devs)
<1> DEFINE both == [devs EXCEPT ![keep] = absorb(@, devs[from])]
           folded == absorb_and_remove(devs, keep, from)
<1>1. /\ DOMAIN devs = 1 .. Len(devs) /\ Len(devs) \in Nat
      /\ devs[keep] \in GoodRecord /\ devs[from] \in GoodRecord
  BY LenProperties, ElementOfSeq
<1>2. /\ absorb(devs[keep], devs[from]) \in GoodRecord
      /\ absorb(devs[keep], devs[from]).obs_count = devs[keep].obs_count + devs[from].obs_count
      /\ devs[keep].obs_count \in Nat /\ devs[from].obs_count \in Nat
  <2>1. devs[keep].obs_count \in Nat /\ devs[from].obs_count \in Nat
    BY <1>1 DEF GoodRecord, Signature
  <2> QED  BY <1>1, <2>1, AbsorbGood, AbsorbReadings
<1>3. /\ both \in Seq(GoodRecord) /\ Len(both) = Len(devs)
      /\ \A k \in 1 .. Len(devs) :
           both[k] = IF k = keep THEN absorb(devs[keep], devs[from]) ELSE devs[k]
  BY <1>1, <1>2, ExceptSeq
<1>4. folded = RemoveAt(both, from)
  BY DEF absorb_and_remove
<1> HIDE DEF both, folded
<1>5. /\ folded \in Seq(GoodRecord)
      /\ Len(folded) = Len(devs) - 1
      /\ \A j \in 1 .. Len(devs) - 1 : folded[j] = IF j < from THEN both[j] ELSE both[j + 1]
  BY <1>1, <1>3, <1>4, RemoveAtProperties
<1>6. Countable(devs) /\ Countable(both) /\ Countable(folded)
  BY <1>3, <1>5, GoodCountable
<1>7. FramesIn(both) = FramesIn(devs) - devs[keep].obs_count + both[keep].obs_count
  BY <1>1, <1>3, <1>6, FramesChanged
<1>8. FramesIn(folded) = FramesIn(both) - both[from].obs_count
  <2>1. /\ Len(folded) = Len(both) - 1 /\ from \in 1 .. Len(both)
        /\ \A k \in 1 .. Len(folded) : folded[k] = IF k < from THEN both[k] ELSE both[k + 1]
    BY <1>1, <1>3, <1>5
  <2> QED  BY <1>6, <2>1, FramesRemoved
<1>9. both[from] = devs[from] /\ both[keep] = absorb(devs[keep], devs[from])
  BY <1>1, <1>3
<1>10. FramesIn(devs) \in Nat
  BY <1>6, FramesNatural
<1>11. FramesIn(folded) = FramesIn(devs)
  BY <1>2, <1>7, <1>8, <1>9, <1>10
<1> QED  BY <1>11 DEF folded

LEMMA LinkFrames ==
  ASSUME NEW devs \in Seq(GoodRecord), NEW self \in DOMAIN devs, NEW name
  PROVE  FramesIn(link_late(devs, self, name)) = FramesIn(devs)
<1>1. CASE link_late(devs, self, name) = devs
  BY <1>1
<1>2. CASE link_late(devs, self, name) # devs
  <2>1. PICK keep \in DOMAIN devs, from \in DOMAIN devs :
          /\ keep # from /\ devs[from].mac_random
          /\ link_late(devs, self, name) = absorb_and_remove(devs, keep, from)
    BY <1>2, LinkLateCases
  <2> QED  BY <2>1, FoldFrames
<1> QED  BY <1>1, <1>2

(* The frame of a known device is counted in one record.                   *)
LEMMA KnownFrames ==
  ASSUME NEW devs \in Seq(GoodRecord), NEW obs \in Observation, NEW now \in Nat,
         obs.mac_random = (obs.mac \in RandomMacs),
         NEW self \in Existing(devs, obs), NEW name
  PROVE  FramesIn(link_late(Heard(devs, self, obs, now), self, name)) = FramesIn(devs) + 1
<1> DEFINE merged == Heard(devs, self, obs, now)
<1>1. /\ merged \in Seq(GoodRecord) /\ Len(merged) = Len(devs)
      /\ DOMAIN merged = DOMAIN devs /\ self \in DOMAIN devs
      /\ \A k \in DOMAIN devs :
           merged[k] = IF k = self THEN merge(devs[self], obs, now) ELSE devs[k]
  BY MergedArray
<1> HIDE DEF merged
<1>2. /\ Len(devs) \in Nat /\ DOMAIN devs = 1 .. Len(devs) /\ devs[self] \in GoodRecord
  BY <1>1, LenProperties, ElementOfSeq
<1>3. /\ Countable(devs) /\ Countable(merged)
      /\ devs[self].obs_count \in Nat /\ merged[self].obs_count = devs[self].obs_count + 1
  <2>1. Countable(devs) /\ Countable(merged)
    BY <1>1, GoodCountable
  <2>2. devs[self].obs_count \in Nat
    BY <1>2 DEF GoodRecord, Signature
  <2> QED  BY <1>1, <1>2, <2>1, <2>2, MergeCounts
<1>4. FramesIn(merged) = FramesIn(devs) - devs[self].obs_count + merged[self].obs_count
  <2>1. \A k \in 1 .. Len(devs) : k # self => merged[k] = devs[k]
    BY <1>1, <1>2
  <2> QED  BY <1>1, <1>2, <1>3, <2>1, FramesChanged
<1>5. FramesIn(devs) \in Nat
  BY <1>3, FramesNatural
<1>6. FramesIn(link_late(merged, self, name)) = FramesIn(merged)
  BY <1>1, LinkFrames
<1>7. FramesIn(link_late(merged, self, name)) = FramesIn(devs) + 1
  BY <1>3, <1>4, <1>5, <1>6
<1> QED  BY <1>7 DEF merged

(* A record added counts for its frames.                                   *)
LEMMA AddedFrames ==
  ASSUME NEW devs \in Seq(GoodRecord), NEW sd \in GoodRecord
  PROVE  FramesIn(Append(devs, sd)) = FramesIn(devs) + sd.obs_count
<1> DEFINE more == Append(devs, sd)
<1>1. /\ more \in Seq(GoodRecord) /\ Len(more) = Len(devs) + 1
      /\ \A i \in 1 .. Len(devs) : more[i] = devs[i]
      /\ more[Len(devs) + 1] = sd
  BY AppendProperties
<1> HIDE DEF more
<1>2. Countable(devs) /\ Countable(more)
  BY <1>1, GoodCountable
<1>3. FramesIn(more) = FramesIn(devs) + more[Len(more)].obs_count
  BY <1>1, <1>2, FramesAppended
<1> QED  BY <1>1, <1>3 DEF more

(* The frames in the records and those dropped are the frames heard, but   *)
(* for the times that the count of those dropped wrapped, w of them.       *)
CountedUpTo(w) ==
  /\ FramesIn(devices) + dropped + w * U16 = heard
  /\ Cardinality(turned_away) <= dropped + w * U16

Accounted == \E w \in Nat : CountedUpTo(w)

AccountInv == IsFiniteSet(turned_away) /\ heard <= MaxFrames /\ Accounted

(* What one frame does to the counts.                                      *)
LEMMA ObserveAccounted ==
  ASSUME IInv, AccountInv, NEW obs \in Observations, NEW now \in Times, observe(obs, now)
  PROVE  AccountInv'
<1>1. obs \in Observation /\ obs.mac_random = (obs.mac \in RandomMacs) /\ now \in Nat
  BY CensusAssumption
<1>2. /\ devices \in Seq(GoodRecord) /\ dropped \in Nat /\ dropped < U16 /\ heard \in Nat
      /\ heard' = heard + 1 /\ MaxFrames \in Nat /\ heard < MaxFrames /\ U16 = 65536
  BY CensusAssumption DEF IInv, observe, U16
<1>3. PICK w \in Nat : CountedUpTo(w)
  BY DEF AccountInv, Accounted
<1>4. FramesIn(devices) \in Nat /\ Cardinality(turned_away) \in Nat
  BY <1>2, GoodCountable, FramesNatural, FS_CardinalityType DEF AccountInv
<1>5. heard' <= MaxFrames
  BY <1>2
<1>6. CASE ObserveKnown(obs, now)
  <2>1. PICK self \in Existing(devices, obs) :
          devices' = link_late(Heard(devices, self, obs, now), self, obs.probed_ssid)
    BY <1>6 DEF ObserveKnown, Heard
  <2>2. FramesIn(devices') = FramesIn(devices) + 1
    BY <1>1, <1>2, <2>1, KnownFrames
  <2>3. dropped' = dropped /\ turned_away' = turned_away
    BY <1>6 DEF ObserveKnown
  <2>4. CountedUpTo(w)'
    BY <1>2, <1>3, <1>4, <2>2, <2>3 DEF CountedUpTo
  <2> QED  BY <1>5, <2>3, <2>4 DEF AccountInv, Accounted
<1>7. CASE ObserveNew(obs, now)
  <2>1. from_obs(obs, now) \in GoodRecord /\ from_obs(obs, now).obs_count = 1
    BY <1>1, FromObsGood, FromObsFields
  <2>2. FramesIn(devices') = FramesIn(devices) + 1
    BY <1>2, <1>7, <2>1, AddedFrames DEF ObserveNew
  <2>3. dropped' = dropped /\ turned_away' = turned_away
    BY <1>7 DEF ObserveNew
  <2>4. CountedUpTo(w)'
    BY <1>2, <1>3, <1>4, <2>2, <2>3 DEF CountedUpTo
  <2> QED  BY <1>5, <2>3, <2>4 DEF AccountInv, Accounted
<1>8. CASE ObserveRefused(obs)
  <2>1. /\ devices' = devices /\ dropped' = (dropped + 1) % U16
        /\ turned_away' = turned_away \cup {obs.mac}
    BY <1>8 DEF ObserveRefused
  <2>2. /\ IsFiniteSet(turned_away') /\ Cardinality(turned_away') \in Nat
        /\ Cardinality(turned_away') <= Cardinality(turned_away) + 1
    <3>1. IsFiniteSet(turned_away)
      BY DEF AccountInv
    <3>2. /\ IsFiniteSet(turned_away \cup {obs.mac})
          /\ Cardinality(turned_away \cup {obs.mac})
               = IF obs.mac \in turned_away THEN Cardinality(turned_away)
                                            ELSE Cardinality(turned_away) + 1
      BY <3>1, FS_AddElement
    <3> QED  BY <1>4, <2>1, <3>2
  <2>3. CASE dropped + 1 < U16
    <3>1. dropped' = dropped + 1
      BY <1>2, <2>1, <2>3
    <3>2. CountedUpTo(w)'
      BY <1>2, <1>3, <1>4, <2>1, <2>2, <3>1 DEF CountedUpTo
    <3> QED  BY <1>5, <2>2, <3>2 DEF AccountInv, Accounted
  <2>4. CASE ~(dropped + 1 < U16)
    <3>1. dropped + 1 = U16 /\ dropped' = 0
      BY <1>2, <2>1, <2>4
    <3>2. w + 1 \in Nat /\ (w + 1) * U16 = w * U16 + U16
      BY <1>2
    <3>3. CountedUpTo(w + 1)'
      BY <1>2, <1>3, <1>4, <2>1, <2>2, <3>1, <3>2 DEF CountedUpTo
    <3> QED  BY <1>5, <2>2, <3>2, <3>3 DEF AccountInv, Accounted
  <2> QED  BY <2>3, <2>4
<1> QED  BY <1>6, <1>7, <1>8 DEF observe

(* The empty census has heard nothing.                                     *)
LEMMA NothingHeard ==
  devices = << >> /\ dropped = 0 /\ heard = 0 /\ turned_away = {} => AccountInv
<1> SUFFICES ASSUME devices = << >>, dropped = 0, heard = 0, turned_away = {}
             PROVE  AccountInv
  OBVIOUS
<1>1. FramesIn(devices) = 0 /\ IsFiniteSet(turned_away) /\ Cardinality(turned_away) = 0
  BY FramesEmpty, FS_EmptySet
<1>2. CountedUpTo(0)
  BY <1>1 DEF CountedUpTo, U16
<1> QED  BY <1>1, <1>2, CensusAssumption DEF AccountInv, Accounted

(* One step per action.                                                    *)
LEMMA FrameStep == IInv /\ AccountInv /\ [Next]_vars => AccountInv'
<1> SUFFICES ASSUME IInv, AccountInv, [Next]_vars  PROVE AccountInv'
  OBVIOUS
<1>1. ASSUME NEW m \in Ceilings, set_max(m)  PROVE AccountInv'
  BY <1>1 DEF set_max, AccountInv, Accounted, CountedUpTo
<1>2. ASSUME NEW n \in 1 .. MaxDevices, reserve(n)  PROVE AccountInv'
  BY <1>2 DEF reserve, AccountInv, Accounted, CountedUpTo
<1>3. ASSUME NEW obs \in Observations, NEW now \in Times, observe(obs, now)  PROVE AccountInv'
  BY <1>3, ObserveAccounted
<1>4. CASE free
  <2>1. devices' = << >> /\ dropped' = 0 /\ heard' = 0 /\ turned_away' = {}
    BY <1>4 DEF free
  <2>2. (devices = << >> /\ dropped = 0 /\ heard = 0 /\ turned_away = {} => AccountInv)'
    BY NothingHeard, PTL
  <2> QED  BY <2>1, <2>2
<1>5. CASE UNCHANGED vars
  BY <1>5 DEF vars, AccountInv, Accounted, CountedUpTo
<1> QED  BY <1>1, <1>2, <1>3, <1>4, <1>5 DEF Next

LEMMA FramesInvariant == Spec => []AccountInv
<1>1. Init => AccountInv
  BY NothingHeard DEF Init
<1> QED  BY <1>1, FrameStep, Invariance, PTL DEF Spec

(* Every frame is counted exactly once, in one record or in dropped, which *)
(* is a count modulo 65536, over any number of frames and whatever is      *)
(* linked and folded.                                                      *)
THEOREM EveryFrameCounted == Spec => []Accounted
<1>1. AccountInv => Accounted
  BY DEF AccountInv
<1> QED  BY <1>1, FramesInvariant, PTL

(* While fewer than 65536 frames are heard between two resets, the count   *)
(* of those dropped is exact, and so is the whole account.                 *)
THEOREM FramesNeverLost ==
  ASSUME MaxFrames < U16
  PROVE  Spec => []FramesAccounted
<1>1. IInv /\ AccountInv => FramesAccounted
  <2> SUFFICES ASSUME IInv, AccountInv  PROVE FramesAccounted
    OBVIOUS
  <2>1. PICK w \in Nat : CountedUpTo(w)
    BY DEF AccountInv, Accounted
  <2>2. /\ FramesIn(devices) \in Nat /\ dropped \in Nat /\ heard \in Nat
        /\ heard < U16 /\ U16 = 65536
    BY GoodCountable, FramesNatural, CensusAssumption DEF IInv, AccountInv, U16
  <2>3. FramesIn(devices) + dropped + w * 65536 = heard /\ heard < 65536
    BY <2>1, <2>2 DEF CountedUpTo
  <2>4. w = 0
    BY <2>2, <2>3
  <2> QED  BY <2>1, <2>2, <2>4 DEF CountedUpTo, FramesAccounted
<1> QED  BY <1>1, FramesInvariant, Invariance, PTL

-----------------------------------------------------------------------------
(* Merging two captures.                                                   *)

Captures == {devs \in Seq(GoodRecord) : UniqueIn(devs)}

(* The census, whether it is a scan's or a merge's, and every capture on   *)
(* the card have good records and no address twice; a merge reads two      *)
(* captures that are there.                                                *)
MergingInv ==
  /\ merging \in [a : Nat, b : Nat, next : Nat]
  /\ Merging => /\ merging.a \in DOMAIN stored /\ merging.b \in DOMAIN stored
                /\ merging.next >= 1
                /\ merging.next <= Len(stored[merging.b]) + 1

MInv ==
  /\ IInv
  /\ stored \in Seq(Captures)
  /\ MergingInv

(* What a capture on the card is.                                          *)
LEMMA StoredIsCapture ==
  ASSUME stored \in Seq(Captures), NEW c \in DOMAIN stored
  PROVE  /\ stored[c] \in Captures
         /\ stored[c] \in Seq(GoodRecord) /\ UniqueIn(stored[c])
         /\ Len(stored[c]) \in Nat /\ DOMAIN stored[c] = 1 .. Len(stored[c])
         /\ \A k \in DOMAIN stored[c] : stored[c][k] \in GoodRecord
<1>1. stored[c] \in Captures
  BY ElementOfSeq, LenProperties
<1>2. stored[c] \in Seq(GoodRecord) /\ UniqueIn(stored[c])
  BY <1>1 DEF Captures
<1> QED  BY <1>1, <1>2, LenProperties, ElementOfSeq

(* The record that another one folds into has its address, or the other    *)
(* one is randomized; when there is none, the address is new.              *)
LEMMA TargetProperties ==
  ASSUME NEW devs \in Seq(GoodRecord), NEW sd \in GoodRecord, UniqueIn(devs)
  PROVE  /\ \A i \in find_merge_target(devs, sd) :
              i \in DOMAIN devs /\ (sd.mac_random \/ sd.mac = devs[i].mac)
         /\ find_merge_target(devs, sd) = {} => \A i \in DOMAIN devs : devs[i].mac # sd.mac
<1>1. \A i \in find_merge_target(devs, sd) :
        i \in DOMAIN devs /\ (sd.mac_random \/ sd.mac = devs[i].mac)
  <2>1. \A i \in find_by_mac(devs, sd.mac) : i \in DOMAIN devs /\ sd.mac = devs[i].mac
    BY DEF find_by_mac
  <2>2. \A name : \A i \in find_client_by_ssid(devs, name) : i \in DOMAIN devs
    BY DEF find_client_by_ssid
  <2> DEFINE named == {k \in DOMAIN sd.ssids : find_client_by_ssid(devs, sd.ssids[k]) # {}}
  <2>3. find_merge_target(devs, sd)
          = IF find_by_mac(devs, sd.mac) # {} THEN find_by_mac(devs, sd.mac)
            ELSE IF sd.mac_random /\ named # {}
                 THEN find_client_by_ssid(devs, sd.ssids[Min(named)]) ELSE {}
    BY DEF find_merge_target
  <2> HIDE DEF named
  <2> QED  BY <2>1, <2>2, <2>3
<1>2. ASSUME find_merge_target(devs, sd) = {}, NEW i \in DOMAIN devs, devs[i].mac = sd.mac
      PROVE  FALSE
  <2>1. DOMAIN devs = 1 .. Len(devs) /\ Len(devs) \in Nat
    BY LenProperties
  <2>2. \A j \in 1 .. i - 1 : devs[j].mac # sd.mac
    BY <1>2, <2>1 DEF UniqueIn
  <2>3. i \in find_by_mac(devs, sd.mac)
    BY <1>2, <2>2 DEF find_by_mac
  <2> QED  BY <1>2, <2>3 DEF find_merge_target
<1> QED  BY <1>1, <1>2

(* A record that is absorbed leaves every address as it is.                *)
LEMMA AbsorbStep ==
  ASSUME IInv, NEW sd \in GoodRecord, AbsorbRecord(sd)
  PROVE  /\ devices' \in Seq(GoodRecord) /\ Len(devices') = Len(devices)
         /\ DOMAIN devices' = DOMAIN devices
         /\ \A k \in DOMAIN devices : /\ devices'[k].mac = devices[k].mac
                                      /\ devices'[k].mac_random = devices[k].mac_random
         /\ sd.mac_random \/ \E k \in DOMAIN devices : devices[k].mac = sd.mac
<1>1. devices \in Seq(GoodRecord) /\ UniqueIn(devices)
  BY DEF IInv, UniqueMacs, UniqueIn
<1>2. PICK i \in find_merge_target(devices, sd) :
        devices' = [devices EXCEPT ![i] = absorb(@, sd)]
  BY DEF AbsorbRecord
<1>3. i \in DOMAIN devices /\ (sd.mac_random \/ sd.mac = devices[i].mac)
  BY <1>1, <1>2, TargetProperties
<1>4. devices[i] \in GoodRecord /\ DOMAIN devices = 1 .. Len(devices)
  BY <1>1, <1>3, ElementOfSeq, LenProperties
<1>5. /\ absorb(devices[i], sd) \in GoodRecord
      /\ absorb(devices[i], sd).mac = devices[i].mac
      /\ absorb(devices[i], sd).mac_random = devices[i].mac_random
  BY <1>3, <1>4, AbsorbGood
<1>6. /\ devices' \in Seq(GoodRecord) /\ Len(devices') = Len(devices)
      /\ \A k \in 1 .. Len(devices) :
           devices'[k] = IF k = i THEN absorb(devices[i], sd) ELSE devices[k]
  BY <1>1, <1>2, <1>3, <1>4, <1>5, ExceptSeq
<1>7. DOMAIN devices' = DOMAIN devices
  BY <1>2
<1> QED  BY <1>3, <1>4, <1>5, <1>6, <1>7

(* A record that is added has an address of its own, and there is room.    *)
LEMMA AddStep ==
  ASSUME IInv, NEW sd \in GoodRecord, AddRecord(sd)
  PROVE  /\ devices' \in Seq(GoodRecord) /\ UniqueMacs'
         /\ Len(devices') <= capacity' /\ capacity' <= max /\ capacity' \in Nat
         /\ DOMAIN devices' = 1 .. Len(devices) + 1
         /\ \A k \in DOMAIN devices : devices'[k] = devices[k]
         /\ devices'[Len(devices) + 1] = sd
<1>1. devices \in Seq(GoodRecord) /\ UniqueIn(devices)
  BY DEF IInv, UniqueMacs, UniqueIn
<1>2. Len(devices) \in Nat /\ DOMAIN devices = 1 .. Len(devices)
  BY <1>1, LenProperties
<1>3. /\ devices' \in Seq(GoodRecord) /\ Len(devices') = Len(devices) + 1
      /\ \A i \in 1 .. Len(devices) : devices'[i] = devices[i]
      /\ devices'[Len(devices) + 1] = sd
      /\ DOMAIN devices' = 1 .. Len(devices) + 1
  BY <1>1, <1>2, AppendProperties, LenProperties DEF AddRecord
<1>4. \A i \in DOMAIN devices : devices[i].mac # sd.mac
  BY <1>1, TargetProperties DEF AddRecord
<1>5. UniqueMacs'
  BY <1>2, <1>3, <1>4 DEF IInv, UniqueMacs
<1>6. Len(devices') <= capacity' /\ capacity' <= max /\ capacity' \in Nat
  <2>1. CASE Len(devices) < capacity /\ UNCHANGED capacity
    BY <1>2, <1>3, <2>1 DEF IInv, InBounds
  <2>2. CASE Len(devices) >= capacity /\ capacity < max /\ capacity' = Min({capacity + Grow, max})
    <3>1. capacity \in Nat /\ max \in Nat /\ Grow \in Nat \ {0} /\ Len(devices) <= capacity
      BY CensusAssumption DEF IInv, InBounds
    <3>2. capacity' = IF capacity + Grow <= max THEN capacity + Grow ELSE max
      BY <2>2, <3>1 DEF Min
    <3> QED  BY <1>2, <1>3, <2>2, <3>1, <3>2
  <2> QED  BY <2>1, <2>2 DEF AddRecord, ensure_one
<1> QED  BY <1>2, <1>3, <1>5, <1>6

(* The census of a merge stays good over each record of b.                 *)
LEMMA MergeOneStep == MInv /\ merge_one => MInv'
<1> SUFFICES ASSUME MInv, merge_one  PROVE MInv'
  OBVIOUS
<1> DEFINE sd == stored[merging.b][merging.next]
<1>1. /\ Merging /\ merging.next <= Len(stored[merging.b])
      /\ AbsorbRecord(sd) \/ AddRecord(sd) \/ DropRecord(sd)
      /\ merging' = [merging EXCEPT !.next = @ + 1]
      /\ UNCHANGED <<max, clock, heard, turned_away, stored>>
  BY DEF merge_one
<1>2. /\ merging \in [a : Nat, b : Nat, next : Nat] /\ merging.next >= 1
      /\ merging.a \in DOMAIN stored /\ merging.b \in DOMAIN stored
  BY <1>1 DEF MInv, MergingInv
<1>3. Len(stored[merging.b]) \in Nat /\ sd \in GoodRecord
  <2>1. merging.next \in 1 .. Len(stored[merging.b]) /\ Len(stored[merging.b]) \in Nat
    BY <1>1, <1>2, StoredIsCapture DEF MInv
  <2> QED  BY <1>2, <2>1, StoredIsCapture DEF MInv
<1>4. MergingInv'
  <2>1. /\ merging' \in [a : Nat, b : Nat, next : Nat]
        /\ merging'.a = merging.a /\ merging'.b = merging.b
        /\ merging'.next = merging.next + 1
    BY <1>1, <1>2
  <2>2. merging'.next >= 1 /\ merging'.next <= Len(stored[merging.b]) + 1
    BY <1>1, <1>2, <1>3, <2>1
  <2> QED  BY <1>1, <1>2, <2>1, <2>2 DEF MergingInv
<1> HIDE DEF sd
<1>5. IInv'
  <2>1. IInv /\ Len(devices) \in Nat /\ DOMAIN devices = 1 .. Len(devices)
    BY LenProperties DEF MInv, IInv
  <2>2. CASE AbsorbRecord(sd)
    <3>1. /\ devices' \in Seq(GoodRecord) /\ Len(devices') = Len(devices)
          /\ DOMAIN devices' = DOMAIN devices
          /\ \A k \in DOMAIN devices : devices'[k].mac = devices[k].mac
      BY <1>3, <2>1, <2>2, AbsorbStep
    <3>2. UniqueMacs'
      BY <2>1, <3>1 DEF IInv, UniqueMacs
    <3>3. UNCHANGED <<capacity, dropped>>
      BY <2>2 DEF AbsorbRecord
    <3> QED  BY <1>1, <2>1, <3>1, <3>2, <3>3 DEF IInv, InBounds
  <2>3. CASE AddRecord(sd)
    <3>1. /\ devices' \in Seq(GoodRecord) /\ UniqueMacs'
          /\ Len(devices') <= capacity' /\ capacity' <= max /\ capacity' \in Nat
      BY <1>3, <2>1, <2>3, AddStep
    <3>2. UNCHANGED dropped
      BY <2>3 DEF AddRecord
    <3> QED  BY <1>1, <2>1, <3>1, <3>2 DEF IInv, InBounds
  <2>4. CASE DropRecord(sd)
    <3>1. UNCHANGED <<devices, capacity>> /\ dropped' = (dropped + 1) % U16
      BY <2>4 DEF DropRecord, ensure_one_fails
    <3>2. dropped' \in 0 .. U16 - 1
      <4>1. dropped + 1 \in Int /\ U16 \in Int /\ U16 > 0
        BY <2>1 DEF IInv, U16
      <4>2. ASSUME NEW x \in Int, NEW y \in Int, y > 0  PROVE x % y \in 0 .. y - 1
        BY <4>2
      <4> QED  BY <3>1, <4>1, <4>2
    <3> QED  BY <1>1, <2>1, <3>1, <3>2 DEF IInv, UniqueMacs, InBounds
  <2> QED  BY <1>1, <2>2, <2>3, <2>4
<1>6. stored' \in Seq(Captures)
  BY <1>1 DEF MInv
<1> QED  BY <1>4, <1>5, <1>6 DEF MInv

(* The captures a merge starts from, and the room it is given.             *)
LEMMA StartStep ==
  ASSUME MInv, NEW a \in DOMAIN stored, NEW b \in DOMAIN stored, StartMerge(a, b)
  PROVE  MInv'
<1>1. /\ Len(stored[a]) <= MaxDevices /\ Len(stored[b]) <= MaxDevices
      /\ devices' = stored[a]
      /\ capacity' \in Len(stored[a])
                       .. Min({Len(stored[a]) + Max({Len(stored[b]), Grow - 1}), MaxDevices})
      /\ max' = MaxDevices /\ dropped' = 0
      /\ merging' = [a |-> a, b |-> b, next |-> 1]
      /\ UNCHANGED <<stored, clock, heard, turned_away>>
  BY DEF StartMerge
<1>2. /\ stored[a] \in Seq(GoodRecord) /\ UniqueIn(stored[a])
      /\ Len(stored[a]) \in Nat /\ Len(stored[b]) \in Nat
  BY StoredIsCapture DEF MInv
<1>3. MaxDevices \in Nat /\ Grow \in Nat \ {0}
  BY CensusAssumption
<1>4. capacity' \in Nat /\ Len(stored[a]) <= capacity' /\ capacity' <= MaxDevices
  <2> DEFINE wanted == Len(stored[a]) + Max({Len(stored[b]), Grow - 1})
  <2>1. Max({Len(stored[b]), Grow - 1}) \in Nat
    <3>1. Grow - 1 \in Nat
      BY <1>3
    <3> QED  BY <1>2, <3>1 DEF Max
  <2>2. wanted \in Nat
    BY <1>2, <2>1
  <2> HIDE DEF wanted
  <2>3. Min({wanted, MaxDevices}) \in Nat /\ Min({wanted, MaxDevices}) <= MaxDevices
    BY <1>3, <2>2 DEF Min
  <2> DEFINE room == Min({wanted, MaxDevices})
  <2>4. capacity' \in Len(stored[a]) .. room
    BY <1>1 DEF wanted
  <2>5. room \in Nat /\ room <= MaxDevices
    BY <2>3
  <2> HIDE DEF room
  <2> QED  BY <1>2, <1>3, <2>4, <2>5
<1>5. IInv'
  <2>1. UniqueMacs'
    BY <1>1, <1>2 DEF UniqueMacs, UniqueIn
  <2>2. InBounds'
    BY <1>1, <1>4 DEF InBounds
  <2>3. devices' \in Seq(GoodRecord) /\ max' \in Nat /\ dropped' \in 0 .. U16 - 1
    BY <1>1, <1>2, <1>3 DEF U16
  <2> QED  BY <1>1, <1>4, <2>1, <2>2, <2>3 DEF MInv, IInv
<1>6. MergingInv'
  <2>1. a \in Nat /\ b \in Nat
    BY LenProperties DEF MInv
  <2> QED  BY <1>1, <1>2, <2>1 DEF MergingInv
<1> QED  BY <1>1, <1>5, <1>6 DEF MInv

(* The census is stored as a capture.                                      *)
LEMMA StoreStep ==
  ASSUME MInv, stored' = Append(stored, devices)
  PROVE  stored' \in Seq(Captures)
<1>1. devices \in Captures
  BY DEF MInv, IInv, Captures, UniqueMacs, UniqueIn
<1> QED  BY <1>1, AppendProperties DEF MInv

LEMMA MergeInductive == MInv /\ [MergeNext]_<<vars, mergeVars>> => MInv'
<1> SUFFICES ASSUME MInv, [MergeNext]_<<vars, mergeVars>>  PROVE MInv'
  OBVIOUS
<1>0. NoMerge \in [a : Nat, b : Nat, next : Nat]
  BY DEF NoMerge
<1>1. ASSUME NEW obs \in Observations, NEW now \in Times, Scan(obs, now)  PROVE MInv'
  <2>1. IInv'
    BY <1>1, Inductive DEF Scan, Next, MInv
  <2> QED  BY <1>1, <2>1 DEF Scan, mergeVars, MInv, MergingInv, Merging
<1>2. CASE SaveScan
  <2>1. IInv'
    BY <1>2, Inductive DEF SaveScan, Next, MInv
  <2>2. stored' \in Seq(Captures)
    BY <1>2, StoreStep DEF SaveScan
  <2>3. merging' = NoMerge
    BY <1>2 DEF SaveScan, Merging
  <2> QED  BY <1>0, <2>1, <2>2, <2>3 DEF MInv, MergingInv, Merging
<1>3. ASSUME NEW a \in DOMAIN stored, NEW b \in DOMAIN stored, StartMerge(a, b)  PROVE MInv'
  BY <1>3, StartStep
<1>4. CASE merge_one
  BY <1>4, MergeOneStep
<1>5. CASE FinishMerge
  <2>1. IInv'
    BY <1>5, Inductive DEF FinishMerge, Next, MInv
  <2>2. stored' \in Seq(Captures)
    BY <1>5, StoreStep DEF FinishMerge
  <2>3. merging' = NoMerge
    BY <1>5 DEF FinishMerge
  <2> QED  BY <1>0, <2>1, <2>2, <2>3 DEF MInv, MergingInv, Merging
<1>6. CASE AbortMerge
  <2>1. IInv'
    BY <1>6, Inductive DEF AbortMerge, Next, MInv
  <2>2. merging' = NoMerge /\ stored' = stored
    BY <1>6 DEF AbortMerge
  <2> QED  BY <1>0, <2>1, <2>2 DEF MInv, MergingInv, Merging
<1>7. CASE UNCHANGED <<vars, mergeVars>>
  BY <1>7 DEF vars, mergeVars, MInv, IInv, UniqueMacs, InBounds, MergingInv, Merging
<1> QED  BY <1>1, <1>2, <1>3, <1>4, <1>5, <1>6, <1>7 DEF MergeNext

(* The invariant of scanning, saving and merging, for any captures, any    *)
(* chunk and any ceiling.                                                  *)
THEOREM MergeInvariance == MergeSpec => []MInv
<1>1. MergeInit => MInv
  <2> SUFFICES ASSUME MergeInit  PROVE MInv
    OBVIOUS
  <2>1. IInv
    BY Initially DEF MergeInit
  <2>2. stored \in Seq(Captures) /\ merging = NoMerge
    BY DEF MergeInit
  <2> QED  BY <2>1, <2>2 DEF MInv, MergingInv, Merging, NoMerge
<1> QED  BY <1>1, MergeInductive, PTL DEF MergeSpec

(* No capture, scanned or merged, of any size, lists an address twice.     *)
THEOREM NobodyTwice == MergeSpec => []StoredUnique
<1>1. MInv => StoredUnique
  BY StoredIsCapture DEF MInv, StoredUnique, UniqueIn
<1> QED  BY <1>1, MergeInvariance, PTL

(* The census that a merge builds keeps stable addresses apart, as that of *)
(* a scan does.                                                            *)
THEOREM MergedStableApart == MergeSpec => []StableIdentity
<1>1. MInv => StableIdentity
  <2> SUFFICES ASSUME MInv, NEW i \in DOMAIN devices,
                      NEW mac \in devices[i].heard_as \ RandomMacs
               PROVE  devices[i].mac = mac
    BY DEF StableIdentity
  <2>1. devices[i] \in GoodRecord
    BY ElementOfSeq, LenProperties DEF MInv, IInv
  <2> QED  BY <2>1 DEF GoodRecord, OwnIdentity
<1> QED  BY <1>1, MergeInvariance, PTL

-----------------------------------------------------------------------------
(* Folding, whichever record is kept.                                      *)

(* The least and the greatest of two readings as far as they are known.    *)
LEMMA KnownOfTwo ==
  ASSUME NEW a \in Int, NEW b \in Int
  PROVE  /\ \A r : EarliestKnown(r, {a, b}) <=>
                 r = IF a = 0 THEN b ELSE IF b = 0 THEN a ELSE IF a < b THEN a ELSE b
         /\ \A r : StrongestKnown(r, {a, b}) <=>
                 r = IF a = 0 THEN b ELSE IF b = 0 THEN a ELSE IF a < b THEN b ELSE a
<1>1. CASE a = 0 /\ b = 0
  <2>1. Measured({a, b}) = {}
    BY <1>1 DEF Measured
  <2> QED  BY <1>1, <2>1 DEF EarliestKnown, StrongestKnown
<1>2. CASE a = 0 /\ b # 0
  <2>1. Measured({a, b}) = {b}
    BY <1>2 DEF Measured
  <2>2. Min({b}) = b /\ Max({b}) = b
    BY DEF Min, Max
  <2> QED  BY <1>2, <2>1, <2>2 DEF EarliestKnown, StrongestKnown
<1>3. CASE a # 0 /\ b = 0
  <2>1. Measured({a, b}) = {a}
    BY <1>3 DEF Measured
  <2>2. Min({a}) = a /\ Max({a}) = a
    BY DEF Min, Max
  <2> QED  BY <1>3, <2>1, <2>2 DEF EarliestKnown, StrongestKnown
<1>4. CASE a # 0 /\ b # 0
  <2>1. Measured({a, b}) = {a, b}
    BY <1>4 DEF Measured
  <2>2. /\ Min({a, b}) = IF a < b THEN a ELSE b
        /\ Max({a, b}) = IF a < b THEN b ELSE a
    BY DEF Min, Max
  <2> QED  BY <1>4, <2>1, <2>2 DEF EarliestKnown, StrongestKnown
<1> QED  BY <1>1, <1>2, <1>3, <1>4

(* Sum, earliest, latest and strongest do not depend on the order of two   *)
(* records, with 0 the value of a reading that is missing.                 *)
LEMMA FoldsEitherWay ==
  ASSUME NEW r \in GoodRecord, NEW s \in GoodRecord
  PROVE  /\ absorb(r, s).obs_count = absorb(s, r).obs_count
         /\ absorb(r, s).first_seen = absorb(s, r).first_seen
         /\ absorb(r, s).last_seen = absorb(s, r).last_seen
         /\ absorb(r, s).rssi_max = absorb(s, r).rssi_max
         /\ EarliestKnown(absorb(r, s).first_seen, {r.first_seen, s.first_seen})
         /\ StrongestKnown(absorb(r, s).rssi_max, {r.rssi_max, s.rssi_max})
<1>1. /\ r.obs_count \in Nat /\ s.obs_count \in Nat
      /\ r.first_seen \in Nat /\ s.first_seen \in Nat
      /\ r.last_seen \in Nat /\ s.last_seen \in Nat
      /\ r.rssi_max \in Int /\ s.rssi_max \in Int
  BY DEF GoodRecord, Signature
<1> DEFINE x == absorb(r, s)
           y == absorb(s, r)
<1>2. /\ x.obs_count = r.obs_count + s.obs_count
      /\ x.first_seen = EarliestSeen(r.first_seen, s.first_seen)
      /\ x.last_seen = (IF s.last_seen > r.last_seen THEN s.last_seen ELSE r.last_seen)
      /\ x.rssi_max = StrongerRssi(r.rssi_max, s.rssi_max)
  BY AbsorbReadings
<1>3. /\ y.obs_count = s.obs_count + r.obs_count
      /\ y.first_seen = EarliestSeen(s.first_seen, r.first_seen)
      /\ y.last_seen = (IF r.last_seen > s.last_seen THEN r.last_seen ELSE s.last_seen)
      /\ y.rssi_max = StrongerRssi(s.rssi_max, r.rssi_max)
  BY AbsorbReadings
<1> HIDE DEF x, y
<1>4. x.obs_count = y.obs_count /\ x.last_seen = y.last_seen
  BY <1>1, <1>2, <1>3
<1>5. x.first_seen = y.first_seen /\ EarliestKnown(x.first_seen, {r.first_seen, s.first_seen})
  <2>1. x.first_seen = IF r.first_seen = 0 THEN s.first_seen
                       ELSE IF s.first_seen = 0 THEN r.first_seen
                       ELSE IF r.first_seen < s.first_seen THEN r.first_seen ELSE s.first_seen
    BY <1>1, <1>2 DEF EarliestSeen
  <2>2. x.first_seen = y.first_seen
    BY <1>1, <1>2, <1>3 DEF EarliestSeen
  <2>3. r.first_seen \in Int /\ s.first_seen \in Int
    BY <1>1
  <2>4. EarliestKnown(x.first_seen, {r.first_seen, s.first_seen})
    BY Zenon, <2>1, <2>3, KnownOfTwo
  <2> QED  BY <2>2, <2>4
<1>6. x.rssi_max = y.rssi_max /\ StrongestKnown(x.rssi_max, {r.rssi_max, s.rssi_max})
  <2>1. x.rssi_max = IF r.rssi_max = 0 THEN s.rssi_max
                     ELSE IF s.rssi_max = 0 THEN r.rssi_max
                     ELSE IF r.rssi_max < s.rssi_max THEN s.rssi_max ELSE r.rssi_max
    BY <1>1, <1>2 DEF StrongerRssi
  <2>2. x.rssi_max = y.rssi_max
    BY <1>1, <1>2, <1>3 DEF StrongerRssi
  <2>3. StrongestKnown(x.rssi_max, {r.rssi_max, s.rssi_max})
    BY Zenon, <1>1, <2>1, KnownOfTwo
  <2> QED  BY <2>2, <2>3
<1> QED  BY <1>4, <1>5, <1>6 DEF x, y

(* A merge may be asked for in either order: which of two records of the   *)
(* captures on the card is kept makes no difference to what the two add up *)
(* to, and a reading that one of them has is never lost to one that is     *)
(* missing, whether the captures were scanned or merged, with or without a *)
(* clock.                                                                  *)
THEOREM FoldedEitherWay == MergeSpec => []FoldOrderFree
<1>1. MInv => FoldOrderFree
  <2> SUFFICES ASSUME MInv, NEW c \in DOMAIN stored,
                      NEW i \in DOMAIN stored[c], NEW j \in DOMAIN Last(stored)
               PROVE  LET r == stored[c][i]
                          s == Last(stored)[j]
                          x == absorb(r, s)
                          y == absorb(s, r)
                      IN  /\ x.obs_count = y.obs_count
                          /\ x.first_seen = y.first_seen /\ x.last_seen = y.last_seen
                          /\ x.rssi_max = y.rssi_max
                          /\ EarliestKnown(x.first_seen, {r.first_seen, s.first_seen})
                          /\ StrongestKnown(x.rssi_max, {r.rssi_max, s.rssi_max})
    BY DEF FoldOrderFree
  <2>1. Len(stored) \in DOMAIN stored
    BY LenProperties DEF MInv
  <2>2. stored[c][i] \in GoodRecord
    BY StoredIsCapture DEF MInv
  <2>3. Last(stored)[j] \in GoodRecord
    BY <2>1, StoredIsCapture DEF MInv, Last
  <2> QED  BY <2>2, <2>3, FoldsEitherWay
<1> QED  BY <1>1, MergeInvariance, PTL

-----------------------------------------------------------------------------
(* Who is in the result.                                                   *)

(* The first n records of a capture.                                       *)
LEMMA FirstRecords ==
  ASSUME NEW s \in Seq(GoodRecord), NEW n \in 0 .. Len(s)
  PROVE  /\ DOMAIN SubSeq(s, 1, n) = 1 .. n
         /\ \A k \in 1 .. n : SubSeq(s, 1, n)[k] = s[k]
<1>1. Len(s) \in Nat
  BY LenProperties
<1>2. \A k \in 1 .. n : s[k] \in GoodRecord
  BY <1>1, ElementOfSeq
<1>3. /\ SubSeq(s, 1, n) \in Seq(GoodRecord)
      /\ Len(SubSeq(s, 1, n)) = n
      /\ \A k \in 1 .. n : SubSeq(s, 1, n)[k] = s[k]
  BY <1>1, <1>2, SubSeqProperties
<1> QED  BY <1>3, LenProperties

(* One record more given, one address more at most.                        *)
LEMMA OneMore ==
  ASSUME NEW s \in Seq(GoodRecord), NEW n \in 1 .. Len(s)
  PROVE  /\ MacsOf(SubSeq(s, 1, n)) = MacsOf(SubSeq(s, 1, n - 1)) \cup {s[n].mac}
         /\ StableMacs(SubSeq(s, 1, n))
              = StableMacs(SubSeq(s, 1, n - 1)) \cup {mac \in {s[n].mac} : Stable(s[n])}
<1> DEFINE more == SubSeq(s, 1, n)
           less == SubSeq(s, 1, n - 1)
<1>1. Len(s) \in Nat
  BY LenProperties
<1>2. DOMAIN more = 1 .. n /\ \A k \in 1 .. n : more[k] = s[k]
  BY <1>1, FirstRecords
<1>3. DOMAIN less = 1 .. n - 1 /\ \A k \in 1 .. n - 1 : less[k] = s[k]
  <2>1. n - 1 \in 0 .. Len(s)
    BY <1>1
  <2> QED  BY <2>1, FirstRecords
<1>4. 1 .. n = (1 .. n - 1) \cup {n}
  BY <1>1
<1> HIDE DEF more, less
<1>5. MacsOf(more) = MacsOf(less) \cup {s[n].mac}
  BY <1>2, <1>3, <1>4 DEF MacsOf
<1>6. StableMacs(more) = StableMacs(less) \cup {mac \in {s[n].mac} : Stable(s[n])}
  BY <1>2, <1>3, <1>4 DEF StableMacs
<1> QED  BY <1>5, <1>6 DEF more, less

(* What has been given after merge_one has taken the next record.          *)
LEMMA GivenMore ==
  ASSUME MInv, merge_one
  PROVE  LET sd == stored[merging.b][merging.next]
         IN  /\ sd \in GoodRecord
             /\ Given' = SubSeq(stored[merging.b], 1, merging.next)
             /\ MacsOf(Given') = MacsOf(Given) \cup {sd.mac}
             /\ StableMacs(Given') = StableMacs(Given) \cup {mac \in {sd.mac} : Stable(sd)}
<1>1. /\ Merging /\ merging.next <= Len(stored[merging.b])
      /\ merging' = [merging EXCEPT !.next = @ + 1] /\ stored' = stored
  BY DEF merge_one
<1>2. /\ merging \in [a : Nat, b : Nat, next : Nat] /\ merging.next >= 1
      /\ merging.b \in DOMAIN stored
  BY <1>1 DEF MInv, MergingInv
<1>3. stored[merging.b] \in Seq(GoodRecord) /\ Len(stored[merging.b]) \in Nat
      /\ DOMAIN stored[merging.b] = 1 .. Len(stored[merging.b])
      /\ \A k \in DOMAIN stored[merging.b] : stored[merging.b][k] \in GoodRecord
  BY <1>2, StoredIsCapture DEF MInv
<1>4. merging.next \in 1 .. Len(stored[merging.b])
  BY <1>1, <1>2, <1>3
<1>5. merging'.b = merging.b /\ merging'.next - 1 = merging.next
  BY <1>1, <1>2
<1>6. Given' = SubSeq(stored[merging.b], 1, merging.next)
  BY <1>1, <1>5 DEF Given
<1> QED  BY <1>3, <1>4, <1>6, OneMore DEF Given

(* What one record of b does to the addresses of the census.               *)
LEMMA WhoIsIn ==
  ASSUME IInv, NEW sd \in GoodRecord
  PROVE  /\ AbsorbRecord(sd) =>
              /\ MacsOf(devices') = MacsOf(devices)
              /\ StableMacs(devices') = StableMacs(devices)
              /\ Stable(sd) => sd.mac \in StableMacs(devices)
         /\ AddRecord(sd) =>
              StableMacs(devices') = StableMacs(devices) \cup {mac \in {sd.mac} : Stable(sd)}
         /\ sd.mac \in MacsOf(devices) => find_merge_target(devices, sd) # {}
<1>1. /\ devices \in Seq(GoodRecord) /\ UniqueIn(devices)
      /\ DOMAIN devices = 1 .. Len(devices) /\ Len(devices) \in Nat
      /\ \A k \in DOMAIN devices : devices[k] \in GoodRecord
  BY ElementOfSeq, LenProperties DEF IInv, UniqueMacs, UniqueIn
<1>2. ASSUME AbsorbRecord(sd)
      PROVE  /\ MacsOf(devices') = MacsOf(devices)
             /\ StableMacs(devices') = StableMacs(devices)
             /\ Stable(sd) => sd.mac \in StableMacs(devices)
  <2>1. /\ DOMAIN devices' = DOMAIN devices
        /\ \A k \in DOMAIN devices : /\ devices'[k].mac = devices[k].mac
                                     /\ devices'[k].mac_random = devices[k].mac_random
        /\ sd.mac_random \/ \E k \in DOMAIN devices : devices[k].mac = sd.mac
    BY <1>2, AbsorbStep
  <2>2. MacsOf(devices') = MacsOf(devices)
    BY <2>1 DEF MacsOf
  <2>3. StableMacs(devices') = StableMacs(devices)
    BY <2>1 DEF StableMacs, Stable
  <2>4. ASSUME Stable(sd)  PROVE sd.mac \in StableMacs(devices)
    <3>1. PICK k \in DOMAIN devices : devices[k].mac = sd.mac
      BY <2>1, <2>4 DEF Stable
    <3>2. devices[k].mac_random = sd.mac_random
      BY <1>1, <3>1 DEF GoodRecord, WellFormed
    <3> QED  BY <2>4, <3>1, <3>2 DEF StableMacs, Stable
  <2> QED  BY <2>2, <2>3, <2>4
<1>3. ASSUME AddRecord(sd)
      PROVE  StableMacs(devices') = StableMacs(devices) \cup {mac \in {sd.mac} : Stable(sd)}
  <2>1. /\ DOMAIN devices' = 1 .. Len(devices) + 1
        /\ \A k \in DOMAIN devices : devices'[k] = devices[k]
        /\ devices'[Len(devices) + 1] = sd
    BY <1>3, AddStep
  <2>2. DOMAIN devices' = DOMAIN devices \cup {Len(devices) + 1}
    BY <1>1, <2>1
  <2> QED  BY <2>1, <2>2 DEF StableMacs
<1>4. ASSUME sd.mac \in MacsOf(devices)  PROVE find_merge_target(devices, sd) # {}
  <2>1. PICK k \in DOMAIN devices : devices[k].mac = sd.mac
    BY <1>4 DEF MacsOf
  <2> QED  BY <1>1, <2>1, TargetProperties
<1> QED  BY <1>2, <1>3, <1>4

(* Nothing has been given when a merge starts.                             *)
LEMMA NoneGiven ==
  ASSUME MInv, NEW a \in DOMAIN stored, NEW b \in DOMAIN stored, StartMerge(a, b)
  PROVE  /\ devices' = stored'[merging'.a] /\ dropped' = 0 /\ merging'.next = 1
         /\ MacsOf(Given') = {} /\ StableMacs(Given') = {}
         /\ Len(stored'[merging'.b]) <= MaxDevices
<1>1. /\ stored' = stored /\ merging' = [a |-> a, b |-> b, next |-> 1]
      /\ devices' = stored[a] /\ dropped' = 0 /\ Len(stored[b]) <= MaxDevices
  BY DEF StartMerge
<1>2. stored[b] \in Seq(GoodRecord) /\ Len(stored[b]) \in Nat
  BY StoredIsCapture DEF MInv
<1>3. Given' = SubSeq(stored[b], 1, 0)
  BY <1>1 DEF Given
<1>4. DOMAIN Given' = {}
  <2>1. 0 \in 0 .. Len(stored[b])
    BY <1>2
  <2> QED  BY <1>2, <1>3, <2>1, FirstRecords
<1> QED  BY <1>1, <1>4 DEF MacsOf, StableMacs

(* Merging a capture with one that has no address of its own adds no       *)
(* device and drops none, at any ceiling and however full the array is.    *)
THEOREM SelfMergeSafe == MergeSpec => []SelfMergeAddsNobody
<1>1. MergeInit => SelfMergeAddsNobody
  BY DEF MergeInit, SelfMergeAddsNobody, Merging
<1>2. MInv /\ SelfMergeAddsNobody /\ [MergeNext]_<<vars, mergeVars>> => SelfMergeAddsNobody'
  <2> SUFFICES ASSUME MInv, SelfMergeAddsNobody, [MergeNext]_<<vars, mergeVars>>
               PROVE  SelfMergeAddsNobody'
    OBVIOUS
  <2>1. CASE merge_one
    <3> DEFINE sd == stored[merging.b][merging.next]
    <3>1. /\ Merging /\ merging' = [merging EXCEPT !.next = @ + 1] /\ stored' = stored
          /\ AbsorbRecord(sd) \/ AddRecord(sd) \/ DropRecord(sd)
      BY <2>1 DEF merge_one
    <3>2. merging'.a = merging.a
      BY <3>1 DEF MInv, MergingInv
    <3>3. sd \in GoodRecord /\ MacsOf(Given') = MacsOf(Given) \cup {sd.mac}
      BY <2>1, GivenMore
    <3> HIDE DEF sd
    <3>4. SUFFICES ASSUME MacsOf(Given') \subseteq MacsOf(stored[merging.a])
                   PROVE  MacsOf(devices') = MacsOf(stored[merging.a]) /\ dropped' = 0
      BY <3>1, <3>2 DEF SelfMergeAddsNobody
    <3>5. MacsOf(devices) = MacsOf(stored[merging.a]) /\ dropped = 0
      BY <3>1, <3>3, <3>4 DEF SelfMergeAddsNobody
    <3>6. find_merge_target(devices, sd) # {}
      BY <3>3, <3>4, <3>5, WhoIsIn DEF MInv
    <3>7. AbsorbRecord(sd)
      BY <3>1, <3>6 DEF AddRecord, DropRecord
    <3>8. dropped' = dropped
      BY <3>7 DEF AbsorbRecord
    <3>9. MacsOf(devices') = MacsOf(devices)
      BY <3>3, <3>7, WhoIsIn DEF MInv
    <3> QED  BY <3>5, <3>8, <3>9
  <2>2. ASSUME NEW a \in DOMAIN stored, NEW b \in DOMAIN stored, StartMerge(a, b)
        PROVE  SelfMergeAddsNobody'
    BY <2>2, NoneGiven DEF SelfMergeAddsNobody
  <2>3. ASSUME NEW obs \in Observations, NEW now \in Times, Scan(obs, now)
        PROVE  SelfMergeAddsNobody'
    BY <2>3 DEF Scan, mergeVars, SelfMergeAddsNobody, Merging
  <2>4. CASE SaveScan \/ FinishMerge \/ AbortMerge
    BY <2>4 DEF SaveScan, FinishMerge, AbortMerge, SelfMergeAddsNobody, Merging
  <2>5. CASE UNCHANGED <<vars, mergeVars>>
    BY <2>5 DEF vars, mergeVars, SelfMergeAddsNobody, Merging, Given
  <2> QED  BY <2>1, <2>2, <2>3, <2>4, <2>5 DEF MergeNext
<1> QED  BY <1>1, <1>2, MergeInvariance, PTL DEF MergeSpec

(* The addresses of MergeExact: as long as nothing was dropped, the stable *)
(* addresses in the merge are those of the two captures.                   *)
StableExact ==
  Merging /\ dropped = 0 =>
    StableMacs(devices) = StableMacs(stored[merging.a]) \cup StableMacs(Given)

(* The refused count has not wrapped: a merge drops fewer records than a   *)
(* capture can have.                                                       *)
DropInv ==
  Merging => dropped <= merging.next - 1 /\ Len(stored[merging.b]) <= MaxDevices

(* A ceiling below 65536 keeps the count of what was dropped from coming   *)
(* back to 0.                                                              *)
LEMMA StableStep ==
  ASSUME MaxDevices < U16
  PROVE  MInv /\ StableExact /\ DropInv /\ [MergeNext]_<<vars, mergeVars>>
           => StableExact' /\ DropInv'
<1> SUFFICES ASSUME MInv, StableExact, DropInv, [MergeNext]_<<vars, mergeVars>>
             PROVE  StableExact' /\ DropInv'
  OBVIOUS
<1>1. CASE merge_one
  <2> DEFINE sd == stored[merging.b][merging.next]
  <2>1. /\ Merging /\ merging' = [merging EXCEPT !.next = @ + 1] /\ stored' = stored
        /\ merging.next <= Len(stored[merging.b])
        /\ AbsorbRecord(sd) \/ AddRecord(sd) \/ DropRecord(sd)
    BY <1>1 DEF merge_one
  <2>2. /\ merging'.a = merging.a /\ merging'.b = merging.b
        /\ merging'.next = merging.next + 1 /\ merging.next \in Nat
    BY <2>1 DEF MInv, MergingInv
  <2>3. /\ sd \in GoodRecord
        /\ StableMacs(Given') = StableMacs(Given) \cup {mac \in {sd.mac} : Stable(sd)}
    BY <1>1, GivenMore
  <2> HIDE DEF sd
  <2>4. /\ dropped \in Nat /\ dropped <= merging.next - 1
        /\ Len(stored[merging.b]) <= MaxDevices /\ Len(stored[merging.b]) \in Nat
    BY <2>1, StoredIsCapture DEF MInv, MergingInv, IInv, DropInv
  <2>5. CASE AbsorbRecord(sd)
    <3>1. dropped' = dropped
      BY <2>5 DEF AbsorbRecord
    <3>2. /\ StableMacs(devices') = StableMacs(devices)
          /\ Stable(sd) => sd.mac \in StableMacs(devices)
      BY <2>3, <2>5, WhoIsIn DEF MInv
    <3>3. DropInv'
      BY <2>1, <2>2, <2>4, <3>1 DEF DropInv
    <3>4. StableExact'
      BY <2>1, <2>2, <2>3, <3>1, <3>2 DEF StableExact
    <3> QED  BY <3>3, <3>4
  <2>6. CASE AddRecord(sd)
    <3>1. dropped' = dropped
      BY <2>6 DEF AddRecord
    <3>2. StableMacs(devices') = StableMacs(devices) \cup {mac \in {sd.mac} : Stable(sd)}
      BY <2>3, <2>6, WhoIsIn DEF MInv
    <3>3. DropInv'
      BY <2>1, <2>2, <2>4, <3>1 DEF DropInv
    <3>4. StableExact'
      BY <2>1, <2>2, <2>3, <3>1, <3>2 DEF StableExact
    <3> QED  BY <3>3, <3>4
  <2>7. CASE DropRecord(sd)
    <3>1. dropped + 1 < U16
      BY <2>1, <2>2, <2>4, CensusAssumption DEF U16
    <3>2. dropped' = dropped + 1
      BY <2>4, <2>7, <3>1 DEF DropRecord, U16
    <3>3. DropInv'
      BY <2>1, <2>2, <2>4, <3>2 DEF DropInv
    <3>4. StableExact'
      BY <2>4, <3>2 DEF StableExact
    <3> QED  BY <3>3, <3>4
  <2> QED  BY <2>1, <2>5, <2>6, <2>7
<1>2. ASSUME NEW a \in DOMAIN stored, NEW b \in DOMAIN stored, StartMerge(a, b)
      PROVE  StableExact' /\ DropInv'
  BY <1>2, NoneGiven DEF StableExact, DropInv
<1>3. ASSUME NEW obs \in Observations, NEW now \in Times, Scan(obs, now)
      PROVE  StableExact' /\ DropInv'
  BY <1>3 DEF Scan, mergeVars, StableExact, DropInv, Merging
<1>4. CASE SaveScan \/ FinishMerge \/ AbortMerge
  BY <1>4 DEF SaveScan, FinishMerge, AbortMerge, StableExact, DropInv, Merging
<1>5. CASE UNCHANGED <<vars, mergeVars>>
  BY <1>5 DEF vars, mergeVars, StableExact, DropInv, Merging, Given
<1> QED  BY <1>1, <1>2, <1>3, <1>4, <1>5 DEF MergeNext

(* The frames of MergeExact: as long as nothing was dropped, they are      *)
(* those of the two captures.                                              *)
FramesExact ==
  Merging /\ dropped = 0 =>
    FramesIn(devices) = FramesIn(stored[merging.a]) + FramesIn(Given)

(* What has been given after one record more has its frames more, and when *)
(* a merge starts it has none.                                             *)
LEMMA GivenFrames ==
  ASSUME MInv, merge_one
  PROVE  FramesIn(Given') = FramesIn(Given) + stored[merging.b][merging.next].obs_count
<1>1. /\ Merging /\ merging.next <= Len(stored[merging.b])
  BY DEF merge_one
<1>2. /\ merging \in [a : Nat, b : Nat, next : Nat] /\ merging.next >= 1
      /\ merging.b \in DOMAIN stored
  BY <1>1 DEF MInv, MergingInv
<1> DEFINE s == stored[merging.b]
           n == merging.next
           more == SubSeq(s, 1, n)
           less == SubSeq(s, 1, n - 1)
<1>3. s \in Seq(GoodRecord) /\ Len(s) \in Nat
  BY <1>2, StoredIsCapture DEF MInv
<1>4. n \in 1 .. Len(s) /\ n - 1 \in 0 .. Len(s) /\ n \in 0 .. Len(s)
  BY <1>1, <1>2, <1>3
<1>5. Given' = more /\ Given = less
  BY GivenMore DEF Given
<1> HIDE DEF s, n
<1>6. \A k \in 1 .. n : s[k] \in GoodRecord
  BY <1>3, <1>4, ElementOfSeq
<1>7. /\ more \in Seq(GoodRecord) /\ Len(more) = n
      /\ \A k \in 1 .. n : more[k] = s[k]
  BY <1>3, <1>4, <1>6, SubSeqProperties
<1>8. /\ less \in Seq(GoodRecord) /\ Len(less) = n - 1
      /\ \A k \in 1 .. n - 1 : less[k] = s[k]
  <2>1. \A k \in 1 .. n - 1 : s[k] \in GoodRecord
    BY <1>4, <1>6
  <2> QED  BY <1>3, <1>4, <2>1, SubSeqProperties
<1> HIDE DEF more, less
<1>9. FramesIn(more) = FramesIn(less) + more[Len(more)].obs_count
  <2>1. Len(more) = Len(less) + 1 /\ \A k \in 1 .. Len(less) : more[k] = less[k]
    BY <1>4, <1>7, <1>8
  <2> QED  BY <1>7, <1>8, <2>1, GoodCountable, FramesAppended
<1>10. more[Len(more)] = s[n]
  BY <1>4, <1>7
<1> QED  BY <1>5, <1>9, <1>10 DEF s, n

LEMMA NoneGivenFrames ==
  ASSUME MInv, NEW a \in DOMAIN stored, NEW b \in DOMAIN stored, StartMerge(a, b)
  PROVE  /\ FramesIn(Given') = 0
         /\ FramesIn(devices') \in Nat
<1>1. stored' = stored /\ merging' = [a |-> a, b |-> b, next |-> 1] /\ devices' = stored[a]
  BY DEF StartMerge
<1>2. stored[a] \in Seq(GoodRecord)
  BY StoredIsCapture DEF MInv
<1>3. Given' = << >>
  BY <1>1, SubSeqEmpty DEF Given
<1> QED  BY <1>1, <1>2, <1>3, FramesEmpty, GoodCountable, FramesNatural

(* A record that is absorbed or added brings its frames.                   *)
LEMMA BroughtFrames ==
  ASSUME IInv, NEW sd \in GoodRecord, AbsorbRecord(sd) \/ AddRecord(sd)
  PROVE  FramesIn(devices') = FramesIn(devices) + sd.obs_count
<1>1. /\ devices \in Seq(GoodRecord) /\ UniqueIn(devices) /\ Len(devices) \in Nat
      /\ DOMAIN devices = 1 .. Len(devices)
      /\ \A k \in DOMAIN devices : devices[k] \in GoodRecord
  BY ElementOfSeq, LenProperties DEF IInv, UniqueMacs, UniqueIn
<1>2. CASE AbsorbRecord(sd)
  <2>1. PICK i \in find_merge_target(devices, sd) :
          devices' = [devices EXCEPT ![i] = absorb(@, sd)]
    BY <1>2 DEF AbsorbRecord
  <2>2. i \in DOMAIN devices
    BY <1>1, <2>1, TargetProperties
  <2>3. devices[i] \in GoodRecord /\ (sd.mac_random \/ sd.mac = devices[i].mac)
    BY <1>1, <2>1, <2>2, TargetProperties
  <2>4. /\ absorb(devices[i], sd) \in GoodRecord
        /\ absorb(devices[i], sd).obs_count = devices[i].obs_count + sd.obs_count
    BY <2>3, AbsorbGood, AbsorbReadings
  <2>5. devices[i].obs_count \in Nat /\ sd.obs_count \in Nat
    BY <2>3 DEF GoodRecord, Signature
  <2> DEFINE new == [devices EXCEPT ![i] = absorb(@, sd)]
  <2>6. /\ new \in Seq(GoodRecord) /\ Len(new) = Len(devices)
        /\ \A k \in 1 .. Len(devices) :
             new[k] = IF k = i THEN absorb(devices[i], sd) ELSE devices[k]
    BY <1>1, <2>2, <2>4, ExceptSeq
  <2> HIDE DEF new
  <2>7. Countable(devices) /\ Countable(new)
    BY <1>1, <2>6, GoodCountable
  <2>8. i \in 1 .. Len(devices) /\ \A k \in 1 .. Len(devices) : k # i => new[k] = devices[k]
    BY <1>1, <2>2, <2>6
  <2>9. FramesIn(new) = FramesIn(devices) - devices[i].obs_count + new[i].obs_count
    BY <2>6, <2>7, <2>8, FramesChanged
  <2>10. FramesIn(devices) \in Nat
    BY <2>7, FramesNatural
  <2>11. new[i] = absorb(devices[i], sd)
    BY <2>6, <2>8
  <2>12. FramesIn(new) = FramesIn(devices) + sd.obs_count
    BY <2>4, <2>5, <2>9, <2>10, <2>11
  <2> QED  BY <2>1, <2>12 DEF new
<1>3. CASE AddRecord(sd)
  BY <1>1, <1>3, AddedFrames DEF AddRecord
<1> QED  BY <1>2, <1>3

LEMMA FramesStep ==
  ASSUME MaxDevices < U16
  PROVE  MInv /\ FramesExact /\ DropInv /\ [MergeNext]_<<vars, mergeVars>> => FramesExact'
<1> SUFFICES ASSUME MInv, FramesExact, DropInv, [MergeNext]_<<vars, mergeVars>>
             PROVE  FramesExact'
  OBVIOUS
<1>1. CASE merge_one
  <2> DEFINE sd == stored[merging.b][merging.next]
  <2>1. /\ Merging /\ merging' = [merging EXCEPT !.next = @ + 1] /\ stored' = stored
        /\ merging.next <= Len(stored[merging.b])
        /\ AbsorbRecord(sd) \/ AddRecord(sd) \/ DropRecord(sd)
    BY <1>1 DEF merge_one
  <2>2. /\ merging'.a = merging.a /\ merging.next \in Nat /\ merging.a \in DOMAIN stored
        /\ merging.b \in DOMAIN stored /\ merging.next >= 1
    BY <2>1 DEF MInv, MergingInv
  <2>3. sd \in GoodRecord /\ FramesIn(Given') = FramesIn(Given) + sd.obs_count
    BY <1>1, GivenMore, GivenFrames
  <2> HIDE DEF sd
  <2>4. /\ dropped \in Nat /\ dropped <= merging.next - 1
        /\ Len(stored[merging.b]) <= MaxDevices /\ Len(stored[merging.b]) \in Nat
    BY <2>1, <2>2, StoredIsCapture DEF MInv, IInv, DropInv
  <2>5. CASE AbsorbRecord(sd) \/ AddRecord(sd)
    <3>1. dropped' = dropped
      BY <2>5 DEF AbsorbRecord, AddRecord
    <3>2. FramesIn(devices') = FramesIn(devices) + sd.obs_count
      BY <2>3, <2>5, BroughtFrames DEF MInv
    <3>3. sd.obs_count \in Nat /\ FramesIn(stored[merging.a]) \in Nat /\ FramesIn(Given) \in Nat
      <4>1. sd.obs_count \in Nat
        BY <2>3 DEF GoodRecord, Signature
      <4>2. FramesIn(stored[merging.a]) \in Nat
        BY <2>2, StoredIsCapture, GoodCountable, FramesNatural DEF MInv
      <4>3. FramesIn(Given) \in Nat
        <5>1. stored[merging.b] \in Seq(GoodRecord)
          BY <2>2, StoredIsCapture DEF MInv
        <5>2. \A k \in 1 .. merging.next - 1 : stored[merging.b][k] \in GoodRecord
          BY <2>1, <2>2, <2>4, <5>1, ElementOfSeq
        <5>3. Given \in Seq(GoodRecord)
          BY <2>1, <2>2, <2>4, <5>1, <5>2, SubSeqProperties DEF Given
        <5> QED  BY <5>3, GoodCountable, FramesNatural
      <4> QED  BY <4>1, <4>2, <4>3
    <3> QED  BY <2>1, <2>2, <2>3, <3>1, <3>2, <3>3 DEF FramesExact
  <2>6. CASE DropRecord(sd)
    <3>1. dropped + 1 < U16
      BY <2>1, <2>2, <2>4, CensusAssumption DEF U16
    <3>2. dropped' = dropped + 1
      BY <2>4, <2>6, <3>1 DEF DropRecord, U16
    <3> QED  BY <2>4, <3>2 DEF FramesExact
  <2> QED  BY <2>1, <2>5, <2>6
<1>2. ASSUME NEW a \in DOMAIN stored, NEW b \in DOMAIN stored, StartMerge(a, b)
      PROVE  FramesExact'
  BY <1>2, NoneGiven, NoneGivenFrames DEF FramesExact
<1>3. ASSUME NEW obs \in Observations, NEW now \in Times, Scan(obs, now)  PROVE FramesExact'
  BY <1>3 DEF Scan, mergeVars, FramesExact, Merging
<1>4. CASE SaveScan \/ FinishMerge \/ AbortMerge
  BY <1>4 DEF SaveScan, FinishMerge, AbortMerge, FramesExact, Merging
<1>5. CASE UNCHANGED <<vars, mergeVars>>
  BY <1>5 DEF vars, mergeVars, FramesExact, Merging, Given
<1> QED  BY <1>1, <1>2, <1>3, <1>4, <1>5 DEF MergeNext

(* When the ceiling is below 65536, so that the count of what was dropped  *)
(* cannot come back to 0, no merge loses a stable device, invents one, or  *)
(* loses or doubles a frame, whatever was folded into what.                *)
THEOREM NothingLost ==
  ASSUME MaxDevices < U16
  PROVE  MergeSpec => []MergeExact
<1>1. MergeInit => StableExact /\ DropInv /\ FramesExact
  BY DEF MergeInit, StableExact, DropInv, FramesExact, Merging
<1>2. StableExact /\ FramesExact => MergeExact
  BY DEF StableExact, FramesExact, MergeExact
<1> QED  BY <1>1, <1>2, StableStep, FramesStep, MergeInvariance, PTL DEF MergeSpec

-----------------------------------------------------------------------------
(* Comparing two captures.                                                 *)

(* Two records are the same device, whichever is looked for.               *)
LEMMA SameDeviceMutual ==
  ASSUME NEW x \in GoodRecord, NEW y \in GoodRecord
  PROVE  /\ (same_device(x, y) = {}) <=> (same_device(y, x) = {})
         /\ same_device(x, x) = {} <=> ~(Stable(x) \/ (x.type # "Ap" /\ x.ssids # << >>))
         /\ same_device(x, y) # {} => Stable(x) \/ (x.type # "Ap" /\ x.ssids # << >>)
<1>0. /\ x.mac_random \in BOOLEAN /\ y.mac_random \in BOOLEAN
      /\ x.ssids \in Seq(Names) /\ y.ssids \in Seq(Names)
  BY DEF GoodRecord, Signature
<1>1. SharedNames(x, y) = {} <=> SharedNames(y, x) = {}
  BY DEF SharedNames, has_ssid
<1>2. SharedNames(x, x) = {} <=> x.ssids = << >>
  <2>1. DOMAIN x.ssids = 1 .. Len(x.ssids) /\ Len(x.ssids) \in Nat
    BY <1>0, LenProperties
  <2>2. SharedNames(x, x) = DOMAIN x.ssids
    BY DEF SharedNames, has_ssid
  <2>3. x.ssids = << >> <=> Len(x.ssids) = 0
    BY <1>0
  <2> QED  BY <2>1, <2>2, <2>3
<1>3. SharedNames(x, y) # {} => x.ssids # << >>
  BY <1>0 DEF SharedNames
<1>4. SameMac(x, y) <=> SameMac(y, x)
  BY DEF SameMac
<1>5. SameMac(x, x) <=> Stable(x)
  BY DEF SameMac, Stable
<1>6. SameMac(x, y) => Stable(x)
  BY DEF SameMac, Stable
<1>7. ({x.type, y.type} \cap {"Ap"} = {}) <=> x.type # "Ap" /\ y.type # "Ap"
  OBVIOUS
<1>8. ({y.type, x.type} \cap {"Ap"} = {}) <=> x.type # "Ap" /\ y.type # "Ap"
  OBVIOUS
<1>9. ({x.type, x.type} \cap {"Ap"} = {}) <=> x.type # "Ap"
  OBVIOUS
<1>10. \A a, b : same_device(a, b) = {} <=>
         ~ \/ SameMac(a, b)
           \/ /\ a.mac_random \/ b.mac_random
              /\ {a.type, b.type} \cap {"Ap"} = {}
              /\ SharedNames(a, b) # {}
  BY DEF same_device
<1>11. (same_device(x, y) = {}) <=> (same_device(y, x) = {})
  BY <1>1, <1>4, <1>7, <1>8, <1>10
<1>12. same_device(x, x) = {} <=> ~(Stable(x) \/ (x.type # "Ap" /\ x.ssids # << >>))
  BY <1>2, <1>5, <1>9, <1>10 DEF Stable
<1>13. same_device(x, y) # {} => Stable(x) \/ (x.type # "Ap" /\ x.ssids # << >>)
  BY <1>3, <1>6, <1>7, <1>10
<1> QED  BY <1>11, <1>12, <1>13

(* wc_compare_find finds somebody when there is somebody to be found.      *)
LEMMA FindFinds ==
  ASSUME NEW devs \in Seq(GoodRecord), NEW sig
  PROVE  compare_find(devs, sig) # {} <=> \E i \in DOMAIN devs : same_device(sig, devs[i]) # {}
<1> DEFINE found == {i \in DOMAIN devs : same_device(sig, devs[i]) # {}}
<1>1. DOMAIN devs = 1 .. Len(devs) /\ Len(devs) \in Nat
  BY LenProperties
<1>2. compare_find(devs, sig) \subseteq found
  BY DEF compare_find
<1>3. ASSUME found # {}  PROVE compare_find(devs, sig) # {}
  <2>1. found \in SUBSET Nat
    BY <1>1
  <2>2. PICK i \in found : \A j \in found : i <= j
    BY <1>3, <2>1, Least
  <2>3. \A j \in 1 .. i - 1 : same_device(sig, devs[j]) = {}
    BY <1>1, <2>1, <2>2
  <2>4. i \in compare_find(devs, sig)
    BY <2>2, <2>3 DEF compare_find
  <2> QED  BY <2>4
<1> QED  BY <1>2, <1>3

(* Nobody is counted exactly when nobody is found.                         *)
LEMMA CountsMatches ==
  ASSUME NEW a \in Seq(GoodRecord), NEW b
  PROVE  /\ compare(a, b).intersection = Cardinality(matched(a, b))
         /\ Cardinality(matched(a, b)) = 0 <=> matched(a, b) = {}
<1>1. DOMAIN a = 1 .. Len(a) /\ Len(a) \in Nat
  BY LenProperties
<1>2. IsFiniteSet(1 .. Len(a)) /\ matched(a, b) \subseteq 1 .. Len(a)
  BY <1>1, FS_Interval DEF matched
<1>3. IsFiniteSet(matched(a, b))
  BY <1>2, FS_Subset
<1> QED  BY <1>3, FS_EmptySet DEF compare

(* Whichever of two captures the program has written is picked first,      *)
(* comparing them finds somebody in common or nobody, device by device;    *)
(* and compared with itself a capture has all that can be recognised.      *)
THEOREM ComparesBothWays == MergeSpec => []CompareMutual
<1>1. MInv => CompareMutual
  <2> SUFFICES ASSUME MInv, NEW c \in DOMAIN stored
               PROVE  LET a == stored[c] b == Last(stored)
                      IN  /\ (compare(a, b).intersection = 0) = (compare(b, a).intersection = 0)
                          /\ \A i \in DOMAIN a, k \in DOMAIN b :
                               (same_device(a[i], b[k]) = {}) = (same_device(b[k], a[i]) = {})
                          /\ compare(a, a).intersection =
                               Cardinality({i \in DOMAIN a : Stable(a[i]) \/ (a[i].type # "Ap" /\ a[i].ssids # << >>)})
    BY DEF CompareMutual
  <2> DEFINE a == stored[c]
             b == Last(stored)
  <2>1. Len(stored) \in DOMAIN stored
    BY LenProperties DEF MInv
  <2>2. /\ a \in Seq(GoodRecord) /\ \A i \in DOMAIN a : a[i] \in GoodRecord
        /\ b \in Seq(GoodRecord) /\ \A i \in DOMAIN b : b[i] \in GoodRecord
    BY <2>1, StoredIsCapture DEF MInv, Last
  <2> HIDE DEF a, b
  <2>3. \A i \in DOMAIN a, k \in DOMAIN b :
          (same_device(a[i], b[k]) = {}) <=> (same_device(b[k], a[i]) = {})
    BY <2>2, SameDeviceMutual
  <2>4. matched(a, b) = {} <=> \A i \in DOMAIN a, k \in DOMAIN b : same_device(a[i], b[k]) = {}
    BY <2>2, FindFinds DEF matched
  <2>5. matched(b, a) = {} <=> \A k \in DOMAIN b, i \in DOMAIN a : same_device(b[k], a[i]) = {}
    BY <2>2, FindFinds DEF matched
  <2>6. (compare(a, b).intersection = 0) = (compare(b, a).intersection = 0)
    <3>1. compare(a, b).intersection = 0 <=> matched(a, b) = {}
      BY <2>2, CountsMatches
    <3>2. compare(b, a).intersection = 0 <=> matched(b, a) = {}
      BY <2>2, CountsMatches
    <3> QED  BY <2>3, <2>4, <2>5, <3>1, <3>2
  <2>7. matched(a, a)
          = {i \in DOMAIN a : Stable(a[i]) \/ (a[i].type # "Ap" /\ a[i].ssids # << >>)}
    <3>1. \A i \in DOMAIN a : compare_find(a, a[i]) # {} <=>
            Stable(a[i]) \/ (a[i].type # "Ap" /\ a[i].ssids # << >>)
      <4> SUFFICES ASSUME NEW i \in DOMAIN a
                   PROVE  compare_find(a, a[i]) # {} <=>
                            Stable(a[i]) \/ (a[i].type # "Ap" /\ a[i].ssids # << >>)
        OBVIOUS
      <4>1. compare_find(a, a[i]) # {} <=> \E k \in DOMAIN a : same_device(a[i], a[k]) # {}
        BY <2>2, FindFinds
      <4>2. \A k \in DOMAIN a : same_device(a[i], a[k]) # {} =>
              Stable(a[i]) \/ (a[i].type # "Ap" /\ a[i].ssids # << >>)
        BY <2>2, SameDeviceMutual
      <4>3. same_device(a[i], a[i]) = {} <=>
              ~(Stable(a[i]) \/ (a[i].type # "Ap" /\ a[i].ssids # << >>))
        BY <2>2, SameDeviceMutual
      <4> QED  BY <4>1, <4>2, <4>3
    <3> QED  BY <3>1 DEF matched
  <2>8. compare(a, a).intersection =
          Cardinality({i \in DOMAIN a : Stable(a[i]) \/ (a[i].type # "Ap" /\ a[i].ssids # << >>)})
    BY <2>2, <2>7, CountsMatches
  <2>9. \A i \in DOMAIN a, k \in DOMAIN b :
          (same_device(a[i], b[k]) = {}) = (same_device(b[k], a[i]) = {})
    BY <2>3
  <2> QED  BY <2>6, <2>8, <2>9 DEF a, b
<1> QED  BY <1>1, MergeInvariance, PTL
=============================================================================
