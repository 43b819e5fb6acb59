------------------------------ MODULE WcCompare ------------------------------
(***************************************************************************)
(* Comparing two stored captures (wc_compare.c): which devices of the one  *)
(* are in the other.  It goes by a rule of its own, not by the census's:   *)
(* an address crosses only when it is stable, a name also when several     *)
(* devices seek it.                                                        *)
(***************************************************************************)
EXTENDS WcMerge

ByMac == "WcMatchByMac"
BySsid == "WcMatchBySsid"

SharedNames(x, y) == {k \in DOMAIN x.ssids : has_ssid(y, x.ssids[k])}
SameMac(x, y) == ~x.mac_random /\ ~y.mac_random /\ x.mac = y.mac

\* Mutant: the device looked for must be the randomized one.
same_device_ours(x, y) ==
  IF SameMac(x, y) THEN {<<ByMac, NoName>>}
  ELSE IF x.mac_random /\ {x.type, y.type} \cap {"Ap"} = {} /\ SharedNames(x, y) # {}
  THEN {<<BySsid, x.ssids[Min(SharedNames(x, y))]>>}
  ELSE {}

(* Why two records are one device, and by which name; {} when not.         *)
same_device(x, y) ==
  IF SameMac(x, y) THEN {<<ByMac, NoName>>}
  ELSE IF /\ x.mac_random \/ y.mac_random
          /\ {x.type, y.type} \cap {"Ap"} = {}
          /\ SharedNames(x, y) # {}
  THEN {<<BySsid, x.ssids[Min(SharedNames(x, y))]>>}
  ELSE {}

(* wc_compare_find: the first record of devs that is the same device.      *)
compare_find(devs, sig) ==
  {i \in DOMAIN devs : /\ same_device(sig, devs[i]) # {}
                       /\ \A j \in 1 .. i - 1 : same_device(sig, devs[j]) = {}}

matched(a, b) == {i \in DOMAIN a : compare_find(b, a[i]) # {}}

count_random(devs) == Cardinality({i \in DOMAIN devs : devs[i].mac_random})

(* wc_compare; the list of matches is cut at its limit, the count is not.  *)
compare(a, b) ==
  [na |-> Len(a), nb |-> Len(b), intersection |-> Cardinality(matched(a, b)),
   random_a |-> count_random(a), random_b |-> count_random(b),
   matches |-> [i \in matched(a, b) |->
                  UNION {same_device(a[i], b[k]) : k \in compare_find(b, a[i])}]]

-----------------------------------------------------------------------------
(* Which capture is picked first does not decide who is found: a device of *)
(* one is in the other exactly when somebody there is found in the first.  *)
(* And compared with itself a capture has every device in common that is   *)
(* not "not crossable": a stable address, or a client that names a network.*)
CompareMutual ==
  devices = << >> /\ ~Merging =>
  \A c \in DOMAIN stored :
    LET a == stored[c] b == Last(stored)
    IN  /\ (compare(a, b).intersection = 0) = (compare(b, a).intersection = 0)
        /\ \A i \in DOMAIN a, k \in DOMAIN b :
             (same_device(a[i], b[k]) = {}) = (same_device(b[k], a[i]) = {})
        /\ compare(a, a).intersection =
             Cardinality({i \in DOMAIN a : Stable(a[i]) \/ (a[i].type # "Ap" /\ a[i].ssids # << >>)})
=============================================================================
