------------------------------ MODULE WcShelf -------------------------------
(***************************************************************************)
(* What the capture files promise: under each name there is a whole        *)
(* capture or none.  A save takes the name's capture away first and, if    *)
(* nothing fails, puts exactly the new one there; between saves a capture  *)
(* only moves to a free name or is dropped.                                *)
(***************************************************************************)
EXTENDS Sequences

CONSTANTS Names, Captures

VARIABLES
  shelf,   \* the captures that open: name |-> {capture}, or {}
  saving   \* << >>, or <<name, capture>> while it is being saved

Init ==
  /\ shelf \in [Names -> SUBSET Captures]
  /\ \A n \in Names : \A a, b \in shelf[n] : a = b
  /\ saving = << >>

(* Everything else the screens do.                                         *)
Rest == UNCHANGED <<saving, shelf>>

Begin ==
  /\ saving = << >>
  /\ saving' \in Names \X Captures
  /\ UNCHANGED shelf

(* The old one goes, also when the new one never comes.                    *)
Void ==
  /\ saving # << >>
  /\ shelf' = [shelf EXCEPT ![saving[1]] = {}]
  /\ saving' \in {saving, << >>}

Put ==
  /\ saving # << >>
  /\ shelf[saving[1]] = {}
  /\ shelf' = [shelf EXCEPT ![saving[1]] = {saving[2]}]
  /\ UNCHANGED saving

End ==
  /\ saving # << >>
  /\ saving' = << >>
  /\ UNCHANGED shelf

Drop(n) ==
  /\ saving = << >> /\ shelf[n] # {}
  /\ shelf' = [shelf EXCEPT ![n] = {}]
  /\ UNCHANGED saving

Move(n, m) ==
  /\ saving = << >> /\ shelf[n] # {} /\ shelf[m] = {}
  /\ shelf' = [shelf EXCEPT ![m] = shelf[n], ![n] = {}]
  /\ UNCHANGED saving

Next ==
  \/ Rest
  \/ Begin \/ Void \/ Put \/ End
  \/ \E n \in Names : Drop(n)
  \/ \E n, m \in Names : n # m /\ Move(n, m)

Spec == Init /\ [][Next]_<<shelf, saving>>
=============================================================================
