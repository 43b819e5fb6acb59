------------------------------ MODULE WcKnown -------------------------------
(***************************************************************************)
(* The registry of known devices (wc_known.c, wc_known_service.c) and the  *)
(* screens that edit it (wc_scene_known.c, and the device detail and the   *)
(* networks of wc_scene_browse.c, which lead to the label screen).         *)
(*                                                                         *)
(* Every edit loads the file, changes the list, and rewrites the file in   *)
(* place; the screen loads it again.  An edit is a step for each of these  *)
(* (job), and the power may go while the file is written.  A rule is       *)
(* <<type, key, label>>.                                                   *)
(***************************************************************************)
EXTENDS WcCard, FiniteSets, SequencesExt

CONSTANTS
  KnownMax,    \* WC_KNOWN_MAX
  Devices,     \* devices of a capture: [random, mac, ssids], the names in order
  Networks,    \* networks of a capture
  Labels,      \* labels the user gives
  Registries   \* contents of the file the app may find, << >> for none

(* What a file holds are numbers; so are the addresses, the names and the  *)
(* labels that go into it.                                                 *)
Cell == Nat \X Nat \X Nat

ASSUME KnownAssumption ==
  /\ KnownMax \in Nat
  /\ Devices \subseteq [random : BOOLEAN, mac : Nat, ssids : Seq(Nat)]
  /\ Networks \subseteq Nat /\ Labels \subseteq Nat
  /\ Registries \subseteq Seq(Cell)

VARIABLES
  stack,     \* the scene manager's stack of screens; the last one is shown
  known,     \* app->known
  chosen,    \* app->mark_mode, and what the label is for
  row,       \* app->selected_known
  told,      \* the message, on the message screen
  job,       \* the edit under way
  original,  \* history: the file the app found
  wanted,    \* history: the rules the user has been told of
  why,       \* history: what kept the last edit from being made
  hurt       \* history: how the file failed while it was edited

screenVars == <<stack, chosen, row, told>>
history == <<original, wanted, why, hurt>>
vars == <<card, faults, screenVars, known, job, history>>

Registry == "known.db"
Nothing == <<"", 0>>
NoMessage == ""
Shows(scene) == job.step = "Idle" /\ Last(stack) = scene

-----------------------------------------------------------------------------
(* wc_known.c.                                                             *)

ByMac == 1
BySsid == 2
Magic == <<0, 0, 0>>

write(db) == <<Magic, <<0, Len(db), 0>> >> \o db

(* wc_known_read: the count must account for the file.                     *)
Readable(cells) ==
  /\ Len(cells) >= 2 /\ cells[1] = Magic
  /\ cells[2][2] <= KnownMax
  /\ Len(cells) = 2 + cells[2][2]
read(cells) == SubSeq(cells, 3, Len(cells))

\* Mutant: the address is always the key.
rule_from_signature_mac(d, label) ==
  IF ~d.random \/ d.ssids # << >> THEN {<<ByMac, d.mac, label>>} ELSE {}

(* wc_known_rule_from_signature: a stable address, or a network that a     *)
(* randomized device names; {} when there is nothing durable.              *)
rule_from_signature(d, label) ==
  IF ~d.random THEN {<<ByMac, d.mac, label>>}
  ELSE IF d.ssids # << >> THEN {<<BySsid, d.ssids[1], label>>} ELSE {}

rule_ssid(ssid, label) == {<<BySsid, ssid, label>>}

(* wc_known_match: the rules that recognise a device; the first counts.    *)
match(db, d) ==
  {i \in 1 .. Len(db) : \/ db[i][1] = ByMac /\ ~d.random /\ db[i][2] = d.mac
                        \/ db[i][1] = BySsid /\ db[i][2] \in ToSet(d.ssids)}

remove(db, i) == RemoveAt(db, i)

-----------------------------------------------------------------------------
(* wc_known_service.c.                                                     *)

NotRead == [ok |-> FALSE, db |-> << >>]
NeverSaved == [ok |-> TRUE, db |-> << >>]

\* Mutant: what cannot be read was never saved.
load_blank ==
  LET cells == read_file(Registry, KnownMax + 2)
  IN  IF Readable(cells) THEN [ok |-> TRUE, db |-> read(cells)] ELSE NeverSaved

(* A file without a byte was never saved; any other must be readable.      *)
load ==
  LET cells == read_file(Registry, KnownMax + 2)
  IN  IF file_size(Registry) = 0 THEN NeverSaved
      ELSE IF Readable(cells) THEN [ok |-> TRUE, db |-> read(cells)]
      ELSE NotRead

(* A load that fails: no memory, or a short read; or the file could not be *)
(* opened to ask for its size, which reads as 0.                           *)
LoadFails == {NotRead, NeverSaved}

(* The rules after the edit, {} when it cannot be made.                    *)
Added(db, rules) == IF Len(db) < KnownMax THEN {Append(db, r) : r \in rules} ELSE {}

Edited(db) ==
  CASE job.edit = "Ssid" -> Added(db, rule_ssid(job.of, job.label))
    [] job.edit = "Device" -> Added(db, rule_from_signature(job.of, job.label))
    [] job.edit = "Rename" ->
         IF job.of <= Len(db) THEN {[db EXCEPT ![job.of][3] = job.label]} ELSE {}
    [] job.edit = "Remove" -> IF job.of <= Len(db) THEN {remove(db, job.of)} ELSE {}

Idle == [step |-> "Idle"]
Begin(edit, of, label) ==
  job' = [step |-> "Load", edit |-> edit, of |-> of, label |-> label, db |-> << >>, ok |-> FALSE]

(* What keeps an edit from being made, once its load has returned.         *)
WhyNot(loaded) ==
  IF ~loaded.ok THEN "Unread"
  ELSE IF Edited(loaded.db) # {} THEN NoMessage
  ELSE IF job.edit \in {"Ssid", "Device"} /\ Len(loaded.db) = KnownMax THEN "Full" ELSE "NoRule"

LoadForEdit ==
  /\ job.step = "Load"
  /\ \E loaded \in {load} \cup LoadFails :
       /\ IF loaded = load
          THEN NoFault /\ UNCHANGED hurt
          ELSE Fault /\ hurt' = IF loaded.ok THEN hurt \cup {"size"} ELSE hurt
       /\ why' = WhyNot(loaded)
       /\ job' = IF loaded.ok /\ Edited(loaded.db) # {}
                 THEN [job EXCEPT !.step = "Save", !.db = CHOOSE db \in Edited(loaded.db) : TRUE]
                 ELSE [job EXCEPT !.step = "Reload"]
  /\ UNCHANGED <<card, screenVars, known, original, wanted>>

(* write_file; a card that is absent or full refuses, or leaves a part.     *)
SaveEdited ==
  /\ job.step = "Save"
  /\ \E ok \in BOOLEAN :
       /\ job' = [job EXCEPT !.step = "Reload", !.ok = ok]
       /\ why' = IF ok THEN NoMessage ELSE "Refused"
       /\ \/ /\ ok /\ write_done(Registry, write(job.db))
             /\ hurt' = IF faults' = faults THEN hurt ELSE hurt \cup {"write"}
          \/ ~ok /\ UNCHANGED <<card, hurt>> /\ Fault
          \/ /\ ~ok /\ Torn(Registry, 0, write(job.db)) /\ Fault
             /\ hurt' = hurt \cup {"write"}
  /\ UNCHANGED <<screenVars, known, original, wanted>>

(* The screens load the registry again for what they show.                 *)
LoadShown ==
  \/ known' = load.db /\ NoFault
  \/ \E loaded \in LoadFails : known' = loaded.db /\ Fault

-----------------------------------------------------------------------------
(* The screens.  Start stands for the menu and the screens of a capture up *)
(* to its detail and its networks, which WcBrowse models; what a visit     *)
(* chose is forgotten there.                                               *)

Init ==
  /\ faults = 0 /\ original \in Registries
  /\ card = [x \in IF original = << >> THEN {} ELSE {Registry} |-> original]
  /\ known = load.db
  /\ wanted = known
  /\ stack = <<"Start">> /\ chosen = Nothing /\ row = 0 /\ told = NoMessage
  /\ job = Idle /\ why = NoMessage /\ hurt = {}

Enter(st) ==
  /\ stack' = st
  /\ IF Last(st) = "Known" THEN LoadShown ELSE UNCHANGED <<known, faults>>

GoTo(from, scene) ==
  /\ Shows(from)
  /\ Enter(Append(stack, scene))
  /\ UNCHANGED <<card, chosen, row, told, job, history>>

(* Back on the last screen leaves the app, which is started again.         *)
Back ==
  /\ job.step = "Idle"
  /\ IF Len(stack) = 1 THEN UNCHANGED stack /\ LoadShown ELSE Enter(Front(stack))
  /\ told' = NoMessage
  /\ IF stack' = <<"Start">> THEN chosen' = Nothing /\ row' = 0 ELSE UNCHANGED <<chosen, row>>
  /\ UNCHANGED <<card, job, history>>

(* Detail offers to mark a device that gives a durable rule; Networks any  *)
(* network; the actions on a known rule, to rename it.                     *)
MarkFrom(from, mode, of) ==
  /\ Shows(from)
  /\ Enter(Append(stack, "MarkLabel"))
  /\ chosen' = <<mode, of>>
  /\ UNCHANGED <<card, row, told, job, history>>

MarkDevice(d) == (~d.random \/ d.ssids # << >>) /\ MarkFrom("Detail", "Device", d)
MarkNetwork(n) == MarkFrom("Networks", "Ssid", n)
RenameKnown == MarkFrom("KnownActions", "Rename", row)

PickKnown(i) ==
  /\ Shows("Known")
  /\ i \in 1 .. Len(known)
  /\ row' = i
  /\ Enter(Append(stack, "KnownActions"))
  /\ UNCHANGED <<card, chosen, told, job, history>>

LabelDone(label) ==
  /\ Shows("MarkLabel")
  /\ Begin(chosen[1], chosen[2], label)
  /\ UNCHANGED <<card, faults, screenVars, known, history>>

DeleteKnown ==
  /\ Shows("KnownActions")
  /\ Begin("Remove", row, 0)
  /\ UNCHANGED <<card, faults, screenVars, known, history>>

\* Mutant: a list that is just full is not.
IsFull_late(db) == Len(db) > KnownMax

IsFull(db) == Len(db) >= KnownMax

(* What went wrong, as far as the handler can tell.                        *)
Reason(full, undurable) ==
  IF full THEN "Full" ELSE IF undurable THEN "Undurable" ELSE "Refused"

EditEnds ==
  /\ job.step = "Reload"
  /\ LoadShown
  /\ LET undurable == job.edit = "Device" /\ rule_from_signature(job.of, job.label) = {}
     IN  IF job.ok \/ job.edit = "Remove"
         THEN stack' = Front(stack) /\ UNCHANGED told
         ELSE /\ stack' = Append(stack, "Msg")
              /\ told' = Reason(IsFull(known'), undurable)
  /\ wanted' = IF job.ok /\ Edited(wanted) # {} THEN CHOOSE db \in Edited(wanted) : TRUE
               ELSE wanted
  /\ job' = Idle
  /\ UNCHANGED <<card, chosen, row, original, why, hurt>>

(* The power goes during an edit; the app starts again.                    *)
Crash ==
  /\ job.step # "Idle"
  /\ Fault
  /\ \/ job.step # "Save" /\ UNCHANGED <<card, hurt>>
     \/ /\ job.step = "Save" /\ Torn(Registry, 0, write(job.db))
        /\ hurt' = hurt \cup {"write"}
  /\ known' = load.db'
  /\ stack' = <<"Start">> /\ chosen' = Nothing /\ row' = 0 /\ told' = NoMessage
  /\ wanted' = IF job.step = "Reload" /\ job.ok /\ Edited(wanted) # {}
               THEN CHOOSE db \in Edited(wanted) : TRUE ELSE wanted
  /\ job' = Idle
  /\ UNCHANGED <<original, why>>

Next ==
  \/ \E scene \in {"Detail", "Networks", "Known"} : GoTo("Start", scene)
  \/ Back
  \/ \E d \in Devices : MarkDevice(d)
  \/ \E n \in Networks : MarkNetwork(n)
  \/ \E i \in 1 .. KnownMax : PickKnown(i)
  \/ RenameKnown
  \/ \E label \in Labels : LabelDone(label)
  \/ DeleteKnown
  \/ LoadForEdit \/ SaveEdited \/ EditEnds
  \/ Crash

Spec == Init /\ [][Next]_vars

-----------------------------------------------------------------------------
(* Properties.                                                             *)

(* Whatever reads fail, and whatever the app found, the registry holds the *)
(* rules the user was told of, and the actions screen acts on the rule it  *)
(* names; a file that is no registry is never written over.  Excepted: a   *)
(* file torn by a write, or missed when it was asked for its size.         *)
RegistryIntact ==
  hurt = {} /\ job.step = "Idle" =>
    /\ IF original = << >> \/ Readable(original)
       THEN load = [ok |-> TRUE, db |-> wanted]
       ELSE Cells(Registry) = original
    /\ Last(stack) = "KnownActions" /\ known # << >> => known = wanted

(* A device that was marked is recognised from then on, whatever else is   *)
(* in the registry and however many names the device has.                  *)
MarkedIsKnown ==
  job.step = "Reload" /\ job.ok /\ job.edit = "Device" => match(job.db, job.of) # {}

(* The message is the reason (why): the card is blamed when it refused the *)
(* write, the list when it is full and a rule more was asked for, and the  *)
(* device never.  Excepted is what the handler cannot tell, or does not:   *)
(* a list it could not read for the edit, a full one it could not read     *)
(* again, and a rename that failed in a full one.  And a file that was     *)
(* torn by a write or missed when it was asked for its size.               *)
ReasonIsTrue ==
  told # NoMessage /\ hurt = {} =>
    /\ told = "Full" => Len(wanted) = KnownMax
    /\ \/ told = why
       \/ why = "Unread" /\ told \in {"Full", "Refused"}
       \/ why = "Full" /\ told = "Refused" /\ known = << >>
       \/ why = "Refused" /\ told = "Full" /\ chosen[1] = "Rename"

(* "the next mark then writes one rule over all of them": as long as no    *)
(* write fails, no rule is lost by reading alone.                          *)
NoneWrittenOver ==
  "write" \notin hurt /\ job.step = "Idle" /\ Readable(original) => load.db = wanted
=============================================================================
