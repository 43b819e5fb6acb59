------------------------------ MODULE WcBrowse ------------------------------
(***************************************************************************)
(* The screens over stored captures (wc_scene_browse.c,                    *)
(* wc_scene_crossing.c, wc_scene_import.c): browse, rename, delete,        *)
(* compare, merge and import, on the stack of the scene manager, over a    *)
(* card that fails and a power supply that may go.                         *)
(*                                                                         *)
(* One list, one selection and one census in memory serve all screens.     *)
(* What a list shows is kept as a set; a row is an element of it.  What a  *)
(* visit to the screens chose is forgotten on the menu (NoFile, no list):  *)
(* no screen may use what an earlier visit left behind.  The scene         *)
(* manager is external, as in WcScanScene.                                 *)
(***************************************************************************)
EXTENDS WcCaptureStore, SequencesExt, FiniteSets

CONSTANTS
  MaxNamed,    \* WC_MAX_NAMED, the names a list holds
  Imported,    \* the census of the pcap the user picks
  Cards,       \* the cards the app may find
  MaxSaves     \* bound of the model: merges and imports begun

ASSUME BrowseAssumption ==
  /\ MaxNamed \in Nat /\ MaxSaves \in Nat
  /\ Imported \in Seq(Nat)
  /\ \A found \in Cards :
       /\ DOMAIN found \subseteq Names \X {"wcen", "csv"}
       /\ \A f \in DOMAIN found : found[f] \in Seq(Nat \X Nat \X Nat)

VARIABLES
  stack,     \* the scene manager's stack of screens; the last one is shown
  listed,    \* app->list_names: files, or the networks of a capture
  selected,  \* app->selected_file
  picked,    \* app->picked, two files
  browse,    \* app->browse_census: {} for none, or {its devices}
  told,      \* app->result_text, on the screens that show it
  saves      \* how many saves have begun

screenVars == <<listed, selected, picked, browse>>
vars == <<card, faults, job, stack, screenVars, told, saves>>

Shows(scene) == job.step = "Idle" /\ Last(stack) = scene

NoFile == <<NoName, NoName>>
Nothing == [say |-> NoName, of |-> NoFile]
Says(say, f) == [say |-> say, of |-> f]

FileLists == {"Files", "CompareA", "CompareB", "MergeA", "MergeB"}
Bins == {f \in DOMAIN card : f[2] = "wcen"}

Init ==
  /\ card \in Cards /\ faults = 0
  /\ job = Idle
  /\ stack = <<"Start">>
  /\ listed = {} /\ selected = NoFile /\ picked = <<NoFile, NoFile>> /\ browse = {}
  /\ told = Nothing
  /\ saves = 0

-----------------------------------------------------------------------------
(* Entering a screen.                                                      *)

(* Only captures are listed, and no more than the list holds.  The card    *)
(* may fail to list; that is not told from a card with nothing on it.      *)
populate_files ==
  \/ /\ listed' \in SUBSET Bins
     /\ \/ listed' = Bins
        \/ Cardinality(listed') = MaxNamed
     /\ Cardinality(listed') <= MaxNamed
  \/ listed' = {}

(* Networks fills the same list with names of networks: here, with what    *)
(* is in no file's place.                                                  *)
networks == {<<NoName, "ssid">>}

Show(st, message) ==
  /\ stack' = st
  /\ told' = message
  /\ \/ Last(st) \in FileLists /\ populate_files
     \/ Last(st) = "Networks" /\ listed' = networks
     \/ Last(st) = "Start" /\ listed' = {}
     \/ Last(st) \notin FileLists \cup {"Networks", "Start"} /\ UNCHANGED listed

Next_scene(scene, message) == Show(Append(stack, scene), message)

(* What is chosen lasts until the menu; Files frees the census.            *)
KeepChoices ==
  /\ browse' = IF Last(stack') = "Files" THEN {} ELSE browse
  /\ IF Last(stack') = "Start"
     THEN selected' = NoFile /\ picked' = <<NoFile, NoFile>>
     ELSE UNCHANGED <<selected, picked>>

Visit(st, message) == Show(st, message) /\ KeepChoices
OnScreen == UNCHANGED <<card, faults, job, saves>>

Choose(scene) ==
  /\ Shows("Start")
  /\ Visit(Append(stack, scene), Nothing)
  /\ OnScreen

(* Screens that do nothing of their own with Back are popped; the result   *)
(* of a merge leads to the menu, and Back on the last screen out of the    *)
(* app, which frees everything and is started again.                       *)
Back ==
  /\ job.step = "Idle"
  /\ IF Last(stack) = "MergeResult" \/ Len(stack) = 1
     THEN Visit(<<"Start">>, Nothing)
     ELSE Visit(Front(stack), Nothing)
  /\ OnScreen

-----------------------------------------------------------------------------
(* Files, and the actions on one.                                          *)

FilesPick(f) ==
  /\ Shows("Files")
  /\ f \in listed
  /\ selected' = f
  /\ Next_scene("FileActions", Nothing)
  /\ UNCHANGED <<picked, browse>> /\ OnScreen

(* wc_explain_load_failure, wc_explain_which_failed.                       *)
Explain(f) == Says(IF device_count(f) > MaxDevices THEN "TooBig" ELSE "CannotRead", f)

\* Mutant: the first is to blame when it is not small.
ExplainWhich_small(f, g) == Explain(IF device_count(f) <= MaxDevices THEN g ELSE f)

ExplainWhich(f, g) == Explain(IF Loads(f, MaxDevices) THEN g ELSE f)

(* The loader frees what it could not fill.                                *)
NotLoaded ==
  \/ ~Loads(selected, MaxDevices) /\ NoFault /\ browse' = {<< >>}
  \/ Fault /\ (browse' = {<< >>} \/ (browse = {} /\ UNCHANGED browse))

Loaded ==
  /\ Loads(selected, MaxDevices) /\ NoFault
  /\ browse' = {stream(selected)}

\* Mutant: the screen comes up whether or not the capture could be loaded.
OpenCapture_anyway(scene, message) ==
  /\ Shows("FileActions")
  /\ Loaded \/ NotLoaded
  /\ Next_scene(scene, message)
  /\ UNCHANGED <<selected, picked, card, job, saves>>

(* ensure_browse_loaded: the capture is read anew for each screen.         *)
OpenCapture(scene, message) ==
  /\ Shows("FileActions")
  /\ \/ Loaded /\ Next_scene(scene, message)
     \/ NotLoaded /\ Next_scene("Msg", Explain(selected))
  /\ UNCHANGED <<selected, picked, card, job, saves>>

ShowSummary == OpenCapture("Msg", Says("Summary", selected))
ShowDevices == OpenCapture("Devices", Nothing)
ShowNetworks == OpenCapture("Networks", Nothing)

Refused(message) ==
  /\ Next_scene("Msg", message)
  /\ UNCHANGED <<card, job, screenVars, saves>> /\ Fault

(* Delete: the capture, then its sidecar, whose loss is no error.          *)
DeleteBin ==
  /\ Shows("FileActions")
  /\ \/ /\ selected \in DOMAIN card /\ delete_file(selected) /\ NoFault
        /\ job' = [Idle EXCEPT !.step = "DeleteCsv"]
        /\ UNCHANGED <<stack, told, screenVars, saves>>
     \/ Refused(Says("NotDeleted", selected))

DeleteCsv ==
  /\ job.step = "DeleteCsv"
  /\ LET csv == Csv(selected[1])
     IN  \/ csv \in DOMAIN card /\ delete_file(csv) /\ NoFault
         \/ csv \notin DOMAIN card /\ UNCHANGED <<card, faults>>
         \/ csv \in DOMAIN card /\ UNCHANGED card /\ Fault
  /\ job' = Idle
  /\ Visit(Front(stack), Nothing)
  /\ UNCHANGED saves

(* Rename: a name that is taken is refused by the card.                    *)
RenameBin(n) ==
  /\ Shows("Rename")
  /\ \/ /\ Renamable(selected, Bin(n)) /\ rename_file(selected, Bin(n)) /\ NoFault
        /\ job' = [Idle EXCEPT !.step = "RenameCsv", !.name = n]
        /\ UNCHANGED <<stack, told, screenVars, saves>>
     \/ /\ ~Renamable(selected, Bin(n)) /\ NoFault
        /\ Next_scene("Msg", Says("NotRenamed", selected))
        /\ UNCHANGED <<card, job, screenVars, saves>>
     \/ Refused(Says("NotRenamed", selected))

\* Mutant: back to the screen before, over a file of another name now.
RenameCsv_back ==
  /\ job.step = "RenameCsv"
  /\ LET csv == Csv(selected[1])
     IN  \/ Renamable(csv, Csv(job.name)) /\ rename_file(csv, Csv(job.name)) /\ NoFault
         \/ ~Renamable(csv, Csv(job.name)) /\ UNCHANGED <<card, faults>>
         \/ Renamable(csv, Csv(job.name)) /\ UNCHANGED card /\ Fault
  /\ job' = Idle
  /\ Visit(Front(stack), Nothing)
  /\ UNCHANGED saves

\* Mutant: the sidecar keeps its name.
RenameCsv_forgotten ==
  /\ job.step = "RenameCsv"
  /\ job' = Idle
  /\ Visit(<<"Files">>, Nothing)
  /\ UNCHANGED <<card, faults, saves>>

RenameCsv ==
  /\ job.step = "RenameCsv"
  /\ LET csv == Csv(selected[1])
     IN  \/ Renamable(csv, Csv(job.name)) /\ rename_file(csv, Csv(job.name)) /\ NoFault
         \/ ~Renamable(csv, Csv(job.name)) /\ UNCHANGED <<card, faults>>
         \/ Renamable(csv, Csv(job.name)) /\ UNCHANGED card /\ Fault
  /\ job' = Idle
  /\ Visit(<<"Files">>, Nothing)
  /\ UNCHANGED saves

-----------------------------------------------------------------------------
(* Compare and merge: two files are picked.                                *)

(* pick_capture                                                            *)
Pick(screen, slot, next) ==
  /\ Shows(screen)
  /\ \E f \in listed : picked' = [picked EXCEPT ![slot] = f]
  /\ Next_scene(next, Nothing)
  /\ UNCHANGED <<selected, browse>> /\ OnScreen

BothLoad == \A slot \in 1 .. 2 : Loads(picked[slot], MaxDevices)

(* No memory for the result is a message; a capture that does not load is  *)
(* explained where the result would be.                                    *)
PickSecond ==
  /\ Shows("CompareB")
  /\ \E f \in listed : picked' = [picked EXCEPT ![2] = f]
  /\ LET both == \A g \in {picked'[1], picked'[2]} : Loads(g, MaxDevices)
     IN  \/ both /\ NoFault /\ Next_scene("CompareResult", Says("Compared", NoFile))
         \/ /\ ~both /\ NoFault
            /\ Next_scene("CompareResult", ExplainWhich(picked'[1], picked'[2]))
         \/ Fault /\ Next_scene("CompareResult", ExplainWhich(picked'[1], picked'[2]))
         \/ Fault /\ Next_scene("Msg", Says("NoMemory", NoFile))
  /\ UNCHANGED <<selected, browse, card, job, saves>>

(* wc_census_merge_one of each device: those of the one, then the others   *)
(* of the other as far as there is room, in an order that nothing here     *)
(* tells apart; how two are found to be one is the subject of WcMerge.     *)
Merges(a, b) ==
  LET others == ToSet(b) \ ToSet(a)
      all == Len(a) + Cardinality(others)
  IN  {m \in UNION {[1 .. n -> ToSet(a) \cup others] : n \in 0 .. MaxDevices} :
         /\ Len(m) = IF all < MaxDevices THEN all ELSE MaxDevices
         /\ \A i \in 1 .. Len(m) :
              IF i <= Len(a) THEN m[i] = a[i]
              ELSE m[i] \in others /\ \A j \in Len(a) + 1 .. i - 1 : m[j] # m[i]}

(* wc_merge_service_run, up to its save, under any name.                   *)
MergeRun(n) ==
  /\ Shows("MergeName")
  /\ saves < MaxSaves
  /\ \/ /\ BothLoad /\ NoFault
        /\ \E merged \in Merges(stream(picked[1]), stream(picked[2])) :
             job' = Saving(n, merged, "Merge")
        /\ saves' = saves + 1
        /\ UNCHANGED <<stack, told, screenVars>>
     \/ /\ (~BothLoad /\ NoFault) \/ Fault
        /\ Next_scene("MergeResult", ExplainWhich(picked[1], picked[2]))
        /\ UNCHANGED <<job, saves, screenVars>>
  /\ UNCHANGED card

MergeEnds ==
  /\ job.then = "Merge"
  /\ \/ job.step = "Saved" /\ Next_scene("MergeResult", Says("Merged", Bin(job.name)))
     \/ job.step = "Failed" /\ Next_scene("MergeResult", ExplainWhich(picked[1], picked[2]))
  /\ job' = Idle
  /\ UNCHANGED <<card, faults, screenVars, saves>>

-----------------------------------------------------------------------------
(* Import: the file browser, then a name.                                  *)

ImportBrowse ==
  /\ Shows("ImportPick")
  /\ Visit(Append(stack, "ImportName"), Nothing) \/ Visit(Front(stack), Nothing)
  /\ OnScreen

(* wc_import_service_run: the file may be no pcap, or hold more devices    *)
(* than fit.                                                               *)
ImportRun(n) ==
  /\ Shows("ImportName")
  /\ saves < MaxSaves
  /\ \/ /\ \E then \in {"Import", "ImportDropped"} : job' = Saving(n, Imported, then)
        /\ saves' = saves + 1
        /\ UNCHANGED <<stack, told, screenVars>>
     \/ Next_scene("Msg", Says("NotImported", NoFile)) /\ UNCHANGED <<job, screenVars, saves>>
  /\ UNCHANGED <<card, faults>>

ImportEnds ==
  /\ job.then # "Merge"
  /\ \/ job.step = "Saved" /\ job.then = "Import" /\ Visit(<<"Start">>, Nothing)
     \/ job.step = "Saved" /\ job.then = "ImportDropped"
        /\ Visit(Append(stack, "Msg"), Says("DidNotFit", Bin(job.name)))
     \/ job.step = "Failed" /\ Visit(Append(stack, "Msg"), Says("NotImported", NoFile))
  /\ job' = Idle
  /\ UNCHANGED <<card, faults, saves>>

-----------------------------------------------------------------------------
(* The power goes in the middle of a handler; the app starts again.        *)
Crash ==
  /\ job.step # "Idle"
  /\ CutShort
  /\ job' = Idle
  /\ stack' = <<"Start">> /\ told' = Nothing /\ listed' = {} /\ browse' = {}
  /\ selected' = NoFile /\ picked' = <<NoFile, NoFile>>
  /\ UNCHANGED saves

SaveStep == Save /\ UNCHANGED <<stack, screenVars, told, saves>>

Next ==
  \/ \E scene \in {"Files", "CompareA", "MergeA", "ImportPick"} : Choose(scene)
  \/ Back
  \/ \E f \in listed : FilesPick(f)
  \/ ShowSummary \/ ShowDevices \/ ShowNetworks
  \/ DeleteBin \/ DeleteCsv
  \/ Shows("FileActions") /\ Visit(Append(stack, "Rename"), Nothing) /\ OnScreen
  \/ \E n \in Names : RenameBin(n)
  \/ RenameCsv
  \/ Pick("CompareA", 1, "CompareB")
  \/ PickSecond
  \/ Pick("MergeA", 1, "MergeB")
  \/ Pick("MergeB", 2, "MergeName")
  \/ \E n \in Names : MergeRun(n)
  \/ MergeEnds
  \/ ImportBrowse
  \/ \E n \in Names : ImportRun(n)
  \/ ImportEnds
  \/ SaveStep
  \/ Crash

Spec == Init /\ [][Next]_vars

-----------------------------------------------------------------------------
(* Properties.                                                             *)

On(scene) == scene \in ToSet(stack)

(* A screen that acts on a file acts on one that is on the card: nothing   *)
(* before it deletes or renames the file under it, and no list offers what *)
(* another screen left in it.                                              *)
SelectedOnCard ==
  /\ On("FileActions") /\ job.step \notin {"DeleteCsv", "RenameCsv"} => selected \in Bins
  /\ On("CompareB") \/ On("MergeB") => picked[1] \in Bins
  /\ On("MergeName") => picked[2] \in Bins

(* What the summary, the devices and the networks show is what the capture *)
(* selected holds, also after a read that failed: never another capture,   *)
(* and never an empty one in its place.                                    *)
ShownIsStored ==
  Last(stack) \in {"Devices", "Networks"} \/ told.say = "Summary" =>
    Loads(selected, MaxDevices) /\ browse = {stream(selected)}

(* "Of two captures, explain the one that actually refused", and a file    *)
(* said to be too big is a whole one: as long as the card fails at         *)
(* nothing, the file a message names is the one that would not open.       *)
BlameIsTrue ==
  faults = 0 =>
    /\ told.say \in {"CannotRead", "TooBig"} => ~Loads(told.of, MaxDevices)
    /\ told.say = "TooBig" => Loads(told.of, file_size(told.of))

Sidecar(devices) ==
  [i \in 1 .. Len(devices) + 1 |-> IF i = 1 THEN csv_header[1] ELSE csv_row(devices[i - 1])[1]]

(* A capture and the sidecar of the same name hold the same devices, and   *)
(* no sidecar is left alone, unless a call failed or was cut short.        *)
SidecarsMatch ==
  faults = 0 /\ job.step = "Idle" =>
    \A n \in Names : Csv(n) \in DOMAIN card =>
      Bin(n) \in DOMAIN card /\ card[Csv(n)] = Sidecar(stream(Bin(n)))

Whole(n) == IF Loads(Bin(n), file_size(Bin(n))) THEN {stream(Bin(n))} ELSE {}
Shelf == INSTANCE WcShelf WITH
  Captures <- Seq(Nat),
  shelf <- [n \in Names |-> Whole(n)],
  saving <- IF job.step \in {"Open", "Write", "Saved", "Failed"}
            THEN <<job.name, job.devices>> ELSE << >>

(* Whatever fails or is cut short, what opens under a name is a whole      *)
(* capture as it was saved, and only a save, a rename or a delete changes  *)
(* it: a torn file never opens, and never mixes two captures.              *)
ImplementsShelf == Shelf!Spec
=============================================================================
