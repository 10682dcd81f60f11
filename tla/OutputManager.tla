---------------------------- MODULE OutputManager ----------------------------
(***************************************************************************)
(* MidiOutputManager (src/midi/midi_output_manager.cpp): the list of       *)
(* devices a user picks from, and the device it has picked, remembered by  *)
(* name.  The manager's calls are steps; between them devices come and go, *)
(* and CoreMidiOut, behind the provider, finds its device again on a       *)
(* thread of its own: it reads the name, looks for it in CoreMIDI's list,  *)
(* and then stores the endpoint, whatever was selected in the meantime.    *)
(* (Module CoreMidiOut has the single accesses.  Of the index only the     *)
(* sign is read, and no name is found without one: it is not kept here.)   *)
(***************************************************************************)
EXTENDS Integers, Sequences

CONSTANTS
  Lists,           \* the lists of names CoreMIDI may give
  NoName           \* the empty name

\* A list is a sequence, and CoreMIDI gives every device in it a name.
ASSUME ListsAssumption ==
  \A list \in Lists : /\ Len(list) \in Nat /\ DOMAIN list = 1 .. Len(list)
                       /\ \A i \in DOMAIN list : list[i] # NoName

VARIABLES
  present,         \* environment: CoreMIDI's list
  live, wanted,    \* CoreMidiOut: the endpoint's name and selected_name_
  search, sought,  \* its search: where it is, and the name it goes by
  devices,         \* devices_
  selectedName,    \* selected_name_
  selectedIndex,   \* selected_index_
  status,          \* state_
  upToDate,        \* history: devices_ was enumerated since the last change
  overtaken,       \* history: a selection was made while the search was under way
  undone           \* history: a search has undone the last selection

searchVars == <<search, sought, overtaken, undone>>
managerVars == <<devices, selectedName, selectedIndex, status, upToDate>>
outVars == <<present, live, wanted, searchVars, managerVars>>

Has(list, n) == \E i \in DOMAIN list : list[i] = n

Place(list, n) == CHOOSE i \in DOMAIN list : list[i] = n

OutInit ==
  /\ present \in Lists
  /\ live = NoName /\ wanted = NoName
  /\ search = "idle" /\ sought = NoName /\ overtaken = FALSE /\ undone = FALSE
  /\ devices = <<>>
  /\ selectedName = NoName /\ selectedIndex = -1
  /\ status = "NoDevice"
  /\ upToDate = FALSE
-----------------------------------------------------------------------------
(***************************************************************************)
(* provider_.select(): the index counts in CoreMIDI's list of now.  What   *)
(* is out of range is refused and changes nothing.                         *)
(***************************************************************************)
ProviderSelect(i) ==
  LET n == IF i = -1 THEN NoName
           ELSE IF i + 1 \in DOMAIN present THEN present[i + 1]
           ELSE live
  IN  /\ live' = n
      /\ wanted' = IF i + 1 \in DOMAIN present \/ i = -1 THEN n ELSE wanted
      /\ overtaken' = (search # "idle") /\ undone' = FALSE
      /\ UNCHANGED <<search, sought>>

Connection == IF live' = NoName THEN "Selected" ELSE "Connected"

(***************************************************************************)
(* resolve(): enumerate, find the remembered name, select it or nothing.   *)
(***************************************************************************)
\* Mutated: the place the device had is trusted.
AtSameIndex == IF selectedIndex + 1 \in DOMAIN present THEN selectedIndex ELSE -1

IndexOfName ==
  IF Has(present, selectedName) THEN Place(present, selectedName) - 1 ELSE -1

Resolve ==
  /\ devices' = present
  /\ selectedIndex' = IF selectedName = NoName THEN -1 ELSE IndexOfName
  /\ ProviderSelect(selectedIndex')
  /\ status' = IF selectedName = NoName THEN "NoDevice"
               ELSE IF selectedIndex' = -1 THEN "Disconnected"
               ELSE Connection
  /\ upToDate' = TRUE
  /\ UNCHANGED <<present, selectedName>>

(***************************************************************************)
(* refresh(), and notifyHotPlug(), which is Reconnecting for the time of a *)
(* callback and then does the same.                                        *)
(***************************************************************************)
Refresh == Resolve

(***************************************************************************)
(* selectDevice(): the panel's choice, an index into the list it shows,    *)
(* which is devices_; the provider takes it as an index into its own.      *)
(***************************************************************************)
SelectNone ==
  /\ selectedName' = NoName /\ selectedIndex' = -1
  /\ ProviderSelect(-1)
  /\ status' = "NoDevice"
  /\ UNCHANGED <<present, devices, upToDate>>

SelectDevice ==
  \E i \in DOMAIN devices :
    /\ selectedName' = devices[i] /\ selectedIndex' = i - 1
    /\ ProviderSelect(i - 1)
    /\ status' = Connection
    /\ UNCHANGED <<present, devices, upToDate>>

(***************************************************************************)
(* Devices come and go; CoreMidiOut's thread looks for the name it has, of *)
(* its own accord or because CoreMIDI told it of a change.                 *)
(***************************************************************************)
DevicesChange ==
  /\ present' \in Lists \ {present}
  /\ upToDate' = FALSE
  /\ UNCHANGED <<live, wanted, searchVars, devices, selectedName, selectedIndex, status>>

LookUp ==
  /\ search = "idle"
  /\ search' = "scan" /\ sought' = wanted /\ overtaken' = FALSE
  /\ UNCHANGED <<present, live, wanted, undone, managerVars>>

Scan ==
  /\ search = "scan"
  /\ search' = "store"
  /\ sought' = IF Has(present, sought) THEN sought ELSE NoName
  /\ UNCHANGED <<present, live, wanted, overtaken, undone, managerVars>>

StoreFound ==
  /\ search = "store"
  /\ search' = "idle" /\ sought' = NoName /\ overtaken' = FALSE
  /\ live' = sought
  /\ undone' = (undone \/ (overtaken /\ sought # live))
  /\ UNCHANGED <<present, wanted, managerVars>>

OutNext ==
  \/ Refresh \/ SelectNone \/ SelectDevice \/ DevicesChange
  \/ LookUp \/ Scan \/ StoreFound
-----------------------------------------------------------------------------
(***************************************************************************)
(* Selections made on an old list, losses, returns and searches may have   *)
(* happened: once the manager has been told of the last change, the state  *)
(* it shows is the state of the output, and the device in use is the       *)
(* remembered one (GATE_14C_HANDOFF.md:80: hot-plug reconnects to the same *)
(* device): always, and but for selections that a search begun before them *)
(* has undone.                                                             *)
(***************************************************************************)
StatusShown ==
  CASE status = "Connected"    -> live = selectedName /\ Has(present, live)
    [] status = "Disconnected" -> live = NoName /\ ~ Has(present, selectedName)
    [] status = "NoDevice"     -> live = NoName /\ selectedName = NoName
    [] OTHER                   -> FALSE

StatusIsAlwaysTrue == upToDate => StatusShown

StatusIsTrue == upToDate /\ ~ undone => StatusShown
=============================================================================
