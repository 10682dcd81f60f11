--------------------------- MODULE DesktopSession ----------------------------
(***************************************************************************)
(* One launch of the desktop app after the other: the session it plays and *)
(* saves, and the output device it remembers, whose name is part of what   *)
(* it saves.  EngineDriver::start() (apps/macos/Source/EngineDriver.h)     *)
(* boots the session, initializes the provider, which takes the first      *)
(* device and starts its thread, and refreshes the manager, which has no   *)
(* name yet and deselects it; the thread may have begun to look for that   *)
(* first device by then.                                                   *)
(*                                                                         *)
(* No host calls save() and load() yet; here they are called when the      *)
(* performer likes and at every launch.                                    *)
(***************************************************************************)
EXTENDS SessionStore, OutputManager

FirstDevice == IF present = <<>> THEN NoName ELSE present[1]

AppStart ==
  /\ live' = NoName /\ wanted' = NoName
  /\ \/ search' = "idle" /\ sought' = NoName
     \/ search' = "scan" /\ sought' = FirstDevice
  /\ overtaken' = (search' # "idle") /\ undone' = FALSE
  /\ devices' = present
  /\ selectedName' = NoName /\ selectedIndex' = -1
  /\ status' = "NoDevice"
  /\ upToDate' = TRUE
  /\ UNCHANGED present

Init == StoreInit /\ OutInit

Next ==
  \/ StoreNext(selectedName) /\ UNCHANGED outVars
  \/ Launch /\ AppStart
  \/ up /\ OutNext /\ UNCHANGED storeVars

Spec == Init /\ [][Next]_<<storeVars, outVars>>
=============================================================================
