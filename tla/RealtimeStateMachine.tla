------------------------ MODULE RealtimeStateMachine ------------------------
(***************************************************************************)
(* RealtimeStateMachine (src/engine/performance/realtime_state_machine.cpp)*)
(* is a table: After(s, input) is the state that follows s; an input that  *)
(* is not valid in s changes nothing.  The adapter has two machines, its   *)
(* own and SyncController's, and feeds each by hand.                       *)
(***************************************************************************)

PerformerStates == {"Idle", "Armed", "Playing", "PendingTransition", "Stopping"}

Moves(s, input, moves) == <<s, input>> \in moves

ToIdle == {<<"Armed", "Stop">>, <<"Stopping", "Stopped">>}

ToPlaying ==
  {<<"Idle", "Start">>, <<"Armed", "Start">>, <<"Armed", "ChordDetected">>,
   <<"PendingTransition", "TransitionResolved">>}

\* Mutated: Stop is missing from the row of Playing.
OnlyPendingStops == {<<"PendingTransition", "Stop">>}

ToStopping == {<<"Playing", "Stop">>, <<"PendingTransition", "Stop">>}

After(s, input) ==
  IF input \in {"Panic", "Reset"} \/ Moves(s, input, ToIdle) THEN "Idle"
  ELSE IF Moves(s, input, {<<"Idle", "Arm">>}) THEN "Armed"
  ELSE IF Moves(s, input, ToPlaying) THEN "Playing"
  ELSE IF Moves(s, input, {<<"Playing", "QueueTransition">>}) THEN "PendingTransition"
  ELSE IF Moves(s, input, ToStopping) THEN "Stopping"
  ELSE s
=============================================================================
