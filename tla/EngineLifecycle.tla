---------------------------- MODULE EngineLifecycle ----------------------------
(***************************************************************************)
(* The transition table of src/session/engine_lifecycle.cpp: what an event *)
(* makes of a lifecycle state, and the error it is answered with.  An      *)
(* illegal event leaves the state alone.                                   *)
(***************************************************************************)

LifecycleStates ==
  {"Created", "Configured", "Ready", "Running", "Suspended", "Stopped", "ShutDown"}

NotRunning == {"Created", "Configured", "Ready", "Stopped"}

Started == {"Running", "Suspended"}

Edges ==
  [Configure |-> [from |-> NotRunning,    to |-> "Configured"],
   LoadStyle |-> [from |-> NotRunning,    to |-> "Ready"],
   Start     |-> [from |-> NotRunning,    to |-> "Running"],
   Suspend   |-> [from |-> {"Running"},   to |-> "Suspended"],
   Resume    |-> [from |-> {"Suspended"}, to |-> "Running"],
   Stop      |-> [from |-> Started,       to |-> "Stopped"],
   Shutdown  |-> [from |-> LifecycleStates \ {"ShutDown"}, to |-> "ShutDown"]]

\* Panic is legal in every state but the last and moves nothing.
Legal(s, ev) == s # "ShutDown" /\ (ev = "Panic" \/ s \in Edges[ev].from)

Applied(s, ev) == IF ev # "Panic" /\ Legal(s, ev) THEN Edges[ev].to ELSE s

ErrorOf(s, ev) ==
  IF Legal(s, ev) THEN "Ok"
  ELSE IF s \in NotRunning /\ ev \in {"Suspend", "Resume", "Stop"} THEN "NotStarted"
  ELSE IF s \in Started /\ ev = "Start" THEN "AlreadyStarted"
  ELSE "InvalidState"
=============================================================================
