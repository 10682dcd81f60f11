--------------------------- MODULE LiveEngineProofs ----------------------------
(***************************************************************************)
(* Theorems about LiveEngine for any hosts, devices, commands and queue    *)
(* capacity: what LiveHostDriver may rely on when it swaps or closes, and  *)
(* that the published snapshot is current.                                 *)
(***************************************************************************)
EXTENDS LiveEngine, SequenceTheorems, TLAPS

(***************************************************************************)
(* Part 0: types, of the queues and of everything else.                    *)
(***************************************************************************)
Queued == Commands \cup {"Stop", "Panic"}

Posted == Commands \cup {"Stop", "Panic", "Chord"}

QueueTypes ==
  /\ cmdQ \in Seq(Queued) /\ Len(cmdQ) <= Capacity
  /\ inQ \in Seq({"Chord"}) /\ Len(inQ) <= Capacity
  /\ adQ \in Seq(Posted) /\ Len(adQ) <= Capacity
  /\ out \in Seq({"on", "off", "silence"})

ReportTypes == telemetry \in Seq(BOOLEAN) /\ Len(telemetry) <= Capacity

Switches ==
  /\ timerOn \in BOOLEAN /\ sink \in BOOLEAN /\ started \in BOOLEAN /\ styled \in BOOLEAN
  /\ playing \in BOOLEAN /\ tracked \in BOOLEAN /\ refused \in BOOLEAN

PlainTypes ==
  /\ host \in Hosts
  /\ ui \in {"idle", "quiesce", "flush", "swap"}
  /\ task \in {"none", "close", "reload", "switch"}
  /\ tick \in {"none", "commands", "inputs", "handle", "raced", "pump"}
  /\ lifecycle \in LifecycleStates
  /\ lastError \in {"Ok", "QueueFull", "Lost"}
  /\ sync \in PerformerStates
  /\ device \in Devices \cup {None} /\ sounding \subseteq Devices

SnapType == snap \in [playing : BOOLEAN, lifecycle : LifecycleStates]

Types == QueueTypes /\ ReportTypes /\ Switches /\ PlainTypes /\ SnapType

(***************************************************************************)
(* Part 1: who may run when.  The timer is armed only between the host's   *)
(* tasks, a task belongs to a started engine, and a tick leaves the        *)
(* adapter's queue empty.                                                  *)
(***************************************************************************)
HostInvariant ==
  /\ timerOn => started /\ ui = "idle" /\ host # "bridge"
  /\ ui # "idle" => started /\ host # "bridge"
  /\ ui \in {"flush", "swap"} => host = "live"
  /\ ui = "swap" => tick = "none" /\ cmdQ = <<>>
  /\ ui = "flush" => tick \in {"commands", "inputs", "handle", "pump"}
  /\ ui = "flush" /\ tick # "commands" => cmdQ = <<>>
  /\ host # "bridge" /\ ~started => tick = "none" /\ ~playing
  /\ tick \in {"none", "pump"} => adQ = <<>>
  /\ tick = "raced" => host = "korg"
  /\ tick \in {"commands", "inputs"} => host # "korg"
  /\ host = "korg" => adQ = <<>> /\ (ui # "idle" => ~playing)

(***************************************************************************)
(* Part 2: the notes of the live host, unless its own command was dropped. *)
(* They sound on the selected device only, and of what the panic handler   *)
(* does not track the last thing sent or still to be sent is an end.       *)
(***************************************************************************)
NotesInvariant ==
  host = "live" /\ ~refused =>
    /\ sounding \subseteq {device}
    /\ ~tracked => IF out = <<>> THEN sounding = {} ELSE out[Len(out)] # "on"
    /\ ~started => sounding = {}

(***************************************************************************)
(* Part 3: the tick by hand.  The task's command has room in both queues   *)
(* and is followed by chords only, which the stopped player ignores.       *)
(***************************************************************************)
IsNext(c, q) ==
  \E k \in 1 .. Len(q) : q[k] = c /\ \A j \in k + 1 .. Len(q) : q[j] = "Chord"

OnlyChords(q) == \A j \in 1 .. Len(q) : q[j] = "Chord"

Quieted == ~playing /\ ~tracked /\ sync = "Idle"

HasRoom ==
  /\ cmdQ # <<>> /\ cmdQ[Len(cmdQ)] = LastCommand
  /\ Len(adQ) + Len(cmdQ) <= Capacity

FlushInvariant ==
  /\ ui = "flush" /\ ~refused =>
       /\ tick = "commands" => HasRoom \/ (cmdQ = <<>> /\ IsNext(LastCommand, adQ))
       /\ tick = "inputs" => IsNext(LastCommand, adQ)
       /\ tick = "handle" => IsNext(LastCommand, adQ) \/ (OnlyChords(adQ) /\ Quieted)
       /\ tick = "pump" => Quieted
  /\ ui = "swap" /\ ~refused => Quieted /\ out = <<>> /\ sounding = {}

(***************************************************************************)
(* Part 4: the screen of a host that has the facade.                       *)
(***************************************************************************)
ScreenInvariant ==
  HasFacade =>
    /\ telemetry = <<>>
    /\ started => lifecycle = "Running" /\ snap.lifecycle = lifecycle
    /\ ~started => lifecycle \in NotRunning
    /\ tick = "none" => snap.playing = playing

LiveInvariant ==
  Types /\ HostInvariant /\ NotesInvariant /\ FlushInvariant /\ ScreenInvariant
-----------------------------------------------------------------------------
LEMMA AfterType == \A s \in PerformerStates : \A input : After(s, input) \in PerformerStates
  BY DEF After, PerformerStates

LEMMA Applications ==
  ASSUME NEW s \in LifecycleStates
  PROVE  /\ \A ev \in {"Start", "Stop", "LoadStyle"} : Applied(s, ev) \in LifecycleStates
         /\ s \in NotRunning => Applied(s, "Start") = "Running" /\ Applied(s, "LoadStyle") = "Ready"
         /\ s = "Running" => Applied(s, "Stop") = "Stopped"
  <1>1. /\ Edges["Start"] = [from |-> NotRunning, to |-> "Running"]
        /\ Edges["LoadStyle"] = [from |-> NotRunning, to |-> "Ready"]
        /\ Edges["Stop"] = [from |-> Started, to |-> "Stopped"]
    BY DEF Edges
  <1>2. QED
    BY <1>1 DEF Applied, Legal, LifecycleStates, NotRunning, Started

LEMMA PostedCommands ==
  /\ Queued \subseteq Posted /\ Posted = Queued \cup {"Chord"}
  /\ Posted \subseteq {"Start", "Stop", "SyncArm", "Panic", "Chord"}
  BY EngineAssumption DEF Queued, Posted

LEMMA HandledCommand ==
  ASSUME Types, HandleEvent
  PROVE  \E c \in {"Start", "Stop", "SyncArm", "Panic", "Chord"} : c = Head(adQ) /\ Handle(c)
  <1>1. adQ \in Seq(Posted) /\ adQ # <<>>
    BY DEF Types, QueueTypes, HandleEvent
  <1>2. Head(adQ) \in Posted
    BY <1>1
  <1>3. QED
    BY <1>2, PostedCommands DEF HandleEvent

LEMMA AppendBound ==
  ASSUME NEW S, NEW q \in Seq(S), Len(q) <= Capacity, ~ Full(q), NEW e \in S
  PROVE  Append(q, e) \in Seq(S) /\ Len(Append(q, e)) <= Capacity
  <1>1. Len(q) \in Nat /\ Len(q) # Capacity /\ Capacity \in Nat
    BY LenProperties, EngineAssumption DEF Full
  <1>2. Append(q, e) \in Seq(S) /\ Len(Append(q, e)) = Len(q) + 1
    BY AppendProperties
  <1>3. QED
    BY <1>1, <1>2

LEMMA TailBound ==
  ASSUME NEW S, NEW q \in Seq(S), Len(q) <= Capacity, q # <<>>
  PROVE  Tail(q) \in Seq(S) /\ Len(Tail(q)) <= Capacity /\ Head(q) \in S
  <1>1. Len(q) \in Nat /\ Capacity \in Nat
    BY LenProperties, EngineAssumption
  <1>2. Tail(q) \in Seq(S) /\ Len(Tail(q)) = Len(q) - 1 /\ Head(q) \in S
    <2>1. /\ Head(q) \in S /\ Tail(q) \in Seq(S) /\ Len(Tail(q)) = Len(q) - 1
          /\ \A i \in 1 .. Len(Tail(q)) : Tail(q)[i] = q[i + 1]
      BY HeadTailProperties
    <2>2. QED
      BY <2>1, Zenon
  <1>3. QED
    BY <1>1, <1>2

LEMMA StepPlain == Types /\ [Next]_vars => PlainTypes'
  <1> SUFFICES ASSUME Types, [Next]_vars
               PROVE  PlainTypes'
    OBVIOUS
  <1> USE DEF hostVars, queueVars, screenVars, facadeVars, engineVars, deviceVars, Types,
              PlainTypes
  <1>1. CASE UNCHANGED vars
    BY <1>1 DEF vars
  <1>2. CASE LiveStart
    BY <1>2, Applications, EngineAssumption
    DEF LiveStart, Starting, Booted, Free, Moved, Published, HasFacade
  <1>3. CASE DriverStart
    BY <1>3, Applications, EngineAssumption
    DEF DriverStart, Starting, Booted, Free, Moved, Published, HasFacade
  <1>4. CASE BridgeStart
    BY <1>4, Applications, EngineAssumption
    DEF BridgeStart, Starting, Booted, Free, Moved, Published, HasFacade
  <1>5. CASE KorgStart
    BY <1>5, Applications, EngineAssumption
    DEF KorgStart, Starting, Booted, Free, Moved, Published, HasFacade
  <1>6. CASE StartAgain
    BY <1>6 DEF StartAgain, vars
  <1>7. CASE ReadInput
    BY <1>7 DEF ReadInput, Unreported
  <1>8. CASE LoadStopped
    BY <1>8, Applications
    DEF LoadStopped, LoadMoves
  <1>9. ASSUME NEW c \in Commands, Command(c)
        PROVE  PlainTypes'
    BY <1>9 DEF Command
  <1>10. ASSUME NEW d \in Devices \cup {None}, SelectOutput(d)
        PROVE  PlainTypes'
    BY <1>10 DEF SelectOutput, Attach
  <1>11. ASSUME NEW t \in {"close", "reload", "switch"}, BeginTask(t)
        PROVE  PlainTypes'
    BY <1>11 DEF BeginTask, Free
  <1>12. ASSUME NEW c \in {"Start", "Stop", "Panic", "Chord"}, PressKey(c)
        PROVE  PlainTypes'
    BY <1>12
    DEF PressKey, Raced, PlayerCall, Silenced, Flushed
  <1>13. CASE BridgeStop
    BY <1>13, Applications, EngineAssumption
    DEF BridgeStop, Free, FacadeStopped, SessionShutdown, Silenced, Moved, Published, HasFacade
  <1>14. CASE PollTelemetry
    BY <1>14 DEF PollTelemetry
  <1>15. CASE Quit
    BY <1>15 DEF Quit, Raced
  <1>16. CASE TickBegin
    BY <1>16
    DEF TickBegin, TimerFires, BridgeTicks, PumpFires
  <1>17. CASE DrainCommand
    BY <1>17
    DEF DrainCommand, Post, Unreported
  <1>18. CASE CommandsDrained
    BY <1>18 DEF CommandsDrained
  <1>19. CASE DrainInput
    BY <1>19
    DEF DrainInput, Post, Unreported
  <1>20. CASE InputsDrained
    BY <1>20 DEF InputsDrained
  <1>21. CASE HandleEvent
    <2>1. PICK c \in {"Start", "Stop", "SyncArm", "Panic", "Chord"} : Handle(c)
      BY <1>21, HandledCommand
    <2>2. sync' \in PerformerStates
      <3>1. sync \in PerformerStates
        OBVIOUS
      <3>2. CASE c = "Start"
        BY <2>1, <3>1, <3>2, AfterType DEF Handle
      <3>3. CASE c = "Stop"
        <4>1. sync' = After(After(sync, "Stop"), "Stopped")
          BY <2>1, <3>3 DEF Handle
        <4>2. After(sync, "Stop") \in PerformerStates
          BY <3>1, AfterType
        <4>3. QED
          BY <4>1, <4>2, AfterType
      <3>4. CASE c = "SyncArm"
        BY <2>1, <3>1, <3>4, AfterType DEF Handle
      <3>5. CASE c = "Panic"
        BY <2>1, <3>5 DEF Handle, PanicHandled, PerformerStates
      <3>6. CASE c = "Chord"
        BY <2>1, <3>1, <3>6, AfterType DEF Handle, ChordHandled
      <3>7. QED
        BY <3>2, <3>3, <3>4, <3>5, <3>6
    <2>3. QED
      BY <1>21, <2>2 DEF HandleEvent
  <1>22. CASE Play
    BY <1>22 DEF Play
  <1>23. CASE Pump
    BY <1>23
    DEF Pump, Published, Delivered
  <1>24. CASE FlushTick
    BY <1>24 DEF FlushTick, Quiesced
  <1>25. CASE SwapStyle
    BY <1>25, Applications
    DEF SwapStyle, Resumed, LoadMoves
  <1>26. CASE LiveClose
    BY <1>26, Applications, EngineAssumption
    DEF LiveClose, FacadeStopped, SessionShutdown, Silenced, DevicesClosed, Moved, Published,
        HasFacade
  <1>27. CASE DriverClose
    BY <1>27, Applications, EngineAssumption
    DEF DriverClose, Quiesced, FacadeStopped, SessionShutdown, Silenced, DevicesClosed, Moved,
        Published, HasFacade
  <1>28. CASE Exit
    BY <1>28 DEF Exit, Quiesced
  <1>29. ASSUME NEW d \in Devices \cup {None}, SwapDevice(d)
        PROVE  PlainTypes'
    BY <1>29
    DEF SwapDevice, Attach, Resumed
  <1>30. QED
    BY <1>1, <1>2, <1>3, <1>4, <1>5, <1>6, <1>7, <1>8, <1>9, <1>10, <1>11, <1>12, <1>13, <1>14,
       <1>15, <1>16, <1>17, <1>18, <1>19, <1>20, <1>21, <1>22, <1>23, <1>24, <1>25, <1>26,
       <1>27, <1>28, <1>29
    DEF Next, TickStep, HostStep
LEMMA StepSwitches == Types /\ [Next]_vars => Switches'
  <1> SUFFICES ASSUME Types, [Next]_vars
               PROVE  Switches'
    OBVIOUS
  <1> USE DEF hostVars, queueVars, screenVars, facadeVars, engineVars, deviceVars, Types,
              Switches
  <1>1. CASE UNCHANGED vars
    BY <1>1 DEF vars
  <1>2. CASE LiveStart
    BY <1>2
    DEF LiveStart, Starting, Booted, Free
  <1>3. CASE DriverStart
    BY <1>3
    DEF DriverStart, Starting, Booted, Free
  <1>4. CASE BridgeStart
    BY <1>4
    DEF BridgeStart, Starting, Booted, Free
  <1>5. CASE KorgStart
    BY <1>5
    DEF KorgStart, Starting, Booted, Free
  <1>6. CASE StartAgain
    BY <1>6 DEF StartAgain, vars
  <1>7. CASE ReadInput
    BY <1>7 DEF ReadInput
  <1>8. CASE LoadStopped
    BY <1>8 DEF LoadStopped
  <1>9. ASSUME NEW c \in Commands, Command(c)
        PROVE  Switches'
    BY <1>9 DEF Command
  <1>10. ASSUME NEW d \in Devices \cup {None}, SelectOutput(d)
        PROVE  Switches'
    BY <1>10 DEF SelectOutput, Attach
  <1>11. ASSUME NEW t \in {"close", "reload", "switch"}, BeginTask(t)
        PROVE  Switches'
    BY <1>11 DEF BeginTask, Free
  <1>12. ASSUME NEW c \in {"Start", "Stop", "Panic", "Chord"}, PressKey(c)
        PROVE  Switches'
    BY <1>12
    DEF PressKey, Raced, PlayerCall, Silenced, Flushed
  <1>13. CASE BridgeStop
    BY <1>13
    DEF BridgeStop, Free, FacadeStopped, SessionShutdown, Silenced
  <1>14. CASE PollTelemetry
    BY <1>14 DEF PollTelemetry
  <1>15. CASE Quit
    BY <1>15 DEF Quit, Raced
  <1>16. CASE TickBegin
    BY <1>16
    DEF TickBegin, TimerFires, BridgeTicks, PumpFires
  <1>17. CASE DrainCommand
    BY <1>17 DEF DrainCommand, Post
  <1>18. CASE CommandsDrained
    BY <1>18 DEF CommandsDrained
  <1>19. CASE DrainInput
    BY <1>19 DEF DrainInput, Post
  <1>20. CASE InputsDrained
    BY <1>20 DEF InputsDrained
  <1>21. CASE HandleEvent
    <2>1. PICK c \in {"Start", "Stop", "SyncArm", "Panic", "Chord"} : Handle(c)
      BY <1>21, HandledCommand
    <2>2. playing' \in BOOLEAN /\ tracked' \in BOOLEAN
      <3>1. CASE c \in {"Start", "Stop", "SyncArm"}
        BY <2>1, <3>1 DEF Handle, PlayerCall, Flushed
      <3>2. CASE c = "Panic"
        BY <2>1, <3>2 DEF Handle, PanicHandled, PlayerCall, Silenced
      <3>3. CASE c = "Chord"
        BY <2>1, <3>3 DEF Handle, ChordHandled, Flushed
      <3>4. QED
        BY <3>1, <3>2, <3>3
    <2>3. QED
      BY <1>21, <2>2 DEF HandleEvent
  <1>22. CASE Play
    BY <1>22 DEF Play
  <1>23. CASE Pump
    BY <1>23 DEF Pump
  <1>24. CASE FlushTick
    BY <1>24 DEF FlushTick, Quiesced
  <1>25. CASE SwapStyle
    BY <1>25 DEF SwapStyle, Resumed
  <1>26. CASE LiveClose
    BY <1>26
    DEF LiveClose, FacadeStopped, SessionShutdown, Silenced, DevicesClosed
  <1>27. CASE DriverClose
    BY <1>27
    DEF DriverClose, Quiesced, FacadeStopped, SessionShutdown, Silenced, DevicesClosed
  <1>28. CASE Exit
    BY <1>28 DEF Exit, Quiesced
  <1>29. ASSUME NEW d \in Devices \cup {None}, SwapDevice(d)
        PROVE  Switches'
    BY <1>29
    DEF SwapDevice, Attach, Resumed
  <1>30. QED
    BY <1>1, <1>2, <1>3, <1>4, <1>5, <1>6, <1>7, <1>8, <1>9, <1>10, <1>11, <1>12, <1>13, <1>14,
       <1>15, <1>16, <1>17, <1>18, <1>19, <1>20, <1>21, <1>22, <1>23, <1>24, <1>25, <1>26,
       <1>27, <1>28, <1>29
    DEF Next, TickStep, HostStep

LEMMA PushBound ==
  ASSUME NEW S, NEW q \in Seq(S), Len(q) <= Capacity, NEW e \in S
  PROVE  LET r == IF Full(q) THEN q ELSE Append(q, e)
         IN  r \in Seq(S) /\ Len(r) <= Capacity
  <1>1. CASE Full(q)
    BY <1>1
  <1>2. CASE ~ Full(q)
    BY <1>2, AppendBound
  <1>3. QED
    BY <1>1, <1>2

LEMMA OutTypes ==
  ASSUME NEW o \in Seq({"on", "off", "silence"})
  PROVE  /\ Append(o, "on") \in Seq({"on", "off", "silence"})
         /\ Append(o, "off") \in Seq({"on", "off", "silence"})
         /\ <<"silence">> \in Seq({"on", "off", "silence"})
         /\ <<>> \in Seq({"on", "off", "silence"})
  OBVIOUS

LEMMA StepQueues == Types /\ [Next]_vars => QueueTypes'
  <1> SUFFICES ASSUME Types, [Next]_vars
               PROVE  QueueTypes'
    OBVIOUS
  <1> USE DEF hostVars, queueVars, screenVars, facadeVars, engineVars, deviceVars, Types,
              QueueTypes
  <1>1. CASE UNCHANGED vars
    BY <1>1 DEF vars
  <1>2. CASE LiveStart
    BY <1>2
    DEF LiveStart, Starting, Booted, Free
  <1>3. CASE DriverStart
    BY <1>3
    DEF DriverStart, Starting, Booted, Free
  <1>4. CASE BridgeStart
    BY <1>4
    DEF BridgeStart, Starting, Booted, Free
  <1>5. CASE KorgStart
    BY <1>5
    DEF KorgStart, Starting, Booted, Free
  <1>6. CASE StartAgain
    BY <1>6 DEF StartAgain, vars
  <1>7. CASE ReadInput
    <2>1. inQ' \in Seq({"Chord"}) /\ Len(inQ') <= Capacity
      BY <1>7, PushBound DEF ReadInput
    <2>2. QED
      BY <1>7, <2>1 DEF ReadInput
  <1>8. CASE LoadStopped
    BY <1>8 DEF LoadStopped
  <1>9. ASSUME NEW c \in Commands, Command(c)
        PROVE  QueueTypes'
    <2>1. cmdQ' \in Seq(Queued) /\ Len(cmdQ') <= Capacity
      BY <1>9, PushBound DEF Command, Queued
    <2>2. QED
      BY <1>9, <2>1 DEF Command
  <1>10. ASSUME NEW d \in Devices \cup {None}, SelectOutput(d)
        PROVE  QueueTypes'
    BY <1>10 DEF SelectOutput, Attach
  <1>11. ASSUME NEW t \in {"close", "reload", "switch"}, BeginTask(t)
        PROVE  QueueTypes'
    BY <1>11 DEF BeginTask, Free
  <1>12. ASSUME NEW c \in {"Start", "Stop", "Panic", "Chord"}, PressKey(c)
        PROVE  QueueTypes'
    BY <1>12, OutTypes
    DEF PressKey, Raced, PlayerCall, Silenced, Flushed
  <1>13. CASE BridgeStop
    BY <1>13, OutTypes
    DEF BridgeStop, Free, FacadeStopped, SessionShutdown, Silenced
  <1>14. CASE PollTelemetry
    BY <1>14 DEF PollTelemetry
  <1>15. CASE Quit
    BY <1>15, OutTypes
    DEF Quit, Raced
  <1>16. CASE TickBegin
    BY <1>16
    DEF TickBegin, TimerFires, BridgeTicks, PumpFires
  <1>17. CASE DrainCommand
    <2>1. cmdQ' \in Seq(Queued) /\ Len(cmdQ') <= Capacity /\ Head(cmdQ) \in Queued
      BY <1>17, TailBound DEF DrainCommand
    <2>2. Head(cmdQ) \in Posted
      BY <2>1, PostedCommands
    <2>3. adQ' \in Seq(Posted) /\ Len(adQ') <= Capacity
      BY <1>17, <2>2, PushBound DEF DrainCommand, Post
    <2>4. QED
      BY <1>17, <2>1, <2>3 DEF DrainCommand
  <1>18. CASE CommandsDrained
    BY <1>18 DEF CommandsDrained
  <1>19. CASE DrainInput
    <2>1. inQ' \in Seq({"Chord"}) /\ Len(inQ') <= Capacity /\ Head(inQ) \in {"Chord"}
      BY <1>19, TailBound DEF DrainInput
    <2>2. Head(inQ) \in Posted
      BY <2>1, PostedCommands
    <2>3. adQ' \in Seq(Posted) /\ Len(adQ') <= Capacity
      BY <1>19, <2>2, PushBound DEF DrainInput, Post
    <2>4. QED
      BY <1>19, <2>1, <2>3 DEF DrainInput
  <1>20. CASE InputsDrained
    BY <1>20 DEF InputsDrained
  <1>21. CASE HandleEvent
    <2>1. PICK c \in {"Start", "Stop", "SyncArm", "Panic", "Chord"} : Handle(c)
      BY <1>21, HandledCommand
    <2>2. out' \in Seq({"on", "off", "silence"})
      BY <2>1, OutTypes
      DEF Handle, PlayerCall, PanicHandled, ChordHandled, Flushed, Silenced
    <2>3. adQ' \in Seq(Posted) /\ Len(adQ') <= Capacity
      BY <1>21, TailBound DEF HandleEvent
    <2>4. QED
      BY <1>21, <2>2, <2>3 DEF HandleEvent
  <1>22. CASE Play
    BY <1>22, OutTypes
    DEF Play
  <1>23. CASE Pump
    BY <1>23, OutTypes
    DEF Pump
  <1>24. CASE FlushTick
    <2>1. LastCommand \in Queued
      BY DEF LastCommand, Queued
    <2>2. cmdQ' \in Seq(Queued) /\ Len(cmdQ') <= Capacity
      BY <1>24, <2>1, PushBound DEF FlushTick
    <2>3. QED
      BY <1>24, <2>2 DEF FlushTick
  <1>25. CASE SwapStyle
    BY <1>25 DEF SwapStyle, Resumed
  <1>26. CASE LiveClose
    BY <1>26, OutTypes
    DEF LiveClose, FacadeStopped, SessionShutdown, Silenced, DevicesClosed
  <1>27. CASE DriverClose
    BY <1>27, OutTypes
    DEF DriverClose, Quiesced, FacadeStopped, SessionShutdown, Silenced, DevicesClosed
  <1>28. CASE Exit
    BY <1>28, OutTypes
    DEF Exit, Quiesced
  <1>29. ASSUME NEW d \in Devices \cup {None}, SwapDevice(d)
        PROVE  QueueTypes'
    BY <1>29
    DEF SwapDevice, Attach, Resumed
  <1>30. QED
    BY <1>1, <1>2, <1>3, <1>4, <1>5, <1>6, <1>7, <1>8, <1>9, <1>10, <1>11, <1>12, <1>13, <1>14,
       <1>15, <1>16, <1>17, <1>18, <1>19, <1>20, <1>21, <1>22, <1>23, <1>24, <1>25, <1>26,
       <1>27, <1>28, <1>29
    DEF Next, TickStep, HostStep

\* What is published is well typed, and for the facade it is the state.
LEMMA PublishedTypes ==
  ASSUME ReportTypes, SnapType, playing' \in BOOLEAN, lifecycle' \in LifecycleStates,
         Published
  PROVE  ReportTypes' /\ SnapType'
  <1>1. CASE host = "driver"
    <2>1. telemetry' = IF Full(telemetry) THEN telemetry ELSE Append(telemetry, playing')
      BY <1>1 DEF Published
    <2>2. telemetry' \in Seq(BOOLEAN) /\ Len(telemetry') <= Capacity
      BY <2>1, PushBound, Zenon DEF ReportTypes
    <2>3. SnapType'
      BY <1>1 DEF Published, SnapType
    <2>4. QED
      BY <2>2, <2>3, Zenon DEF ReportTypes
  <1>2. CASE host # "driver"
    <2>1. telemetry' = telemetry
      BY <1>2 DEF Published, screenVars
    <2>2. ReportTypes'
      BY <2>1, Zenon DEF ReportTypes
    <2>3. SnapType'
      BY <1>2 DEF Published, SnapType, screenVars
    <2>4. QED
      BY <2>2, <2>3
  <1>3. QED
    BY <1>1, <1>2

LEMMA StepReports == Types /\ [Next]_vars => ReportTypes' /\ SnapType'
  <1> SUFFICES ASSUME Types, [Next]_vars
               PROVE  ReportTypes' /\ SnapType'
    OBVIOUS
  <1> USE DEF hostVars, queueVars, screenVars, facadeVars, engineVars, deviceVars
  <1>a. ASSUME telemetry' = telemetry, snap' = snap
        PROVE  ReportTypes' /\ SnapType'
    BY <1>a, Zenon DEF Types, ReportTypes, SnapType
  <1>b. playing' \in BOOLEAN /\ lifecycle' \in LifecycleStates
    BY StepPlain, StepSwitches DEF PlainTypes, Switches
  <1>c. ReportTypes /\ SnapType
    BY DEF Types
  <1>d. ASSUME NEW ev, Moved(ev)
        PROVE  ReportTypes' /\ SnapType'
    <2>1. CASE ~ HasFacade
      BY <1>a, <1>d, <2>1 DEF Moved
    <2>2. CASE HasFacade
      BY <1>b, <1>c, <1>d, <2>2, PublishedTypes DEF Moved
    <2>3. QED
      BY <2>1, <2>2
  <1>1. CASE UNCHANGED vars
    BY <1>a, <1>1 DEF vars
  <1>2. CASE LiveStart
    BY <1>d, <1>2 DEF LiveStart, Starting
  <1>3. CASE DriverStart
    BY <1>d, <1>3 DEF DriverStart, Starting
  <1>4. CASE BridgeStart
    BY <1>d, <1>4 DEF BridgeStart, Starting
  <1>5. CASE KorgStart
    BY <1>d, <1>5 DEF KorgStart, Starting
  <1>6. CASE StartAgain
    BY <1>a, <1>6 DEF StartAgain, vars
  <1>7. CASE ReadInput
    BY <1>a, <1>7 DEF ReadInput
  <1>8. CASE LoadStopped
    BY <1>a, <1>8 DEF LoadStopped
  <1>9. ASSUME NEW c \in Commands, Command(c)
        PROVE  ReportTypes' /\ SnapType'
    BY <1>a, <1>9 DEF Command
  <1>10. ASSUME NEW d \in Devices \cup {None}, SelectOutput(d)
        PROVE  ReportTypes' /\ SnapType'
    BY <1>a, <1>10 DEF SelectOutput
  <1>11. ASSUME NEW t \in {"close", "reload", "switch"}, BeginTask(t)
        PROVE  ReportTypes' /\ SnapType'
    BY <1>a, <1>11 DEF BeginTask
  <1>12. ASSUME NEW c \in {"Start", "Stop", "Panic", "Chord"}, PressKey(c)
        PROVE  ReportTypes' /\ SnapType'
    BY <1>a, <1>12 DEF PressKey
  <1>13. CASE BridgeStop
    BY <1>d, <1>13 DEF BridgeStop, FacadeStopped
  <1>14. CASE PollTelemetry
    <2>1. Tail(telemetry) \in Seq(BOOLEAN) /\ Len(Tail(telemetry)) <= Capacity
          /\ Head(telemetry) \in BOOLEAN
      BY <1>c, <1>14, TailBound, Zenon DEF PollTelemetry, ReportTypes
    <2>2. telemetry' = Tail(telemetry)
      BY <1>14 DEF PollTelemetry
    <2>3. ReportTypes'
      BY <2>1, <2>2, Zenon DEF ReportTypes
    <2>4. SnapType'
      BY <1>c, <1>14, <2>1 DEF PollTelemetry, SnapType
    <2>5. QED
      BY <2>3, <2>4
  <1>15. CASE Quit
    BY <1>a, <1>15 DEF Quit
  <1>16. CASE TickBegin
    BY <1>a, <1>16 DEF TickBegin
  <1>17. CASE DrainCommand
    BY <1>a, <1>17 DEF DrainCommand
  <1>18. CASE CommandsDrained
    BY <1>a, <1>18 DEF CommandsDrained
  <1>19. CASE DrainInput
    BY <1>a, <1>19 DEF DrainInput
  <1>20. CASE InputsDrained
    BY <1>a, <1>20 DEF InputsDrained
  <1>21. CASE HandleEvent
    BY <1>a, <1>21 DEF HandleEvent
  <1>22. CASE Play
    BY <1>a, <1>22 DEF Play
  <1>23. CASE Pump
    BY <1>b, <1>c, <1>23, PublishedTypes DEF Pump
  <1>24. CASE FlushTick
    BY <1>a, <1>24 DEF FlushTick
  <1>25. CASE SwapStyle
    BY <1>a, <1>25 DEF SwapStyle
  <1>26. CASE LiveClose
    BY <1>d, <1>26 DEF LiveClose, FacadeStopped
  <1>27. CASE DriverClose
    BY <1>d, <1>27 DEF DriverClose, FacadeStopped
  <1>28. CASE Exit
    BY <1>a, <1>28 DEF Exit
  <1>29. ASSUME NEW d \in Devices \cup {None}, SwapDevice(d)
        PROVE  ReportTypes' /\ SnapType'
    BY <1>a, <1>29 DEF SwapDevice
  <1>30. QED
    BY <1>1, <1>2, <1>3, <1>4, <1>5, <1>6, <1>7, <1>8, <1>9, <1>10, <1>11, <1>12, <1>13, <1>14,
       <1>15, <1>16, <1>17, <1>18, <1>19, <1>20, <1>21, <1>22, <1>23, <1>24, <1>25, <1>26,
       <1>27, <1>28, <1>29
    DEF Next, TickStep, HostStep

LEMMA StepTypes == Types /\ [Next]_vars => Types'
  BY StepPlain, StepSwitches, StepQueues, StepReports DEF Types

LEMMA StepHost == Types /\ HostInvariant /\ [Next]_vars => HostInvariant'
  <1> SUFFICES ASSUME Types, HostInvariant, [Next]_vars
               PROVE  HostInvariant'
    OBVIOUS
  <1> USE DEF hostVars, queueVars, screenVars, facadeVars, engineVars, deviceVars, HostInvariant
  <1>a. /\ host \in {"live", "driver", "bridge", "korg"}
        /\ ui \in {"idle", "quiesce", "flush", "swap"}
        /\ tick \in {"none", "commands", "inputs", "handle", "raced", "pump"}
        /\ Switches
    BY EngineAssumption DEF Types, PlainTypes
  <1>1. CASE UNCHANGED vars
    BY <1>1, <1>a
    DEF vars, Switches
  <1>2. CASE LiveStart
    BY <1>2, <1>a
    DEF LiveStart, Starting, Booted, Free, Switches
  <1>3. CASE DriverStart
    BY <1>3, <1>a
    DEF DriverStart, Starting, Booted, Free, Switches
  <1>4. CASE BridgeStart
    BY <1>4, <1>a
    DEF BridgeStart, Starting, Booted, Free, Switches
  <1>5. CASE KorgStart
    BY <1>5, <1>a
    DEF KorgStart, Starting, Booted, Free, Switches
  <1>6. CASE StartAgain
    BY <1>6, <1>a
    DEF StartAgain, vars, Switches
  <1>7. CASE ReadInput
    BY <1>7, <1>a
    DEF ReadInput, Switches
  <1>8. CASE LoadStopped
    BY <1>8, <1>a
    DEF LoadStopped, Switches
  <1>9. ASSUME NEW c \in Commands, Command(c)
        PROVE  HostInvariant'
    BY <1>9, <1>a
    DEF Command, Switches
  <1>10. ASSUME NEW d \in Devices \cup {None}, SelectOutput(d)
        PROVE  HostInvariant'
    BY <1>10, <1>a
    DEF SelectOutput, Attach, Switches
  <1>11. ASSUME NEW t \in {"close", "reload", "switch"}, BeginTask(t)
        PROVE  HostInvariant'
    BY <1>11, <1>a
    DEF BeginTask, Free, Switches
  <1>12. ASSUME NEW c \in {"Start", "Stop", "Panic", "Chord"}, PressKey(c)
        PROVE  HostInvariant'
    BY <1>12, <1>a
    DEF PressKey, Raced, Switches
  <1>13. CASE BridgeStop
    BY <1>13, <1>a
    DEF BridgeStop, Free, FacadeStopped, SessionShutdown, Silenced, Switches
  <1>14. CASE PollTelemetry
    BY <1>14, <1>a
    DEF PollTelemetry, Switches
  <1>15. CASE Quit
    BY <1>15, <1>a
    DEF Quit, Raced, Switches
  <1>16. CASE TickBegin
    BY <1>16, <1>a
    DEF TickBegin, TimerFires, BridgeTicks, PumpFires, Switches
  <1>17. CASE DrainCommand
    BY <1>17, <1>a
    DEF DrainCommand, Post, Switches
  <1>18. CASE CommandsDrained
    BY <1>18, <1>a
    DEF CommandsDrained, Switches
  <1>19. CASE DrainInput
    BY <1>19, <1>a
    DEF DrainInput, Post, Switches
  <1>20. CASE InputsDrained
    BY <1>20, <1>a
    DEF InputsDrained, Switches
  <1>21. CASE HandleEvent
    BY <1>21, <1>a
    DEF HandleEvent, Switches
  <1>22. CASE Play
    BY <1>22, <1>a
    DEF Play, Switches
  <1>23. CASE Pump
    BY <1>23, <1>a
    DEF Pump, Switches
  <1>24. CASE FlushTick
    BY <1>24, <1>a
    DEF FlushTick, Quiesced, Switches
  <1>25. CASE SwapStyle
    BY <1>25, <1>a
    DEF SwapStyle, Resumed, Switches
  <1>26. CASE LiveClose
    BY <1>26, <1>a
    DEF LiveClose, FacadeStopped, SessionShutdown, Silenced, DevicesClosed, Switches
  <1>27. CASE DriverClose
    BY <1>27, <1>a
    DEF DriverClose, Quiesced, FacadeStopped, SessionShutdown, Silenced, DevicesClosed, Switches
  <1>28. CASE Exit
    BY <1>28, <1>a
    DEF Exit, Quiesced, Switches
  <1>29. ASSUME NEW d \in Devices \cup {None}, SwapDevice(d)
        PROVE  HostInvariant'
    BY <1>29, <1>a
    DEF SwapDevice, Attach, Resumed, Switches
  <1>30. QED
    BY <1>1, <1>2, <1>3, <1>4, <1>5, <1>6, <1>7, <1>8, <1>9, <1>10, <1>11, <1>12, <1>13, <1>14,
       <1>15, <1>16, <1>17, <1>18, <1>19, <1>20, <1>21, <1>22, <1>23, <1>24, <1>25, <1>26,
       <1>27, <1>28, <1>29
    DEF Next, TickStep, HostStep

LEMMA OutLast ==
  ASSUME NEW o \in Seq({"on", "off", "silence"}), NEW e \in {"on", "off", "silence"}
  PROVE  Append(o, e) # <<>> /\ Append(o, e)[Len(Append(o, e))] = e
  OBVIOUS

LEMMA SilenceLast == <<"silence">> # <<>> /\ <<"silence">>[Len(<<"silence">>)] = "silence"
  OBVIOUS

LEMMA StepNotes ==
  Types /\ HostInvariant /\ NotesInvariant /\ FlushInvariant /\ [Next]_vars
    => NotesInvariant'
  <1> SUFFICES ASSUME Types, HostInvariant, NotesInvariant, FlushInvariant, [Next]_vars
               PROVE  NotesInvariant'
    OBVIOUS
  <1> USE DEF hostVars, queueVars, screenVars, facadeVars, engineVars, deviceVars
  <1>a. /\ host \in {"live", "driver", "bridge", "korg"}
        /\ out \in Seq({"on", "off", "silence"}) /\ sounding \subseteq Devices
        /\ device \in Devices \cup {None} /\ None \notin Devices
    BY EngineAssumption DEF Types, QueueTypes, PlainTypes
  <1>b. HostInvariant /\ Switches
    BY DEF Types
  <1>1. CASE UNCHANGED vars
    BY <1>1, <1>a
    DEF vars, NotesInvariant
  <1>2. CASE LiveStart
    BY <1>2, <1>a
    DEF LiveStart, Starting, Booted, Free, NotesInvariant
  <1>3. CASE DriverStart
    BY <1>3, <1>a
    DEF DriverStart, Starting, Booted, Free, NotesInvariant
  <1>4. CASE BridgeStart
    BY <1>4, <1>a
    DEF BridgeStart, Starting, Booted, Free, NotesInvariant
  <1>5. CASE KorgStart
    BY <1>5, <1>a
    DEF KorgStart, Starting, Booted, Free, NotesInvariant
  <1>6. CASE StartAgain
    BY <1>6, <1>a
    DEF StartAgain, vars, NotesInvariant
  <1>7. CASE ReadInput
    BY <1>7, <1>a
    DEF ReadInput, NotesInvariant
  <1>8. CASE LoadStopped
    BY <1>8, <1>a
    DEF LoadStopped, NotesInvariant
  <1>9. ASSUME NEW c \in Commands, Command(c)
        PROVE  NotesInvariant'
    BY <1>9, <1>a
    DEF Command, NotesInvariant
  <1>10. ASSUME NEW d \in Devices \cup {None}, SelectOutput(d)
        PROVE  NotesInvariant'
    BY <1>10, <1>a
    DEF SelectOutput, Attach, NotesInvariant
  <1>11. ASSUME NEW t \in {"close", "reload", "switch"}, BeginTask(t)
        PROVE  NotesInvariant'
    BY <1>11, <1>a
    DEF BeginTask, Free, NotesInvariant
  <1>12. ASSUME NEW c \in {"Start", "Stop", "Panic", "Chord"}, PressKey(c)
        PROVE  NotesInvariant'
    BY <1>12, <1>a
    DEF PressKey, Raced, NotesInvariant
  <1>13. CASE BridgeStop
    BY <1>13, <1>a, <1>b, SilenceLast
    DEF BridgeStop, Free, FacadeStopped, SessionShutdown, Silenced, NotesInvariant
  <1>14. CASE PollTelemetry
    BY <1>14, <1>a
    DEF PollTelemetry, NotesInvariant
  <1>15. CASE Quit
    BY <1>15, <1>a
    DEF Quit, Raced, NotesInvariant
  <1>16. CASE TickBegin
    BY <1>16, <1>a
    DEF TickBegin, TimerFires, BridgeTicks, PumpFires, NotesInvariant
  <1>17. CASE DrainCommand
    BY <1>17, <1>a
    DEF DrainCommand, Post, NotesInvariant
  <1>18. CASE CommandsDrained
    BY <1>18, <1>a
    DEF CommandsDrained, NotesInvariant
  <1>19. CASE DrainInput
    BY <1>19, <1>a
    DEF DrainInput, Post, NotesInvariant
  <1>20. CASE InputsDrained
    BY <1>20, <1>a
    DEF InputsDrained, NotesInvariant
  <1>21. CASE HandleEvent
    <2>1. PICK c \in {"Start", "Stop", "SyncArm", "Panic", "Chord"} : Handle(c)
      BY <1>21, HandledCommand
    <2>2. \/ out' = out /\ tracked' = tracked
          \/ Flushed
          \/ Silenced
      BY <2>1 DEF Handle, PlayerCall, PanicHandled, ChordHandled
    <2>3. UNCHANGED <<host, refused, started, device, sounding>>
      BY <1>21 DEF HandleEvent, hostVars, facadeVars, deviceVars
    <2>4. CASE out' = out /\ tracked' = tracked
      BY <2>3, <2>4 DEF NotesInvariant
    <2>5. CASE Flushed
      BY <1>a, <2>3, <2>5, OutLast DEF NotesInvariant, Flushed
    <2>6. CASE Silenced
      BY <2>3, <2>6, SilenceLast DEF NotesInvariant, Silenced
    <2>7. QED
      BY <2>2, <2>4, <2>5, <2>6
  <1>22. CASE Play
    <2>1. UNCHANGED <<host, refused, started, device, sounding>>
      BY <1>22 DEF Play, hostVars, facadeVars, deviceVars
    <2>2. CASE UNCHANGED <<tracked, out>>
      BY <2>1, <2>2 DEF NotesInvariant
    <2>3. CASE host = "live" /\ ~ UNCHANGED <<tracked, out>>
      <3>1. tracked' = ~tracked /\ out' = Append(out, IF tracked THEN "off" ELSE "on")
        BY <1>22, <1>b, <2>3 DEF Play, HostInvariant
      <3>2. QED
        BY <1>a, <2>1, <3>1, OutLast DEF NotesInvariant
    <2>4. QED
      BY <2>1, <2>2, <2>3 DEF NotesInvariant
  <1>23. CASE Pump
    <2>1. /\ UNCHANGED <<host, refused, started, device, tracked>>
          /\ out' = <<>> /\ sounding' = Delivered
      BY <1>23 DEF Pump, Published, HasFacade, screenVars, facadeVars, Moved
    <2> SUFFICES ASSUME host = "live", ~refused
                 PROVE  /\ Delivered \subseteq {device}
                        /\ ~tracked => Delivered = {}
                        /\ ~started => Delivered = {}
      BY <2>1 DEF NotesInvariant
    <2>n. /\ sounding \subseteq {device}
          /\ ~tracked => IF out = <<>> THEN sounding = {} ELSE out[Len(out)] # "on"
      BY DEF NotesInvariant
    <2>s. started
      BY <1>23, <1>b DEF Pump, HostInvariant
    <2>2. CASE out = <<>>
      BY <2>n, <2>s, <2>2 DEF Delivered
    <2>3. CASE device = None
      <3>1. sounding = {}
        BY <1>a, <2>n, <2>3
      <3>2. QED
        BY <2>3, <3>1 DEF Delivered
    <2>4. CASE out # <<>> /\ device # None
      BY <2>n, <2>s, <2>4 DEF Delivered
    <2>5. QED
      BY <2>2, <2>3, <2>4
  <1>24. CASE FlushTick
    BY <1>24, <1>a
    DEF FlushTick, Quiesced, NotesInvariant
  <1>25. CASE SwapStyle
    BY <1>25, <1>a
    DEF SwapStyle, Resumed, NotesInvariant
  <1>26. CASE LiveClose
    <2>1. /\ host' = host /\ refused' = refused /\ sounding' = sounding /\ out' = <<"silence">>
          /\ ui = "swap"
      BY <1>26 DEF LiveClose, DevicesClosed, FacadeStopped, SessionShutdown, Silenced
    <2>2. QED
      BY <2>1, SilenceLast DEF NotesInvariant, FlushInvariant
  <1>27. CASE DriverClose
    BY <1>27, <1>a, <1>b, SilenceLast
    DEF DriverClose, Quiesced, FacadeStopped, SessionShutdown, Silenced, DevicesClosed,
        NotesInvariant
  <1>28. CASE Exit
    BY <1>28, <1>a
    DEF Exit, Quiesced, NotesInvariant
  <1>29. ASSUME NEW d \in Devices \cup {None}, SwapDevice(d)
        PROVE  NotesInvariant'
    BY <1>29, <1>a
    DEF SwapDevice, Attach, Resumed, NotesInvariant
  <1>30. QED
    BY <1>1, <1>2, <1>3, <1>4, <1>5, <1>6, <1>7, <1>8, <1>9, <1>10, <1>11, <1>12, <1>13, <1>14,
       <1>15, <1>16, <1>17, <1>18, <1>19, <1>20, <1>21, <1>22, <1>23, <1>24, <1>25, <1>26,
       <1>27, <1>28, <1>29
    DEF Next, TickStep, HostStep

LEMMA NextThenChord ==
  ASSUME NEW S, NEW q \in Seq(S), NEW c, "Chord" \in S, IsNext(c, q)
  PROVE  IsNext(c, Append(q, "Chord"))
  <1>1. PICK k \in 1 .. Len(q) : q[k] = c /\ \A j \in k + 1 .. Len(q) : q[j] = "Chord"
    BY DEF IsNext
  <1> DEFINE r == Append(q, "Chord")
  <1>2. /\ Len(r) = Len(q) + 1 /\ Len(q) \in Nat
        /\ \A i \in 1 .. Len(q) : r[i] = q[i]
        /\ r[Len(q) + 1] = "Chord"
    BY AppendProperties
  <1> HIDE DEF r
  <1>3. k \in 1 .. Len(r) /\ r[k] = c
    BY <1>1, <1>2
  <1>4. \A j \in k + 1 .. Len(r) : r[j] = "Chord"
    <2> SUFFICES ASSUME NEW j \in k + 1 .. Len(r)
                 PROVE  r[j] = "Chord"
      OBVIOUS
    <2>1. CASE j = Len(q) + 1
      BY <1>2, <2>1
    <2>2. CASE j # Len(q) + 1
      <3>1. j \in k + 1 .. Len(q) /\ j \in 1 .. Len(q)
        BY <1>2, <2>2
      <3>2. QED
        BY <1>1, <1>2, <3>1
    <2>3. QED
      BY <2>1, <2>2
  <1>5. QED
    BY <1>3, <1>4 DEF IsNext, r

LEMMA LastIsNext ==
  ASSUME NEW S, NEW q \in Seq(S), NEW c \in S
  PROVE  IsNext(c, Append(q, c))
  <1>1. Len(Append(q, c)) = Len(q) + 1 /\ Len(q) \in Nat /\ Append(q, c)[Len(q) + 1] = c
    BY AppendProperties
  <1>2. QED
    BY <1>1 DEF IsNext

LEMMA NextAtHead ==
  ASSUME NEW S, NEW q \in Seq(S), q # <<>>, NEW c, IsNext(c, q)
  PROVE  (Head(q) = c /\ OnlyChords(Tail(q))) \/ IsNext(c, Tail(q))
  <1>1. PICK k \in 1 .. Len(q) : q[k] = c /\ \A j \in k + 1 .. Len(q) : q[j] = "Chord"
    BY DEF IsNext
  <1> DEFINE r == Tail(q)
  <1>2. /\ Len(r) = Len(q) - 1 /\ Len(q) \in Nat \ {0}
        /\ \A i \in 1 .. Len(r) : r[i] = q[i + 1]
    BY HeadTailProperties, EmptySeq
  <1>3. Head(q) = q[1]
    BY HeadTailProperties
  <1> HIDE DEF r
  <1>4. CASE k = 1
    <2>1. \A j \in 1 .. Len(r) : r[j] = "Chord"
      BY <1>1, <1>2, <1>4
    <2>2. QED
      BY <1>1, <1>3, <1>4, <2>1 DEF OnlyChords, r
  <1>5. CASE k # 1
    <2>1. k - 1 \in 1 .. Len(r) /\ r[k - 1] = c
      BY <1>1, <1>2, <1>5
    <2>2. \A j \in (k - 1) + 1 .. Len(r) : r[j] = "Chord"
      BY <1>1, <1>2, <1>5
    <2>3. QED
      BY <2>1, <2>2 DEF IsNext, r
  <1>6. QED
    BY <1>4, <1>5

LEMMA ChordAtHead ==
  ASSUME NEW S, NEW q \in Seq(S), q # <<>>, OnlyChords(q)
  PROVE  Head(q) = "Chord" /\ OnlyChords(Tail(q))
  <1> DEFINE r == Tail(q)
  <1>2. /\ Len(r) = Len(q) - 1 /\ Len(q) \in Nat \ {0}
        /\ \A i \in 1 .. Len(r) : r[i] = q[i + 1]
    BY HeadTailProperties, EmptySeq
  <1>3. Head(q) = q[1]
    BY HeadTailProperties
  <1> HIDE DEF r
  <1>4. \A j \in 1 .. Len(r) : r[j] = "Chord"
    BY <1>2 DEF OnlyChords
  <1>5. QED
    BY <1>2, <1>3, <1>4 DEF OnlyChords, r

LEMMA QuietTransitions ==
  /\ \A s \in PerformerStates : After(After(s, "Stop"), "Stopped") = "Idle"
  /\ After("Idle", "ChordDetected") = "Idle"
  BY DEF After, Moves, PerformerStates, ToIdle, ToPlaying, ToStopping

LEMMA CommandQuiets == Types /\ Handle(LastCommand) => Quieted'
  <1> SUFFICES ASSUME Types, Handle(LastCommand)
               PROVE  Quieted'
    OBVIOUS
  <1>1. CASE LastCommand = "Stop"
    BY <1>1, QuietTransitions
    DEF Handle, PlayerCall, Flushed, Quieted, Types, PlainTypes
  <1>2. CASE LastCommand = "Panic"
    BY <1>2 DEF Handle, PanicHandled, PlayerCall, Silenced, Quieted
  <1>3. QED
    BY <1>1, <1>2 DEF LastCommand

LEMMA ChordLeavesQuiet == Quieted /\ Handle("Chord") => Quieted'
  BY QuietTransitions DEF Handle, ChordHandled, Quieted

LEMMA StepFlush ==
  Types /\ HostInvariant /\ NotesInvariant /\ FlushInvariant /\ [Next]_vars
    => FlushInvariant'
  <1> SUFFICES ASSUME Types, HostInvariant, NotesInvariant, FlushInvariant, [Next]_vars
               PROVE  FlushInvariant'
    OBVIOUS
  <1> USE DEF hostVars, queueVars, screenVars, facadeVars, engineVars, deviceVars
  <1>a. /\ cmdQ \in Seq(Queued) /\ inQ \in Seq({"Chord"}) /\ adQ \in Seq(Posted)
        /\ Len(cmdQ) <= Capacity
    BY DEF Types, QueueTypes
  <1>b. HostInvariant /\ FlushInvariant
    OBVIOUS
  <1>1. CASE UNCHANGED vars
    BY <1>1, <1>b
    DEF vars, FlushInvariant, HostInvariant, Quieted, HasRoom, LastCommand
  <1>2. CASE LiveStart
    BY <1>2, <1>b
    DEF LiveStart, Starting, Booted, Free, FlushInvariant, HostInvariant, Quieted, HasRoom,
        LastCommand
  <1>3. CASE DriverStart
    BY <1>3, <1>b
    DEF DriverStart, Starting, Booted, Free, FlushInvariant, HostInvariant, Quieted, HasRoom,
        LastCommand
  <1>4. CASE BridgeStart
    BY <1>4, <1>b
    DEF BridgeStart, Starting, Booted, Free, FlushInvariant, HostInvariant, Quieted, HasRoom,
        LastCommand
  <1>5. CASE KorgStart
    BY <1>5, <1>b
    DEF KorgStart, Starting, Booted, Free, FlushInvariant, HostInvariant, Quieted, HasRoom,
        LastCommand
  <1>6. CASE StartAgain
    BY <1>6, <1>b
    DEF StartAgain, vars, FlushInvariant, HostInvariant, Quieted, HasRoom, LastCommand
  <1>7. CASE ReadInput
    BY <1>7, <1>b
    DEF ReadInput, FlushInvariant, HostInvariant, Quieted, HasRoom, LastCommand
  <1>8. CASE LoadStopped
    BY <1>8, <1>b
    DEF LoadStopped, FlushInvariant, HostInvariant, Quieted, HasRoom, LastCommand
  <1>9. ASSUME NEW c \in Commands, Command(c)
        PROVE  FlushInvariant'
    BY <1>9, <1>b
    DEF Command, FlushInvariant, HostInvariant, Quieted, HasRoom, LastCommand
  <1>10. ASSUME NEW d \in Devices \cup {None}, SelectOutput(d)
        PROVE  FlushInvariant'
    BY <1>10, <1>b
    DEF SelectOutput, Attach, FlushInvariant, HostInvariant, Quieted, HasRoom, LastCommand
  <1>11. ASSUME NEW t \in {"close", "reload", "switch"}, BeginTask(t)
        PROVE  FlushInvariant'
    BY <1>11, <1>b
    DEF BeginTask, Free, FlushInvariant, HostInvariant, Quieted, HasRoom, LastCommand
  <1>12. ASSUME NEW c \in {"Start", "Stop", "Panic", "Chord"}, PressKey(c)
        PROVE  FlushInvariant'
    BY <1>12, <1>b
    DEF PressKey, Raced, FlushInvariant, HostInvariant, Quieted, HasRoom, LastCommand
  <1>13. CASE BridgeStop
    BY <1>13, <1>b
    DEF BridgeStop, Free, FacadeStopped, SessionShutdown, Silenced, FlushInvariant,
        HostInvariant, Quieted, HasRoom, LastCommand
  <1>14. CASE PollTelemetry
    BY <1>14, <1>b
    DEF PollTelemetry, FlushInvariant, HostInvariant, Quieted, HasRoom, LastCommand
  <1>15. CASE Quit
    BY <1>15, <1>b
    DEF Quit, Raced, FlushInvariant, HostInvariant, Quieted, HasRoom, LastCommand
  <1>16. CASE TickBegin
    BY <1>16, <1>b
    DEF TickBegin, TimerFires, BridgeTicks, PumpFires, FlushInvariant, HostInvariant, Quieted,
        HasRoom, LastCommand
  <1>17. CASE DrainCommand
    <2> SUFFICES ASSUME ui = "flush", ~refused
                 PROVE  HasRoom' \/ (cmdQ' = <<>> /\ IsNext(LastCommand, adQ'))
      BY <1>17, <1>b DEF DrainCommand, FlushInvariant, HostInvariant, LastCommand
    <2>1. HasRoom
      BY <1>17 DEF DrainCommand, FlushInvariant
    <2>2. /\ cmdQ \in Seq(Queued) /\ cmdQ # <<>> /\ Len(cmdQ) \in Nat \ {0}
          /\ cmdQ' = Tail(cmdQ) /\ task' = task
      BY <1>17, <1>a, EmptySeq DEF DrainCommand
    <2>3. Len(adQ) \in Nat /\ Capacity \in Nat
      BY <1>a, EngineAssumption, LenProperties
    <2>4. Head(cmdQ) \in Posted
      BY <2>2, PostedCommands
    <2>5. adQ' = Append(adQ, Head(cmdQ)) /\ Len(adQ') = Len(adQ) + 1
      <3>1. ~ Full(adQ)
        BY <2>1, <2>2, <2>3 DEF HasRoom, Full
      <3>2. adQ' = Append(adQ, Head(cmdQ))
        BY <1>17, <3>1 DEF DrainCommand, Post
      <3>3. QED
        BY <1>a, <2>4, <3>2, AppendProperties
    <2>6. /\ Len(Tail(cmdQ)) = Len(cmdQ) - 1
          /\ \A i \in 1 .. Len(Tail(cmdQ)) : Tail(cmdQ)[i] = cmdQ[i + 1]
          /\ Head(cmdQ) = cmdQ[1]
      BY <2>2, HeadTailProperties
    <2>7. CASE Len(cmdQ) = 1
      <3>1. Head(cmdQ) = LastCommand
        BY <2>1, <2>6, <2>7 DEF HasRoom
      <3>2. Tail(cmdQ) = <<>>
        BY <2>2, <2>6, <2>7
      <3>3. QED
        BY <1>a, <2>2, <2>4, <2>5, <3>1, <3>2, LastIsNext
    <2>8. CASE Len(cmdQ) # 1
      <3>1. Tail(cmdQ) # <<>> /\ Tail(cmdQ)[Len(Tail(cmdQ))] = LastCommand
        <4>1. Len(Tail(cmdQ)) \in 1 .. Len(Tail(cmdQ)) /\ Len(Tail(cmdQ)) + 1 = Len(cmdQ)
          BY <2>2, <2>6, <2>8
        <4>2. Tail(cmdQ) # <<>>
          <5> SUFFICES ASSUME Tail(cmdQ) = <<>>
                       PROVE  FALSE
            OBVIOUS
          <5>1. Len(Tail(cmdQ)) = 0
            BY EmptySeq
          <5>2. Len(Tail(cmdQ)) # 0
            BY <2>2, <2>6, <2>8
          <5>3. QED
            BY <5>1, <5>2, Zenon
        <4>3. Tail(cmdQ)[Len(Tail(cmdQ))] = cmdQ[Len(cmdQ)]
          BY <2>6, <4>1
        <4>4. QED
          BY <2>1, <4>2, <4>3 DEF HasRoom
      <3>2. Len(adQ') + Len(Tail(cmdQ)) <= Capacity
        BY <2>1, <2>2, <2>3, <2>5, <2>6 DEF HasRoom
      <3>3. QED
        BY <2>2, <3>1, <3>2 DEF HasRoom, LastCommand
    <2>9. QED
      BY <2>7, <2>8
  <1>18. CASE CommandsDrained
    BY <1>18, <1>b
    DEF CommandsDrained, FlushInvariant, HostInvariant, Quieted, HasRoom, LastCommand
  <1>19. CASE DrainInput
    <2> SUFFICES ASSUME ui = "flush", ~refused
                 PROVE  IsNext(LastCommand, adQ')
      BY <1>19, <1>b DEF DrainInput, FlushInvariant, HostInvariant, LastCommand
    <2>1. IsNext(LastCommand, adQ)
      BY <1>19 DEF DrainInput, FlushInvariant
    <2>2. Head(inQ) = "Chord" /\ "Chord" \in Posted
      BY <1>19, <1>a DEF DrainInput, Posted
    <2>3. adQ' = IF Full(adQ) THEN adQ ELSE Append(adQ, "Chord")
      BY <1>19, <2>2 DEF DrainInput, Post
    <2>4. QED
      BY <1>a, <2>1, <2>2, <2>3, NextThenChord
  <1>20. CASE InputsDrained
    BY <1>20, <1>b
    DEF InputsDrained, FlushInvariant, HostInvariant, Quieted, HasRoom, LastCommand
  <1>21. CASE HandleEvent
    <2> SUFFICES ASSUME ui = "flush", ~refused
                 PROVE  IsNext(LastCommand, adQ') \/ (OnlyChords(adQ') /\ Quieted')
      BY <1>21, <1>b DEF HandleEvent, FlushInvariant, HostInvariant, LastCommand
    <2>1. adQ # <<>> /\ adQ' = Tail(adQ) /\ Handle(Head(adQ))
      BY <1>21 DEF HandleEvent
    <2>2. CASE IsNext(LastCommand, adQ)
      <3>1. (Head(adQ) = LastCommand /\ OnlyChords(Tail(adQ))) \/ IsNext(LastCommand, Tail(adQ))
        BY <1>a, <2>1, <2>2, NextAtHead
      <3>2. QED
        BY <2>1, <3>1, CommandQuiets
    <2>3. CASE OnlyChords(adQ) /\ Quieted
      <3>1. Head(adQ) = "Chord" /\ OnlyChords(Tail(adQ))
        BY <1>a, <2>1, <2>3, ChordAtHead
      <3>2. QED
        BY <2>1, <2>3, <3>1, ChordLeavesQuiet
    <2>4. QED
      BY <1>21, <2>2, <2>3 DEF HandleEvent, FlushInvariant
  <1>22. CASE Play
    <2> SUFFICES ASSUME ui = "flush", ~refused
                 PROVE  Quieted'
      BY <1>22, <1>b DEF Play, FlushInvariant, HostInvariant
    <2>1. tick = "handle" /\ host = "live" /\ adQ = <<>>
      BY <1>22, <1>b DEF Play, HostInvariant
    <2>2. ~ IsNext(LastCommand, adQ)
      BY <2>1 DEF IsNext
    <2>3. Quieted
      BY <2>1, <2>2 DEF FlushInvariant
    <2>4. QED
      BY <1>22, <2>1, <2>3 DEF Play, Quieted
  <1>23. CASE Pump
    <2> SUFFICES ASSUME ui = "flush", ~refused
                 PROVE  Quieted' /\ out' = <<>> /\ sounding' = {}
      BY <1>23, <1>b DEF Pump, FlushInvariant, HostInvariant
    <2>1. Quieted /\ host = "live"
      BY <1>23, <1>b DEF Pump, FlushInvariant, HostInvariant
    <2>2. Quieted' /\ out' = <<>> /\ host' = host /\ refused' = refused
      BY <1>23, <2>1 DEF Pump, Quieted
    <2>3. QED
      BY <2>1, <2>2, StepNotes DEF NotesInvariant, Quieted
  <1>24. CASE FlushTick
    <2> SUFFICES ASSUME ~refused'
                 PROVE  HasRoom'
      BY <1>24 DEF FlushTick, FlushInvariant
    <2>1. /\ ~ Full(cmdQ) /\ cmdQ' = Append(cmdQ, LastCommand) /\ UNCHANGED <<adQ, task>>
          /\ tick = "none"
      BY <1>24 DEF FlushTick, Quiesced
    <2>2. adQ = <<>> /\ LastCommand \in Queued
      BY <1>b, <2>1 DEF HostInvariant, LastCommand, Queued
    <2>3. Len(cmdQ) + 1 <= Capacity
      BY <1>a, <2>1, EngineAssumption, LenProperties DEF Full
    <2>4. cmdQ' # <<>> /\ Len(cmdQ') = Len(cmdQ) + 1 /\ cmdQ'[Len(cmdQ')] = LastCommand
      BY <1>a, <2>1, <2>2, AppendProperties
    <2>5. Len(adQ) + Len(cmdQ') <= Capacity
      BY <1>a, <2>2, <2>3, <2>4, LenProperties
    <2>6. QED
      BY <2>1, <2>4, <2>5 DEF HasRoom, LastCommand
  <1>25. CASE SwapStyle
    BY <1>25, <1>b
    DEF SwapStyle, Resumed, FlushInvariant, HostInvariant, Quieted, HasRoom, LastCommand
  <1>26. CASE LiveClose
    BY <1>26, <1>b
    DEF LiveClose, FacadeStopped, SessionShutdown, Silenced, DevicesClosed, FlushInvariant,
        HostInvariant, Quieted, HasRoom, LastCommand
  <1>27. CASE DriverClose
    BY <1>27, <1>b
    DEF DriverClose, Quiesced, FacadeStopped, SessionShutdown, Silenced, DevicesClosed,
        FlushInvariant, HostInvariant, Quieted, HasRoom, LastCommand
  <1>28. CASE Exit
    BY <1>28, <1>b
    DEF Exit, Quiesced, FlushInvariant, HostInvariant, Quieted, HasRoom, LastCommand
  <1>29. ASSUME NEW d \in Devices \cup {None}, SwapDevice(d)
        PROVE  FlushInvariant'
    BY <1>29, <1>b
    DEF SwapDevice, Attach, Resumed, FlushInvariant, HostInvariant, Quieted, HasRoom,
        LastCommand
  <1>30. QED
    BY <1>1, <1>2, <1>3, <1>4, <1>5, <1>6, <1>7, <1>8, <1>9, <1>10, <1>11, <1>12, <1>13, <1>14,
       <1>15, <1>16, <1>17, <1>18, <1>19, <1>20, <1>21, <1>22, <1>23, <1>24, <1>25, <1>26,
       <1>27, <1>28, <1>29
    DEF Next, TickStep, HostStep

LEMMA StepScreen == Types /\ HostInvariant /\ ScreenInvariant /\ [Next]_vars => ScreenInvariant'
  <1> SUFFICES ASSUME Types, HostInvariant, ScreenInvariant, [Next]_vars
               PROVE  ScreenInvariant'
    OBVIOUS
  <1> USE DEF hostVars, queueVars, screenVars, facadeVars, engineVars, deviceVars
  <1>a. /\ lifecycle \in NotRunning => Applied(lifecycle, "Start") = "Running"
        /\ lifecycle \in NotRunning => Applied(lifecycle, "LoadStyle") = "Ready"
        /\ lifecycle = "Running" => Applied(lifecycle, "Stop") = "Stopped"
        /\ "Ready" \in NotRunning /\ "Stopped" \in NotRunning /\ "Running" \notin NotRunning
        /\ lifecycle \in NotRunning => lifecycle \notin Started
    BY Applications DEF Types, PlainTypes, NotRunning, Started
  <1>b. HostInvariant /\ ScreenInvariant
    OBVIOUS
  <1>s. Types'
    BY StepTypes
  <1>1. CASE UNCHANGED vars
    BY <1>1, <1>a, <1>b
    DEF vars, ScreenInvariant, HasFacade, HostInvariant
  <1>2. CASE LiveStart
    <2>1. /\ ~ started /\ Moved("Start") /\ UNCHANGED <<host, tick, playing>> /\ started' = TRUE
      BY <1>2 DEF LiveStart, Starting, Booted
    <2>2. QED
      BY <1>a, <2>1 DEF ScreenInvariant, Moved, Published, HasFacade
  <1>3. CASE DriverStart
    <2>1. /\ ~ started /\ Moved("Start") /\ UNCHANGED <<host, tick, playing>> /\ started' = TRUE
      BY <1>3 DEF DriverStart, Starting, Booted
    <2>2. QED
      BY <1>a, <2>1 DEF ScreenInvariant, Moved, Published, HasFacade
  <1>4. CASE BridgeStart
    <2>1. /\ ~ started /\ Moved("Start") /\ UNCHANGED <<host, tick, playing>> /\ started' = TRUE
      BY <1>4 DEF BridgeStart, Starting, Booted
    <2>2. QED
      BY <1>a, <2>1 DEF ScreenInvariant, Moved, Published, HasFacade
  <1>5. CASE KorgStart
    <2>1. /\ ~ started /\ Moved("Start") /\ UNCHANGED <<host, tick, playing>> /\ started' = TRUE
      BY <1>5 DEF KorgStart, Starting, Booted
    <2>2. QED
      BY <1>a, <2>1 DEF ScreenInvariant, Moved, Published, HasFacade
  <1>6. CASE StartAgain
    BY <1>6, <1>a, <1>b
    DEF StartAgain, vars, ScreenInvariant, HasFacade, HostInvariant
  <1>7. CASE ReadInput
    BY <1>7, <1>a, <1>b
    DEF ReadInput, ScreenInvariant, HasFacade, HostInvariant
  <1>8. CASE LoadStopped
    BY <1>8, <1>a, <1>b
    DEF LoadStopped, ScreenInvariant, HasFacade, HostInvariant, LoadMoves
  <1>9. ASSUME NEW c \in Commands, Command(c)
        PROVE  ScreenInvariant'
    BY <1>9, <1>a, <1>b
    DEF Command, ScreenInvariant, HasFacade, HostInvariant
  <1>10. ASSUME NEW d \in Devices \cup {None}, SelectOutput(d)
        PROVE  ScreenInvariant'
    BY <1>10, <1>a, <1>b
    DEF SelectOutput, Attach, ScreenInvariant, HasFacade, HostInvariant
  <1>11. ASSUME NEW t \in {"close", "reload", "switch"}, BeginTask(t)
        PROVE  ScreenInvariant'
    BY <1>11, <1>a, <1>b
    DEF BeginTask, Free, ScreenInvariant, HasFacade, HostInvariant
  <1>12. ASSUME NEW c \in {"Start", "Stop", "Panic", "Chord"}, PressKey(c)
        PROVE  ScreenInvariant'
    BY <1>12, <1>a, <1>b
    DEF PressKey, Raced, ScreenInvariant, HasFacade, HostInvariant
  <1>13. CASE BridgeStop
    <2>1. started /\ Moved("Stop") /\ UNCHANGED <<host, tick>> /\ started' = FALSE
      BY <1>13, <1>b DEF BridgeStop, Free, FacadeStopped, SessionShutdown, HostInvariant
    <2>2. QED
      BY <1>a, <1>s, <2>1 DEF ScreenInvariant, Moved, Published, HasFacade
  <1>14. CASE PollTelemetry
    BY <1>14, <1>a, <1>b
    DEF PollTelemetry, ScreenInvariant, HasFacade, HostInvariant
  <1>15. CASE Quit
    BY <1>15, <1>a, <1>b
    DEF Quit, Raced, ScreenInvariant, HasFacade, HostInvariant
  <1>16. CASE TickBegin
    BY <1>16, <1>a, <1>b
    DEF TickBegin, TimerFires, BridgeTicks, PumpFires, ScreenInvariant, HasFacade, HostInvariant
  <1>17. CASE DrainCommand
    BY <1>17, <1>a, <1>b
    DEF DrainCommand, Post, ScreenInvariant, HasFacade, HostInvariant
  <1>18. CASE CommandsDrained
    BY <1>18, <1>a, <1>b
    DEF CommandsDrained, ScreenInvariant, HasFacade, HostInvariant
  <1>19. CASE DrainInput
    BY <1>19, <1>a, <1>b
    DEF DrainInput, Post, ScreenInvariant, HasFacade, HostInvariant
  <1>20. CASE InputsDrained
    BY <1>20, <1>a, <1>b
    DEF InputsDrained, ScreenInvariant, HasFacade, HostInvariant
  <1>21. CASE HandleEvent
    BY <1>21, <1>a, <1>b
    DEF HandleEvent, ScreenInvariant, HasFacade, HostInvariant
  <1>22. CASE Play
    BY <1>22, <1>a, <1>b
    DEF Play, ScreenInvariant, HasFacade, HostInvariant
  <1>23. CASE Pump
    BY <1>23, <1>a, <1>b
    DEF Pump, ScreenInvariant, HasFacade, HostInvariant, Published
  <1>24. CASE FlushTick
    BY <1>24, <1>a, <1>b
    DEF FlushTick, Quiesced, ScreenInvariant, HasFacade, HostInvariant
  <1>25. CASE SwapStyle
    BY <1>25, <1>a, <1>b
    DEF SwapStyle, Resumed, ScreenInvariant, HasFacade, HostInvariant, LoadMoves, Started
  <1>26. CASE LiveClose
    <2>1. started /\ Moved("Stop") /\ UNCHANGED <<host, tick>> /\ started' = FALSE
      BY <1>26, <1>b
      DEF LiveClose, FacadeStopped, SessionShutdown, DevicesClosed, HostInvariant
    <2>2. QED
      BY <1>a, <1>s, <2>1 DEF ScreenInvariant, Moved, Published, HasFacade
  <1>27. CASE DriverClose
    <2>1. started /\ Moved("Stop") /\ UNCHANGED <<host, tick>> /\ started' = FALSE
      BY <1>27, <1>b
      DEF DriverClose, Quiesced, FacadeStopped, SessionShutdown, DevicesClosed, HostInvariant
    <2>2. QED
      BY <1>a, <1>s, <2>1 DEF ScreenInvariant, Moved, Published, HasFacade
  <1>28. CASE Exit
    BY <1>28, <1>a, <1>b
    DEF Exit, Quiesced, ScreenInvariant, HasFacade, HostInvariant
  <1>29. ASSUME NEW d \in Devices \cup {None}, SwapDevice(d)
        PROVE  ScreenInvariant'
    BY <1>29, <1>a, <1>b
    DEF SwapDevice, Attach, Resumed, ScreenInvariant, HasFacade, HostInvariant
  <1>30. QED
    BY <1>1, <1>2, <1>3, <1>4, <1>5, <1>6, <1>7, <1>8, <1>9, <1>10, <1>11, <1>12, <1>13, <1>14,
       <1>15, <1>16, <1>17, <1>18, <1>19, <1>20, <1>21, <1>22, <1>23, <1>24, <1>25, <1>26,
       <1>27, <1>28, <1>29
    DEF Next, TickStep, HostStep

LEMMA LiveCorrect == Spec => []LiveInvariant
  <1>1. Init => LiveInvariant
    <2> SUFFICES ASSUME Init
                 PROVE  LiveInvariant
      OBVIOUS
    <2>1. QueueTypes /\ Switches
      <3>1. Len(<<>>) <= Capacity
        BY EmptySeq, EngineAssumption
      <3>2. QueueTypes
        BY <3>1 DEF Init, QueueTypes
      <3>3. QED
        BY <3>2 DEF Init, Switches
    <2>2. ReportTypes
      BY EmptySeq, EngineAssumption DEF Init, ReportTypes
    <2>3. PlainTypes /\ SnapType
      BY DEF Init, PlainTypes, SnapType, LifecycleStates, PerformerStates
    <2>4. HostInvariant /\ NotesInvariant /\ FlushInvariant
      BY DEF Init, HostInvariant, NotesInvariant, FlushInvariant
    <2>5. ScreenInvariant
      BY DEF Init, ScreenInvariant, NotRunning
    <2>6. QED
      BY <2>1, <2>2, <2>3, <2>4, <2>5 DEF Types, LiveInvariant
  <1>2. LiveInvariant /\ [Next]_vars => LiveInvariant'
    BY StepTypes, StepHost, StepNotes, StepFlush, StepScreen DEF LiveInvariant
  <1>3. QED
    BY <1>1, <1>2, PTL DEF Spec

(***************************************************************************)
(* The type invariant: no queue grows beyond its capacity, and every call  *)
(* of any host leaves the states of the session and the lifecycle among    *)
(* those their tables have.                                                *)
(***************************************************************************)
THEOREM LiveTypes == Spec => []TypeOK
  <1>1. Types => TypeOK
    <2> SUFFICES ASSUME Types
                 PROVE  TypeOK
      OBVIOUS
    <2>1. telemetry \in Seq(BOOLEAN) /\ Len(telemetry) <= Capacity
      BY Zenon DEF Types, ReportTypes
    <2>2. QED
      BY <2>1, Zenon
      DEF TypeOK, Types, QueueTypes, Switches, PlainTypes, SnapType, Queued, Posted
  <1>2. QED
    BY <1>1, LiveCorrect, PTL DEF LiveInvariant

(***************************************************************************)
(* For any devices, queues of any length and whatever the screen, the      *)
(* keyboard and the timer do: when LiveHostDriver swaps the style or the   *)
(* device no tick runs, and unless its own command was dropped nothing     *)
(* plays, waits or sounds (LiveHostDriver.h:83-96).                        *)
(***************************************************************************)
THEOREM SwapsAtRest == Spec => []SwapIsQuiet
  <1>1. LiveInvariant => SwapIsQuiet
    BY DEF LiveInvariant, HostInvariant, FlushInvariant, Quieted, SwapIsQuiet
  <1>2. QED
    BY <1>1, LiveCorrect, PTL

(***************************************************************************)
(* Closing waits for the timer's callback in every host that has a timer,  *)
(* and the live host leaves no note behind (LiveHostDriver.h:49-54).       *)
(***************************************************************************)
THEOREM ClosesQuietly == Spec => []ClosedIsQuiet
  <1>1. LiveInvariant => ClosedIsQuiet
    BY DEF LiveInvariant, HostInvariant, NotesInvariant, ClosedIsQuiet
  <1>2. QED
    BY <1>1, LiveCorrect, PTL

(***************************************************************************)
(* The snapshot between ticks and the lifecycle are those of the engine    *)
(* (live_engine_facade.cpp).                                               *)
(***************************************************************************)
THEOREM SnapshotsAreTrue == Spec => []SnapshotIsCurrent
  <1>1. LiveInvariant => SnapshotIsCurrent
    <2> SUFFICES ASSUME LiveInvariant, HasFacade
                 PROVE  SnapshotIsCurrent
      BY DEF SnapshotIsCurrent
    <2>1. /\ started => lifecycle = "Running" /\ snap.lifecycle = lifecycle
          /\ ~started => lifecycle \in NotRunning
          /\ tick = "none" => snap.playing = playing
      BY DEF LiveInvariant, ScreenInvariant
    <2>2. Edges["Start"].from = NotRunning /\ Edges["Stop"].from = Started
      BY DEF Edges
    <2>3. ErrorOf(lifecycle, IF started THEN "Stop" ELSE "Start") = "Ok"
      BY <2>1, <2>2 DEF ErrorOf, Legal, NotRunning, Started
    <2>4. lifecycle = "Running" <=> started
      BY <2>1 DEF NotRunning
    <2>5. QED
      BY <2>1, <2>3, <2>4 DEF SnapshotIsCurrent, Shown
  <1>2. QED
    BY <1>1, LiveCorrect, PTL

=============================================================================
