------------------------------ MODULE LiveEngine ------------------------------
(***************************************************************************)
(* The engine in its hosts: LiveEngineFacade with its two command queues   *)
(* (src/session/live_engine_facade.{h,cpp}), driven by one of              *)
(*    live     LiveHostDriver: a timer thread ticks, the message thread    *)
(*             gives commands, loads styles and switches devices, and the  *)
(*             MIDI read thread delivers chords;                           *)
(*    driver   EngineDriver: the same without facade and MIDI input, which *)
(*             stops without a last tick;                                  *)
(*    bridge   the C interface: one owner ticks, starts and stops it,      *)
(*             commands come from anywhere; there are no devices;          *)
(*    korg     the playback tool (tools/korg_playback_cli.cpp): no facade  *)
(*             and no queues, its keys call the player while a thread that *)
(*             ticks only when the clock runs may be in the middle of it.  *)
(*                                                                         *)
(* A tick goes through commands, inputs, handle, play and pump; between    *)
(* any two of its steps the other threads may move.  Of the player there   *)
(* is whether it runs and whether a note sounds (StylePlayer has the       *)
(* rest); the scheduler and the output bridge are one queue, emptied by    *)
(* every tick.                                                             *)
(***************************************************************************)
EXTENDS EngineLifecycle, RealtimeStateMachine, Naturals, Sequences

CONSTANTS
  Hosts,           \* which of the hosts
  Devices,         \* the MIDI destinations
  None,
  FirstDevice,     \* the one initialize() selects, None if there is none
  Commands,        \* the buttons of the screen
  Capacity         \* room in cmd_q_, input_q_ and the adapter's queue

ASSUME EngineAssumption ==
  /\ Hosts \subseteq {"live", "driver", "bridge", "korg"}
  /\ None \notin Devices
  /\ FirstDevice \in Devices \cup {None}
  /\ Commands \subseteq {"Start", "Stop", "SyncArm", "Panic", "Chord"}
  /\ Capacity \in Nat \ {0}

VARIABLES
  host,
  ui,              \* where the message thread is in stop, reload or switch
  task,            \* which of them
  timerOn,         \* whether the timer is armed
  tick,            \* where the tick in progress is, or none
  cmdQ, inQ, adQ,  \* cmd_q_, input_q_ and the adapter's queue
  sink,            \* whether the input source has the facade's sink
  started,         \* the facade's started_, the session's booted_
  styled,          \* style_loaded_
  lifecycle,
  lastError,       \* Ok, QueueFull, or Lost: still Ok although an event was dropped
  snap,            \* the published snapshot; for the driver what the screen shows
  telemetry,       \* EngineBridge's ring of what each tick reports
  playing,         \* the clock runs
  sync,            \* the sync controller's state
  tracked,         \* the panic handler has a bit set
  out,             \* the scheduler's queue and out_bridge_
  device,          \* the selected destination
  sounding,        \* the destinations on which a note sounds
  refused          \* history: the host's own panic or stop was dropped

hostVars == <<host, ui, task, timerOn>>
queueVars == <<cmdQ, inQ, adQ>>
screenVars == <<snap, telemetry>>
facadeVars == <<sink, started, styled, lifecycle>>
engineVars == <<playing, sync, tracked, out>>
deviceVars == <<device, sounding>>
vars == <<hostVars, tick, queueVars, facadeVars, lastError, screenVars, engineVars,
          deviceVars, refused>>

Init ==
  /\ host \in Hosts
  /\ ui = "idle" /\ task = "none" /\ timerOn = FALSE /\ tick = "none"
  /\ cmdQ = <<>> /\ inQ = <<>> /\ adQ = <<>>
  /\ sink = FALSE /\ started = FALSE /\ styled = FALSE
  /\ lifecycle = "Created" /\ lastError = "Ok"
  /\ snap = [playing |-> FALSE, lifecycle |-> "Created"] /\ telemetry = <<>>
  /\ playing = FALSE /\ sync = "Idle" /\ tracked = FALSE /\ out = <<>>
  /\ device = None /\ sounding = {}
  /\ refused = FALSE

Full(q) == Len(q) = Capacity

\* Dropped, and only an older error shows.
Unreported == IF lastError = "Ok" THEN "Lost" ELSE lastError

(***************************************************************************)
(* The message thread is between two calls; with the bridge the tick is    *)
(* one of its calls.                                                       *)
(***************************************************************************)
Free == ui = "idle" /\ (host = "bridge" => tick = "none")

\* Mutated: what was published is never replaced.
NothingPublished == UNCHANGED screenVars

(***************************************************************************)
(* The facade stores a snapshot; EngineDriver pushes a report, which a     *)
(* full ring drops, and the screen takes them one by one.                  *)
(***************************************************************************)
Published ==
  CASE host = "driver" ->
         /\ telemetry' = IF Full(telemetry) THEN telemetry ELSE Append(telemetry, playing')
         /\ UNCHANGED snap
    [] host = "korg" -> UNCHANGED screenVars
    [] OTHER ->
         /\ snap' = [playing |-> playing', lifecycle |-> lifecycle']
         /\ UNCHANGED telemetry

PollTelemetry ==
  /\ telemetry # <<>> /\ ui = "idle"
  /\ snap' = [snap EXCEPT !.playing = Head(telemetry)]
  /\ telemetry' = Tail(telemetry)
  /\ UNCHANGED <<hostVars, tick, queueVars, facadeVars, lastError, engineVars, deviceVars,
                 refused>>

\* What the window shows of it, 30 times a second.
Shown == snap.playing

HasFacade == host \in {"live", "bridge"}

\* Without a facade there is neither snapshot nor lifecycle.
Moved(ev) ==
  IF ~HasFacade THEN UNCHANGED <<lifecycle, screenVars>>
  ELSE lifecycle' = Applied(lifecycle, ev) /\ Published

\* EngineSession::boot loads the demo style unless one is loaded.
Booted == started' = TRUE /\ styled' = TRUE
-----------------------------------------------------------------------------
(***************************************************************************)
(* Start: the host initializes its devices, boots the session and arms     *)
(* the timer last.                                                         *)
(***************************************************************************)
Starting(keyboard, timer, first) ==
  /\ Free /\ ~started
  /\ Booted
  /\ sink' = keyboard
  /\ timerOn' = timer
  /\ device' = first
  /\ UNCHANGED <<host, ui, task, tick, queueVars, lastError, engineVars, sounding,
                 refused>>
  /\ Moved("Start")

LiveStart == host = "live" /\ Starting(TRUE, TRUE, FirstDevice)

DriverStart == host = "driver" /\ Starting(FALSE, TRUE, None)

BridgeStart == host = "bridge" /\ Starting(FALSE, FALSE, None)

\* A file or the demo style, the player with its output, and the pump thread.
KorgStart == host = "korg" /\ Starting(FALSE, TRUE, FirstDevice)

\* start() on a started facade returns, and the bridge answers AIARR_OK.
StartAgain == Free /\ started /\ UNCHANGED vars

(***************************************************************************)
(* A command: a full queue drops it, which the facade records and the      *)
(* EngineBridge of the driver does not.                                    *)
(***************************************************************************)
LiveButtons == {"Start", "Stop", "SyncArm", "Panic"}

\* Its chord panel sends chords over the same queue.
DriverButtons == LiveButtons \cup {"Chord"}

BridgeCalls == {"Start", "Stop", "Panic"}

Offered ==
  CASE host = "live" -> LiveButtons
    [] host = "driver" -> DriverButtons
    [] host = "bridge" -> BridgeCalls
    [] host = "korg" -> {}

Command(c) ==
  /\ c \in Offered
  /\ ui = "idle" /\ (host # "bridge" => started)
  /\ cmdQ' = IF Full(cmdQ) THEN cmdQ ELSE Append(cmdQ, c)
  /\ lastError' = IF Full(cmdQ) /\ HasFacade THEN "QueueFull" ELSE lastError
  /\ UNCHANGED <<hostVars, tick, inQ, adQ, facadeVars, screenVars, engineVars, deviceVars,
                 refused>>

(***************************************************************************)
(* The read thread routes a chord onto input_q_; the result of push is     *)
(* dropped.                                                                *)
(***************************************************************************)
ReadInput ==
  /\ sink
  /\ inQ' = IF Full(inQ) THEN inQ ELSE Append(inQ, "Chord")
  /\ lastError' = IF Full(inQ) THEN Unreported ELSE lastError
  /\ UNCHANGED <<hostVars, tick, cmdQ, adQ, facadeVars, screenVars, engineVars,
                 deviceVars, refused>>

(***************************************************************************)
(* A destination is selected, which silences the one selected before.  The *)
(* driver and the tool do so while the engine plays, the live host only    *)
(* before start.                                                           *)
(***************************************************************************)
Attach(d) ==
  /\ device' = d
  /\ sounding' = IF d = device THEN sounding ELSE sounding \ {device}

SelectOutput(d) ==
  /\ ui = "idle"
  /\ \/ host = "driver" /\ started
     \/ host = "live" /\ ~started
     \/ host = "korg" /\ started /\ d # None
  /\ Attach(d)
  /\ UNCHANGED <<hostVars, tick, queueVars, facadeVars, lastError, screenVars, engineVars,
                 refused>>

\* Mutated: the lifecycle is moved while the engine runs.
LoadMovesAlways == lifecycle' = Edges["LoadStyle"].to

LoadMoves ==
  lifecycle' = IF lifecycle \in Started THEN lifecycle ELSE Applied(lifecycle, "LoadStyle")

LoadStopped ==
  /\ host = "live" /\ ui = "idle" /\ ~started
  /\ styled' = TRUE
  /\ LoadMoves
  /\ UNCHANGED <<hostVars, tick, queueVars, sink, started, lastError, screenVars, engineVars,
                 deviceVars, refused>>
-----------------------------------------------------------------------------
(***************************************************************************)
(* The tick.                                                               *)
(***************************************************************************)
TimerFires == timerOn /\ host # "korg" /\ tick' = "commands"

BridgeTicks == host = "bridge" /\ ui = "idle" /\ tick' = "commands"

\* The tool's thread looks at the clock, and there is no queue to empty.
PumpFires == timerOn /\ host = "korg" /\ playing /\ tick' = "handle"

TickBegin ==
  /\ tick = "none"
  /\ TimerFires \/ BridgeTicks \/ PumpFires
  /\ UNCHANGED <<hostVars, queueVars, facadeVars, lastError, screenVars, engineVars,
                 deviceVars, refused>>

(***************************************************************************)
(* Both queues are emptied into the adapter's, whose postEvent may fail.   *)
(***************************************************************************)
Post(e) ==
  /\ adQ' = IF Full(adQ) THEN adQ ELSE Append(adQ, e)
  /\ lastError' = IF Full(adQ) THEN Unreported ELSE lastError

DrainCommand ==
  /\ tick = "commands" /\ cmdQ # <<>>
  /\ Post(Head(cmdQ))
  /\ cmdQ' = Tail(cmdQ)
  /\ UNCHANGED <<hostVars, tick, inQ, facadeVars, screenVars, engineVars,
                 deviceVars, refused>>

CommandsDrained ==
  /\ tick = "commands" /\ cmdQ = <<>>
  /\ tick' = IF host = "driver" THEN "handle" ELSE "inputs"
  /\ UNCHANGED <<hostVars, queueVars, facadeVars, lastError, screenVars, engineVars,
                 deviceVars, refused>>

DrainInput ==
  /\ tick = "inputs" /\ inQ # <<>>
  /\ Post(Head(inQ))
  /\ inQ' = Tail(inQ)
  /\ UNCHANGED <<hostVars, tick, cmdQ, facadeVars, screenVars, engineVars,
                 deviceVars, refused>>

InputsDrained ==
  /\ tick = "inputs" /\ inQ = <<>>
  /\ tick' = "handle"
  /\ UNCHANGED <<hostVars, queueVars, facadeVars, lastError, screenVars, engineVars,
                 deviceVars, refused>>

(***************************************************************************)
(* What the engine makes of a command.  Flushed turns the sounding note    *)
(* off; panic empties the scheduler and silences every channel.            *)
(***************************************************************************)
Flushed ==
  /\ out' = IF tracked THEN Append(out, "off") ELSE out
  /\ tracked' = FALSE

Silenced == out' = <<"silence">> /\ tracked' = FALSE

PlayerCall(c) ==
  CASE c = "Start" -> playing' = styled /\ UNCHANGED <<out, tracked>>
    [] c = "Stop"  -> playing' = FALSE /\ Flushed
    [] c = "Panic" -> playing' = FALSE /\ Silenced
    [] c = "Chord" -> /\ UNCHANGED playing
                      /\ IF playing THEN Flushed ELSE UNCHANGED <<out, tracked>>

\* Mutated: the bits are forgotten and nothing is sent.
PanicSendsNothing ==
  out' = <<>> /\ tracked' = FALSE /\ playing' = FALSE /\ sync' = "Idle"

PanicHandled == PlayerCall("Panic") /\ sync' = "Idle"

ChordHandled ==
  /\ sync' = After(sync, "ChordDetected")
  /\ playing' = (playing \/ (sync = "Armed" /\ styled))
  /\ IF playing' THEN Flushed ELSE UNCHANGED <<out, tracked>>

Handle(c) ==
  CASE c = "Start" -> sync' = After(sync, "Start") /\ PlayerCall("Start")
    [] c = "Stop" -> sync' = After(After(sync, "Stop"), "Stopped") /\ PlayerCall("Stop")
    [] c = "SyncArm" -> sync' = After(sync, "Arm") /\ UNCHANGED <<playing, out, tracked>>
    [] c = "Panic" -> PanicHandled
    [] c = "Chord" -> ChordHandled

HandleEvent ==
  /\ tick = "handle" /\ adQ # <<>>
  /\ Handle(Head(adQ))
  /\ adQ' = Tail(adQ)
  /\ UNCHANGED <<hostVars, tick, cmdQ, inQ, facadeVars, lastError, screenVars, deviceVars,
                 refused>>

(***************************************************************************)
(* The player's tick: the note may go on or off.  The tool's tick goes on  *)
(* when a key has stopped the clock, and what it queues together with a    *)
(* key may be lost.                                                        *)
(***************************************************************************)
Play ==
  /\ tick \in {"handle", "raced"} /\ adQ = <<>>
  /\ tick' = "pump"
  /\ \/ UNCHANGED <<tracked, out>>
     \/ /\ playing \/ host = "korg"
        /\ tracked' = ~tracked
        /\ \/ out' = Append(out, IF tracked THEN "off" ELSE "on")
           \/ tick = "raced" /\ UNCHANGED out
  /\ UNCHANGED <<hostVars, queueVars, facadeVars, lastError, screenVars, playing, sync,
                 deviceVars, refused>>

(***************************************************************************)
(* What was queued goes to the selected destination, the last event last.  *)
(* The bridge has no output and keeps nothing that anybody reads.          *)
(***************************************************************************)
Delivered ==
  IF out = <<>> \/ device = None THEN sounding
  ELSE IF out[Len(out)] = "on" THEN sounding \cup {device}
  ELSE sounding \ {device}

Pump ==
  /\ tick = "pump"
  /\ tick' = "none"
  /\ sounding' = Delivered /\ out' = <<>>
  /\ ui' = IF ui = "flush" THEN "swap" ELSE ui
  /\ UNCHANGED <<host, task, timerOn, queueVars, facadeVars, lastError, playing, sync,
                 tracked, device, refused>>
  /\ Published
-----------------------------------------------------------------------------
(***************************************************************************)
(* LiveHostDriver's stop, reloadStyle and switchOutput: stop the timer and *)
(* wait for the tick in progress; give a command and tick once by hand;    *)
(* swap; arm the timer again.                                              *)
(***************************************************************************)
BeginTask(t) ==
  /\ Free /\ started /\ timerOn /\ host # "korg"
  /\ host = "driver" => t = "close"
  /\ timerOn' = FALSE
  /\ ui' = "quiesce" /\ task' = t
  /\ UNCHANGED <<host, tick, queueVars, facadeVars, lastError, screenVars, engineVars,
                 deviceVars, refused>>

\* Mutated: the timer is stopped without waiting for its callback.
QuiescedEarly == ui = "quiesce" /\ tick # "handle"

\* Mutated: with the timer stopped it waits for the queue that only ticks empty.
QuiescedWhenEmpty == ui = "quiesce" /\ tick = "none" /\ cmdQ = <<>>

Quiesced == ui = "quiesce" /\ tick = "none"

LastCommand == IF task = "reload" THEN "Stop" ELSE "Panic"

FlushTick ==
  /\ Quiesced /\ host = "live"
  /\ cmdQ' = IF Full(cmdQ) THEN cmdQ ELSE Append(cmdQ, LastCommand)
  /\ lastError' = IF Full(cmdQ) THEN "QueueFull" ELSE lastError
  /\ refused' = (refused \/ Full(cmdQ))
  /\ ui' = "flush" /\ tick' = "commands"
  /\ UNCHANGED <<host, task, timerOn, inQ, adQ, facadeVars, screenVars, engineVars,
                 deviceVars>>

Resumed == ui' = "idle" /\ task' = "none" /\ timerOn' = TRUE

SwapStyle ==
  /\ ui = "swap" /\ task = "reload"
  /\ styled' = TRUE
  /\ LoadMoves
  /\ Resumed
  /\ UNCHANGED <<host, tick, queueVars, sink, started, lastError, screenVars, engineVars,
                 deviceVars, refused>>

SwapDevice(d) ==
  /\ ui = "swap" /\ task = "switch"
  /\ Attach(d)
  /\ Resumed
  /\ UNCHANGED <<host, tick, queueVars, facadeVars, lastError, screenVars, engineVars,
                 refused>>

(***************************************************************************)
(* EngineSession::shutdown stops and panics the player, but nothing pumps  *)
(* what that puts on the scheduler.                                        *)
(***************************************************************************)
SessionShutdown ==
  /\ started' = FALSE
  /\ playing' = FALSE
  /\ Silenced
  /\ UNCHANGED <<styled, sync>>

FacadeStopped == sink' = FALSE /\ SessionShutdown /\ Moved("Stop")

DevicesClosed ==
  /\ device' = None
  /\ ui' = "idle" /\ task' = "none"
  /\ UNCHANGED <<host, timerOn, tick, queueVars, lastError, sounding, refused>>

LiveClose == ui = "swap" /\ task = "close" /\ FacadeStopped /\ DevicesClosed

DriverClose == Quiesced /\ host = "driver" /\ FacadeStopped /\ DevicesClosed

BridgeStop ==
  /\ host = "bridge" /\ Free /\ started
  /\ FacadeStopped
  /\ UNCHANGED <<hostVars, tick, queueVars, lastError, deviceVars, refused>>

(***************************************************************************)
(* The tool's keys: space starts or stops, and p, c and the brackets call  *)
(* the player and the output.  Both threads push on a queue made for one   *)
(* of them, so that what a key queues during a tick may be lost.           *)
(***************************************************************************)
Raced == tick' = IF tick = "handle" THEN "raced" ELSE tick

PressKey(c) ==
  /\ host = "korg" /\ ui = "idle" /\ started
  /\ c = "Start" => ~playing
  /\ c = "Stop" => playing
  /\ \/ PlayerCall(c)
     \/ tick # "none" /\ c # "Start" /\ playing' = (playing /\ c = "Chord")
                     /\ tracked' = FALSE /\ UNCHANGED out
  /\ Raced
  /\ UNCHANGED <<hostVars, queueVars, facadeVars, lastError, screenVars, sync, deviceVars,
                 refused>>

\* q: panic, deliver everything, and wait for the thread.
Quit ==
  /\ host = "korg" /\ ui = "idle" /\ started
  /\ playing' = FALSE /\ tracked' = FALSE
  /\ out' = <<>> /\ sounding' = sounding \ {device}
  /\ Raced
  /\ timerOn' = FALSE
  /\ ui' = "quiesce" /\ task' = "close"
  /\ UNCHANGED <<host, queueVars, facadeVars, lastError, screenVars, sync, device, refused>>

\* The process ends.
Exit ==
  /\ Quiesced /\ host = "korg"
  /\ started' = FALSE /\ device' = None
  /\ tracked' = FALSE /\ out' = <<>>
  /\ ui' = "idle" /\ task' = "none"
  /\ UNCHANGED <<host, timerOn, tick, queueVars, sink, styled, lifecycle, lastError,
                 screenVars, playing, sync, sounding, refused>>

TickStep ==
  \/ DrainCommand \/ CommandsDrained \/ DrainInput \/ InputsDrained
  \/ HandleEvent \/ Play \/ Pump

HostStep ==
  \/ FlushTick \/ SwapStyle \/ LiveClose \/ DriverClose \/ Exit
  \/ \E d \in Devices \cup {None} : SwapDevice(d)

Next ==
  \/ LiveStart \/ DriverStart \/ BridgeStart \/ KorgStart \/ StartAgain \/ ReadInput \/ LoadStopped
  \/ \E c \in Commands : Command(c)
  \/ \E d \in Devices \cup {None} : SelectOutput(d)
  \/ \E t \in {"close", "reload", "switch"} : BeginTask(t)
  \/ \E c \in {"Start", "Stop", "Panic", "Chord"} : PressKey(c)
  \/ BridgeStop \/ PollTelemetry \/ Quit
  \/ TickBegin \/ TickStep \/ HostStep

Spec == Init /\ [][Next]_vars

(***************************************************************************)
(* The timer fires again and again, both threads go on with what they have *)
(* begun, the screen is refreshed, and a loop that empties a queue ends if *)
(* it finds the queue empty often enough.                                  *)
(***************************************************************************)
FairSpec ==
  /\ Spec
  /\ WF_vars(TickBegin /\ host # "bridge") /\ WF_vars(TickStep) /\ WF_vars(HostStep)
  /\ WF_vars(PollTelemetry)
  /\ SF_vars(CommandsDrained) /\ SF_vars(InputsDrained)
-----------------------------------------------------------------------------
TypeOK ==
  /\ host \in Hosts
  /\ ui \in {"idle", "quiesce", "flush", "swap"}
  /\ task \in {"none", "close", "reload", "switch"}
  /\ tick \in {"none", "commands", "inputs", "handle", "raced", "pump"}
  /\ timerOn \in BOOLEAN /\ sink \in BOOLEAN /\ started \in BOOLEAN /\ styled \in BOOLEAN
  /\ cmdQ \in Seq(Commands \cup {"Stop", "Panic"}) /\ Len(cmdQ) <= Capacity
  /\ inQ \in Seq({"Chord"}) /\ Len(inQ) <= Capacity
  /\ adQ \in Seq(Commands \cup {"Stop", "Panic", "Chord"}) /\ Len(adQ) <= Capacity
  /\ lifecycle \in LifecycleStates
  /\ lastError \in {"Ok", "QueueFull", "Lost"}
  /\ snap \in [playing : BOOLEAN, lifecycle : LifecycleStates]
  /\ telemetry \in Seq(BOOLEAN) /\ Len(telemetry) <= Capacity
  /\ playing \in BOOLEAN /\ tracked \in BOOLEAN
  /\ sync \in PerformerStates
  /\ out \in Seq({"on", "off", "silence"})
  /\ device \in Devices \cup {None} /\ sounding \subseteq Devices
  /\ refused \in BOOLEAN

(***************************************************************************)
(* When LiveHostDriver swaps the style or the device (LiveHostDriver.h:    *)
(* 83-88, 91-96) the engine is at rest: no tick runs or can begin, nothing *)
(* plays, waits for a chord, or is tracked, nothing is left to send, and   *)
(* no destination sounds, unless its own command found the queue full.     *)
(***************************************************************************)
SwapIsQuiet ==
  ui = "swap" =>
    /\ tick = "none" /\ ~timerOn /\ cmdQ = <<>> /\ adQ = <<>>
    /\ ~refused => /\ ~playing /\ ~tracked /\ sync = "Idle" /\ out = <<>>
                   /\ sounding = {}

(***************************************************************************)
(* Closing while playing never leaves hanging notes (LiveHostDriver.h:     *)
(* 49-54), and nothing of a closed engine runs on: the timer's callback    *)
(* has returned before the session shuts down.                             *)
(***************************************************************************)
ClosedIsQuiet ==
  host # "bridge" /\ ~started =>
    /\ tick = "none" /\ ~timerOn /\ ~playing
    /\ host = "live" /\ ~refused => sounding = {}

(***************************************************************************)
(* What the screen shows is true (ENGINE_PRODUCT_CONTRACT.md:68-70):       *)
(* between ticks the published snapshot says whether the engine plays, the *)
(* lifecycle is Running exactly while the facade is started, and apply(),  *)
(* whose answer nobody looks at, has no error to report.                   *)
(***************************************************************************)
SnapshotIsCurrent ==
  HasFacade =>
    /\ lifecycle = "Running" <=> started
    /\ ErrorOf(lifecycle, IF started THEN "Stop" ELSE "Start") = "Ok"
    /\ tick = "none" /\ ui = "idle" =>
         /\ Shown = playing
         /\ started => snap.lifecycle = lifecycle

(***************************************************************************)
(* Stop, reload and switch return (LiveHostDriver.h:46-64): waiting for    *)
(* the timer's callback and ticking by hand end, if the keyboard leaves    *)
(* the input queue empty now and then.                                     *)
(***************************************************************************)
HostReturns == []<>(inQ = <<>>) => (ui # "idle" ~> ui = "idle")

(***************************************************************************)
(* The screen follows: an engine that goes on playing is shown as playing  *)
(* for good, also by the driver, whose full ring drops the newest report   *)
(* (MainComponent.cpp:41-50, EngineDriver.h:54-63), if the hands leave the *)
(* queues empty now and then.                                              *)
(***************************************************************************)
ScreenFollows ==
  host \in {"live", "driver"} /\ []<>(cmdQ = <<>>) /\ []<>(inQ = <<>>) => (<>[]playing => <>[]Shown)

(***************************************************************************)
(* No error is silently swallowed (ENGINE_PRODUCT_CONTRACT.md:169-171): an *)
(* event that is dropped shows in lastError().                             *)
(***************************************************************************)
LossIsReported == HasFacade => lastError # "Lost"

(***************************************************************************)
(* "stopping never leaves stuck notes" (style_player.cpp:57), in the tool  *)
(* that plays to a Korg too: what sounds when it stops is silenced, unless *)
(* it plays again.                                                         *)
(***************************************************************************)
StopIsHeard == host = "korg" /\ ~playing /\ sounding # {} ~> playing \/ sounding = {}
=============================================================================
