-------------------------- MODULE PerformerAdapter --------------------------
(***************************************************************************)
(* PerformerAdapter (src/engine/integration/performer_adapter.cpp): the    *)
(* keys and the pedal, chord detection with its release latch, and sync    *)
(* start.  It runs on the engine thread alone: in every round it takes the *)
(* events that have come in, one after the other, and then looks at the    *)
(* latch (tick()).                                                         *)
(*                                                                         *)
(* Of StylePlayer and the clock only what the adapter touches is here:     *)
(* whether the loaded style has a section to play, whether the player      *)
(* runs, its sample position and its chord; the module StylePlayer has the *)
(* rest.  A chord is a type and a root: the sequencer drops the bass.  The *)
(* detectors are the constant Detect.  The variation and fill bookkeeping, *)
(* which nothing reads back, is left out, and so is the capacity of the    *)
(* event queue.                                                            *)
(***************************************************************************)
EXTENDS Integers, SequencesExt, RealtimeStateMachine

CONSTANTS
  Notes,           \* the keys, numbers in keyboard order
  Lower,           \* those below the split point
  Chords, NoChord, \* recognised chords; the "none" of the detectors
  StartChord,      \* the chord StylePlayer::start() sets
  Detect,          \* the scan mode: the chord of each set of notes
  MaxHeld,         \* kMaxHeld
  HoldModes,       \* the settings of hold mode looked at
  LatchSamples,    \* latch_ms_ in samples
  Steps,           \* sample blocks by which the clock may advance
  MaxSamples       \* bound: the clock stops advancing here

ASSUME AdapterAssumption ==
  /\ Notes \subseteq Nat /\ Lower \subseteq Notes
  /\ NoChord \notin Chords /\ StartChord \in Chords
  /\ Detect \in [SUBSET Lower -> Chords \cup {NoChord}]
  /\ Detect[{}] = NoChord
  /\ MaxHeld \in Nat /\ HoldModes \subseteq BOOLEAN
  /\ LatchSamples \in Nat /\ Steps \subseteq Nat /\ MaxSamples \in Nat

VARIABLES
  held,            \* held_: ascending, a key pressed again may be in it twice
  sustain,         \* sustain_
  sustained,       \* sustained_: releases deferred to the pedal's
  sync,            \* SyncController's state machine
  performer,       \* the adapter's own, sm_
  lastChord,       \* last_chord_
  holdMode,        \* hold_mode_
  latchPending,    \* latch_pending_
  latchDeadline,   \* latch_deadline_samples_
  playable,        \* the player's style has a section
  running,         \* the player plays (the clock's running_)
  samples,         \* the clock's sample_position_
  chord,           \* the player's current chord
  phase,           \* idle, or in tick()
  keys,            \* environment: the keys below the split that are down
  wanted,          \* history: keys down whose note the adapter took
  repressed,       \* history: held notes that were pressed again while held
  missed,          \* history: held notes whose release fell into a restart
  armed,           \* history: sync start was asked for with the player stopped
  torn,            \* history: restarted while it played, or the last start was refused,
                   \* and neither started nor stopped since
  chooser,         \* history: whose choice the chord is, if not start()'s own
  quiet            \* history: samples since held last made a chord, capped

keyVars == <<held, sustain, sustained>>
syncVars == <<sync, performer>>
chordVars == <<lastChord, holdMode, latchPending, latchDeadline>>
playerVars == <<running, samples, chord>>
keyHistory == <<wanted, repressed, missed>>
startHistory == <<armed, torn>>
vars == <<keyVars, syncVars, chordVars, playable, playerVars, phase, keys, keyHistory,
          startHistory, chooser, quiet>>

Init ==
  /\ held = <<>> /\ sustain = FALSE /\ sustained = {}
  /\ sync = "Idle" /\ performer = "Idle"
  /\ lastChord = NoChord /\ holdMode \in HoldModes
  /\ latchPending = FALSE /\ latchDeadline = 0
  /\ playable \in BOOLEAN
  /\ running = FALSE /\ samples = 0 /\ chord = StartChord
  /\ phase = "idle"
  /\ keys = {} /\ wanted = {} /\ repressed = {} /\ missed = {}
  /\ armed = FALSE /\ torn = FALSE /\ chooser = "nobody"
  /\ quiet = LatchSamples
-----------------------------------------------------------------------------
(***************************************************************************)
(* The player's own calls, on the player p the calls before have left.     *)
(* start(0) is refused, before it touches anything, when the style has no  *)
(* section; else it takes the clock back to zero and sets a chord of its   *)
(* own.  The adapter does not look at the answer.                          *)
(***************************************************************************)
Player == [running |-> running, samples |-> samples, chord |-> chord]

Started(p) ==
  IF playable THEN [running |-> TRUE, samples |-> 0, chord |-> StartChord] ELSE p

WithChord(p, c) == [p EXCEPT !.chord = c]

PlayerBecomes(p) == running' = p.running /\ samples' = p.samples /\ chord' = p.chord

StartSeen == armed' = FALSE /\ torn' = ~ playable

(***************************************************************************)
(* A new chord: the first one while armed starts the player; setChord()    *)
(* comes after that.                                                       *)
(***************************************************************************)
Fires == sync = "Armed"

\* Mutated: start() comes after setChord().
StartWins(c) ==
  IF Fires
  THEN /\ sync' = After(sync, "ChordDetected")
       /\ performer' = After(performer, "ChordDetected")
       /\ PlayerBecomes(Started(WithChord(Player, c)))
       /\ StartSeen
  ELSE PlayerBecomes(WithChord(Player, c)) /\ UNCHANGED <<syncVars, startHistory>>

ChordPresent(c) ==
  IF Fires
  THEN /\ sync' = After(sync, "ChordDetected")
       /\ performer' = After(performer, "ChordDetected")
       /\ PlayerBecomes(WithChord(Started(Player), c))
       /\ StartSeen
  ELSE PlayerBecomes(WithChord(Player, c)) /\ UNCHANGED <<syncVars, startHistory>>

(***************************************************************************)
(* redetectChord(), with the notes now held.                               *)
(***************************************************************************)
Detected(notes) == Detect[ToSet(notes)]

\* Mutated: a valid chord leaves the latch pending.
ForgetLatchKeepsIt == UNCHANGED <<latchPending, latchDeadline>>

CancelLatch == latchPending' = FALSE /\ UNCHANGED latchDeadline

ArmLatch ==
  IF holdMode \/ latchPending
  THEN UNCHANGED <<latchPending, latchDeadline>>
  ELSE latchPending' = TRUE /\ latchDeadline' = samples + LatchSamples

RedetectChord(notes) ==
  /\ IF Detected(notes) # NoChord
     THEN /\ CancelLatch
          /\ lastChord' = Detected(notes)
          /\ ChordPresent(Detected(notes))
          /\ quiet' = 0 /\ chooser' = "keys"
     ELSE /\ ArmLatch
          /\ UNCHANGED <<lastChord, syncVars, playerVars, startHistory, chooser>>
          /\ quiet' = IF Detected(held) # NoChord THEN 0 ELSE quiet
  /\ UNCHANGED <<holdMode, playable>>

NothingToDetect ==
  UNCHANGED <<chordVars, syncVars, playable, playerVars, startHistory, chooser, quiet>>
-----------------------------------------------------------------------------
(***************************************************************************)
(* One round: the clock advances, the events of the round are handled, the *)
(* latch is looked at.                                                     *)
(***************************************************************************)
BeginTick ==
  /\ phase = "idle"
  /\ phase' = "events"
  /\ \E n \in Steps :
       /\ samples' = IF running /\ samples + n <= MaxSamples THEN samples + n ELSE samples
       /\ quiet' = IF Detected(held) # NoChord THEN 0
                   ELSE IF quiet + n < LatchSamples THEN quiet + n ELSE LatchSamples
  /\ UNCHANGED <<keyVars, syncVars, chordVars, playable, running, chord, keys, keyHistory,
                 startHistory, chooser>>

LatchExpires == latchPending /\ samples >= latchDeadline

EndTick ==
  /\ phase = "events"
  /\ phase' = "idle"
  /\ IF LatchExpires
     THEN latchPending' = FALSE /\ lastChord' = NoChord /\ chord' = NoChord
          /\ chooser' = "keys"
     ELSE UNCHANGED <<latchPending, lastChord, chord, chooser>>
  /\ UNCHANGED <<keyVars, syncVars, holdMode, latchDeadline, playable, running, samples,
                 keys, keyHistory, startHistory, quiet>>

(***************************************************************************)
(* noteOn(): the note goes in behind the last one that is not higher; the  *)
(* comparison meant to find it already held looks at the place it goes to, *)
(* which never holds it.                                                   *)
(***************************************************************************)
PlaceOf(n) == Max({p \in 1 .. Len(held) + 1 : p = 1 \/ held[p - 1] <= n})

WithNote(n) == InsertAt(held, PlaceOf(n), n)

\* Mutated: the deferred release of a key pressed again stays.
KeepSustained(n) == UNCHANGED sustained

ForgetSustained(n) == sustained' = sustained \ {n}

NoteOn(n) ==
  IF n \notin Lower
  THEN UNCHANGED <<held, sustained, wanted, repressed>> /\ NothingToDetect
  ELSE /\ ForgetSustained(n)
       /\ IF Len(held) >= MaxHeld
          THEN /\ UNCHANGED <<held, repressed>> /\ NothingToDetect
          ELSE /\ held' = WithNote(n)
               /\ repressed' = IF n \in ToSet(held) THEN repressed \cup {n} ELSE repressed
               /\ RedetectChord(held')
       /\ wanted' = IF n \in ToSet(held') THEN wanted \cup {n} ELSE wanted

KeyDown(n) ==
  /\ phase = "events" /\ n \notin keys
  /\ keys' = keys \cup ({n} \cap Lower)
  /\ NoteOn(n)
  /\ UNCHANGED <<sustain, phase, missed>>

\* The histories are of the notes held.
ForgetGone ==
  repressed' = repressed \cap ToSet(held') /\ missed' = missed \cap ToSet(held')

(***************************************************************************)
(* noteOff(): with the pedal down the release is only remembered.          *)
(***************************************************************************)
RememberSustained(n) ==
  sustained' = IF Cardinality(sustained) < MaxHeld THEN sustained \cup {n} ELSE sustained

NoteOff(n) ==
  IF n \notin ToSet(held)
  THEN UNCHANGED <<held, sustained>> /\ NothingToDetect
  ELSE IF sustain
       THEN RememberSustained(n) /\ UNCHANGED held /\ NothingToDetect
       ELSE held' = RemoveFirst(held, n) /\ RedetectChord(held') /\ UNCHANGED sustained

KeyUp(n) ==
  /\ phase = "events" /\ (n \in Lower => n \in keys)
  /\ keys' = keys \ {n}
  /\ wanted' = wanted \ {n}
  /\ NoteOff(n)
  /\ ForgetGone
  /\ UNCHANGED <<sustain, phase>>

(***************************************************************************)
(* setSustain(): lifting the pedal carries out the deferred releases.      *)
(***************************************************************************)
\* Mutated: the list is emptied before it is worked off.
NothingReleased == held

Released == FoldSet(LAMBDA n, s : RemoveFirst(s, n), held, sustained)

Pedal(on) ==
  /\ phase = "events" /\ sustain # on
  /\ sustain' = on
  /\ IF on
     THEN UNCHANGED <<held, sustained>> /\ NothingToDetect
     ELSE /\ held' = Released
          /\ sustained' = {}
          /\ IF held' # held THEN RedetectChord(held') ELSE NothingToDetect
  /\ ForgetGone
  /\ UNCHANGED <<phase, keys, wanted>>
-----------------------------------------------------------------------------
(***************************************************************************)
(* handleControl(): what the performer presses.                            *)
(***************************************************************************)
SyncArm ==
  /\ phase = "events"
  /\ sync' = After(sync, "Arm") /\ performer' = After(performer, "Arm")
  /\ armed' = (armed \/ ~ running)
  /\ UNCHANGED <<keyVars, chordVars, playable, playerVars, phase, keys, keyHistory, torn,
                 chooser, quiet>>

Start ==
  /\ phase = "events"
  /\ sync' = After(sync, "Start") /\ performer' = After(performer, "Start")
  /\ PlayerBecomes(Started(Player))
  /\ StartSeen
  /\ chooser' = IF playable THEN "nobody" ELSE chooser
  /\ UNCHANGED <<keyVars, chordVars, playable, phase, keys, keyHistory, quiet>>

NothingStarted == armed' = FALSE /\ torn' = FALSE

(***************************************************************************)
(* The machines pass through Stopping within the one handler.              *)
(***************************************************************************)
Stop ==
  /\ phase = "events"
  /\ sync' = After(After(sync, "Stop"), "Stopped")
  /\ performer' = After(After(performer, "Stop"), "Stopped")
  /\ running' = FALSE
  /\ NothingStarted
  /\ UNCHANGED <<keyVars, chordVars, playable, samples, chord, phase, keys, keyHistory,
                 chooser, quiet>>

SyncAfterPanic == "Idle"

Panic ==
  /\ phase = "events"
  /\ sync' = SyncAfterPanic /\ performer' = After(performer, "Panic")
  /\ running' = FALSE
  /\ NothingStarted
  /\ UNCHANGED <<keyVars, chordVars, playable, samples, chord, phase, keys, keyHistory,
                 chooser, quiet>>

(***************************************************************************)
(* A chord chosen on the screen: a recognised one goes to the player, the  *)
(* "none" does not, and from then on the two chords may differ.            *)
(***************************************************************************)
ChordEvent(c) ==
  /\ phase = "events"
  /\ lastChord' = c
  /\ IF c # NoChord
     THEN ChordPresent(c) /\ chooser' = "screen"
     ELSE UNCHANGED <<syncVars, playerVars, startHistory>> /\ chooser' = "nobody"
  /\ UNCHANGED <<keyVars, holdMode, latchPending, latchDeadline, playable, phase, keys,
                 keyHistory, quiet>>

(***************************************************************************)
(* LiveEngineFacade::stop() and start(): the session shuts the player down *)
(* and sets its clock back, the adapter stays as it is, and what the keys  *)
(* do meanwhile is not seen.                                               *)
(***************************************************************************)
Restart ==
  /\ phase = "idle"
  /\ running' = FALSE /\ samples' = 0
  /\ keys' \in SUBSET Lower
  /\ wanted' = wanted \cap keys'
  /\ missed' = missed \cup (ToSet(held) \ keys')
  /\ torn' = (torn \/ running)
  /\ UNCHANGED <<keyVars, syncVars, chordVars, playable, chord, phase, repressed, armed,
                 chooser, quiet>>

(***************************************************************************)
(* loadStyle(): any style, between two rounds.  The live host stops the    *)
(* transport first, the facade does not ask for it.                        *)
(***************************************************************************)
LoadStyle ==
  /\ phase = "idle"
  /\ playable' \in BOOLEAN
  /\ UNCHANGED <<keyVars, syncVars, chordVars, playerVars, phase, keys, keyHistory,
                 startHistory, chooser, quiet>>

Next ==
  \/ BeginTick \/ EndTick
  \/ \E n \in Notes : KeyDown(n) \/ KeyUp(n)
  \/ \E on \in BOOLEAN : Pedal(on)
  \/ SyncArm \/ Start \/ Stop \/ Panic
  \/ \E c \in Chords \cup {NoChord} : ChordEvent(c)
  \/ Restart \/ LoadStyle

Spec == Init /\ [][Next]_vars
-----------------------------------------------------------------------------
(***************************************************************************)
(* held_ is ascending, which the manual bass and the detectors rely on.    *)
(***************************************************************************)
Ascending(s) == \A i, j \in DOMAIN s : i < j => s[i] <= s[j]

TypeOK ==
  /\ held \in Seq(Lower) /\ Len(held) <= MaxHeld /\ Ascending(held)
  /\ sustain \in BOOLEAN /\ sustained \subseteq Lower
  /\ sync \in PerformerStates /\ performer \in PerformerStates
  /\ lastChord \in Chords \cup {NoChord} /\ chord \in Chords \cup {NoChord}
  /\ holdMode \in BOOLEAN /\ latchPending \in BOOLEAN
  /\ latchDeadline \in Nat /\ samples \in Nat
  /\ playable \in BOOLEAN /\ running \in BOOLEAN /\ phase \in {"idle", "events"}
  /\ keys \subseteq Lower /\ wanted \subseteq keys
  /\ repressed \subseteq Lower /\ missed \subseteq Lower
  /\ armed \in BOOLEAN /\ torn \in BOOLEAN
  /\ chooser \in {"nobody", "keys", "screen"} /\ quiet \in Nat

(***************************************************************************)
(* The two state machines, fed by hand at every place (performer_adapter   *)
(* .cpp:20-92), stay in step: what the screen shows is what sync start     *)
(* goes by.                                                                *)
(***************************************************************************)
PerformerStatesAgree == sync = performer

(***************************************************************************)
(* While the player plays, the performer state is Playing; and it is shown *)
(* as Playing only while the player plays, unless the session was          *)
(* restarted under it, or start() was refused for a style without a        *)
(* section (style_player.cpp:29), which the adapter takes for a start.     *)
(***************************************************************************)
PlayingIsRunning ==
  /\ running => performer = "Playing"
  /\ performer = "Playing" => running \/ torn

(***************************************************************************)
(* Sync start asked for with the player stopped is armed until it fires or *)
(* is called off (live_engine_facade.h:64): always, and but for restarts   *)
(* and refused starts, which leave the machines in Playing.                *)
(***************************************************************************)
SyncStartArms == armed => sync = "Armed"

SyncStartArmsInSession == torn \/ SyncStartArms

(***************************************************************************)
(* A key that is down keeps its note in the chord, whatever the pedal did  *)
(* since it was pressed.                                                   *)
(***************************************************************************)
HeldKeysStay == wanted \subseteq ToSet(held)

(***************************************************************************)
(* A note whose key is up leaves the chord, with the pedal at the latest   *)
(* (GATE3_HARDWARE_VALIDATION_CHECKLIST.md:43): of all notes whose release *)
(* was handled at all, and of those never pressed again while held.        *)
(***************************************************************************)
NoNoteLeftBehind == ToSet(held) \subseteq keys \cup sustained \cup missed

ReleasedNotesLeave == ToSet(held) \subseteq keys \cup sustained \cup missed \cup repressed

(***************************************************************************)
(* While the keys held make a chord, it is the one the player plays,       *)
(* through latch, pedal, sync start, refused start and restart             *)
(* (performer_adapter.cpp:110-121, 195-226), until Start is pressed or the *)
(* screen chooses; and the player plays the last chord the adapter took,   *)
(* from the keys or from the screen, also when that is the one that starts *)
(* it, until Start is pressed or the screen chooses none.                  *)
(***************************************************************************)
ChosenChordPlays ==
  /\ chooser = "keys" /\ Detected(held) # NoChord => chord = Detected(held)
  /\ chooser # "nobody" => chord = lastChord

(***************************************************************************)
(* The latch clears the chord only after the keys have made none for the   *)
(* whole window (performer_adapter.h:63-65).                               *)
(***************************************************************************)
NoFlicker == [][EndTick /\ lastChord' # lastChord => quiet >= LatchSamples]_vars
=============================================================================
