----------------------- MODULE PerformerAdapterProofs -----------------------
(***************************************************************************)
(* Theorems about PerformerAdapter for every keyboard, scan mode, capacity *)
(* and latch window.                                                       *)
(***************************************************************************)
EXTENDS PerformerAdapter, FiniteSetTheorems, SequenceLemmas

(***************************************************************************)
(* Part 1: the state machines, the player and sync start.  Between events  *)
(* a machine is in one of three states; the rest of the invariant is the   *)
(* three properties, which need each other: sync start arms because a      *)
(* machine that is not Playing is Idle or Armed, and it is not Playing     *)
(* because the player does not run, unless a restart or a refused start    *)
(* left it there.                                                          *)
(***************************************************************************)
Settled == {"Idle", "Armed", "Playing"}

StateInvariant ==
  /\ sync \in Settled /\ playable \in BOOLEAN
  /\ running \in BOOLEAN /\ torn \in BOOLEAN /\ armed \in BOOLEAN
  /\ PerformerStatesAgree /\ PlayingIsRunning /\ SyncStartArmsInSession

startVars == <<syncVars, playable, running, startHistory>>

LEMMA SameStates ==
  ASSUME StateInvariant, UNCHANGED startVars
  PROVE  StateInvariant'
  BY Zenon DEF StateInvariant, startVars, syncVars, startHistory, PerformerStatesAgree,
     PlayingIsRunning, SyncStartArmsInSession, SyncStartArms

\* The calls on the player, one after the other.
LEMMA PlayerStarted ==
  ASSUME NEW c
  PROVE  /\ Started(Player).running = (IF playable THEN TRUE ELSE running)
         /\ Started(Player).samples = (IF playable THEN 0 ELSE samples)
         /\ Started(Player).chord = (IF playable THEN StartChord ELSE chord)
         /\ WithChord(Started(Player), c).running = Started(Player).running
         /\ WithChord(Started(Player), c).samples = Started(Player).samples
         /\ WithChord(Started(Player), c).chord = c
         /\ WithChord(Player, c).running = running
         /\ WithChord(Player, c).samples = samples
         /\ WithChord(Player, c).chord = c
  BY DEF Started, WithChord, Player

LEMMA ChordPresentPlayer ==
  ASSUME NEW c, ChordPresent(c)
  PROVE  /\ chord' = c /\ samples' \in {0, samples}
         /\ Fires => running' = (IF playable THEN TRUE ELSE running) /\ StartSeen
         /\ ~ Fires => running' = running /\ UNCHANGED <<syncVars, startHistory>>
  <1>1. /\ WithChord(Started(Player), c).chord = c
        /\ WithChord(Started(Player), c).samples = (IF playable THEN 0 ELSE samples)
        /\ WithChord(Started(Player), c).running = (IF playable THEN TRUE ELSE running)
        /\ WithChord(Player, c).chord = c /\ WithChord(Player, c).samples = samples
        /\ WithChord(Player, c).running = running
    BY PlayerStarted
  <1> HIDE DEF Started, WithChord, Player
  <1>2. CASE Fires
    BY <1>1, <1>2 DEF ChordPresent, PlayerBecomes
  <1>3. CASE ~ Fires
    BY <1>1, <1>3 DEF ChordPresent, PlayerBecomes
  <1>4. QED
    BY <1>2, <1>3

\* start() is called and both machines go to Playing, whatever it answers.
LEMMA FiredStates ==
  ASSUME StateInvariant,
         sync' = "Playing", performer' = "Playing", playable' = playable,
         running' = (IF playable THEN TRUE ELSE running), StartSeen
  PROVE  StateInvariant'
  BY DEF StateInvariant, Settled, PerformerStatesAgree, PlayingIsRunning,
     SyncStartArmsInSession, SyncStartArms, StartSeen

\* The player is stopped and both machines go to Idle.
LEMMA StoppedStates ==
  ASSUME StateInvariant,
         sync' = "Idle", performer' = "Idle", playable' = playable, running' = FALSE,
         NothingStarted
  PROVE  StateInvariant'
  BY DEF StateInvariant, Settled, PerformerStatesAgree, PlayingIsRunning,
     SyncStartArmsInSession, SyncStartArms, NothingStarted

LEMMA ChordPresentStates ==
  ASSUME StateInvariant, NEW c, ChordPresent(c), playable' = playable
  PROVE  StateInvariant'
  <1>1. CASE Fires
    <2>1. sync' = "Playing" /\ performer' = "Playing"
      BY <1>1 DEF ChordPresent, Fires, StateInvariant, PerformerStatesAgree, After, Moves,
         ToIdle, ToPlaying, ToStopping
    <2>2. QED
      BY <1>1, <2>1, ChordPresentPlayer, FiredStates
  <1>2. CASE ~ Fires
    BY <1>2, ChordPresentPlayer, SameStates DEF startVars
  <1>3. QED
    BY <1>1, <1>2

LEMMA RedetectStates ==
  ASSUME StateInvariant, NEW notes, RedetectChord(notes)
  PROVE  StateInvariant'
  <1>1. CASE Detected(notes) # NoChord
    BY <1>1, ChordPresentStates DEF RedetectChord
  <1>2. CASE Detected(notes) = NoChord
    BY <1>2, SameStates DEF RedetectChord, startVars, playerVars
  <1>3. QED
    BY <1>1, <1>2

LEMMA NothingStates ==
  ASSUME StateInvariant, NothingToDetect
  PROVE  StateInvariant'
  BY SameStates DEF NothingToDetect, startVars, playerVars

LEMMA InitStates == Init => StateInvariant
  BY DEF Init, StateInvariant, Settled, PerformerStatesAgree, PlayingIsRunning,
     SyncStartArmsInSession, SyncStartArms

LEMMA StepStates == StateInvariant /\ [Next]_vars => StateInvariant'
  <1> SUFFICES ASSUME StateInvariant, [Next]_vars
               PROVE  StateInvariant'
    OBVIOUS
  <1>1. CASE UNCHANGED vars
    BY <1>1, SameStates DEF vars, startVars, playerVars
  <1>2. CASE BeginTick
    BY <1>2, SameStates DEF BeginTick, startVars
  <1>3. CASE EndTick
    BY <1>3, SameStates DEF EndTick, startVars
  <1>4. ASSUME NEW n \in Notes, KeyDown(n)
        PROVE  StateInvariant'
    BY <1>4, RedetectStates, NothingStates, Zenon DEF KeyDown, NoteOn
  <1>5. ASSUME NEW n \in Notes, KeyUp(n)
        PROVE  StateInvariant'
    BY <1>5, RedetectStates, NothingStates, Zenon DEF KeyUp, NoteOff
  <1>6. ASSUME NEW on \in BOOLEAN, Pedal(on)
        PROVE  StateInvariant'
    BY <1>6, RedetectStates, NothingStates, Zenon DEF Pedal
  <1>7. CASE SyncArm
    BY <1>7 DEF SyncArm, playerVars, StateInvariant, Settled, PerformerStatesAgree,
       PlayingIsRunning, SyncStartArmsInSession, SyncStartArms, After, Moves,
       ToIdle, ToPlaying, ToStopping
  <1>8. CASE Start
    <2>1. sync' = "Playing" /\ performer' = "Playing"
      BY <1>8 DEF Start, StateInvariant, Settled, PerformerStatesAgree, After, Moves,
         ToIdle, ToPlaying, ToStopping
    <2>2. QED
      BY <1>8, <2>1, PlayerStarted, FiredStates DEF Start, PlayerBecomes
  <1>9. CASE Stop
    <2>1. sync' = "Idle" /\ performer' = "Idle"
      BY <1>9 DEF Stop, StateInvariant, Settled, PerformerStatesAgree, After, Moves,
         ToIdle, ToPlaying, ToStopping
    <2>2. QED
      BY <1>9, <2>1, StoppedStates DEF Stop
  <1>10. CASE Panic
    <2>1. sync' = "Idle" /\ performer' = "Idle"
      BY <1>10 DEF Panic, SyncAfterPanic, After, Moves
    <2>2. QED
      BY <1>10, <2>1, StoppedStates DEF Panic
  <1>11. ASSUME NEW c \in Chords \cup {NoChord}, ChordEvent(c)
         PROVE  StateInvariant'
    <2>1. CASE c # NoChord
      BY <1>11, <2>1, ChordPresentStates DEF ChordEvent
    <2>2. CASE c = NoChord
      BY <1>11, <2>2, SameStates DEF ChordEvent, startVars, playerVars
    <2>3. QED
      BY <2>1, <2>2
  <1>12. CASE Restart
    BY <1>12 DEF Restart, syncVars, StateInvariant, PerformerStatesAgree,
       PlayingIsRunning, SyncStartArmsInSession, SyncStartArms
  <1>13. CASE LoadStyle
    BY <1>13 DEF LoadStyle, syncVars, playerVars, startHistory, StateInvariant,
       PerformerStatesAgree, PlayingIsRunning, SyncStartArmsInSession, SyncStartArms
  <1>14. QED
    BY <1>1, <1>2, <1>3, <1>4, <1>5, <1>6, <1>7, <1>8, <1>9, <1>10, <1>11, <1>12, <1>13
       DEF Next

LEMMA StatesCorrect == Spec => []StateInvariant
  BY InitStates, StepStates, PTL DEF Spec

(***************************************************************************)
(* The two state machines agree in every reachable state                   *)
(* (performer_adapter.cpp:20-92).                                          *)
(***************************************************************************)
THEOREM StatesAgree == Spec => []PerformerStatesAgree
  <1>1. StateInvariant => PerformerStatesAgree
    BY DEF StateInvariant
  <1>2. QED
    BY <1>1, StatesCorrect, PTL

(***************************************************************************)
(* While the player plays, Playing is shown; and Playing is shown only     *)
(* while it plays, unless the session was restarted under it or start()    *)
(* was refused for a style without a section.                              *)
(***************************************************************************)
THEOREM PlayingIsShown == Spec => []PlayingIsRunning
  <1>1. StateInvariant => PlayingIsRunning
    BY DEF StateInvariant
  <1>2. QED
    BY <1>1, StatesCorrect, PTL

(***************************************************************************)
(* Sync start arms and stays armed (live_engine_facade.h:64), unless the   *)
(* session was restarted while it played or a start was refused.           *)
(***************************************************************************)
THEOREM SyncStartWorks == Spec => []SyncStartArmsInSession
  <1>1. StateInvariant => SyncStartArmsInSession
    BY DEF StateInvariant
  <1>2. QED
    BY <1>1, StatesCorrect, PTL
-----------------------------------------------------------------------------
(***************************************************************************)
(* Part 2: the latch and the chord.                                        *)
(***************************************************************************)

(***************************************************************************)
(* While the latch is pending, the notes held make no chord, and what is   *)
(* missing of the window in samples of the keys is not more than what is   *)
(* missing of it on the clock, which may stand still or be set back.       *)
(***************************************************************************)
ClockTyped == samples \in Nat /\ latchDeadline \in Nat /\ quiet \in Nat

WindowKept == quiet >= LatchSamples \/ quiet + latchDeadline >= LatchSamples + samples

LatchInvariant ==
  /\ ClockTyped
  /\ latchPending =>
       /\ Detected(held) = NoChord
       /\ WindowKept

LEMMA WindowIsNat == LatchSamples \in Nat
  BY AdapterAssumption

LEMMA WindowSet ==
  ASSUME NEW calm \in Nat, NEW now \in Nat
  PROVE  calm + (now + LatchSamples) >= LatchSamples + now
  BY WindowIsNat, SMT

LEMMA ClockSetBack ==
  ASSUME NEW calm \in Nat, NEW due \in Nat, NEW now \in Nat, NEW back \in Nat,
         back <= now, calm + due >= LatchSamples + now
  PROVE  calm + due >= LatchSamples + back
  BY WindowIsNat, SMT

LEMMA BothAdvance ==
  ASSUME NEW calm \in Nat, NEW due \in Nat, NEW now \in Nat, NEW block \in Nat,
         NEW then \in Nat, then <= now + block, calm + due >= LatchSamples + now
  PROVE  (calm + block) + due >= LatchSamples + then
  BY WindowIsNat, SMT

LEMMA RedetectLatch ==
  ASSUME LatchInvariant, RedetectChord(held')
  PROVE  LatchInvariant'
  <1>1. Detected(held)' = Detected(held')
    BY DEF Detected
  <1>2. CASE Detected(held') # NoChord
    <2>1. samples' \in {0, samples} /\ latchDeadline' = latchDeadline /\ quiet' = 0
      BY <1>2, ChordPresentPlayer, Zenon DEF RedetectChord, CancelLatch
    <2>2. ClockTyped => ClockTyped'
      BY <2>1, SMT DEF ClockTyped
    <2>3. latchPending' = FALSE
      BY <1>2, Zenon DEF RedetectChord, CancelLatch
    <2>4. QED
      BY <2>2, <2>3, Zenon DEF LatchInvariant
  <1>3. CASE Detected(held') = NoChord
    <2>1. samples' = samples /\ quiet' \in {0, quiet}
      BY <1>3, Zenon DEF RedetectChord, playerVars
    <2>2. latchPending => quiet' = quiet
      BY <1>3, Zenon DEF RedetectChord, LatchInvariant
    <2>3. ArmLatch
      BY <1>3, Zenon DEF RedetectChord
    <2>4. CASE holdMode \/ latchPending
      <3>1. latchPending' = latchPending
        BY <2>3, <2>4, Zenon DEF ArmLatch
      <3>2. latchDeadline' = latchDeadline
        BY <2>3, <2>4, Zenon DEF ArmLatch
      <3>3. ClockTyped => ClockTyped'
        BY <2>1, <3>2, SMT DEF ClockTyped
      <3>4. latchPending /\ WindowKept => WindowKept'
        BY <2>1, <2>2, <3>2, Zenon DEF WindowKept
      <3>5. QED
        BY <1>1, <1>3, <3>1, <3>3, <3>4, Zenon DEF LatchInvariant
    <2>5. CASE ~ (holdMode \/ latchPending)
      <3>1. latchDeadline' = samples + LatchSamples
        BY <2>3, <2>5, Zenon DEF ArmLatch
      <3>2. ClockTyped
        BY Zenon DEF LatchInvariant
      <3>3. ClockTyped'
        BY <2>1, <3>1, <3>2, WindowIsNat, SMT DEF ClockTyped
      <3>4. quiet' + (samples + LatchSamples) >= LatchSamples + samples
        BY <3>2, <3>3, WindowSet, Zenon DEF ClockTyped
      <3>5. WindowKept'
        BY <2>1, <3>1, <3>4, Zenon DEF WindowKept
      <3>6. QED
        BY <1>1, <1>3, <3>3, <3>5, Zenon DEF LatchInvariant
    <2>6. QED
      BY <2>4, <2>5, Zenon
  <1>4. QED
    BY <1>2, <1>3

LEMMA SameClock ==
  ASSUME ClockTyped, latchDeadline' = latchDeadline, quiet' = quiet,
         samples' \in {0, samples}
  PROVE  ClockTyped' /\ (WindowKept => WindowKept')
  <1>1. samples \in Nat /\ latchDeadline \in Nat /\ quiet \in Nat
    BY DEF ClockTyped
  <1>2. samples' \in Nat /\ samples' <= samples
    BY <1>1, SMT
  <1>3. ClockTyped'
    BY <1>1, <1>2, SMT DEF ClockTyped
  <1>4. CASE quiet >= LatchSamples
    BY <1>3, <1>4 DEF WindowKept
  <1>5. CASE quiet + latchDeadline >= LatchSamples + samples
    <2>1. quiet + latchDeadline >= LatchSamples + samples'
      BY <1>1, <1>2, <1>5, ClockSetBack, Zenon
    <2>2. QED
      BY <1>3, <2>1 DEF WindowKept
  <1>6. QED
    BY <1>3, <1>4, <1>5 DEF WindowKept

LEMMA WindowAdvances ==
  ASSUME ClockTyped, NEW n \in Nat, latchDeadline' = latchDeadline,
         quiet' = (IF quiet + n < LatchSamples THEN quiet + n ELSE LatchSamples),
         samples' \in {samples, samples + n}
  PROVE  ClockTyped' /\ (WindowKept => WindowKept')
  <1>1. samples \in Nat /\ latchDeadline \in Nat /\ quiet \in Nat
    BY DEF ClockTyped
  <1>2. samples' \in Nat /\ samples' <= samples + n
    BY <1>1, SMT
  <1>3. quiet' \in Nat /\ (quiet' >= LatchSamples \/ quiet' = quiet + n)
    BY <1>1, WindowIsNat, SMT
  <1>4. ClockTyped'
    BY <1>1, <1>2, <1>3, SMT DEF ClockTyped
  <1>5. CASE quiet' >= LatchSamples
    BY <1>4, <1>5 DEF WindowKept
  <1>6. CASE quiet' = quiet + n /\ quiet >= LatchSamples
    <2>1. quiet + n >= LatchSamples
      BY <1>1, <1>6, WindowIsNat, SMT
    <2>2. QED
      BY <1>4, <1>6, <2>1 DEF WindowKept
  <1>7. CASE quiet' = quiet + n /\ quiet + latchDeadline >= LatchSamples + samples
    <2>1. (quiet + n) + latchDeadline >= LatchSamples + samples'
      BY <1>1, <1>2, <1>7, BothAdvance, Zenon
    <2>2. QED
      BY <1>4, <1>7, <2>1, Zenon DEF WindowKept
  <1>8. QED
    BY <1>3, <1>4, <1>5, <1>6, <1>7 DEF WindowKept

LEMMA SameLatch ==
  ASSUME LatchInvariant, held' = held, latchPending' = latchPending,
         latchDeadline' = latchDeadline, quiet' = quiet, samples' \in {0, samples}
  PROVE  LatchInvariant'
  <1>1. Detected(held)' = Detected(held)
    BY DEF Detected
  <1>2. ClockTyped
    BY Zenon DEF LatchInvariant
  <1>3. ClockTyped' /\ (WindowKept => WindowKept')
    BY <1>2, SameClock
  <1>4. QED
    BY <1>1, <1>3, Zenon DEF LatchInvariant

LEMMA NothingLatch ==
  ASSUME LatchInvariant, held' = held, NothingToDetect
  PROVE  LatchInvariant'
  BY SameLatch DEF NothingToDetect, chordVars, playerVars

LEMMA StepLatch == LatchInvariant /\ [Next]_vars => LatchInvariant'
  <1> SUFFICES ASSUME LatchInvariant, [Next]_vars
               PROVE  LatchInvariant'
    OBVIOUS
  <1>1. CASE UNCHANGED vars
    BY <1>1, SameLatch DEF vars, keyVars, chordVars, playerVars
  <1>2. CASE BeginTick
    <2>1. PICK n \in Steps :
            /\ samples' = IF running /\ samples + n <= MaxSamples THEN samples + n
                          ELSE samples
            /\ quiet' = IF Detected(held) # NoChord THEN 0
                        ELSE IF quiet + n < LatchSamples THEN quiet + n ELSE LatchSamples
      BY <1>2 DEF BeginTick
    <2>2. Detected(held)' = Detected(held)
      BY <1>2 DEF BeginTick, keyVars, Detected
    <2>3. latchDeadline' = latchDeadline
      BY <1>2, Zenon DEF BeginTick, chordVars
    <2>4. n \in Nat
      BY AdapterAssumption
    <2>5. ClockTyped
      BY Zenon DEF LatchInvariant
    <2>6. CASE Detected(held) # NoChord
      <3>1. quiet' = 0 /\ samples' \in {samples, samples + n}
        BY <2>1, <2>6, Zenon
      <3>2. ClockTyped'
        BY <2>3, <2>4, <2>5, <3>1, SMT DEF ClockTyped
      <3>3. ~ latchPending'
        BY <1>2, <2>6, Zenon DEF BeginTick, LatchInvariant, chordVars
      <3>4. QED
        BY <3>2, <3>3, Zenon DEF LatchInvariant
    <2>7. CASE Detected(held) = NoChord
      <3>1. quiet' = (IF quiet + n < LatchSamples THEN quiet + n ELSE LatchSamples)
            /\ samples' \in {samples, samples + n}
        BY <2>1, <2>7, Zenon
      <3>2. ClockTyped' /\ (WindowKept => WindowKept')
        BY <2>3, <2>4, <2>5, <3>1, WindowAdvances
      <3>3. latchPending' = latchPending
        BY <1>2, Zenon DEF BeginTick, chordVars
      <3>4. QED
        BY <2>2, <2>7, <3>2, <3>3, Zenon DEF LatchInvariant
    <2>8. QED
      BY <2>6, <2>7
  <1>3. CASE EndTick
    <2>1. CASE LatchExpires
      BY <1>3, <2>1, Zenon DEF EndTick, LatchInvariant, ClockTyped
    <2>2. CASE ~ LatchExpires
      BY <1>3, <2>2, SameLatch DEF EndTick, keyVars
    <2>3. QED
      BY <2>1, <2>2
  <1>4. ASSUME NEW n \in Notes, KeyDown(n)
        PROVE  LatchInvariant'
    BY <1>4, RedetectLatch, NothingLatch, Zenon DEF KeyDown, NoteOn
  <1>5. ASSUME NEW n \in Notes, KeyUp(n)
        PROVE  LatchInvariant'
    BY <1>5, RedetectLatch, NothingLatch, Zenon DEF KeyUp, NoteOff
  <1>6. ASSUME NEW on \in BOOLEAN, Pedal(on)
        PROVE  LatchInvariant'
    BY <1>6, RedetectLatch, NothingLatch, Zenon DEF Pedal
  <1>7. ASSUME NEW c \in Chords \cup {NoChord}, ChordEvent(c)
        PROVE  LatchInvariant'
    <2>1. samples' \in {0, samples}
      BY <1>7, ChordPresentPlayer, Zenon DEF ChordEvent, playerVars
    <2>2. QED
      BY <1>7, <2>1, SameLatch DEF ChordEvent, keyVars
  <1>8. CASE Start
    <2>1. samples' \in {0, samples}
      BY <1>8, PlayerStarted, Zenon DEF Start, PlayerBecomes
    <2>2. QED
      BY <1>8, <2>1, SameLatch DEF Start, keyVars, chordVars
  <1>9. CASE SyncArm \/ Stop \/ Panic \/ Restart \/ LoadStyle
    BY <1>9, SameLatch DEF SyncArm, Stop, Panic, Restart, LoadStyle, keyVars, chordVars,
       playerVars
  <1>10. QED
    BY <1>1, <1>2, <1>3, <1>4, <1>5, <1>6, <1>7, <1>8, <1>9 DEF Next

LEMMA InitLatch == Init => LatchInvariant
  <1> SUFFICES ASSUME Init
               PROVE  LatchInvariant
    OBVIOUS
  <1>1. samples = 0 /\ latchDeadline = 0 /\ quiet = LatchSamples
    BY Zenon DEF Init
  <1>2. ClockTyped
    BY <1>1, WindowIsNat, SMT DEF ClockTyped
  <1>3. latchPending = FALSE
    BY Zenon DEF Init
  <1>4. QED
    BY <1>2, <1>3, Zenon DEF LatchInvariant

LEMMA LatchCorrect == Spec => []LatchInvariant
  BY InitLatch, StepLatch, PTL DEF Spec

(***************************************************************************)
(* The latch clears the chord only after the keys have made none for the   *)
(* whole window (performer_adapter.h:63-65), for every window, sequence of *)
(* blocks and restart.                                                     *)
(***************************************************************************)
THEOREM WindowIsKept == Spec => NoFlicker
  <1>1. LatchInvariant => [EndTick /\ lastChord' # lastChord => quiet >= LatchSamples]_vars
    <2> SUFFICES ASSUME LatchInvariant, EndTick, lastChord' # lastChord
                 PROVE  quiet >= LatchSamples
      BY Zenon
    <2>1. LatchExpires /\ ClockTyped /\ WindowKept
      BY Zenon DEF EndTick, LatchInvariant, LatchExpires
    <2>2. QED
      BY <2>1, WindowIsNat, SMT DEF LatchExpires, ClockTyped, WindowKept
  <1>2. QED
    BY <1>1, LatchCorrect, PTL DEF Spec, NoFlicker

(***************************************************************************)
(* The chord that plays.  It needs the latch: a latch still pending while  *)
(* the keys make a chord would clear that chord at its deadline.           *)
(***************************************************************************)
LEMMA SameChosen ==
  ASSUME ChosenChordPlays, held' = held, chord' = chord, lastChord' = lastChord,
         chooser' = chooser
  PROVE  ChosenChordPlays'
  BY DEF ChosenChordPlays, Detected

LEMMA RedetectChosen ==
  ASSUME ChosenChordPlays, RedetectChord(held')
  PROVE  ChosenChordPlays'
  <1>1. Detected(held)' = Detected(held')
    BY DEF Detected
  <1>2. CASE Detected(held') # NoChord
    <2>1. lastChord' = Detected(held') /\ ChordPresent(Detected(held'))
      BY <1>2, Zenon DEF RedetectChord
    <2>2. chord' = Detected(held')
      BY <2>1, ChordPresentPlayer, Zenon
    <2>3. QED
      BY <1>1, <2>1, <2>2, Zenon DEF ChosenChordPlays
  <1>3. CASE Detected(held') = NoChord
    <2>1. lastChord' = lastChord /\ chord' = chord /\ chooser' = chooser
      BY <1>3, Zenon DEF RedetectChord, playerVars
    <2>2. QED
      BY <1>1, <1>3, <2>1, Zenon DEF ChosenChordPlays
  <1>4. QED
    BY <1>2, <1>3

LEMMA NothingChosen ==
  ASSUME ChosenChordPlays, held' = held, NothingToDetect
  PROVE  ChosenChordPlays'
  BY SameChosen DEF NothingToDetect, chordVars, playerVars

LEMMA StepChosen ==
  ASSUME LatchInvariant, ChosenChordPlays, [Next]_vars
  PROVE  ChosenChordPlays'
  <1>1. CASE UNCHANGED vars
    BY <1>1, SameChosen DEF vars, keyVars, chordVars, playerVars
  <1>2. CASE EndTick
    <2>1. CASE LatchExpires
      <3>1. Detected(held) = NoChord
        BY <2>1 DEF LatchExpires, LatchInvariant
      <3>2. held' = held /\ lastChord' = NoChord /\ chord' = NoChord
        BY <1>2, <2>1 DEF EndTick, keyVars
      <3>3. Detected(held)' = Detected(held)
        BY <3>2 DEF Detected
      <3>4. QED
        BY <3>1, <3>2, <3>3, Zenon DEF ChosenChordPlays
    <2>2. CASE ~ LatchExpires
      BY <1>2, <2>2, SameChosen DEF EndTick, keyVars
    <2>3. QED
      BY <2>1, <2>2
  <1>3. ASSUME NEW n \in Notes, KeyDown(n)
        PROVE  ChosenChordPlays'
    BY <1>3, RedetectChosen, NothingChosen, Zenon DEF KeyDown, NoteOn
  <1>4. ASSUME NEW n \in Notes, KeyUp(n)
        PROVE  ChosenChordPlays'
    BY <1>4, RedetectChosen, NothingChosen, Zenon DEF KeyUp, NoteOff
  <1>5. ASSUME NEW on \in BOOLEAN, Pedal(on)
        PROVE  ChosenChordPlays'
    BY <1>5, RedetectChosen, NothingChosen, Zenon DEF Pedal
  <1>6. ASSUME NEW c \in Chords \cup {NoChord}, ChordEvent(c)
        PROVE  ChosenChordPlays'
    <2>1. CASE c # NoChord
      <3>1. lastChord' = c /\ chord' = c /\ chooser' = "screen"
        BY <1>6, <2>1, ChordPresentPlayer, Zenon DEF ChordEvent
      <3>2. QED
        BY <3>1 DEF ChosenChordPlays
    <2>2. CASE c = NoChord
      BY <1>6, <2>2 DEF ChordEvent, ChosenChordPlays
    <2>3. QED
      BY <2>1, <2>2
  <1>7. CASE Start
    <2>1. held' = held /\ lastChord' = lastChord
      BY <1>7 DEF Start, keyVars, chordVars
    <2>2. CASE playable
      BY <1>7, <2>2 DEF Start, ChosenChordPlays
    <2>3. CASE ~ playable
      <3>1. chord' = chord /\ chooser' = chooser
        BY <1>7, <2>3, PlayerStarted, Zenon DEF Start, PlayerBecomes
      <3>2. QED
        BY <2>1, <3>1, SameChosen
    <2>4. QED
      BY <2>2, <2>3
  <1>8. CASE BeginTick \/ SyncArm \/ Stop \/ Panic
    BY <1>8, SameChosen DEF BeginTick, SyncArm, Stop, Panic, keyVars, chordVars, playerVars
  <1>9. CASE Restart \/ LoadStyle
    BY <1>9, SameChosen DEF Restart, LoadStyle, keyVars, chordVars, playerVars
  <1>10. QED
    BY <1>1, <1>2, <1>3, <1>4, <1>5, <1>6, <1>7, <1>8, <1>9 DEF Next

(***************************************************************************)
(* While the keys held make a chord, it is the one the player plays, and   *)
(* the last chord the adapter took is the one that plays, also when it is  *)
(* the one that starts the player (performer_adapter.cpp:206-216), until   *)
(* Start is pressed or the screen chooses.                                 *)
(***************************************************************************)
THEOREM ChordIsPlayed == Spec => []ChosenChordPlays
  <1>1. Init => ChosenChordPlays
    BY DEF Init, ChosenChordPlays
  <1>2. LatchInvariant /\ ChosenChordPlays /\ [Next]_vars => ChosenChordPlays'
    BY StepChosen
  <1>3. QED
    BY <1>1, <1>2, LatchCorrect, PTL DEF Spec
-----------------------------------------------------------------------------
(***************************************************************************)
(* Part 3: the notes held.  First what the operators on sequences do, each *)
(* of them position by position.                                           *)
(***************************************************************************)
LEMMA MaxIsGreatest ==
  ASSUME NEW S \in SUBSET Nat, S # {}, NEW b \in Nat, \A n \in S : n <= b
  PROVE  Max(S) \in S /\ \A n \in S : Max(S) >= n
  <1> DEFINE T == {b - n : n \in S}
  <1>1. T \in SUBSET Nat /\ T # {}
    <2>1. \A n \in S : b - n \in Nat
      OBVIOUS
    <2>2. QED
      BY <2>1, Zenon
  <1>2. PICK m \in T : \A n \in T : m <= n
    BY <1>1, LeastExists
  <1>3. PICK x \in S : m = b - x
    BY <1>2
  <1>4. ASSUME NEW n \in S PROVE x >= n
    <2>1. b - n \in T
      OBVIOUS
    <2>2. m <= b - n
      BY <1>2, <2>1
    <2>3. QED
      BY <1>3, <2>2
  <1>5. \E y \in S : \A n \in S : y >= n
    BY <1>4
  <1>6. QED
    BY <1>5, Zenon DEF Max

LEMMA InsertedAt ==
  ASSUME NEW S, NEW s \in Seq(S), NEW p \in 1 .. Len(s) + 1, NEW e \in S
  PROVE  /\ InsertAt(s, p, e) \in Seq(S)
         /\ Len(InsertAt(s, p, e)) = Len(s) + 1
         /\ \A k \in 1 .. Len(s) + 1 :
              InsertAt(s, p, e)[k] = IF k < p THEN s[k] ELSE IF k = p THEN e ELSE s[k - 1]
  <1> DEFINE a == SubSeq(s, 1, p - 1)
             c == SubSeq(s, p, Len(s))
  <1>1. \A i \in 1 .. Len(s) : s[i] \in S
    OBVIOUS
  <1>2. a \in Seq(S) /\ Len(a) = p - 1 /\ \A k \in 1 .. p - 1 : a[k] = s[k]
    BY <1>1, SubSeqProperties
  <1>3. c \in Seq(S) /\ Len(c) = Len(s) - p + 1
        /\ \A k \in 1 .. Len(s) - p + 1 : c[k] = s[p + k - 1]
    BY <1>1, SubSeqProperties
  <1>4. <<e>> \in Seq(S) /\ Len(<<e>>) = 1 /\ <<e>>[1] = e
    OBVIOUS
  <1> HIDE DEF a, c
  <1>5. /\ a \o <<e>> \in Seq(S) /\ Len(a \o <<e>>) = p
        /\ \A k \in 1 .. p : (a \o <<e>>)[k] = IF k < p THEN s[k] ELSE e
    BY <1>2, <1>4, ConcatProperties
  <1> DEFINE d == a \o <<e>>
  <1> HIDE DEF d
  <1>6. d \in Seq(S) /\ Len(d) = p /\ \A k \in 1 .. p : d[k] = IF k < p THEN s[k] ELSE e
    BY <1>5 DEF d
  <1>7. /\ d \o c \in Seq(S) /\ Len(d \o c) = Len(s) + 1
        /\ \A k \in 1 .. Len(s) + 1 : (d \o c)[k] = IF k <= p THEN d[k] ELSE c[k - p]
    <2>1. Len(d) + Len(c) = Len(s) + 1
      BY <1>3, <1>6
    <2>2. /\ d \o c \in Seq(S) /\ Len(d \o c) = Len(d) + Len(c)
          /\ \A k \in 1 .. Len(d) + Len(c) :
               (d \o c)[k] = IF k <= Len(d) THEN d[k] ELSE c[k - Len(d)]
      BY <1>3, <1>6, ConcatProperties, Zenon
    <2>3. QED
      BY <1>6, <2>1, <2>2, Zenon
  <1>8. \A k \in 1 .. Len(s) + 1 :
          (d \o c)[k] = IF k < p THEN s[k] ELSE IF k = p THEN e ELSE s[k - 1]
    BY <1>3, <1>6, <1>7
  <1>9. InsertAt(s, p, e) = d \o c
    BY DEF InsertAt, a, c, d
  <1>10. QED
    BY <1>7, <1>8, <1>9

LEMMA RemovedAt ==
  ASSUME NEW S, NEW s \in Seq(S), NEW i \in 1 .. Len(s)
  PROVE  /\ RemoveAt(s, i) \in Seq(S)
         /\ Len(RemoveAt(s, i)) = Len(s) - 1
         /\ \A k \in 1 .. Len(s) - 1 :
              RemoveAt(s, i)[k] = IF k < i THEN s[k] ELSE s[k + 1]
  <1> DEFINE a == SubSeq(s, 1, i - 1)
             c == SubSeq(s, i + 1, Len(s))
  <1>1. \A k \in 1 .. Len(s) : s[k] \in S
    OBVIOUS
  <1>2. a \in Seq(S) /\ Len(a) = i - 1 /\ \A k \in 1 .. i - 1 : a[k] = s[k]
    BY <1>1, SubSeqProperties
  <1>3. c \in Seq(S) /\ Len(c) = Len(s) - i
        /\ \A k \in 1 .. Len(s) - i : c[k] = s[i + k]
    BY <1>1, SubSeqProperties
  <1> HIDE DEF a, c
  <1>4. /\ a \o c \in Seq(S) /\ Len(a \o c) = Len(s) - 1
        /\ \A k \in 1 .. Len(s) - 1 : (a \o c)[k] = IF k <= i - 1 THEN a[k] ELSE c[k - (i - 1)]
    <2>1. Len(a) + Len(c) = Len(s) - 1
      BY <1>2, <1>3
    <2>2. /\ a \o c \in Seq(S) /\ Len(a \o c) = Len(a) + Len(c)
          /\ \A k \in 1 .. Len(a) + Len(c) :
               (a \o c)[k] = IF k <= Len(a) THEN a[k] ELSE c[k - Len(a)]
      BY <1>2, <1>3, ConcatProperties, Zenon
    <2>3. QED
      BY <1>2, <2>1, <2>2, Zenon
  <1>5. \A k \in 1 .. Len(s) - 1 : (a \o c)[k] = IF k < i THEN s[k] ELSE s[k + 1]
    BY <1>2, <1>3, <1>4
  <1>6. RemoveAt(s, i) = a \o c
    BY DEF RemoveAt, a, c
  <1>7. QED
    BY <1>4, <1>5, <1>6

LEMMA RemovedFirst ==
  ASSUME NEW S, NEW s \in Seq(S), NEW n
  PROVE  \/ n \notin ToSet(s) /\ RemoveFirst(s, n) = s
         \/ \E i \in 1 .. Len(s) : s[i] = n /\ RemoveFirst(s, n) = RemoveAt(s, i)
  <1> DEFINE at == {i \in 1 .. Len(s) : s[i] = n}
  <1>1. ToSet(s) = {s[i] : i \in 1 .. Len(s)}
    BY DEF ToSet
  <1>2. CASE at = {}
    BY <1>1, <1>2 DEF RemoveFirst
  <1>3. CASE at # {}
    <2>1. RemoveFirst(s, n) = RemoveAt(s, Min(at))
      BY <1>3 DEF RemoveFirst, SelectInSeq
    <2>2. Min(at) \in at
      <3>1. at \in SUBSET Nat
        OBVIOUS
      <3>2. QED
        BY <1>3, <3>1, MinIsLeast, Zenon
    <2>3. QED
      BY <2>1, <2>2
  <1>4. QED
    BY <1>2, <1>3

(***************************************************************************)
(* What every list of the adapter's notes is: ascending, and a note is in  *)
(* it twice only when its key was pressed again.                           *)
(***************************************************************************)
NoteList(s) ==
  /\ s \in Seq(Lower) /\ Len(s) <= MaxHeld /\ Ascending(s)
  /\ \A i, j \in DOMAIN s : i # j /\ s[i] = s[j] => s[i] \in repressed

LEMMA NumbersAreNumbers ==
  /\ MaxHeld \in Nat
  /\ \A n \in Lower : n \in Nat
  /\ \A n \in Lower : n \in Notes
  BY AdapterAssumption

LEMMA WithoutPlace ==
  ASSUME NEW s, NoteList(s), NEW i \in 1 .. Len(s)
  PROVE  /\ NoteList(RemoveAt(s, i))
         /\ ToSet(RemoveAt(s, i)) \subseteq ToSet(s)
         /\ ToSet(s) \ {s[i]} \subseteq ToSet(RemoveAt(s, i))
         /\ s[i] \in ToSet(RemoveAt(s, i)) => s[i] \in repressed
  <1> DEFINE r == RemoveAt(s, i)
             from(k) == IF k < i THEN k ELSE k + 1
  <1>1. s \in Seq(Lower) /\ Len(s) \in Nat /\ Len(s) <= MaxHeld /\ DOMAIN s = 1 .. Len(s)
    BY DEF NoteList
  <1>2. /\ r \in Seq(Lower) /\ Len(r) = Len(s) - 1
        /\ \A k \in 1 .. Len(s) - 1 : r[k] = IF k < i THEN s[k] ELSE s[k + 1]
    BY <1>1, RemovedAt, Zenon
  <1> HIDE DEF r
  <1>3. DOMAIN r = 1 .. Len(s) - 1
    BY <1>1, <1>2
  <1>4. \A k \in DOMAIN r : from(k) \in DOMAIN s /\ from(k) # i /\ r[k] = s[from(k)]
    BY <1>1, <1>2, <1>3
  <1>5. \A k \in DOMAIN s : k # i => \E m \in DOMAIN r : from(m) = k
    <2> SUFFICES ASSUME NEW k \in DOMAIN s, k # i PROVE \E m \in DOMAIN r : from(m) = k
      OBVIOUS
    <2>1. CASE k < i
      <3>1. k \in DOMAIN r /\ from(k) = k
        BY <1>1, <1>3, <2>1
      <3>2. QED
        BY <3>1, Zenon
    <2>2. CASE k > i
      <3>1. k - 1 \in DOMAIN r /\ from(k - 1) = k
        BY <1>1, <1>3, <2>2
      <3>2. QED
        BY <3>1, Zenon
    <2>3. QED
      BY <1>1, <2>1, <2>2
  <1>6. \A k, m \in DOMAIN r : (k < m => from(k) < from(m)) /\ (k # m => from(k) # from(m))
    BY <1>1, <1>3
  <1> HIDE DEF from
  <1>7. Ascending(r)
    BY <1>4, <1>6, Zenon DEF Ascending, NoteList
  <1>8. \A k, m \in DOMAIN r : k # m /\ r[k] = r[m] => r[k] \in repressed
    BY <1>4, <1>6, Zenon DEF NoteList
  <1>9. Len(r) <= MaxHeld
    BY <1>1, <1>2, NumbersAreNumbers
  <1>10. NoteList(r)
    BY <1>2, <1>7, <1>8, <1>9, Zenon DEF NoteList
  <1>11. ToSet(r) \subseteq ToSet(s)
    BY <1>4, Zenon DEF ToSet
  <1>12. ToSet(s) \ {s[i]} \subseteq ToSet(r)
    <2> SUFFICES ASSUME NEW k \in DOMAIN s, s[k] # s[i] PROVE s[k] \in ToSet(r)
      BY DEF ToSet
    <2>1. PICK m \in DOMAIN r : from(m) = k
      BY <1>5
    <2>2. r[m] = s[k]
      BY <1>4, <2>1
    <2>3. QED
      BY <2>2 DEF ToSet
  <1>13. s[i] \in ToSet(r) => s[i] \in repressed
    <2> SUFFICES ASSUME NEW k \in DOMAIN r, r[k] = s[i] PROVE s[i] \in repressed
      BY DEF ToSet
    <2>1. from(k) \in DOMAIN s /\ from(k) # i /\ s[from(k)] = s[i]
      BY <1>4, Zenon
    <2>2. i \in DOMAIN s
      BY <1>1
    <2>3. QED
      BY <2>1, <2>2, Zenon DEF NoteList
  <1>14. QED
    BY <1>10, <1>11, <1>12, <1>13 DEF r

LEMMA WithoutFirst ==
  ASSUME NEW s, NoteList(s), NEW n
  PROVE  /\ NoteList(RemoveFirst(s, n))
         /\ ToSet(RemoveFirst(s, n)) \subseteq ToSet(s)
         /\ ToSet(s) \ {n} \subseteq ToSet(RemoveFirst(s, n))
         /\ n \in ToSet(RemoveFirst(s, n)) => n \in repressed
  <1>1. s \in Seq(Lower)
    BY DEF NoteList
  <1>2. CASE n \notin ToSet(s) /\ RemoveFirst(s, n) = s
    BY <1>2, Zenon
  <1>3. ASSUME NEW i \in 1 .. Len(s), s[i] = n, RemoveFirst(s, n) = RemoveAt(s, i)
        PROVE  /\ NoteList(RemoveFirst(s, n))
               /\ ToSet(RemoveFirst(s, n)) \subseteq ToSet(s)
               /\ ToSet(s) \ {n} \subseteq ToSet(RemoveFirst(s, n))
               /\ n \in ToSet(RemoveFirst(s, n)) => n \in repressed
    BY <1>3, WithoutPlace, Zenon
  <1>4. QED
    BY <1>1, <1>2, <1>3, RemovedFirst, Zenon

(***************************************************************************)
(* The release of the pedal works off the deferred notes one after the     *)
(* other.  The fold that says so is a recursive function on the subsets of *)
(* sustained; that there is one follows by induction on their size.        *)
(***************************************************************************)
PickOf(s) == CHOOSE x \in s : TRUE

WorksOff(f, sets) ==
  f = [s \in sets |-> IF s = {} THEN held ELSE RemoveFirst(f[s \ {PickOf(s)}], PickOf(s))]

UpTo(n) == {s \in SUBSET sustained : Cardinality(s) <= n}

LEMMA ReleasedUnfolds ==
  Released = (CHOOSE f : WorksOff(f, SUBSET sustained))[sustained]
  BY Zenon DEF Released, FoldSet, MapThenFoldSet, WorksOff, PickOf

LEMMA OneFewer ==
  ASSUME IsFiniteSet(sustained), NEW s \in SUBSET sustained, s # {}
  PROVE  /\ PickOf(s) \in s /\ s \ {PickOf(s)} \in SUBSET sustained
         /\ Cardinality(s) \in Nat /\ Cardinality(s \ {PickOf(s)}) \in Nat
         /\ Cardinality(s \ {PickOf(s)}) = Cardinality(s) - 1
  <1>1. PickOf(s) \in s
    BY Zenon DEF PickOf
  <1>2. IsFiniteSet(s) /\ IsFiniteSet(s \ {PickOf(s)})
    BY FS_Subset, FS_RemoveElement
  <1>3. QED
    BY <1>1, <1>2, FS_RemoveElement, FS_CardinalityType

LEMMA WorksOffUpTo ==
  ASSUME IsFiniteSet(sustained), NEW n \in Nat
  PROVE  \E f : WorksOff(f, UpTo(n))
  <1> DEFINE Fails == {m \in Nat : ~ \E f : WorksOff(f, UpTo(m))}
  <1> SUFFICES ASSUME Fails # {} PROVE FALSE
    OBVIOUS
  <1>1. PICK m \in Fails : \A k \in Fails : m <= k
    <2>1. Fails \in SUBSET Nat
      OBVIOUS
    <2>2. QED
      BY <2>1, LeastExists, Zenon
  <1>2. CASE m = 0
    <2> DEFINE f == [s \in UpTo(0) |-> held]
    <2>1. \A s \in UpTo(0) : s = {}
      <3> SUFFICES ASSUME NEW s \in UpTo(0) PROVE s = {}
        OBVIOUS
      <3>1. s \in SUBSET sustained /\ Cardinality(s) <= 0
        BY DEF UpTo
      <3>2. IsFiniteSet(s)
        BY <3>1, FS_Subset
      <3>3. Cardinality(s) = 0
        BY <3>1, <3>2, FS_CardinalityType
      <3>4. QED
        BY <3>2, <3>3, FS_EmptySet
    <2>2. f = [s \in UpTo(0) |->
                 IF s = {} THEN held ELSE RemoveFirst(f[s \ {PickOf(s)}], PickOf(s))]
      BY <2>1, Zenon
    <2>3. WorksOff(f, UpTo(0))
      BY <2>2, Zenon DEF WorksOff
    <2>4. QED
      BY <1>2, <2>3, Zenon
  <1>3. CASE m # 0
    <2>1. m - 1 \in Nat /\ m - 1 \notin Fails
      BY <1>1, <1>3
    <2>2. PICK g : WorksOff(g, UpTo(m - 1))
      BY <2>1
    <2> DEFINE f == [s \in UpTo(m) |->
                       IF s = {} THEN held ELSE RemoveFirst(g[s \ {PickOf(s)}], PickOf(s))]
    <2>3. \A s \in UpTo(m - 1) : s \in UpTo(m)
      <3>1. \A s \in SUBSET sustained : Cardinality(s) \in Nat
        BY FS_Subset, FS_CardinalityType
      <3>2. QED
        BY <2>1, <3>1 DEF UpTo
    <2>4. \A s \in UpTo(m) : s # {} => s \ {PickOf(s)} \in UpTo(m - 1)
      <3> SUFFICES ASSUME NEW s \in UpTo(m), s # {} PROVE s \ {PickOf(s)} \in UpTo(m - 1)
        OBVIOUS
      <3>1. s \in SUBSET sustained /\ Cardinality(s) <= m
        BY DEF UpTo
      <3>2. QED
        BY <2>1, <3>1, OneFewer DEF UpTo
    <2>5. \A s \in UpTo(m - 1) :
            g[s] = IF s = {} THEN held ELSE RemoveFirst(g[s \ {PickOf(s)}], PickOf(s))
      BY <2>2, Zenon DEF WorksOff
    <2>6. \A s \in UpTo(m - 1) : f[s] = g[s]
      BY <2>3, <2>5, Zenon
    <2>7. f = [s \in UpTo(m) |->
                 IF s = {} THEN held ELSE RemoveFirst(f[s \ {PickOf(s)}], PickOf(s))]
      <3> HIDE DEF f
      <3>1. \A s \in UpTo(m) : s # {} => f[s \ {PickOf(s)}] = g[s \ {PickOf(s)}]
        BY <2>4, <2>6, Zenon
      <3>2. f = [s \in UpTo(m) |->
                   IF s = {} THEN held ELSE RemoveFirst(g[s \ {PickOf(s)}], PickOf(s))]
        BY Zenon DEF f
      <3>3. QED
        BY <3>1, <3>2, Zenon
    <2>8. WorksOff(f, UpTo(m))
      BY <2>7, Zenon DEF WorksOff
    <2>9. QED
      BY <2>8, Zenon
  <1>4. QED
    BY <1>2, <1>3

LEMMA ReleasedIsWorkedOff ==
  ASSUME IsFiniteSet(sustained)
  PROVE  \E f : WorksOff(f, SUBSET sustained) /\ Released = f[sustained]
  <1>1. Cardinality(sustained) \in Nat
    BY FS_CardinalityType
  <1>2. UpTo(Cardinality(sustained)) = SUBSET sustained
    BY FS_Subset DEF UpTo
  <1>3. \E f : WorksOff(f, SUBSET sustained)
    BY <1>1, <1>2, WorksOffUpTo, Zenon
  <1>4. QED
    BY <1>3, ReleasedUnfolds, Zenon

(***************************************************************************)
(* What the lifted pedal leaves: of a note in s, one less; so of one never *)
(* pressed again while it was held, none.                                  *)
(***************************************************************************)
ReleasedFrom(s, notes) ==
  /\ NoteList(notes)
  /\ ToSet(notes) \subseteq ToSet(held)
  /\ ToSet(held) \ s \subseteq ToSet(notes)
  /\ s \cap ToSet(notes) \subseteq repressed

LEMMA ReleasedOne ==
  ASSUME NEW s, NEW n \in s, NEW notes, ReleasedFrom(s \ {n}, notes)
  PROVE  ReleasedFrom(s, RemoveFirst(notes, n))
  <1> DEFINE r == RemoveFirst(notes, n)
  <1>1. /\ NoteList(r) /\ ToSet(r) \subseteq ToSet(notes)
        /\ ToSet(notes) \ {n} \subseteq ToSet(r)
        /\ n \in ToSet(r) => n \in repressed
    BY WithoutFirst, Zenon DEF ReleasedFrom
  <1> HIDE DEF r
  <1>2. /\ ToSet(notes) \subseteq ToSet(held)
        /\ ToSet(held) \ (s \ {n}) \subseteq ToSet(notes)
        /\ (s \ {n}) \cap ToSet(notes) \subseteq repressed
    BY Zenon DEF ReleasedFrom
  <1>3. ReleasedFrom(s, r)
    BY <1>1, <1>2 DEF ReleasedFrom
  <1>4. QED
    BY <1>3 DEF r

LEMMA ReleasedCorrect ==
  ASSUME IsFiniteSet(sustained), NoteList(held)
  PROVE  ReleasedFrom(sustained, Released)
  <1>1. PICK f : WorksOff(f, SUBSET sustained) /\ Released = f[sustained]
    BY ReleasedIsWorkedOff
  <1> DEFINE Wrong == {s \in SUBSET sustained : ~ ReleasedFrom(s, f[s])}
             Sizes == {Cardinality(s) : s \in Wrong}
  <1>2. CASE Wrong = {}
    BY <1>1, <1>2, Zenon
  <1>3. CASE Wrong # {}
    <2>1. \A s \in SUBSET sustained : Cardinality(s) \in Nat
      BY FS_Subset, FS_CardinalityType
    <2>2. Sizes \in SUBSET Nat /\ Sizes # {}
      BY <1>3, <2>1, Zenon
    <2>3. PICK m \in Sizes : \A k \in Sizes : m <= k
      BY <2>2, LeastExists, Zenon
    <2>4. PICK s \in Wrong : m = Cardinality(s)
      BY <2>3
    <2>5. f[s] = IF s = {} THEN held ELSE RemoveFirst(f[s \ {PickOf(s)}], PickOf(s))
      BY <1>1, Zenon DEF WorksOff
    <2>6. CASE s = {}
      <3>1. ReleasedFrom({}, held)
        BY Zenon DEF ReleasedFrom
      <3>2. QED
        BY <2>4, <2>5, <2>6, <3>1, Zenon
    <2>7. CASE s # {}
      <3> DEFINE t == s \ {PickOf(s)}
      <3>1. /\ PickOf(s) \in s /\ t \in SUBSET sustained
            /\ Cardinality(t) = m - 1 /\ m \in Nat
        BY <2>4, <2>7, OneFewer
      <3>2. t \notin Wrong
        <4>1. ~ (m <= Cardinality(t))
          BY <3>1
        <4>2. QED
          BY <2>3, <4>1, Zenon
      <3>3. ReleasedFrom(t, f[t])
        BY <3>1, <3>2, Zenon
      <3>4. ReleasedFrom(s, RemoveFirst(f[t], PickOf(s)))
        BY <3>1, <3>3, ReleasedOne, Zenon
      <3>5. QED
        BY <2>4, <2>5, <2>7, <3>4, Zenon
    <2>8. QED
      BY <2>6, <2>7
  <1>4. QED
    BY <1>2, <1>3

(***************************************************************************)
(* A new note: the place it gets is in or right behind the list, and the   *)
(* list stays ascending.                                                   *)
(***************************************************************************)
LEMMA PlaceFacts ==
  ASSUME NoteList(held), NEW n \in Lower
  PROVE  /\ PlaceOf(n) \in 1 .. Len(held) + 1
         /\ PlaceOf(n) > 1 => held[PlaceOf(n) - 1] <= n
         /\ PlaceOf(n) <= Len(held) => held[PlaceOf(n)] > n
  <1> DEFINE places == {p \in 1 .. Len(held) + 1 : p = 1 \/ held[p - 1] <= n}
  <1>1. Len(held) \in Nat /\ DOMAIN held = 1 .. Len(held) /\ n \in Nat
        /\ \A i \in DOMAIN held : held[i] \in Nat
    BY NumbersAreNumbers DEF NoteList
  <1>2. places \in SUBSET Nat /\ 1 \in places /\ \A p \in places : p <= Len(held) + 1
    BY <1>1
  <1>3. PlaceOf(n) = Max(places)
    BY DEF PlaceOf
  <1>4. Len(held) + 1 \in Nat
    BY <1>1
  <1>5. PlaceOf(n) \in places /\ \A p \in places : PlaceOf(n) >= p
    <2> HIDE DEF places
    <2>1. QED
      BY <1>2, <1>3, <1>4, MaxIsGreatest
  <1>6. PlaceOf(n) \in 1 .. Len(held) + 1 /\ (PlaceOf(n) > 1 => held[PlaceOf(n) - 1] <= n)
    BY <1>5
  <1>7. ASSUME PlaceOf(n) <= Len(held), held[PlaceOf(n)] <= n PROVE FALSE
    <2>1. PlaceOf(n) + 1 \in 1 .. Len(held) + 1 /\ (PlaceOf(n) + 1) - 1 = PlaceOf(n)
      BY <1>1, <1>6, <1>7
    <2>2. PlaceOf(n) + 1 \in places
      BY <1>7, <2>1
    <2>3. QED
      BY <1>5, <1>6, <2>2
  <1>8. PlaceOf(n) <= Len(held) => held[PlaceOf(n)] \in Nat
    BY <1>1, <1>6
  <1>9. QED
    BY <1>1, <1>6, <1>7, <1>8

LEMMA WithNoteCorrect ==
  ASSUME NoteList(held), NEW n \in Lower
  PROVE  /\ WithNote(n) \in Seq(Lower)
         /\ Len(WithNote(n)) = Len(held) + 1
         /\ Ascending(WithNote(n))
         /\ ToSet(WithNote(n)) = ToSet(held) \cup {n}
         /\ \A i, j \in DOMAIN WithNote(n) :
              i # j /\ WithNote(n)[i] = WithNote(n)[j] =>
                \/ WithNote(n)[i] \in repressed
                \/ WithNote(n)[i] = n /\ n \in ToSet(held)
  <1> DEFINE p == PlaceOf(n)
             r == WithNote(n)
             from(k) == IF k < p THEN k ELSE k - 1
  <1>1. held \in Seq(Lower) /\ Len(held) \in Nat /\ DOMAIN held = 1 .. Len(held) /\ n \in Nat
    BY NumbersAreNumbers DEF NoteList
  <1>2. p \in 1 .. Len(held) + 1 /\ (p > 1 => held[p - 1] <= n)
        /\ (p <= Len(held) => held[p] > n)
    BY PlaceFacts
  <1> HIDE DEF p
  <1>3. /\ r \in Seq(Lower) /\ Len(r) = Len(held) + 1
        /\ \A k \in 1 .. Len(held) + 1 :
             r[k] = IF k < p THEN held[k] ELSE IF k = p THEN n ELSE held[k - 1]
    <2>1. r = InsertAt(held, p, n)
      BY DEF WithNote, p
    <2> HIDE DEF r
    <2>2. /\ InsertAt(held, p, n) \in Seq(Lower)
          /\ Len(InsertAt(held, p, n)) = Len(held) + 1
          /\ \A k \in 1 .. Len(held) + 1 :
               InsertAt(held, p, n)[k] =
                 IF k < p THEN held[k] ELSE IF k = p THEN n ELSE held[k - 1]
      <3>1. held \in Seq(Lower) /\ p \in 1 .. Len(held) + 1
        BY <1>1, <1>2
      <3>2. ASSUME NEW q \in 1 .. Len(held) + 1
            PROVE  /\ InsertAt(held, q, n) \in Seq(Lower)
                   /\ Len(InsertAt(held, q, n)) = Len(held) + 1
                   /\ \A k \in 1 .. Len(held) + 1 :
                        InsertAt(held, q, n)[k] =
                          IF k < q THEN held[k] ELSE IF k = q THEN n ELSE held[k - 1]
        BY <3>1, InsertedAt
      <3>3. QED
        BY <3>1, <3>2, Zenon
    <2>3. QED
      BY <2>1, <2>2, Zenon
  <1> HIDE DEF r
  <1>4. DOMAIN r = 1 .. Len(held) + 1 /\ p \in DOMAIN r /\ r[p] = n
    BY <1>1, <1>2, <1>3
  <1>5. \A k \in DOMAIN r : k # p => from(k) \in DOMAIN held /\ r[k] = held[from(k)]
    BY <1>1, <1>2, <1>3, <1>4
  <1>6. \A k \in DOMAIN held : \E m \in DOMAIN r : m # p /\ from(m) = k
    <2> SUFFICES ASSUME NEW k \in DOMAIN held PROVE \E m \in DOMAIN r : m # p /\ from(m) = k
      OBVIOUS
    <2>1. CASE k < p
      <3>1. k \in DOMAIN r /\ k # p /\ from(k) = k
        BY <1>1, <1>2, <1>4, <2>1
      <3>2. QED
        BY <3>1, Zenon
    <2>2. CASE k >= p
      <3>1. k + 1 \in DOMAIN r /\ k + 1 # p /\ from(k + 1) = k
        BY <1>1, <1>2, <1>4, <2>2
      <3>2. QED
        BY <3>1, Zenon
    <2>3. QED
      BY <1>1, <1>2, <2>1, <2>2
  <1>7. \A k, m \in DOMAIN r : k # p /\ m # p =>
          (k < m => from(k) < from(m)) /\ (k # m => from(k) # from(m))
    BY <1>1, <1>2, <1>4
  <1>8. \A i \in DOMAIN held : held[i] \in Nat /\ (i < p => held[i] <= n)
                               /\ (i >= p => n <= held[i])
    <2>1. \A i \in DOMAIN held : held[i] \in Nat
      <3>1. \A i \in DOMAIN held : held[i] \in Lower
        BY <1>1
      <3>2. QED
        BY <3>1, NumbersAreNumbers, Zenon
    <2>2. \A i, j \in DOMAIN held : i < j => held[i] <= held[j]
      BY Zenon DEF NoteList, Ascending
    <2>3. ASSUME NEW i \in DOMAIN held, i < p PROVE held[i] <= n
      <3>1. p - 1 \in DOMAIN held /\ (i = p - 1 \/ i < p - 1) /\ held[p - 1] <= n
        BY <1>1, <1>2, <2>3
      <3>2. held[i] <= held[p - 1]
        BY <2>1, <2>2, <3>1
      <3>3. QED
        BY <1>1, <2>1, <3>1, <3>2
    <2>4. ASSUME NEW i \in DOMAIN held, i >= p PROVE n <= held[i]
      <3>1. p \in DOMAIN held /\ (i = p \/ p < i) /\ held[p] > n
        BY <1>1, <1>2, <2>4
      <3>2. held[p] <= held[i]
        BY <2>1, <2>2, <3>1
      <3>3. QED
        BY <1>1, <2>1, <3>1, <3>2
    <2>5. QED
      BY <2>1, <2>3, <2>4
  <1>9. Ascending(r)
    <2> SUFFICES ASSUME NEW i \in DOMAIN r, NEW j \in DOMAIN r, i < j PROVE r[i] <= r[j]
      BY Zenon DEF Ascending
    <2>1. CASE i = p
      <3>1. j # p /\ from(j) >= p
        BY <1>1, <1>2, <1>4, <2>1
      <3>2. QED
        BY <1>4, <1>5, <1>8, <2>1, <3>1, Zenon
    <2>2. CASE j = p
      <3>1. i # p /\ from(i) < p
        BY <1>1, <1>2, <1>4, <2>2
      <3>2. QED
        BY <1>4, <1>5, <1>8, <2>2, <3>1, Zenon
    <2>3. CASE i # p /\ j # p
      <3>1. from(i) < from(j)
        BY <1>7, <2>3
      <3> HIDE DEF from
      <3>2. QED
        BY <1>5, <2>3, <3>1, Zenon DEF NoteList, Ascending
    <2>4. QED
      BY <2>1, <2>2, <2>3
  <1> HIDE DEF from
  <1>10. ToSet(r) = ToSet(held) \cup {n}
    <2>1. ToSet(r) \subseteq ToSet(held) \cup {n}
      BY <1>4, <1>5, Zenon DEF ToSet
    <2>2. ASSUME NEW k \in DOMAIN held PROVE held[k] \in ToSet(r)
      <3>1. PICK m \in DOMAIN r : m # p /\ from(m) = k
        BY <1>6
      <3>2. r[m] = held[k]
        BY <1>5, <3>1
      <3>3. QED
        BY <3>2 DEF ToSet
    <2>3. n \in ToSet(r)
      BY <1>4 DEF ToSet
    <2>4. QED
      BY <2>1, <2>2, <2>3 DEF ToSet
  <1>11. ASSUME NEW i \in DOMAIN r, NEW j \in DOMAIN r, i # j, r[i] = r[j]
         PROVE  r[i] \in repressed \/ (r[i] = n /\ n \in ToSet(held))
    <2>1. CASE i # p /\ j # p
      <3>1. from(i) # from(j)
        BY <1>7, <1>11, <2>1
      <3>2. from(i) \in DOMAIN held /\ r[i] = held[from(i)]
            /\ from(j) \in DOMAIN held /\ r[j] = held[from(j)]
        BY <1>5, <2>1
      <3>3. QED
        BY <1>11, <3>1, <3>2, Zenon DEF NoteList
    <2>2. CASE i = p
      <3>1. from(j) \in DOMAIN held /\ held[from(j)] = n
        BY <1>4, <1>5, <1>11, <2>2
      <3>2. QED
        BY <1>4, <2>2, <3>1 DEF ToSet
    <2>3. CASE j = p
      <3>1. from(i) \in DOMAIN held /\ held[from(i)] = n
        BY <1>4, <1>5, <1>11, <2>3
      <3>2. QED
        BY <1>4, <1>11, <2>3, <3>1 DEF ToSet
    <2>4. QED
      BY <2>1, <2>2, <2>3
  <1>12. QED
    BY <1>3, <1>9, <1>10, <1>11 DEF r

(***************************************************************************)
(* The list of deferred releases never overflows: it holds notes of held.  *)
(***************************************************************************)
LEMMA NotesAreFew ==
  ASSUME NEW s, NoteList(s)
  PROVE  IsFiniteSet(ToSet(s)) /\ Cardinality(ToSet(s)) <= MaxHeld
  <1>1. Len(s) \in Nat /\ DOMAIN s = 1 .. Len(s) /\ s \in [1 .. Len(s) -> Lower]
        /\ Len(s) <= MaxHeld
    BY DEF NoteList
  <1>2. ToSet(s) = {s[k] : k \in 1 .. Len(s)}
    BY <1>1 DEF ToSet
  <1>3. s \in [1 .. Len(s) -> ToSet(s)]
    BY <1>1, <1>2
  <1>4. s \in Surjection(1 .. Len(s), ToSet(s))
    BY <1>2, <1>3 DEF Surjection
  <1>5. IsFiniteSet(1 .. Len(s)) /\ Cardinality(1 .. Len(s)) = Len(s)
    BY <1>1, FS_Interval, SMTT(30)
  <1>6. IsFiniteSet(ToSet(s)) /\ Cardinality(ToSet(s)) <= Len(s)
    BY <1>4, <1>5, FS_Surjection, SMTT(30)
  <1>7. Cardinality(ToSet(s)) \in Nat
    BY <1>6, FS_CardinalityType
  <1>8. QED
    BY <1>1, <1>6, <1>7, NumbersAreNumbers

LEMMA ReleaseRemembered ==
  ASSUME NoteList(held), sustained \subseteq ToSet(held), NEW n \in ToSet(held),
         RememberSustained(n)
  PROVE  sustained' = sustained \cup {n}
  <1>1. CASE n \in sustained
    <2>1. sustained \cup {n} = sustained
      BY <1>1
    <2>2. QED
      BY <2>1, Zenon DEF RememberSustained
  <1>2. CASE n \notin sustained
    <2>1. IsFiniteSet(ToSet(held)) /\ Cardinality(ToSet(held)) <= MaxHeld
      BY NotesAreFew
    <2>2. IsFiniteSet(sustained) /\ Cardinality(sustained) <= Cardinality(ToSet(held))
          /\ Cardinality(sustained) # Cardinality(ToSet(held))
      BY <1>2, <2>1, FS_Subset
    <2>3. Cardinality(sustained) \in Nat /\ Cardinality(ToSet(held)) \in Nat
      BY <2>1, <2>2, FS_CardinalityType
    <2>4. Cardinality(sustained) < MaxHeld
      BY <2>1, <2>2, <2>3, NumbersAreNumbers
    <2>5. QED
      BY <2>4, Zenon DEF RememberSustained
  <1>3. QED
    BY <1>1, <1>2

(***************************************************************************)
(* The inductive invariant.  A key down whose note the adapter took has    *)
(* its note in the list and no deferred release, so that no pedal takes it *)
(* away; the deferred releases are notes of the list and wait only while   *)
(* the pedal is down; and a note is in the list twice only when its key    *)
(* was pressed again, so that one removal is enough for any other.         *)
(***************************************************************************)
HeldInvariant ==
  /\ NoteList(held)
  /\ sustain \in BOOLEAN /\ sustained \subseteq ToSet(held)
  /\ ~ sustain => sustained = {}
  /\ wanted \subseteq keys /\ HeldKeysStay /\ wanted \cap sustained = {}
  /\ ReleasedNotesLeave

LEMMA NoteListNext ==
  ASSUME held' \in Seq(Lower), Len(held') <= MaxHeld, Ascending(held'),
         \A i, j \in DOMAIN held' : i # j /\ held'[i] = held'[j] => held'[i] \in repressed'
  PROVE  NoteList(held)'
  BY Zenon DEF NoteList, Ascending

LEMMA SetOfNext == ToSet(held)' = ToSet(held')
  BY DEF ToSet

\* A shorter list needs to know of fewer notes that were pressed again.
LEMMA NoteListKept ==
  ASSUME NoteList(held'), repressed \cap ToSet(held') \subseteq repressed'
  PROVE  NoteList(held)'
  <1>1. /\ held' \in Seq(Lower) /\ Len(held') <= MaxHeld /\ Ascending(held')
        /\ \A i, j \in DOMAIN held' : i # j /\ held'[i] = held'[j] => held'[i] \in repressed
    BY Zenon DEF NoteList
  <1>2. \A i \in DOMAIN held' : held'[i] \in ToSet(held')
    BY DEF ToSet
  <1>3. \A i, j \in DOMAIN held' : i # j /\ held'[i] = held'[j] => held'[i] \in repressed'
    BY <1>1, <1>2
  <1>4. QED
    BY <1>1, <1>3, NoteListNext, Zenon

\* The list stays, its keys may change.
LEMMA SameNotes ==
  ASSUME HeldInvariant, held' = held, repressed \cap ToSet(held') \subseteq repressed'
  PROVE  NoteList(held)' /\ ToSet(held') = ToSet(held)
  <1>1. NoteList(held')
    BY Zenon DEF HeldInvariant
  <1>2. QED
    BY <1>1, NoteListKept, Zenon

LEMMA SameHeld ==
  ASSUME HeldInvariant, held' = held, sustain' = sustain, sustained' = sustained,
         keys' = keys, wanted' = wanted, repressed' = repressed, missed' = missed
  PROVE  HeldInvariant'
  <1>1. NoteList(held)' /\ ToSet(held)' = ToSet(held)
    BY SameNotes, SetOfNext
  <1>2. QED
    BY <1>1 DEF HeldInvariant, HeldKeysStay, ReleasedNotesLeave

LEMMA HeldKeyDown ==
  ASSUME HeldInvariant, NEW n \in Notes, KeyDown(n)
  PROVE  HeldInvariant'
  <1>1. /\ sustain' = sustain /\ missed' = missed
        /\ keys' = IF n \in Lower THEN keys \cup {n} ELSE keys
    <2>1. {n} \cap Lower = IF n \in Lower THEN {n} ELSE {}
      OBVIOUS
    <2>2. keys' = keys \cup ({n} \cap Lower)
      BY Zenon DEF KeyDown
    <2>3. keys' = IF n \in Lower THEN keys \cup {n} ELSE keys
      BY <2>1, <2>2
    <2>4. QED
      BY <2>3, Zenon DEF KeyDown
  <1>2. CASE n \notin Lower
    <2>1. held' = held /\ sustained' = sustained /\ wanted' = wanted
          /\ repressed' = repressed
      BY <1>2, Zenon DEF KeyDown, NoteOn
    <2>2. NoteList(held)' /\ ToSet(held)' = ToSet(held)
      BY <2>1, SameNotes, SetOfNext
    <2>3. QED
      BY <1>1, <2>1, <2>2 DEF HeldInvariant, HeldKeysStay, ReleasedNotesLeave
  <1>3. CASE n \in Lower
    <2>1. /\ sustained' = sustained \ {n}
          /\ wanted' = IF n \in ToSet(held') THEN wanted \cup {n} ELSE wanted
          /\ sustain' = sustain /\ missed' = missed /\ keys' = keys \cup {n}
      BY <1>1, <1>3, Zenon DEF KeyDown, NoteOn, ForgetSustained
    <2>2. CASE Len(held) >= MaxHeld
      <3>1. held' = held /\ repressed' = repressed
        BY <1>3, <2>2, Zenon DEF KeyDown, NoteOn
      <3>2. NoteList(held)' /\ ToSet(held)' = ToSet(held)
        BY <3>1, SameNotes, SetOfNext
      <3>3. QED
        BY <2>1, <3>1, <3>2, SetOfNext
           DEF HeldInvariant, HeldKeysStay, ReleasedNotesLeave
    <2>3. CASE ~ (Len(held) >= MaxHeld)
      <3>1. /\ held' = WithNote(n)
            /\ repressed' = IF n \in ToSet(held) THEN repressed \cup {n} ELSE repressed
        BY <1>3, <2>3, Zenon DEF KeyDown, NoteOn
      <3>2. NoteList(held)
        BY DEF HeldInvariant
      <3>3. /\ held' \in Seq(Lower) /\ Len(held') = Len(held) + 1 /\ Ascending(held')
            /\ ToSet(held') = ToSet(held) \cup {n}
            /\ \A i, j \in DOMAIN held' : i # j /\ held'[i] = held'[j] =>
                 \/ held'[i] \in repressed
                 \/ held'[i] = n /\ n \in ToSet(held)
        BY <1>3, <3>1, <3>2, WithNoteCorrect, Zenon
      <3>4. Len(held') <= MaxHeld
        BY <2>3, <3>2, <3>3, NumbersAreNumbers DEF NoteList
      <3>5. \A x \in repressed : x \in repressed'
        BY <3>1
      <3>6. n \in ToSet(held) => n \in repressed'
        BY <3>1
      <3>7. \A i, j \in DOMAIN held' : i # j /\ held'[i] = held'[j] => held'[i] \in repressed'
        BY <3>3, <3>5, <3>6, Zenon
      <3>8. NoteList(held)'
        BY <3>3, <3>4, <3>7, NoteListNext, Zenon
      <3>9. ToSet(held)' = ToSet(held) \cup {n}
        BY <3>3, SetOfNext, Zenon
      <3>10. wanted' = wanted \cup {n}
        BY <2>1, <3>3
      <3>11. QED
        BY <2>1, <3>5, <3>8, <3>9, <3>10
           DEF HeldInvariant, HeldKeysStay, ReleasedNotesLeave
    <2>4. QED
      BY <2>2, <2>3
  <1>4. QED
    BY <1>2, <1>3

LEMMA HeldKeyUp ==
  ASSUME HeldInvariant, NEW n \in Notes, KeyUp(n)
  PROVE  HeldInvariant'
  <1>1. /\ sustain' = sustain /\ missed' = missed \cap ToSet(held')
        /\ repressed' = repressed \cap ToSet(held')
        /\ keys' = keys \ {n} /\ wanted' = wanted \ {n}
    BY Zenon DEF KeyUp, ForgetGone
  <1>2. CASE n \notin ToSet(held)
    <2>1. held' = held /\ sustained' = sustained
      BY <1>2, Zenon DEF KeyUp, NoteOff
    <2>2. NoteList(held)' /\ ToSet(held)' = ToSet(held)
      BY <1>1, <2>1, SameNotes, SetOfNext
    <2>3. QED
      BY <1>1, <1>2, <2>1, <2>2 DEF HeldInvariant, HeldKeysStay, ReleasedNotesLeave
  <1>3. CASE n \in ToSet(held) /\ sustain
    <2>1. held' = held /\ RememberSustained(n)
      BY <1>3, Zenon DEF KeyUp, NoteOff
    <2>2. sustained' = sustained \cup {n}
      BY <1>3, <2>1, ReleaseRemembered DEF HeldInvariant
    <2>3. NoteList(held)' /\ ToSet(held)' = ToSet(held)
      BY <1>1, <2>1, SameNotes, SetOfNext
    <2>4. QED
      BY <1>1, <1>3, <2>2, <2>3 DEF HeldInvariant, HeldKeysStay, ReleasedNotesLeave
  <1>4. CASE n \in ToSet(held) /\ ~ sustain
    <2>1. held' = RemoveFirst(held, n) /\ sustained' = sustained
      BY <1>4, Zenon DEF KeyUp, NoteOff
    <2>2. NoteList(held)
      BY DEF HeldInvariant
    <2>3. /\ NoteList(held') /\ ToSet(held') \subseteq ToSet(held)
          /\ ToSet(held) \ {n} \subseteq ToSet(held')
          /\ n \in ToSet(held') => n \in repressed
      BY <2>1, <2>2, WithoutFirst, Zenon
    <2>4. NoteList(held)'
      BY <1>1, <2>3, NoteListKept
    <2>5. QED
      BY <1>1, <1>4, <2>1, <2>3, <2>4, SetOfNext
         DEF HeldInvariant, HeldKeysStay, ReleasedNotesLeave
  <1>5. QED
    BY <1>2, <1>3, <1>4

LEMMA HeldPedal ==
  ASSUME HeldInvariant, NEW on \in BOOLEAN, Pedal(on)
  PROVE  HeldInvariant'
  <1>1. /\ sustain' = on /\ keys' = keys /\ wanted' = wanted
        /\ repressed' = repressed \cap ToSet(held') /\ missed' = missed \cap ToSet(held')
    BY Zenon DEF Pedal, ForgetGone
  <1>2. CASE on
    <2>1. held' = held /\ sustained' = sustained
      BY <1>2, Zenon DEF Pedal
    <2>2. NoteList(held)' /\ ToSet(held)' = ToSet(held)
      BY <1>1, <2>1, SameNotes, SetOfNext
    <2>3. QED
      BY <1>1, <1>2, <2>1, <2>2 DEF HeldInvariant, HeldKeysStay, ReleasedNotesLeave
  <1>3. CASE ~ on
    <2>1. held' = Released /\ sustained' = {}
      BY <1>3, Zenon DEF Pedal
    <2>2. NoteList(held) /\ sustained \subseteq ToSet(held)
      BY DEF HeldInvariant
    <2>3. IsFiniteSet(sustained)
      BY <2>2, NotesAreFew, FS_Subset
    <2>4. ReleasedFrom(sustained, held')
      BY <2>1, <2>2, <2>3, ReleasedCorrect, Zenon
    <2>5. /\ NoteList(held') /\ ToSet(held') \subseteq ToSet(held)
          /\ ToSet(held) \ sustained \subseteq ToSet(held')
          /\ sustained \cap ToSet(held') \subseteq repressed
      BY <2>4, Zenon DEF ReleasedFrom
    <2>6. NoteList(held)'
      BY <1>1, <2>5, NoteListKept
    <2>7. QED
      BY <1>1, <1>3, <2>1, <2>5, <2>6, SetOfNext
         DEF HeldInvariant, HeldKeysStay, ReleasedNotesLeave
  <1>4. QED
    BY <1>2, <1>3

LEMMA HeldRestart ==
  ASSUME HeldInvariant, Restart
  PROVE  HeldInvariant'
  <1>1. /\ held' = held /\ sustain' = sustain /\ sustained' = sustained
        /\ repressed' = repressed /\ wanted' = wanted \cap keys'
        /\ missed' = missed \cup (ToSet(held) \ keys')
    BY Zenon DEF Restart, keyVars
  <1>2. NoteList(held)' /\ ToSet(held)' = ToSet(held)
    BY <1>1, SameNotes, SetOfNext
  <1>3. QED
    BY <1>1, <1>2 DEF HeldInvariant, HeldKeysStay, ReleasedNotesLeave

LEMMA InitHeld == Init => HeldInvariant
  <1> SUFFICES ASSUME Init PROVE HeldInvariant
    OBVIOUS
  <1>1. held = <<>> /\ held \in Seq(Lower) /\ Len(held) = 0 /\ DOMAIN held = {}
    BY DEF Init
  <1>2. NoteList(held) /\ ToSet(held) = {}
    BY <1>1, NumbersAreNumbers DEF NoteList, Ascending, ToSet
  <1>3. QED
    BY <1>2 DEF Init, HeldInvariant, HeldKeysStay, ReleasedNotesLeave

LEMMA StepHeld == HeldInvariant /\ [Next]_vars => HeldInvariant'
  <1> SUFFICES ASSUME HeldInvariant, [Next]_vars
               PROVE  HeldInvariant'
    OBVIOUS
  <1>1. CASE UNCHANGED vars
    BY <1>1, SameHeld DEF vars, keyVars, keyHistory
  <1>2. ASSUME NEW n \in Notes, KeyDown(n) \/ KeyUp(n)
        PROVE  HeldInvariant'
    BY <1>2, HeldKeyDown, HeldKeyUp
  <1>3. ASSUME NEW on \in BOOLEAN, Pedal(on)
        PROVE  HeldInvariant'
    BY <1>3, HeldPedal
  <1>4. CASE Restart
    BY <1>4, HeldRestart
  <1>5. CASE BeginTick \/ EndTick \/ SyncArm \/ Start \/ Stop \/ Panic \/ LoadStyle
    BY <1>5, SameHeld DEF BeginTick, EndTick, SyncArm, Start, Stop, Panic, LoadStyle,
       keyVars, keyHistory
  <1>6. ASSUME NEW c \in Chords \cup {NoChord}, ChordEvent(c)
        PROVE  HeldInvariant'
    BY <1>6, SameHeld DEF ChordEvent, keyVars, keyHistory
  <1>7. QED
    BY <1>1, <1>2, <1>3, <1>4, <1>5, <1>6 DEF Next

LEMMA HeldCorrect == Spec => []HeldInvariant
  BY InitHeld, StepHeld, PTL DEF Spec

(***************************************************************************)
(* A key that is down keeps its note in the chord, whatever the pedal did  *)
(* since it was pressed (performer_adapter.cpp:134-191).                   *)
(***************************************************************************)
THEOREM KeysStayHeld == Spec => []HeldKeysStay
  <1>1. HeldInvariant => HeldKeysStay
    BY DEF HeldInvariant
  <1>2. QED
    BY <1>1, HeldCorrect, PTL

(***************************************************************************)
(* A note whose key is up leaves the chord, with the pedal at the latest:  *)
(* of all notes whose release was handled and that were never pressed      *)
(* again while held.                                                       *)
(***************************************************************************)
THEOREM NotesLeave == Spec => []ReleasedNotesLeave
  <1>1. HeldInvariant => ReleasedNotesLeave
    BY DEF HeldInvariant
  <1>2. QED
    BY <1>1, HeldCorrect, PTL
-----------------------------------------------------------------------------
(***************************************************************************)
(* Part 4: type correctness.  The three invariants have the types of their *)
(* variables, the list ascending and within kMaxHeld among them; here are  *)
(* those of the others.                                                    *)
(***************************************************************************)
ChordNames == Chords \cup {NoChord}

OtherTypes ==
  /\ lastChord \in ChordNames /\ chord \in ChordNames
  /\ holdMode \in BOOLEAN /\ latchPending \in BOOLEAN
  /\ chooser \in {"nobody", "keys", "screen"}
  /\ phase \in {"idle", "events"} /\ keys \subseteq Lower
  /\ repressed \subseteq Lower /\ missed \subseteq Lower

chordTypeVars == <<lastChord, chord, holdMode, latchPending, chooser>>

ChordTypes ==
  /\ lastChord \in ChordNames /\ chord \in ChordNames
  /\ holdMode \in BOOLEAN /\ latchPending \in BOOLEAN
  /\ chooser \in {"nobody", "keys", "screen"}

LEMMA LowerNotes ==
  ASSUME NEW s \in Seq(Lower)
  PROVE  ToSet(s) \subseteq Lower
  <1>1. \A i \in DOMAIN s : s[i] \in Lower
    OBVIOUS
  <1>2. QED
    BY <1>1, Zenon DEF ToSet

LEMMA RedetectTypes ==
  ASSUME ChordTypes, NEW notes, ToSet(notes) \subseteq Lower, RedetectChord(notes)
  PROVE  ChordTypes'
  <1>1. Detected(notes) \in ChordNames
    <2>1. Detect \in [SUBSET Lower -> ChordNames]
      BY AdapterAssumption, Zenon DEF ChordNames
    <2>2. QED
      BY <2>1 DEF Detected
  <1>2. StartChord \in ChordNames
    BY AdapterAssumption DEF ChordNames
  <1>3. holdMode' = holdMode
    BY Zenon DEF RedetectChord
  <1>4. CASE Detected(notes) # NoChord
    <2>1. /\ lastChord' = Detected(notes) /\ chord' = Detected(notes)
          /\ latchPending' = FALSE /\ chooser' = "keys"
      BY <1>4, ChordPresentPlayer, Zenon DEF RedetectChord, CancelLatch
    <2>2. QED
      BY <1>1, <1>3, <2>1, Zenon DEF ChordTypes
  <1>5. CASE Detected(notes) = NoChord
    <2>1. lastChord' = lastChord /\ chord' = chord /\ chooser' = chooser /\ ArmLatch
      BY <1>5, Zenon DEF RedetectChord, playerVars
    <2>2. latchPending' \in {latchPending, TRUE}
      BY <2>1, Zenon DEF ArmLatch
    <2>3. QED
      BY <1>3, <2>1, <2>2, Zenon DEF ChordTypes
  <1>6. QED
    BY <1>4, <1>5

LEMMA SameChordTypes ==
  ASSUME ChordTypes, UNCHANGED chordTypeVars
  PROVE  ChordTypes'
  BY Zenon DEF ChordTypes, chordTypeVars

LEMMA NothingTypes ==
  ASSUME ChordTypes, NothingToDetect
  PROVE  ChordTypes'
  BY SameChordTypes DEF NothingToDetect, chordVars, playerVars, chordTypeVars

LEMMA InitTypes == Init => OtherTypes
  BY AdapterAssumption DEF Init, OtherTypes, ChordNames

LEMMA StepTypes ==
  ASSUME HeldInvariant, HeldInvariant', OtherTypes, [Next]_vars
  PROVE  OtherTypes'
  <1> USE DEF OtherTypes
  <1>1. ChordTypes
    BY Zenon DEF ChordTypes
  <1>2. ToSet(held) \subseteq Lower /\ ToSet(held') \subseteq Lower
    <2>1. held \in Seq(Lower) /\ held' \in Seq(Lower)
      BY Zenon DEF HeldInvariant, NoteList
    <2>2. QED
      BY <2>1, LowerNotes
  <1>3. CASE UNCHANGED vars
    BY <1>3 DEF vars, chordVars, playerVars, keyHistory
  <1>4. ASSUME NEW n \in Notes, KeyDown(n)
        PROVE  OtherTypes'
    <2>1. /\ keys' = keys \cup ({n} \cap Lower) /\ phase' = phase /\ missed' = missed
          /\ repressed' \subseteq repressed \cup ToSet(held)
      BY <1>4 DEF KeyDown, NoteOn
    <2>2. NothingToDetect \/ RedetectChord(held')
      BY <1>4, Zenon DEF KeyDown, NoteOn
    <2>3. ChordTypes'
      BY <1>1, <1>2, <2>2, RedetectTypes, NothingTypes, Zenon
    <2>4. QED
      BY <1>2, <2>1, <2>3 DEF ChordTypes
  <1>5. ASSUME NEW n \in Notes, KeyUp(n)
        PROVE  OtherTypes'
    <2>1. /\ keys' = keys \ {n} /\ phase' = phase
          /\ missed' \subseteq missed /\ repressed' \subseteq repressed
      BY <1>5 DEF KeyUp, ForgetGone
    <2>2. NothingToDetect \/ RedetectChord(held')
      BY <1>5, Zenon DEF KeyUp, NoteOff
    <2>3. ChordTypes'
      BY <1>1, <1>2, <2>2, RedetectTypes, NothingTypes, Zenon
    <2>4. QED
      BY <2>1, <2>3 DEF ChordTypes
  <1>6. ASSUME NEW on \in BOOLEAN, Pedal(on)
        PROVE  OtherTypes'
    <2>1. /\ keys' = keys /\ phase' = phase
          /\ missed' \subseteq missed /\ repressed' \subseteq repressed
      BY <1>6 DEF Pedal, ForgetGone
    <2>2. NothingToDetect \/ RedetectChord(held')
      BY <1>6, Zenon DEF Pedal
    <2>3. ChordTypes'
      BY <1>1, <1>2, <2>2, RedetectTypes, NothingTypes, Zenon
    <2>4. QED
      BY <2>1, <2>3 DEF ChordTypes
  <1>7. ASSUME NEW c \in Chords \cup {NoChord}, ChordEvent(c)
        PROVE  OtherTypes'
    <2>1. lastChord' \in ChordNames /\ chord' \in {chord, c}
      BY <1>7, ChordPresentPlayer, Zenon DEF ChordEvent, playerVars, ChordNames
    <2>2. chord' \in ChordNames
      BY <1>7, <2>1 DEF ChordNames
    <2>3. QED
      BY <1>7, <2>1, <2>2 DEF ChordEvent, keyHistory
  <1>8. CASE BeginTick
    BY <1>8 DEF BeginTick, chordVars, keyHistory
  <1>9. CASE EndTick
    BY <1>9 DEF EndTick, keyHistory, ChordNames
  <1>10. CASE SyncArm \/ Stop \/ Panic \/ LoadStyle
    BY <1>10 DEF SyncArm, Stop, Panic, LoadStyle, chordVars, playerVars, keyHistory
  <1>11. CASE Start
    <2>1. StartChord \in ChordNames
      BY AdapterAssumption DEF ChordNames
    <2>2. chord' \in {StartChord, chord} /\ chooser' \in {"nobody", chooser}
      BY <1>11, PlayerStarted, Zenon DEF Start, PlayerBecomes
    <2>3. QED
      BY <1>11, <2>1, <2>2 DEF Start, chordVars, keyHistory
  <1>12. CASE Restart
    BY <1>2, <1>12 DEF Restart, chordVars
  <1>13. QED
    BY <1>3, <1>4, <1>5, <1>6, <1>7, <1>8, <1>9, <1>10, <1>11, <1>12 DEF Next

LEMMA TypesCorrect == Spec => []OtherTypes
  <1>1. HeldInvariant /\ HeldInvariant' /\ OtherTypes /\ [Next]_vars => OtherTypes'
    BY StepTypes
  <1>2. QED
    BY <1>1, InitTypes, HeldCorrect, PTL DEF Spec

(***************************************************************************)
(* Type correctness: the list of held notes is ascending, which the manual *)
(* bass and the detectors rely on, and never longer than kMaxHeld          *)
(* (performer_adapter.cpp:134-144).                                        *)
(***************************************************************************)
THEOREM AdapterTypes == Spec => []TypeOK
  <1>1. StateInvariant /\ LatchInvariant /\ HeldInvariant /\ OtherTypes => TypeOK
    <2> SUFFICES ASSUME StateInvariant, LatchInvariant, HeldInvariant, OtherTypes
                 PROVE  TypeOK
      OBVIOUS
    <2>1. sync \in PerformerStates /\ performer \in PerformerStates
          /\ playable \in BOOLEAN /\ running \in BOOLEAN
          /\ armed \in BOOLEAN /\ torn \in BOOLEAN
      BY DEF StateInvariant, Settled, PerformerStates, PerformerStatesAgree
    <2>2. latchDeadline \in Nat /\ samples \in Nat /\ quiet \in Nat
      BY Zenon DEF LatchInvariant, ClockTyped
    <2>3. /\ held \in Seq(Lower) /\ Len(held) <= MaxHeld /\ Ascending(held)
          /\ sustain \in BOOLEAN /\ sustained \subseteq Lower /\ wanted \subseteq keys
      BY LowerNotes, Zenon DEF HeldInvariant, NoteList
    <2>4. QED
      BY <2>1, <2>2, <2>3, Zenon DEF TypeOK, OtherTypes, ChordNames
  <1>2. QED
    BY <1>1, StatesCorrect, LatchCorrect, HeldCorrect, TypesCorrect, PTL
=============================================================================
