--------------------------- MODULE StylePlayerProofs ---------------------------
(***************************************************************************)
(* Theorems about StylePlayer for every style, chord table, queue capacity *)
(* and tempo.                                                              *)
(***************************************************************************)
EXTENDS StylePlayer, FiniteSetTheorems, TLAPS

(***************************************************************************)
(* Part 1: type correctness.                                               *)
(***************************************************************************)

LEMMA PositionIsNat ==
  ASSUME TypeOK
  PROVE  Position \in Nat
  BY SMT DEF TypeOK, Position

LEMMA BarSizeIsNat == ASSUME TypeOK PROVE BarSize \in Nat
  BY ClockAssumption, SMT DEF BarSize

LEMMA SwungIsNat ==
  ASSUME TypeOK, NEW t \in Nat
  PROVE  Swung(t) \in Nat
  <1>1. CASE swing <= StraightSwing
    BY <1>1 DEF Swung
  <1>2. CASE swing > StraightSwing
    <2> DEFINE d == (swing - StraightSwing) * TicksPerBeat
    <2>1. d \in Nat
      BY <1>2, ClockAssumption, SMT DEF TypeOK, StraightSwing, MaxSwing
    <2>2. d \div 100 \in Nat
      BY <2>1, SMT
    <2>3. QED
      BY <2>2 DEF Swung
  <1>3. QED
    BY <1>1, <1>2, SMT DEF TypeOK, StraightSwing, MaxSwing

LEMMA EventConstructors ==
  /\ \A n \in Notes, t \in Nat : NoteOnEvent(n, t) \in Event /\ NoteOffEvent(n, t) \in Event
  /\ \A ch \in Channels : SilenceEvent(ch) \in Event
  BY DEF Event, NoteOnEvent, NoteOffEvent, SilenceEvent

LEMMA ScheduleTyped ==
  ASSUME SchedTypeOK, NEW ev \in Event, Schedule(ev)
  PROVE  SchedTypeOK'
  BY DEF SchedTypeOK, Schedule, Full

LEMMA EventsTyped ==
  ASSUME TypeOK, current \in DOMAIN sections
  PROVE  Events \in Seq(SectionEvent)
  <1>1. sections \in SectionTables
    BY DEF TypeOK, SeqTypeOK, EmptyTable
  <1>2. QED
    BY <1>1, EventsAssumption DEF Events

LEMMA VoiceTyped ==
  ASSUME TypeOK, NEW s \in Sources
  PROVE  Voice[chord][s] \in Notes
  BY ChordsAssumption DEF TypeOK

LEMMA IndicesAreIntegers ==
  ASSUME TypeOK
  PROVE  DOMAIN sections \subseteq Nat /\ (sections # EmptyTable => 0 \in DOMAIN sections)
  BY TablesAssumption DEF TypeOK, SeqTypeOK, EmptyTable

LEMMA StateOfTyped ==
  ASSUME TypeOK, NEW k
  PROVE  StateOf(k) \in States
  BY Zenon DEF TypeOK, SeqTypeOK, StateOf, States

(***************************************************************************)
(* The sequencer's operations keep its own types.                          *)
(***************************************************************************)
LEMMA QueueSectionTyped ==
  ASSUME SeqTypeOK, NEW i \in Int, QueueSection(i)
  PROVE  SeqTypeOK'
  BY DEF SeqTypeOK, QueueSection

LEMMA QueueKindTyped ==
  ASSUME TypeOK, NEW kind, QueueKind(kind)
  PROVE  SeqTypeOK'
  <1>1. CASE UNCHANGED seqVars
    BY <1>1 DEF TypeOK, SeqTypeOK, seqVars
  <1>2. ASSUME NEW i \in IndicesOf(kind), QueueSection(i)
        PROVE  SeqTypeOK'
    <2>1. i \in Int
      BY IndicesAreIntegers DEF IndicesOf
    <2>2. QED
      BY <1>2, <2>1, QueueSectionTyped DEF TypeOK
  <1>3. QED
    BY <1>1, <1>2 DEF QueueKind

LEMMA AdvanceTyped ==
  ASSUME TypeOK, Advance(Position, BarSize)
  PROVE  SeqTypeOK'
  <1>1. (state \in States)' /\ (current \in Int)' /\ (queued \in Int)'
    BY StateOfTyped DEF TypeOK, SeqTypeOK, Advance, ActivateQueued, None
  <1>2. (lastBarStart \in Nat)'
    <2> DEFINE p == Position
               b == BarSize
    <2>1. p \in Nat /\ b \in Nat
      BY PositionIsNat, BarSizeIsNat
    <2> HIDE DEF p, b
    <2>2. b > 0 => (p \div b) * b \in Nat
      BY <2>1, SMT
    <2>3. QED
      BY <2>2 DEF TypeOK, SeqTypeOK, Advance, Switches, Advancing, p, b
  <1>3. QED
    BY <1>1, <1>2 DEF TypeOK, SeqTypeOK, Advance

LEMMA SequencerPanicTyped ==
  ASSUME SeqTypeOK, SequencerPanic
  PROVE  SeqTypeOK'
  BY DEF SeqTypeOK, SequencerPanic, States, None

LEMMA ObserveTyped ==
  ASSUME BalanceTypeOK, NEW ev \in Event, Observe(ev)
  PROVE  BalanceTypeOK'
  <1>1. ASSUME NEW n \in Notes
        PROVE  CountAfter(ev, n) \in Nat
    <2>1. ev.kind \in {"on", "off", "cc"} /\ balance[n] \in Nat
      BY DEF Event, BalanceTypeOK
    <2>2. QED
      BY <2>1 DEF CountAfter
  <1>2. QED
    BY <1>1 DEF BalanceTypeOK, Observe

(***************************************************************************)
(* Type correctness (TypeOK), one step for each action of Next.            *)
(***************************************************************************)
LEMMA InitTyped == Init => TypeOK
  <1> SUFFICES ASSUME Init
               PROVE  TypeOK
    OBVIOUS
  <1>1. SeqTypeOK
    BY DEF Init, SeqInit, SeqTypeOK, States, None
  <1>2. running \in BOOLEAN /\ lost \in BOOLEAN /\ orphaned \in BOOLEAN
    BY Zenon DEF Init, SchedInit, BalanceInit
  <1>3. queue \in Seq(Event)
    BY DEF Init, SchedInit
  <1>4. balance \in [Notes -> Nat]
    BY DEF Init, BalanceInit
  <1>5. noteCount \in Int /\ active = {}
    BY DEF Init, HandlerInit
  <1>6. samples = 0 /\ tempo = StyleTempo /\ chord = StartChord /\ newChord = StartChord
        /\ origin = 0 /\ cursor = -1 /\ swing = 50 /\ phase = "idle" /\ then = "none"
        /\ index = 0 /\ lastTickBar = 0
    BY Zenon DEF Init, StraightSwing
  <1>7. QED
    BY <1>1, <1>2, <1>3, <1>4, <1>5, <1>6, ChordsAssumption, ClockAssumption
    DEF TypeOK, SchedTypeOK, BalanceTypeOK, MaxSwing, Phases, Operations

LEMMA StepTyped == TypeOK /\ [Next]_vars => TypeOK'
  <1> SUFFICES ASSUME TypeOK, [Next]_vars
               PROVE  TypeOK'
    OBVIOUS
  <1> USE DEF vars, seqVars, panicVars, schedVars, balanceVars, playVars, clockVars,
              loopVars, Phases, Operations
  <1>1. CASE LoadStyle
    BY <1>1 DEF LoadStyle, SetSections, TypeOK, SeqTypeOK, SchedTypeOK, BalanceTypeOK
  <1>2. CASE SetSwing
    BY <1>2, ClockAssumption
    DEF SetSwing, TypeOK, SeqTypeOK, SchedTypeOK, BalanceTypeOK, MaxSwing
  <1>3. CASE BeginRound
    BY <1>3, ClockAssumption
    DEF BeginRound, TypeOK, SeqTypeOK, SchedTypeOK, BalanceTypeOK
  <1>4. ASSUME NEW i \in QueueArgs, Start(i)
        PROVE  TypeOK'
    <2>1. SeqTypeOK'
      BY <1>4, QueueArgsAssumption, QueueSectionTyped DEF Start, TypeOK
    <2>2. QED
      BY <1>4, <2>1, ClockAssumption, ChordsAssumption
      DEF Start, TypeOK, SchedTypeOK, BalanceTypeOK
  <1>5. CASE Queue
    <2>1. SeqTypeOK'
      BY <1>5, QueueKindTyped, QueueArgsAssumption, QueueSectionTyped
      DEF Queue, QueueIntro, QueueFill, QueueBreak, QueueEnding, TypeOK
    <2>2. sections' = sections /\ current' = current
      BY <1>5 DEF Queue, QueueIntro, QueueFill, QueueBreak, QueueEnding, QueueKind,
                  QueueSection
    <2>3. QED
      BY <1>5, <2>1, <2>2 DEF Queue, TypeOK, SchedTypeOK, BalanceTypeOK
  <1>6. ASSUME NEW c \in Chords, SetChordStopped(c) \/ SetChordRunning(c)
        PROVE  TypeOK'
    BY <1>6 DEF SetChordStopped, SetChordRunning, EnterFlush, TypeOK, SeqTypeOK,
                SchedTypeOK, BalanceTypeOK
  <1>7. CASE Stop
    BY <1>7 DEF Stop, EnterFlush, TypeOK, SeqTypeOK, SchedTypeOK, BalanceTypeOK
  <1>8. CASE Panic
    BY <1>8, NotesAssumption DEF Panic, EnterPanic, ClearQueue, TypeOK, SeqTypeOK,
                                 SchedTypeOK, BalanceTypeOK
  <1>9. CASE FlushNote
    <2>1. PICK n \in active : TakeBit(n) /\ Schedule(NoteOffEvent(n, 0))
      BY <1>9 DEF FlushNote
    <2>2. SchedTypeOK'
      BY <2>1, EventConstructors, ScheduleTyped DEF TypeOK
    <2>3. QED
      BY <1>9, <2>1, <2>2 DEF FlushNote, TakeBit, TypeOK, SeqTypeOK, BalanceTypeOK
  <1>10. CASE SilenceChannel
    <2>1. index \div 2 \in Channels
      BY <1>10, NotesAssumption, SMT DEF SilenceChannel, TypeOK, Channels
    <2>2. SchedTypeOK'
      BY <1>10, <2>1, EventConstructors, ScheduleTyped DEF SilenceChannel, TypeOK
    <2>3. QED
      BY <1>10, <2>2, NotesAssumption
      DEF SilenceChannel, TypeOK, SeqTypeOK, BalanceTypeOK
  <1>11. CASE AfterPanic
    <2>1. SeqTypeOK'
      BY <1>11, SequencerPanicTyped DEF AfterPanic, Stopped, TypeOK
    <2>2. running' \in BOOLEAN
      BY <1>11, Zenon DEF AfterPanic, Stopped
    <2>3. QED
      BY <1>11, <2>1, <2>2 DEF AfterPanic, ClearBits, TypeOK, SchedTypeOK, BalanceTypeOK
  <1>12. CASE AfterFlushStop
    <2>1. SeqTypeOK'
      BY <1>12, SequencerPanicTyped DEF AfterFlushStop, Stopped, TypeOK
    <2>2. running' \in BOOLEAN
      BY <1>12, Zenon DEF AfterFlushStop, Stopped
    <2>3. QED
      BY <1>12, <2>1, <2>2 DEF AfterFlushStop, FlushEnd, ResetCount, TypeOK, SchedTypeOK,
                               BalanceTypeOK
  <1>13. CASE AfterFlushShutdown
    <2>1. SeqTypeOK'
      BY <1>13, SequencerPanicTyped DEF AfterFlushShutdown, Stopped, TypeOK
    <2>2. running' \in BOOLEAN
      BY <1>13, Zenon DEF AfterFlushShutdown, Stopped
    <2>3. QED
      BY <1>13, <2>1, <2>2, NotesAssumption
      DEF AfterFlushShutdown, FlushEnd, ResetCount, EnterPanic, ClearQueue,
          TypeOK, SchedTypeOK, BalanceTypeOK
  <1>14. CASE AfterFlushChord
    BY <1>14, ChordsAssumption
    DEF AfterFlushChord, FlushEnd, ResetCount, TypeOK, SeqTypeOK, SchedTypeOK, BalanceTypeOK
  <1>15. CASE AfterFlushSwitch
    <2>1. (origin \in Nat)'
      BY <1>15, PositionIsNat DEF AfterFlushSwitch
    <2>2. QED
      BY <1>15, <2>1 DEF AfterFlushSwitch, FlushEnd, ResetCount, EnterDispatch, TypeOK,
                         SeqTypeOK, SchedTypeOK, BalanceTypeOK
  <1>16. CASE TickStopped
    BY <1>16 DEF TickStopped, TypeOK, SeqTypeOK, SchedTypeOK, BalanceTypeOK
  <1>17. CASE TickRunning
    <2>1. SeqTypeOK'
      BY <1>17, AdvanceTyped DEF TickRunning
    <2>2. (lastTickBar \in Nat)'
      <3>1. TicksPerBeat * BeatsPerBar \in Nat \ {0}
        BY ClockAssumption, SMT
      <3>2. BarOf(Position) \in Nat
        BY <3>1, PositionIsNat, SMT DEF BarOf
      <3>3. QED
        BY <1>17, <3>2 DEF TickRunning
    <2>3. CASE Switches(Position, BarSize)
      BY <1>17, <2>1, <2>2, <2>3
      DEF TickRunning, EnterFlush, TypeOK, SchedTypeOK, BalanceTypeOK
    <2>4. CASE ~Switches(Position, BarSize)
      <3>1. current' = current /\ sections' = sections
        BY <1>17, <2>4 DEF TickRunning, Advance
      <3>2. QED
        BY <1>17, <2>1, <2>2, <2>4, <3>1
        DEF TickRunning, EnterDispatch, TypeOK, SchedTypeOK, BalanceTypeOK
    <2>5. QED
      BY <2>3, <2>4
  <1>18. CASE DispatchEvent
    <2>1. UNCHANGED <<panicVars, schedVars>> =>
             SchedTypeOK' /\ (active \subseteq Notes)' /\ (noteCount \in Int)'
      BY DEF TypeOK, SchedTypeOK
    <2>2. ASSUME Dispatched(Events[index])
          PROVE  SchedTypeOK' /\ (active \subseteq Notes)' /\ (noteCount \in Int)'
      <3> DEFINE e == Events[index]
                 n == Voice[chord][e.src]
                 at == Swung(origin + e.tick)
      <3>1. e \in SectionEvent
        BY <1>18, EventsTyped, SMT DEF DispatchEvent, TypeOK
      <3>2. n \in Notes
        BY <3>1, VoiceTyped DEF SectionEvent
      <3>3. at \in Nat
        <4>1. origin + e.tick \in Nat
          BY <3>1 DEF SectionEvent, TypeOK
        <4>2. QED
          BY <4>1, SwungIsNat
      <3>4. NoteOnEvent(n, at) \in Event /\ NoteOffEvent(n, at) \in Event
        BY <3>2, <3>3, EventConstructors
      <3>5. \/ MarkOn(n) /\ Schedule(NoteOnEvent(n, at))
            \/ MarkOff(n) /\ Schedule(NoteOffEvent(n, at))
        BY <2>2 DEF Dispatched
      <3> HIDE DEF e, n, at
      <3>6. SchedTypeOK'
        BY <3>4, <3>5, ScheduleTyped DEF TypeOK
      <3>7. QED
        BY <3>2, <3>5, <3>6 DEF MarkOn, MarkOff, TypeOK
    <2>3. SchedTypeOK' /\ (active \subseteq Notes)' /\ (noteCount \in Int)'
      BY <1>18, <2>1, <2>2 DEF DispatchEvent
    <2>4. QED
      BY <1>18, <2>3 DEF DispatchEvent, TypeOK, SeqTypeOK, BalanceTypeOK
  <1>19. CASE DispatchEnd
    <2>1. Rel \in Int
      BY PositionIsNat DEF Rel, TypeOK
    <2>2. QED
      BY <1>19, <2>1 DEF DispatchEnd, TypeOK, SeqTypeOK, SchedTypeOK, BalanceTypeOK
  <1>20. CASE Deliver
    <2>1. Head(queue) \in Event /\ SchedTypeOK'
      BY <1>20 DEF Deliver, FrontIsDue, PopFront, TypeOK, SchedTypeOK
    <2>2. BalanceTypeOK'
      BY <1>20, <2>1, ObserveTyped DEF Deliver, TypeOK
    <2>3. QED
      BY <1>20, <2>1, <2>2 DEF Deliver, TypeOK, SeqTypeOK
  <1>21. CASE DrainEnd
    <2>1. SchedTypeOK'
      BY <1>21 DEF DrainEnd, PushBackFront, TypeOK, SchedTypeOK
    <2>2. QED
      BY <1>21, <2>1 DEF DrainEnd, TypeOK, SeqTypeOK, BalanceTypeOK
  <1>22. CASE UNCHANGED vars
    BY <1>22 DEF TypeOK, SeqTypeOK, SchedTypeOK, BalanceTypeOK
  <1>23. QED
    BY <1>1, <1>2, <1>3, <1>4, <1>5, <1>6, <1>7, <1>8, <1>9, <1>10, <1>11, <1>12,
       <1>13, <1>14, <1>15, <1>16, <1>17, <1>18, <1>19, <1>20, <1>21, <1>22 DEF Next

(***************************************************************************)
(* Type correctness of the player: every variable keeps the values TypeOK  *)
(* allows, for every style and every sequence of commands.                 *)
(***************************************************************************)
THEOREM TypeCorrect == Spec => []TypeOK
  BY InitTyped, StepTyped, PTL DEF Spec
-----------------------------------------------------------------------------
(***************************************************************************)
(* Part 2: what is delivered.  Without swing no event is scheduled later   *)
(* than the tick of its own round, so every round ends with an empty       *)
(* queue.  The inductive invariant says, besides that, that the queued     *)
(* events alternate, and where the bits stand in each phase.               *)
(***************************************************************************)

Horizon == IF phase \in {"dispatch", "drain"} THEN Position ELSE 0

QueueIsDue == \A i \in 1 .. Len(queue) : queue[i].tick <= Horizon

\* The queued note-ons and note-offs of a note come in turn.
InTurn(n) ==
  \A i \in 1 .. Len(queue) :
    /\ queue[i].kind = "on" /\ queue[i].key = n => ~SoundsBefore(i, queue, balance, n)
    /\ queue[i].kind = "off" /\ queue[i].key = n => SoundsBefore(i, queue, balance, n)

\* The bits stand for what will sound; the panic loop has silenced the
\* channels it has passed.
BitsMatch(n) ==
  /\ phase # "panic" => (WillSound(n) <=> n \in active)
  /\ phase = "panic" /\ 2 * ChannelOf(n) < index => ~WillSound(n)

Faithful ==
  /\ ~orphaned
  /\ \A n \in Notes : balance[n] <= 1 /\ InTurn(n) /\ BitsMatch(n)

RunningInvariant ==
  /\ ~running => active = {}
  /\ phase = "dispatch" \/ then = "switch" => running

OutputInvariant ==
  /\ swing <= StraightSwing
  /\ QueueIsDue
  /\ RunningInvariant
  /\ ~lost => Faithful

(***************************************************************************)
(* SoundsBefore, one event further: the last event to address n decides.   *)
(***************************************************************************)
LEMMA SoundsAtStart ==
  ASSUME NEW q, NEW b, NEW n
  PROVE  SoundsBefore(1, q, b, n) <=> b[n] > 0
  BY SMT DEF SoundsBefore

LEMMA SoundsAfterNext ==
  ASSUME NEW q, NEW b, NEW n, NEW i \in Nat \ {0}
  PROVE  SoundsBefore(i + 1, q, b, n)
           <=> IF Addresses(q[i], n) THEN q[i].kind = "on" ELSE SoundsBefore(i, q, b, n)
  <1> DEFINE A(j) == Addresses(q[j], n)
             On(j) == q[j].kind = "on"
  <1>1. 1 .. (i + 1) - 1 = 1 .. (i - 1) \cup {i} /\ i \notin 1 .. i - 1
    BY SMT
  <1>2. \A j \in 1 .. i - 1 : j + 1 .. (i + 1) - 1 = (j + 1 .. i - 1) \cup {i}
    BY SMT
  <1>3. i + 1 .. (i + 1) - 1 = {}
    BY SMT
  <1>4. SoundsBefore(i + 1, q, b, n) <=>
          IF \A j \in 1 .. (i + 1) - 1 : ~A(j) THEN b[n] > 0
          ELSE \E j \in 1 .. (i + 1) - 1 :
                 A(j) /\ On(j) /\ \A k \in j + 1 .. (i + 1) - 1 : ~A(k)
    BY Zenon DEF SoundsBefore
  <1>5. SoundsBefore(i, q, b, n) <=>
          IF \A j \in 1 .. i - 1 : ~A(j) THEN b[n] > 0
          ELSE \E j \in 1 .. i - 1 : A(j) /\ On(j) /\ \A k \in j + 1 .. i - 1 : ~A(k)
    BY Zenon DEF SoundsBefore
  <1> HIDE DEF A, On
  <1>6. CASE A(i)
    <2>1. ~ \A j \in 1 .. (i + 1) - 1 : ~A(j)
      BY <1>1, <1>6
    <2>2. \A j \in 1 .. i - 1 : ~ \A k \in j + 1 .. (i + 1) - 1 : ~A(k)
      BY <1>2, <1>6
    <2>3. SoundsBefore(i + 1, q, b, n) <=> On(i)
      BY <1>1, <1>3, <1>4, <1>6, <2>1, <2>2
    <2>4. QED
      BY <1>6, <2>3 DEF A, On
  <1>7. CASE ~A(i)
    <2>1. (\A j \in 1 .. (i + 1) - 1 : ~A(j)) <=> \A j \in 1 .. i - 1 : ~A(j)
      BY <1>1, <1>7
    <2>2. \A j \in 1 .. i - 1 : (\A k \in j + 1 .. (i + 1) - 1 : ~A(k))
                                <=> \A k \in j + 1 .. i - 1 : ~A(k)
      BY <1>2, <1>7
    <2>3. SoundsBefore(i + 1, q, b, n) <=> SoundsBefore(i, q, b, n)
      BY <1>1, <1>4, <1>5, <1>7, <2>1, <2>2
    <2>4. QED
      BY <1>7, <2>3 DEF A
  <1>8. QED
    BY <1>6, <1>7

(***************************************************************************)
(* What appending an event to the queue does to SoundsBefore.              *)
(***************************************************************************)
LEMMA SoundsBeforeAppend ==
  ASSUME NEW q \in Seq(Event), NEW ev \in Event, NEW b, NEW n,
         NEW i \in 1 .. Len(q) + 1
  PROVE  SoundsBefore(i, Append(q, ev), b, n) <=> SoundsBefore(i, q, b, n)
  <1> DEFINE r == Append(q, ev)
  <1>1. \A j \in 1 .. i - 1 : r[j] = q[j]
    OBVIOUS
  <1> HIDE DEF r
  <1>2. \A j \in 1 .. i - 1 : j + 1 .. i - 1 \subseteq 1 .. i - 1
    BY SMT
  <1>3. SoundsBefore(i, r, b, n) <=> SoundsBefore(i, q, b, n)
    BY <1>1, <1>2, Zenon DEF SoundsBefore
  <1>4. QED
    BY <1>3 DEF r

LEMMA SoundsAfterAppend ==
  ASSUME NEW q \in Seq(Event), NEW ev \in Event, NEW b, NEW n
  PROVE  SoundsBefore(Len(Append(q, ev)) + 1, Append(q, ev), b, n)
           <=> IF Addresses(ev, n) THEN ev.kind = "on"
                                   ELSE SoundsBefore(Len(q) + 1, q, b, n)
  <1> DEFINE r == Append(q, ev)
             m == Len(q) + 1
  <1>1. m \in Nat \ {0} /\ m \in 1 .. Len(q) + 1 /\ Len(r) = m /\ r[m] = ev
    OBVIOUS
  <1>2. SoundsBefore(m, r, b, n) <=> SoundsBefore(m, q, b, n)
    BY <1>1, SoundsBeforeAppend
  <1> HIDE DEF r, m
  <1>3. SoundsBefore(m + 1, r, b, n)
          <=> IF Addresses(r[m], n) THEN r[m].kind = "on" ELSE SoundsBefore(m, r, b, n)
    BY <1>1, SoundsAfterNext
  <1>4. QED
    BY <1>1, <1>2, <1>3 DEF r, m

(***************************************************************************)
(* Delivering the first event turns what sounds before event i + 1 into    *)
(* what sounds before event i.                                             *)
(***************************************************************************)
LEMMA SoundsBeforeTail ==
  ASSUME NEW q \in Seq(Event), q # <<>>, NEW b, NEW c, NEW n,
         c[n] > 0 <=> SoundsBefore(2, q, b, n),
         NEW i \in 1 .. Len(q)
  PROVE  SoundsBefore(i, Tail(q), c, n) <=> SoundsBefore(i + 1, q, b, n)
  <1> DEFINE t == Tail(q)
             A(j) == Addresses(q[j], n)
             On(j) == q[j].kind = "on"
  <1>1. \A j \in 1 .. i - 1 : t[j] = q[j + 1]
    OBVIOUS
  <1>2. \A j \in 1 .. i - 1 : j + 1 .. i - 1 \subseteq 1 .. i - 1
    BY SMT
  <1>3. SoundsBefore(i, t, c, n) <=>
          IF \A j \in 1 .. i - 1 : ~A(j + 1) THEN c[n] > 0
          ELSE \E j \in 1 .. i - 1 :
                 A(j + 1) /\ On(j + 1) /\ \A k \in j + 1 .. i - 1 : ~A(k + 1)
    <2> HIDE DEF t
    <2>1. QED
      BY <1>1, <1>2, Zenon DEF SoundsBefore
  <1>4. SoundsBefore(i + 1, q, b, n) <=>
          IF \A j \in 1 .. (i + 1) - 1 : ~A(j) THEN b[n] > 0
          ELSE \E j \in 1 .. (i + 1) - 1 :
                 A(j) /\ On(j) /\ \A k \in j + 1 .. (i + 1) - 1 : ~A(k)
    BY Zenon DEF SoundsBefore
  <1>5. c[n] > 0 <=> IF A(1) THEN On(1) ELSE b[n] > 0
    <2>1. SoundsBefore(1 + 1, q, b, n)
           <=> IF Addresses(q[1], n) THEN q[1].kind = "on" ELSE SoundsBefore(1, q, b, n)
      BY SoundsAfterNext
    <2>2. QED
      BY <2>1, SoundsAtStart
  <1> HIDE DEF A, On, t
  <1>6. \A j \in 1 .. (i + 1) - 1 : j = 1 \/ (j - 1 \in 1 .. i - 1 /\ j = (j - 1) + 1)
    BY SMT
  <1>7. 1 \in 1 .. (i + 1) - 1 /\ \A j \in 1 .. i - 1 : j + 1 \in 1 .. (i + 1) - 1
    BY SMT
  <1>8. (\A j \in 1 .. (i + 1) - 1 : ~A(j)) <=> ~A(1) /\ \A j \in 1 .. i - 1 : ~A(j + 1)
    BY <1>6, <1>7, Zenon
  <1>9. \A j \in 1 .. i - 1 : (\A k \in j + 1 .. i - 1 : ~A(k + 1))
                             <=> \A k \in (j + 1) + 1 .. (i + 1) - 1 : ~A(k)
    <2>1. \A j \in 1 .. i - 1 : \A k \in j + 1 .. i - 1 :
             k + 1 \in (j + 1) + 1 .. (i + 1) - 1
      BY SMT
    <2>2. \A j \in 1 .. i - 1 : \A k \in (j + 1) + 1 .. (i + 1) - 1 :
             k - 1 \in j + 1 .. i - 1 /\ k = (k - 1) + 1
      BY SMT
    <2>3. QED
      BY <2>1, <2>2, Zenon
  <1>10. (\A k \in 1 + 1 .. (i + 1) - 1 : ~A(k)) <=> \A j \in 1 .. i - 1 : ~A(j + 1)
    <2>1. \A k \in 1 + 1 .. (i + 1) - 1 : k - 1 \in 1 .. i - 1 /\ k = (k - 1) + 1
      BY SMT
    <2>2. \A j \in 1 .. i - 1 : j + 1 \in 1 + 1 .. (i + 1) - 1
      BY SMT
    <2>3. QED
      BY <2>1, <2>2, Zenon
  <1>11. CASE \A j \in 1 .. i - 1 : ~A(j + 1)
    <2>1. (\E j \in 1 .. (i + 1) - 1 :
             A(j) /\ On(j) /\ \A k \in j + 1 .. (i + 1) - 1 : ~A(k)) <=> A(1) /\ On(1)
      BY <1>6, <1>7, <1>10, <1>11, Zenon
    <2>2. QED
      BY <1>3, <1>4, <1>5, <1>8, <1>11, <2>1, Zenon DEF t
  <1>12. CASE ~ \A j \in 1 .. i - 1 : ~A(j + 1)
    <2>1. (\E j \in 1 .. (i + 1) - 1 :
             A(j) /\ On(j) /\ \A k \in j + 1 .. (i + 1) - 1 : ~A(k))
          <=> \E j \in 1 .. i - 1 :
                A(j + 1) /\ On(j + 1) /\ \A k \in j + 1 .. i - 1 : ~A(k + 1)
      <3>1. ~ \A k \in 1 + 1 .. (i + 1) - 1 : ~A(k)
        BY <1>10, <1>12, Zenon
      <3>2. ASSUME NEW j \in 1 .. (i + 1) - 1, A(j), On(j),
                   \A k \in j + 1 .. (i + 1) - 1 : ~A(k)
            PROVE  \E l \in 1 .. i - 1 :
                     A(l + 1) /\ On(l + 1) /\ \A k \in l + 1 .. i - 1 : ~A(k + 1)
        <4>1. PICK l \in 1 .. i - 1 : j = l + 1
          BY <1>6, <3>1, <3>2, Zenon
        <4>2. A(l + 1) /\ On(l + 1) /\ \A k \in (l + 1) + 1 .. (i + 1) - 1 : ~A(k)
          BY <3>2, <4>1, Zenon
        <4>3. \A k \in l + 1 .. i - 1 : ~A(k + 1)
          BY <1>9, <4>2, Zenon
        <4>4. QED
          BY <4>2, <4>3, Zenon
      <3>3. ASSUME NEW l \in 1 .. i - 1, A(l + 1), On(l + 1),
                   \A k \in l + 1 .. i - 1 : ~A(k + 1)
            PROVE  \E j \in 1 .. (i + 1) - 1 :
                     A(j) /\ On(j) /\ \A k \in j + 1 .. (i + 1) - 1 : ~A(k)
        BY <1>7, <1>9, <3>3, Zenon
      <3>4. QED
        BY <3>2, <3>3, Zenon
    <2>2. QED
      BY <1>3, <1>4, <1>8, <1>12, <2>1, Zenon DEF t
  <1>13. QED
    BY <1>11, <1>12

(***************************************************************************)
(* The four ways in which a step changes the queue and the balance: not at *)
(* all, by clearing the queue, by appending an event that comes in turn,   *)
(* by delivering the first event.                                          *)
(***************************************************************************)
LEMMA SameOutput ==
  ASSUME UNCHANGED <<queue, balance>>, NEW n \in Notes
  PROVE  (InTurn(n)' <=> InTurn(n)) /\ (WillSound(n)' <=> WillSound(n))
  BY Zenon DEF InTurn, WillSound

LEMMA ClearedOutput ==
  ASSUME ClearQueue, NEW n \in Notes
  PROVE  InTurn(n)'
  BY DEF ClearQueue, InTurn

LEMMA AppendedOutput ==
  ASSUME TypeOK, NEW ev \in Event, queue' = Append(queue, ev), balance' = balance,
         NEW n \in Notes, InTurn(n),
         ev.kind = "on" /\ ev.key = n => ~WillSound(n),
         ev.kind = "off" /\ ev.key = n => WillSound(n)
  PROVE  /\ InTurn(n)'
         /\ WillSound(n)' <=> IF Addresses(ev, n) THEN ev.kind = "on" ELSE WillSound(n)
  <1> DEFINE m == Len(queue) + 1
             r == Append(queue, ev)
  <1>1. queue \in Seq(Event)
    BY DEF TypeOK, SchedTypeOK
  <1>2. /\ Len(r) = m /\ r[m] = ev
        /\ \A i \in 1 .. Len(queue) : r[i] = queue[i] /\ i \in 1 .. Len(queue) + 1
        /\ \A i \in 1 .. m : i = m \/ i \in 1 .. Len(queue)
        /\ m \in 1 .. Len(queue) + 1
    BY <1>1
  <1>3. \A i \in 1 .. Len(queue) + 1 :
          SoundsBefore(i, r, balance, n) <=> SoundsBefore(i, queue, balance, n)
    BY <1>1, SoundsBeforeAppend
  <1>4. SoundsBefore(m, queue, balance, n) <=> WillSound(n)
    BY DEF WillSound
  <1> HIDE DEF m, r
  <1>5. ASSUME NEW i \in 1 .. Len(r)
        PROVE  /\ r[i].kind = "on" /\ r[i].key = n => ~SoundsBefore(i, r, balance, n)
               /\ r[i].kind = "off" /\ r[i].key = n => SoundsBefore(i, r, balance, n)
    <2>1. CASE i = m
      BY <1>2, <1>3, <1>4, <2>1
    <2>2. CASE i \in 1 .. Len(queue)
      BY <1>2, <1>3, <2>2, Zenon DEF InTurn
    <2>3. QED
      BY <1>2, <2>1, <2>2
  <1>6. InTurn(n)'
    BY <1>5, Zenon DEF InTurn, r
  <1>7. QED
    BY <1>1, <1>6, SoundsAfterAppend DEF WillSound

LEMMA DeliveredOutput ==
  ASSUME TypeOK, queue # <<>>, Observe(Head(queue)), queue' = Tail(queue),
         \A n \in Notes : balance[n] <= 1 /\ InTurn(n),
         ~orphaned
  PROVE  /\ ~orphaned'
         /\ \A n \in Notes : /\ balance'[n] <= 1
                             /\ InTurn(n)'
                             /\ WillSound(n)' <=> WillSound(n)
  <1> DEFINE ev == Head(queue)
             t == Tail(queue)
  <1>1. /\ queue \in Seq(Event) /\ ev = queue[1] /\ 1 \in 1 .. Len(queue) /\ ev \in Event
        /\ Len(t) + 1 = Len(queue) /\ Len(queue) \in 1 .. Len(queue)
        /\ \A i \in 1 .. Len(t) : t[i] = queue[i + 1] /\ i + 1 \in 1 .. Len(queue)
                                 /\ i \in 1 .. Len(queue)
    BY DEF TypeOK, SchedTypeOK
  <1>2. \A n \in Notes : balance[n] \in 0 .. 1
    BY SMT DEF TypeOK, BalanceTypeOK
  <1>3. ev.kind \in {"on", "off", "cc"} /\ (ev.kind # "cc" => ev.key \in Notes)
    BY <1>1 DEF Event
  <1>4. \A n \in Notes : /\ ev.kind = "on" /\ ev.key = n => balance[n] = 0
                         /\ ev.kind = "off" /\ ev.key = n => balance[n] = 1
    <2> SUFFICES ASSUME NEW n \in Notes
                 PROVE  /\ ev.kind = "on" /\ ev.key = n => balance[n] = 0
                        /\ ev.kind = "off" /\ ev.key = n => balance[n] = 1
      OBVIOUS
    <2>1. /\ ev.kind = "on" /\ ev.key = n => ~SoundsBefore(1, queue, balance, n)
          /\ ev.kind = "off" /\ ev.key = n => SoundsBefore(1, queue, balance, n)
      BY <1>1, Zenon DEF InTurn
    <2>2. QED
      BY <1>2, <2>1, SoundsAtStart
  <1>5. ~orphaned'
    <2>1. ~ (ev.kind = "off" /\ balance[ev.key] = 0)
      BY <1>3, <1>4
    <2>2. QED
      BY <2>1, Zenon DEF Observe
  <1>6. ASSUME NEW n \in Notes
        PROVE  /\ balance'[n] <= 1
               /\ balance'[n] > 0 <=> SoundsBefore(2, queue, balance, n)
    <2>1. balance'[n] = CountAfter(ev, n)
      BY DEF Observe
    <2>2. SoundsBefore(1 + 1, queue, balance, n)
            <=> IF Addresses(queue[1], n) THEN queue[1].kind = "on"
                                          ELSE SoundsBefore(1, queue, balance, n)
      BY SoundsAfterNext
    <2>3. SoundsBefore(2, queue, balance, n)
            <=> IF Addresses(ev, n) THEN ev.kind = "on" ELSE balance[n] > 0
      BY <1>1, <2>2, SoundsAtStart
    <2> HIDE DEF ev
    <2>4. Addresses(ev, n) => ev.kind = "cc" \/ (ev.kind \in {"on", "off"} /\ ev.key = n)
      BY DEF Addresses
    <2>5. QED
      BY <1>2, <1>3, <1>4, <2>1, <2>3, <2>4 DEF CountAfter
  <1>7. ASSUME NEW n \in Notes, NEW i \in 1 .. Len(queue)
        PROVE  SoundsBefore(i, t, balance', n) <=> SoundsBefore(i + 1, queue, balance, n)
    BY <1>1, <1>6, SoundsBeforeTail
  <1> HIDE DEF ev, t
  <1>8. ASSUME NEW n \in Notes
        PROVE  InTurn(n)'
    <2>1. ASSUME NEW i \in 1 .. Len(t)
          PROVE  /\ t[i].kind = "on" /\ t[i].key = n => ~SoundsBefore(i, t, balance', n)
                 /\ t[i].kind = "off" /\ t[i].key = n => SoundsBefore(i, t, balance', n)
      BY <1>1, <1>7, Zenon DEF InTurn
    <2>2. queue' = t
      BY DEF t
    <2>3. QED
      BY <2>1, <2>2, Zenon DEF InTurn
  <1>9. ASSUME NEW n \in Notes
        PROVE  WillSound(n)' <=> WillSound(n)
    <2>1. SoundsBefore(Len(queue), t, balance', n)
            <=> SoundsBefore(Len(queue) + 1, queue, balance, n)
      BY <1>1, <1>7, Zenon
    <2>2. queue' = t
      BY DEF t
    <2>3. QED
      BY <1>1, <2>1, <2>2, Zenon DEF WillSound
  <1>10. QED
    BY <1>5, <1>6, <1>8, <1>9, Zenon

(***************************************************************************)
(* The invariant, conjunct by conjunct.  The assumption is that setSwing   *)
(* is never called with more than 50 %: with more, two of the runs show    *)
(* the conclusions fail.                                                   *)
(***************************************************************************)
NoSwing == Swings \subseteq 0 .. StraightSwing

LEMMA InitOutput == Init => OutputInvariant
  <1> SUFFICES ASSUME Init
               PROVE  OutputInvariant
    OBVIOUS
  <1>1. queue = <<>> /\ balance = [n \in Notes |-> 0] /\ active = {}
        /\ phase = "idle" /\ then = "none" /\ swing = StraightSwing
    BY Zenon DEF Init, SchedInit, BalanceInit, HandlerInit
  <1>2. ~orphaned
    BY Zenon DEF Init, BalanceInit
  <1>3. swing <= StraightSwing /\ QueueIsDue
    BY <1>1 DEF QueueIsDue, StraightSwing
  <1>4. RunningInvariant
    BY <1>1 DEF RunningInvariant
  <1>5. ASSUME NEW n \in Notes
        PROVE  balance[n] <= 1 /\ InTurn(n) /\ BitsMatch(n)
    BY <1>1, SoundsAtStart DEF InTurn, BitsMatch, WillSound
  <1>6. QED
    BY <1>2, <1>3, <1>4, <1>5 DEF OutputInvariant, Faithful

LEMMA StepSwing ==
  ASSUME TypeOK, NoSwing, swing <= StraightSwing, [Next]_vars
  PROVE  swing' <= StraightSwing
  <1>1. CASE SetSwing
    <2>1. PICK pct \in Swings : swing' = IF pct > MaxSwing THEN MaxSwing ELSE pct
      BY <1>1 DEF SetSwing
    <2>2. QED
      BY <2>1 DEF NoSwing, StraightSwing, MaxSwing
  <1>2. CASE ~SetSwing
    <2>1. swing' = swing
      BY <1>2, Zenon
      DEF Next, vars, playVars, LoadStyle, BeginRound, Start, Queue, SetChordStopped,
          SetChordRunning, Stop, Panic, FlushNote, SilenceChannel, AfterPanic,
          AfterFlushStop, AfterFlushShutdown, AfterFlushChord, AfterFlushSwitch, FlushEnd,
          TickStopped, TickRunning, DispatchEvent, DispatchEnd, Deliver, DrainEnd
    <2>2. QED
      BY <2>1
  <1>3. QED
    BY <1>1, <1>2

LEMMA StepRunning ==
  ASSUME TypeOK, RunningInvariant, [Next]_vars
  PROVE  RunningInvariant'
  <1> USE DEF RunningInvariant, vars, seqVars, panicVars, playVars, clockVars, loopVars
  <1>1. CASE LoadStyle
    BY <1>1, Zenon DEF LoadStyle
  <1>2. CASE SetSwing
    BY <1>2, Zenon DEF SetSwing
  <1>3. CASE BeginRound
    BY <1>3 DEF BeginRound
  <1>4. ASSUME NEW i \in QueueArgs, Start(i)
        PROVE  RunningInvariant'
    BY <1>4 DEF Start
  <1>5. CASE Queue
    BY <1>5, Zenon DEF Queue
  <1>6. ASSUME NEW c \in Chords, SetChordStopped(c) \/ SetChordRunning(c)
        PROVE  RunningInvariant'
    BY <1>6 DEF SetChordStopped, SetChordRunning, EnterFlush
  <1>7. CASE Stop
    BY <1>7 DEF Stop, EnterFlush
  <1>8. CASE Panic
    BY <1>8 DEF Panic, EnterPanic
  <1>9. CASE FlushNote
    BY <1>9 DEF FlushNote, TakeBit
  <1>10. CASE SilenceChannel
    BY <1>10, Zenon DEF SilenceChannel
  <1>11. CASE AfterPanic
    BY <1>11 DEF AfterPanic, ClearBits
  <1>12. CASE AfterFlushStop
    BY <1>12 DEF AfterFlushStop, FlushEnd, ResetCount
  <1>13. CASE AfterFlushShutdown
    BY <1>13 DEF AfterFlushShutdown, FlushEnd, ResetCount, EnterPanic
  <1>14. CASE AfterFlushChord
    BY <1>14 DEF AfterFlushChord, FlushEnd, ResetCount
  <1>15. CASE AfterFlushSwitch
    BY <1>15 DEF AfterFlushSwitch, FlushEnd, ResetCount
  <1>16. CASE TickStopped
    BY <1>16 DEF TickStopped
  <1>17. CASE TickRunning
    BY <1>17 DEF TickRunning
  <1>18. CASE DispatchEvent
    <2>1. running
      BY <1>18 DEF DispatchEvent
    <2>2. running' = running
      BY <1>18, Zenon DEF DispatchEvent
    <2>3. QED
      BY <2>1, <2>2
  <1>19. CASE DispatchEnd
    BY <1>19 DEF DispatchEnd
  <1>20. CASE Deliver
    BY <1>20, Zenon DEF Deliver
  <1>21. CASE DrainEnd
    BY <1>21 DEF DrainEnd
  <1>22. CASE UNCHANGED vars
    BY <1>22, Zenon
  <1>23. QED
    BY <1>1, <1>2, <1>3, <1>4, <1>5, <1>6, <1>7, <1>8, <1>9, <1>10, <1>11, <1>12,
       <1>13, <1>14, <1>15, <1>16, <1>17, <1>18, <1>19, <1>20, <1>21, <1>22 DEF Next

(***************************************************************************)
(* No queued event is due later than the round it was queued in.           *)
(***************************************************************************)
LEMMA ScheduledDue ==
  ASSUME TypeOK, NEW h \in Nat, NEW ev \in Event, ev.tick <= h, Schedule(ev),
         \A i \in 1 .. Len(queue) : queue[i].tick <= h
  PROVE  \A i \in 1 .. Len(queue') : queue'[i].tick <= h
  BY DEF TypeOK, SchedTypeOK, Schedule

LEMMA ScheduledAtZero ==
  ASSUME TypeOK, NEW ev \in Event, ev.tick = 0, Schedule(ev),
         \A i \in 1 .. Len(queue) : queue[i].tick <= 0
  PROVE  \A i \in 1 .. Len(queue') : queue'[i].tick <= 0
  <1>1. 0 \in Nat /\ ev.tick <= 0
    OBVIOUS
  <1>2. QED
    BY <1>1, ScheduledDue

LEMMA StraightEventIsDue ==
  ASSUME TypeOK, swing <= StraightSwing, phase = "dispatch", index <= Len(Events),
         InWindow(Events[index])
  PROVE  Swung(origin + Events[index].tick) <= Position
  <1>1. Events[index] \in SectionEvent
    BY EventsTyped, SMT DEF TypeOK
  <1>2. Events[index].tick <= Rel
    BY Zenon DEF InWindow
  <1>3. origin + Events[index].tick <= Position
    BY <1>1, <1>2, PositionIsNat DEF Rel, TypeOK, SectionEvent
  <1>4. QED
    BY <1>3 DEF Swung

LEMMA StepQueueIsDue ==
  ASSUME TypeOK, swing <= StraightSwing, QueueIsDue, [Next]_vars
  PROVE  QueueIsDue'
  <1> USE DEF QueueIsDue, Horizon, Position, vars, schedVars, clockVars, loopVars
  <1>a. \A i \in 1 .. Len(queue) : queue[i].tick \in Nat
    BY DEF TypeOK, SchedTypeOK, Event
  <1>b. Position \in Nat
    BY PositionIsNat
  <1>1. CASE LoadStyle
    BY <1>1, Zenon DEF LoadStyle
  <1>2. CASE SetSwing
    BY <1>2, Zenon DEF SetSwing
  <1>3. CASE BeginRound
    BY <1>3 DEF BeginRound
  <1>4. ASSUME NEW i \in QueueArgs, Start(i)
        PROVE  QueueIsDue'
    BY <1>4 DEF Start
  <1>5. CASE Queue
    BY <1>5, Zenon DEF Queue
  <1>6. ASSUME NEW c \in Chords, SetChordStopped(c) \/ SetChordRunning(c)
        PROVE  QueueIsDue'
    BY <1>6 DEF SetChordStopped, SetChordRunning, EnterFlush
  <1>7. CASE Stop
    BY <1>7 DEF Stop, EnterFlush
  <1>8. CASE Panic
    BY <1>8 DEF Panic, EnterPanic, ClearQueue
  <1>9. CASE FlushNote
    <2>1. PICK n \in active : Schedule(NoteOffEvent(n, 0))
      BY <1>9 DEF FlushNote
    <2>2. NoteOffEvent(n, 0) \in Event /\ NoteOffEvent(n, 0).tick = 0
      BY <2>1, EventConstructors DEF NoteOffEvent, TypeOK
    <2>3. \A i \in 1 .. Len(queue) : queue[i].tick <= 0
      BY <1>9 DEF FlushNote
    <2>4. \A i \in 1 .. Len(queue') : queue'[i].tick <= 0
      BY <2>1, <2>2, <2>3, ScheduledAtZero, Zenon
    <2>5. QED
      BY <1>9, <2>4 DEF FlushNote
  <1>10. CASE SilenceChannel
    <2> DEFINE ev == SilenceEvent(index \div 2)
    <2>1. index \div 2 \in Channels
      BY <1>10, NotesAssumption, SMT DEF SilenceChannel, TypeOK, Channels
    <2>2. ev \in Event /\ ev.tick = 0
      BY <2>1, EventConstructors DEF SilenceEvent
    <2>3. Schedule(ev) /\ \A i \in 1 .. Len(queue) : queue[i].tick <= 0
      BY <1>10 DEF SilenceChannel
    <2> HIDE DEF ev
    <2>4. \A i \in 1 .. Len(queue') : queue'[i].tick <= 0
      BY <2>2, <2>3, ScheduledAtZero, Zenon
    <2>5. QED
      BY <1>10, <2>4 DEF SilenceChannel
  <1>11. CASE AfterPanic
    BY <1>11 DEF AfterPanic
  <1>12. CASE AfterFlushStop
    BY <1>12 DEF AfterFlushStop, FlushEnd
  <1>13. CASE AfterFlushShutdown
    BY <1>13 DEF AfterFlushShutdown, EnterPanic, ClearQueue
  <1>14. CASE AfterFlushChord
    BY <1>14 DEF AfterFlushChord, FlushEnd
  <1>15. CASE AfterFlushSwitch
    <2>1. UNCHANGED <<queue, samples, tempo>>
      BY <1>15 DEF AfterFlushSwitch, FlushEnd
    <2>2. \A i \in 1 .. Len(queue) : queue[i].tick <= Position
      BY <1>15, <1>a, <1>b DEF AfterFlushSwitch, FlushEnd
    <2>3. Horizon' = Position
      BY <1>15, <2>1 DEF AfterFlushSwitch, EnterDispatch
    <2>4. QED
      BY <2>1, <2>2, <2>3
  <1>16. CASE TickStopped
    BY <1>16, <1>a, <1>b DEF TickStopped
  <1>17. CASE TickRunning
    <2>1. UNCHANGED <<queue, samples, tempo>>
      BY <1>17 DEF TickRunning
    <2>2. phase' = "flush" \/ Horizon' = Position
      BY <1>17, <2>1 DEF TickRunning, EnterFlush, EnterDispatch
    <2>3. \A i \in 1 .. Len(queue) : queue[i].tick <= 0 /\ queue[i].tick <= Position
      BY <1>17, <1>a, <1>b DEF TickRunning
    <2>4. QED
      BY <2>1, <2>2, <2>3
  <1>18. CASE DispatchEvent
    <2>1. Position' = Position /\ Horizon' = Position /\ Horizon = Position
      BY <1>18 DEF DispatchEvent
    <2>2. CASE UNCHANGED schedVars
      BY <2>1, <2>2
    <2>3. CASE InWindow(Events[index]) /\ Dispatched(Events[index])
      <3> DEFINE e == Events[index]
                 n == Voice[chord][e.src]
                 at == Swung(origin + e.tick)
      <3>1. e \in SectionEvent
        BY <1>18, EventsTyped, SMT DEF DispatchEvent, TypeOK
      <3>2. n \in Notes
        BY <3>1, VoiceTyped DEF SectionEvent
      <3>3. at \in Nat /\ at <= Position
        <4>1. origin + e.tick \in Nat
          BY <3>1 DEF SectionEvent, TypeOK
        <4>2. QED
          BY <1>18, <2>3, <4>1, SwungIsNat, StraightEventIsDue DEF DispatchEvent
      <3>4. Schedule(NoteOnEvent(n, at)) \/ Schedule(NoteOffEvent(n, at))
        BY <2>3 DEF Dispatched
      <3> HIDE DEF e, n, at
      <3>5. PICK ev \in Event : Schedule(ev) /\ ev.tick = at
        BY <3>2, <3>3, <3>4, EventConstructors DEF NoteOnEvent, NoteOffEvent
      <3>6. QED
        BY <1>b, <2>1, <3>3, <3>5, ScheduledDue
    <2>4. QED
      BY <1>18, <2>2, <2>3 DEF DispatchEvent
  <1>19. CASE DispatchEnd
    BY <1>19 DEF DispatchEnd
  <1>20. CASE Deliver
    <2>1. Horizon' = Horizon /\ queue # <<>> /\ queue' = Tail(queue)
      BY <1>20 DEF Deliver, FrontIsDue, PopFront
    <2>2. \A i \in 1 .. Len(queue') : queue'[i] = queue[i + 1] /\ i + 1 \in 1 .. Len(queue)
      BY <2>1 DEF TypeOK, SchedTypeOK
    <2>3. QED
      BY <2>1, <2>2
  <1>21. CASE DrainEnd
    <2>1. queue = <<>>
      BY <1>21 DEF DrainEnd, FrontIsDue, TypeOK, SchedTypeOK
    <2>2. QED
      BY <1>21, <2>1 DEF DrainEnd
  <1>22. CASE UNCHANGED vars
    BY <1>22, Zenon
  <1>23. QED
    BY <1>1, <1>2, <1>3, <1>4, <1>5, <1>6, <1>7, <1>8, <1>9, <1>10, <1>11, <1>12,
       <1>13, <1>14, <1>15, <1>16, <1>17, <1>18, <1>19, <1>20, <1>21, <1>22 DEF Next

(***************************************************************************)
(* The bits and what the queue holds: steps that touch neither, and a step *)
(* that appends an event in turn.                                          *)
(***************************************************************************)
LEMMA QuietStep ==
  ASSUME Faithful, UNCHANGED <<queue, balance, orphaned, active>>,
         phase # "panic", phase' # "panic"
  PROVE  Faithful'
  <1>1. ASSUME NEW n \in Notes
        PROVE  balance'[n] <= 1 /\ InTurn(n)' /\ BitsMatch(n)'
    <2>1. InTurn(n)' /\ (WillSound(n)' <=> WillSound(n))
      BY SameOutput, Zenon DEF Faithful
    <2>2. BitsMatch(n)'
      BY <2>1, Zenon DEF Faithful, BitsMatch
    <2>3. balance'[n] <= 1
      BY DEF Faithful
    <2>4. QED
      BY <2>1, <2>2, <2>3, Zenon
  <1>2. QED
    BY <1>1, Zenon DEF Faithful

LEMMA PanicBegins ==
  ASSUME Faithful, ClearQueue, UNCHANGED <<balance, orphaned>>, phase' = "panic", index' = 0
  PROVE  Faithful'
  <1>1. ASSUME NEW n \in Notes
        PROVE  balance'[n] <= 1 /\ InTurn(n)' /\ BitsMatch(n)'
    <2>1. InTurn(n)'
      BY ClearedOutput
    <2>2. ~ (2 * ChannelOf(n) < index')
      BY NotesAssumption DEF Channels
    <2>3. BitsMatch(n)'
      BY <2>2, Zenon DEF BitsMatch
    <2>4. balance'[n] <= 1
      BY DEF Faithful
    <2>5. QED
      BY <2>1, <2>3, <2>4, Zenon
  <1>2. QED
    BY <1>1, Zenon DEF Faithful

LEMMA AppendStep ==
  ASSUME TypeOK, Faithful, NEW ev \in Event, queue' = Append(queue, ev),
         UNCHANGED <<balance, orphaned, phase>>,
         phase # "panic",
         \A n \in Notes : /\ ev.kind = "on" /\ ev.key = n => n \notin active
                          /\ ev.kind = "off" /\ ev.key = n => n \in active
                          /\ n \in active' <=> IF Addresses(ev, n) THEN ev.kind = "on"
                                                                   ELSE n \in active
  PROVE  Faithful'
  <1>1. ASSUME NEW n \in Notes
        PROVE  balance'[n] <= 1 /\ InTurn(n)' /\ BitsMatch(n)'
    <2>1. InTurn(n) /\ (WillSound(n) <=> n \in active)
      BY Zenon DEF Faithful, BitsMatch
    <2>2. /\ InTurn(n)'
          /\ WillSound(n)' <=> IF Addresses(ev, n) THEN ev.kind = "on" ELSE WillSound(n)
      BY <2>1, AppendedOutput, Zenon
    <2>3. BitsMatch(n)'
      BY <2>1, <2>2, Zenon DEF BitsMatch
    <2>4. balance'[n] <= 1
      BY DEF Faithful
    <2>5. QED
      BY <2>2, <2>3, <2>4, Zenon
  <1>2. QED
    BY <1>1, Zenon DEF Faithful

LEMMA ScheduleAppends ==
  ASSUME NEW ev, Schedule(ev), ~lost'
  PROVE  ~lost /\ queue' = Append(queue, ev)
  BY Zenon DEF Schedule

LEMMA StepFaithful ==
  ASSUME TypeOK, OutputInvariant, [Next]_vars, ~lost'
  PROVE  Faithful'
  <1> USE DEF vars, seqVars, panicVars, schedVars, balanceVars, playVars, clockVars, loopVars
  <1>a. ~lost => Faithful
    BY DEF OutputInvariant
  <1>1. CASE LoadStyle
    BY <1>1, <1>a, QuietStep DEF LoadStyle
  <1>2. CASE SetSwing
    BY <1>2, <1>a, QuietStep DEF SetSwing
  <1>3. CASE BeginRound
    BY <1>3, <1>a, QuietStep DEF BeginRound
  <1>4. ASSUME NEW i \in QueueArgs, Start(i)
        PROVE  Faithful'
    BY <1>4, <1>a, QuietStep DEF Start
  <1>5. CASE Queue
    BY <1>5, <1>a, QuietStep DEF Queue
  <1>6. ASSUME NEW c \in Chords, SetChordStopped(c) \/ SetChordRunning(c)
        PROVE  Faithful'
    BY <1>6, <1>a, QuietStep DEF SetChordStopped, SetChordRunning, EnterFlush
  <1>7. CASE Stop
    BY <1>7, <1>a, QuietStep DEF Stop, EnterFlush
  <1>8. CASE Panic
    BY <1>8, <1>a, PanicBegins DEF Panic, EnterPanic, ClearQueue
  <1>9. CASE FlushNote
    <2>1. PICK n \in active : TakeBit(n) /\ Schedule(NoteOffEvent(n, 0))
      BY <1>9 DEF FlushNote
    <2> DEFINE ev == NoteOffEvent(n, 0)
    <2>2. ev \in Event /\ ev.kind = "off" /\ ev.key = n
      BY <2>1, EventConstructors DEF NoteOffEvent, TypeOK
    <2>3. ~lost /\ queue' = Append(queue, ev)
      BY <2>1, ScheduleAppends
    <2> HIDE DEF ev
    <2>4. \A m \in Notes : Addresses(ev, m) <=> m = n
      BY <2>2 DEF Addresses
    <2>5. active' = active \ {n}
      BY <2>1 DEF TakeBit
    <2>6. UNCHANGED <<balance, orphaned, phase>> /\ phase # "panic"
      BY <1>9 DEF FlushNote
    <2>7. QED
      BY <1>a, <2>1, <2>2, <2>3, <2>4, <2>5, <2>6, AppendStep
  <1>10. CASE SilenceChannel
    <2> DEFINE ev == SilenceEvent(index \div 2)
    <2>1. index \div 2 \in Channels /\ index \in Nat
      BY <1>10, NotesAssumption, SMT DEF SilenceChannel, TypeOK, Channels
    <2>2. ev \in Event /\ ev.kind = "cc" /\ ev.key = index \div 2
      BY <2>1, EventConstructors DEF SilenceEvent
    <2>3. ~lost /\ queue' = Append(queue, ev)
      BY <1>10, ScheduleAppends DEF SilenceChannel
    <2>4. phase' = "panic" /\ phase = "panic" /\ index' = index + 1
          /\ UNCHANGED <<balance, orphaned>>
      BY <1>10 DEF SilenceChannel
    <2> HIDE DEF ev
    <2>5. ASSUME NEW n \in Notes
          PROVE  balance'[n] <= 1 /\ InTurn(n)' /\ BitsMatch(n)'
      <3>1. InTurn(n) /\ balance[n] <= 1 /\ (2 * ChannelOf(n) < index => ~WillSound(n))
        BY <1>a, <2>3, <2>4, Zenon DEF Faithful, BitsMatch
      <3>2. /\ InTurn(n)'
            /\ WillSound(n)' <=> IF Addresses(ev, n) THEN ev.kind = "on" ELSE WillSound(n)
        BY <2>2, <2>3, <2>4, <3>1, AppendedOutput
      <3>3. 2 * ChannelOf(n) < index + 1 => 2 * ChannelOf(n) < index \/ ChannelOf(n) = index \div 2
        BY <2>1, NotesAssumption, SMT DEF Channels
      <3>4. ChannelOf(n) = index \div 2 => Addresses(ev, n)
        BY <2>2 DEF Addresses
      <3>5. 2 * ChannelOf(n) < index + 1 => ~WillSound(n)'
        BY <2>2, <3>1, <3>2, <3>3, <3>4
      <3>6. BitsMatch(n)'
        BY <2>4, <3>5, Zenon DEF BitsMatch
      <3>7. QED
        BY <2>4, <3>1, <3>2, <3>6, Zenon
    <2>6. QED
      BY <1>a, <2>3, <2>4, <2>5, Zenon DEF Faithful
  <1>11. CASE AfterPanic
    <2>1. /\ UNCHANGED <<queue, balance, orphaned, lost>> /\ active' = {}
          /\ phase = "panic" /\ phase' # "panic"
      BY <1>11 DEF AfterPanic, ClearBits
    <2>2. \A n \in Notes : 2 * ChannelOf(n) < index
      BY <1>11, NotesAssumption DEF AfterPanic, Channels
    <2>3. ASSUME NEW n \in Notes
          PROVE  balance'[n] <= 1 /\ InTurn(n)' /\ BitsMatch(n)'
      <3>1. InTurn(n) /\ balance[n] <= 1 /\ ~WillSound(n)
        BY <1>a, <2>1, <2>2, Zenon DEF Faithful, BitsMatch
      <3>2. InTurn(n)' /\ ~WillSound(n)'
        BY <2>1, <3>1, SameOutput, Zenon
      <3>3. BitsMatch(n)'
        BY <2>1, <3>2 DEF BitsMatch
      <3>4. QED
        BY <2>1, <3>1, <3>2, <3>3, Zenon
    <2>4. QED
      BY <1>a, <2>1, <2>3, Zenon DEF Faithful
  <1>12. CASE AfterFlushStop
    BY <1>12, <1>a, QuietStep DEF AfterFlushStop, FlushEnd, ResetCount
  <1>13. CASE AfterFlushShutdown
    BY <1>13, <1>a, PanicBegins DEF AfterFlushShutdown, FlushEnd, EnterPanic, ClearQueue
  <1>14. CASE AfterFlushChord
    BY <1>14, <1>a, QuietStep DEF AfterFlushChord, FlushEnd, ResetCount
  <1>15. CASE AfterFlushSwitch
    BY <1>15, <1>a, QuietStep DEF AfterFlushSwitch, FlushEnd, ResetCount, EnterDispatch
  <1>16. CASE TickStopped
    BY <1>16, <1>a, QuietStep DEF TickStopped
  <1>17. CASE TickRunning
    BY <1>17, <1>a, QuietStep DEF TickRunning, EnterFlush, EnterDispatch
  <1>18. CASE DispatchEvent
    <2>1. UNCHANGED <<balance, orphaned, phase>> /\ phase # "panic"
      BY <1>18 DEF DispatchEvent
    <2>2. CASE UNCHANGED <<panicVars, schedVars>>
      BY <1>a, <2>1, <2>2, QuietStep
    <2>3. CASE ~Redundant(Events[index]) /\ Dispatched(Events[index])
      <3> DEFINE e == Events[index]
                 n == Voice[chord][e.src]
                 at == Swung(origin + e.tick)
                 ev == IF e.kind = "on" THEN NoteOnEvent(n, at) ELSE NoteOffEvent(n, at)
      <3>1. e \in SectionEvent
        BY <1>18, EventsTyped, SMT DEF DispatchEvent, TypeOK
      <3>2. n \in Notes
        BY <3>1, VoiceTyped DEF SectionEvent
      <3>3. at \in Nat
        <4>1. origin + e.tick \in Nat
          BY <3>1 DEF SectionEvent, TypeOK
        <4>2. QED
          BY <4>1, SwungIsNat
      <3>4. ev \in Event /\ ev.kind = (IF e.kind = "on" THEN "on" ELSE "off") /\ ev.key = n
        BY <3>2, <3>3, EventConstructors DEF NoteOnEvent, NoteOffEvent
      <3>5. /\ Schedule(ev)
            /\ active' = IF e.kind = "on" THEN active \cup {n} ELSE active \ {n}
            /\ IF e.kind = "on" THEN n \notin active ELSE n \in active
        BY <2>3 DEF Dispatched, Redundant, MarkOn, MarkOff
      <3> HIDE DEF e, n, at, ev
      <3>6. ~lost /\ queue' = Append(queue, ev)
        BY <3>5, ScheduleAppends
      <3>7. \A m \in Notes : Addresses(ev, m) <=> m = n
        BY <3>4 DEF Addresses
      <3>8. QED
        BY <1>a, <2>1, <3>4, <3>5, <3>6, <3>7, AppendStep
    <2>4. QED
      BY <1>18, <2>2, <2>3 DEF DispatchEvent
  <1>19. CASE DispatchEnd
    BY <1>19, <1>a, QuietStep DEF DispatchEnd
  <1>20. CASE Deliver
    <2>1. /\ queue # <<>> /\ Observe(Head(queue)) /\ queue' = Tail(queue) /\ lost' = lost
          /\ UNCHANGED <<active, phase>> /\ phase = "drain"
      BY <1>20 DEF Deliver, FrontIsDue, PopFront
    <2>2. ~orphaned /\ \A n \in Notes : balance[n] <= 1 /\ InTurn(n)
      BY <1>a, <2>1, Zenon DEF Faithful
    <2>3. /\ ~orphaned'
          /\ \A n \in Notes : balance'[n] <= 1 /\ InTurn(n)' /\ (WillSound(n)' <=> WillSound(n))
      BY <2>1, <2>2, DeliveredOutput
    <2>4. ASSUME NEW n \in Notes
          PROVE  BitsMatch(n)'
      BY <1>a, <2>1, <2>3 DEF Faithful, BitsMatch
    <2>5. QED
      BY <2>3, <2>4, Zenon DEF Faithful
  <1>21. CASE DrainEnd
    <2>1. queue = <<>>
      BY <1>21 DEF DrainEnd, FrontIsDue, TypeOK, SchedTypeOK, OutputInvariant, QueueIsDue, Horizon
    <2>2. QED
      BY <1>21, <1>a, <2>1, QuietStep DEF DrainEnd
  <1>22. CASE UNCHANGED vars
    BY <1>22, <1>a, SameOutput, Zenon DEF Faithful, BitsMatch
  <1>23. QED
    BY <1>1, <1>2, <1>3, <1>4, <1>5, <1>6, <1>7, <1>8, <1>9, <1>10, <1>11, <1>12,
       <1>13, <1>14, <1>15, <1>16, <1>17, <1>18, <1>19, <1>20, <1>21, <1>22 DEF Next

LEMMA StepOutput ==
  ASSUME NoSwing
  PROVE  TypeOK /\ OutputInvariant /\ [Next]_vars => OutputInvariant'
  <1> SUFFICES ASSUME TypeOK, OutputInvariant, [Next]_vars
               PROVE  OutputInvariant'
    OBVIOUS
  <1>1. swing' <= StraightSwing
    BY StepSwing DEF OutputInvariant
  <1>2. RunningInvariant'
    BY StepRunning DEF OutputInvariant
  <1>3. QueueIsDue'
    BY StepQueueIsDue DEF OutputInvariant
  <1>4. ~lost' => Faithful'
    BY StepFaithful
  <1>5. QED
    BY <1>1, <1>2, <1>3, <1>4, Zenon DEF OutputInvariant

LEMMA OutputCorrect == ASSUME NoSwing PROVE Spec => [](TypeOK /\ OutputInvariant)
  <1>1. Init => TypeOK /\ OutputInvariant
    BY InitTyped, InitOutput
  <1>2. TypeOK /\ OutputInvariant /\ [Next]_vars => (TypeOK /\ OutputInvariant)'
    BY StepTyped, StepOutput
  <1>3. QED
    BY <1>1, <1>2, PTL DEF Spec

(***************************************************************************)
(* No stuck note: without swing, as long as no event has been lost to a    *)
(* full queue, the notes that will sound once the queue has drained are    *)
(* the notes whose bits are set, for every style, every chord table, every *)
(* tempo, and with restarts (flushActiveNotes, dispatchSectionEvents).     *)
(***************************************************************************)
THEOREM NoStuckNotes == ASSUME NoSwing PROVE Spec => []TrackedNotesMatchOutput
  <1>1. OutputInvariant => TrackedNotesMatchOutput
    BY DEF OutputInvariant, Faithful, BitsMatch, TrackedNotesMatchOutput
  <1>2. QED
    BY <1>1, OutputCorrect, PTL

(***************************************************************************)
(* The observer of the output (note_balance.cpp) never sees a second       *)
(* note-on of a sounding note nor a note-off of a silent one, without      *)
(* swing and without overflow.                                             *)
(***************************************************************************)
THEOREM OutputInTurn == ASSUME NoSwing PROVE Spec => []OutputAlternates
  <1>1. OutputInvariant => OutputAlternates
    BY DEF OutputInvariant, Faithful, OutputAlternates
  <1>2. QED
    BY <1>1, OutputCorrect, PTL

(***************************************************************************)
(* stop(), panic() and shutdown() leave the output silent once what they   *)
(* queued is delivered, without swing and without overflow.                *)
(***************************************************************************)
THEOREM StopSilences == ASSUME NoSwing PROVE Spec => []SilentWhenStopped
  <1>1. TypeOK /\ OutputInvariant => SilentWhenStopped
    <2> SUFFICES ASSUME TypeOK, OutputInvariant, ~lost, ~running, phase = "idle",
                        queue = <<>>, NEW n \in Notes
                 PROVE  balance[n] = 0
      BY DEF SilentWhenStopped
    <2>1. active = {} /\ (WillSound(n) <=> n \in active)
      BY Zenon DEF OutputInvariant, RunningInvariant, Faithful, BitsMatch
    <2>2. WillSound(n) <=> balance[n] > 0
      BY SoundsAtStart DEF WillSound
    <2>3. QED
      BY <2>1, <2>2 DEF TypeOK, BalanceTypeOK
  <1>2. QED
    BY <1>1, OutputCorrect, PTL

(***************************************************************************)
(* advanceTo() leaves no due event behind (scheduler.h:97) as long as      *)
(* there is no swing: every round ends with an empty queue.                *)
(***************************************************************************)
THEOREM NothingDueIsLeft == ASSUME NoSwing PROVE Spec => AdvanceDeliversAllDue
  <1>1. TypeOK /\ OutputInvariant /\ [Next]_vars
          => [DrainEnd => \A i \in DOMAIN queue' : queue'[i].tick > Position]_vars
    <2> SUFFICES ASSUME TypeOK, OutputInvariant, DrainEnd
                 PROVE  \A i \in DOMAIN queue' : queue'[i].tick > Position
      OBVIOUS
    <2>1. queue = <<>>
      BY DEF DrainEnd, FrontIsDue, TypeOK, SchedTypeOK, OutputInvariant, QueueIsDue, Horizon
    <2>2. QED
      BY <2>1 DEF DrainEnd, schedVars
  <1>2. QED
    BY <1>1, OutputCorrect, PTL DEF Spec, AdvanceDeliversAllDue

(***************************************************************************)
(* Part 3: the count of active notes.                                      *)
(***************************************************************************)
CountInvariant == IsFiniteSet(active) /\ CountMatchesBits

LEMMA CountStep ==
  ASSUME TypeOK, CountInvariant, [Next]_vars
  PROVE  CountInvariant'
  <1> USE DEF CountInvariant, CountMatchesBits
  <1>1. CASE UNCHANGED <<active, noteCount>> /\ phase \notin {"flush", "panic"}
    BY <1>1
  <1>2. CASE active' = {} /\ noteCount' = 0
    BY <1>2, FS_EmptySet
  <1>3. CASE phase' \in {"flush", "panic"} /\ active' \subseteq active
    BY <1>3, FS_Subset
  <1>4. CASE DispatchEvent
    <2>1. CASE UNCHANGED <<panicVars, schedVars>>
      BY <1>4, <2>1 DEF DispatchEvent, loopVars, panicVars
    <2>2. CASE ~Redundant(Events[index]) /\ Dispatched(Events[index])
      <3> DEFINE n == Voice[chord][Events[index].src]
      <3>1. \/ n \notin active /\ active' = active \cup {n} /\ noteCount' = noteCount + 1
            \/ n \in active /\ active' = active \ {n} /\ noteCount' = noteCount - 1
        BY <2>2 DEF Redundant, Dispatched, MarkOn, MarkOff
      <3> HIDE DEF n
      <3>2. phase = "dispatch" /\ phase' = "dispatch"
        BY <1>4 DEF DispatchEvent
      <3>3. CASE n \notin active /\ active' = active \cup {n} /\ noteCount' = noteCount + 1
        BY <3>2, <3>3, FS_AddElement
      <3>4. CASE n \in active /\ active' = active \ {n} /\ noteCount' = noteCount - 1
        BY <3>2, <3>4, FS_RemoveElement
      <3>5. QED
        BY <3>1, <3>3, <3>4
    <2>3. QED
      BY <1>4, <2>1, <2>2 DEF DispatchEvent
  <1>5. CASE FlushNote \/ SilenceChannel
    BY <1>5, <1>3 DEF FlushNote, SilenceChannel, TakeBit, loopVars, panicVars
  <1>6. CASE AfterFlushStop \/ AfterFlushShutdown \/ AfterFlushChord \/ AfterFlushSwitch
    BY <1>6, <1>2 DEF AfterFlushStop, AfterFlushShutdown, AfterFlushChord, AfterFlushSwitch,
                      FlushEnd, ResetCount
  <1>7. CASE AfterPanic
    BY <1>7, <1>2 DEF AfterPanic, ClearBits
  <1>8. CASE \/ LoadStyle \/ SetSwing \/ BeginRound \/ Queue \/ Stop \/ Panic
             \/ TickStopped \/ TickRunning \/ DispatchEnd \/ Deliver \/ DrainEnd
             \/ \E i \in QueueArgs : Start(i)
             \/ \E c \in Chords : SetChordStopped(c) \/ SetChordRunning(c)
    BY <1>8, <1>1 DEF LoadStyle, SetSwing, BeginRound, Queue, Stop, Panic, TickStopped,
                      TickRunning, DispatchEnd, Deliver, DrainEnd, Start, SetChordStopped,
                      SetChordRunning, loopVars, panicVars
  <1>9. CASE UNCHANGED vars
    BY <1>9 DEF vars, loopVars, panicVars
  <1>10. QED
    BY <1>4, <1>5, <1>6, <1>7, <1>8, <1>9, Zenon DEF Next

(***************************************************************************)
(* hasActiveNotes() (the count) and the flush (the bits) agree whenever no *)
(* flush or panic is under way, at every swing and with any overflow.      *)
(***************************************************************************)
THEOREM CountCorrect == Spec => []CountMatchesBits
  <1>1. Init => CountInvariant
    BY FS_EmptySet DEF Init, HandlerInit, CountInvariant, CountMatchesBits
  <1>2. TypeOK /\ CountInvariant /\ [Next]_vars => CountInvariant'
    BY CountStep
  <1>3. CountInvariant => CountMatchesBits
    BY DEF CountInvariant
  <1>4. QED
    BY <1>1, <1>2, <1>3, TypeCorrect, PTL DEF Spec
-----------------------------------------------------------------------------
(***************************************************************************)
(* Part 4: every tracked note has its note-off ahead.  Three assumptions,  *)
(* each about the caller: the style's note-ons are each followed by a      *)
(* note-off of the same note, no second style is loaded, and Start is not  *)
(* pressed while the style plays (start() changes the chord and flushes    *)
(* nothing).  Swing, tempo, chords and lost events are arbitrary.          *)
(***************************************************************************)
NoteOnsArePaired ==
  \A t \in SectionTables : \A s \in DOMAIN t : \A i \in DOMAIN t[s].events :
    t[s].events[i].kind = "on" =>
      \E j \in DOMAIN t[s].events :
        /\ j > i
        /\ t[s].events[j].kind = "off"
        /\ t[s].events[j].src = t[s].events[i].src
        /\ t[s].events[j].tick >= t[s].events[i].tick

OneStyleOnly == \A s, t \in SectionTables : s = t

NoRestart == MayRestart = FALSE

\* A note-off that turns n off under the chord that is set.
Ends(i, n) ==
  /\ i \in DOMAIN Events
  /\ Events[i].kind = "off"
  /\ Voice[chord][Events[i].src] = n
  /\ Events[i].tick > cursor

\* While the window is dispatched, the note-off is still before the loop or
\* after the window.
EndsAhead(n) ==
  \E i \in DOMAIN Events :
    Ends(i, n) /\ (phase = "dispatch" => i >= index \/ Events[i].tick > Rel)

EndInvariant ==
  /\ RunningInvariant
  /\ phase \in {"idle", "commands", "drain", "dispatch"} =>
       \A n \in active : current \in DOMAIN sections /\ EndsAhead(n)

(***************************************************************************)
(* A step that leaves the bits, the section, the chord and the cursor, and *)
(* the phase outside the dispatch loop.                                    *)
(***************************************************************************)
LEMMA EndStays ==
  ASSUME EndInvariant, RunningInvariant', sections' = sections, current' = current,
         active' = active, chord' = chord, cursor' = cursor,
         phase \in {"idle", "commands", "drain"}, phase' # "dispatch"
  PROVE  EndInvariant'
  <1>1. ASSUME NEW n \in active
        PROVE  (current \in DOMAIN sections)' /\ EndsAhead(n)'
    <2>1. PICK i \in DOMAIN Events : Ends(i, n)
      BY <1>1, Zenon DEF EndInvariant, EndsAhead
    <2>2. current \in DOMAIN sections
      BY <1>1, Zenon DEF EndInvariant
    <2>3. Events' = Events
      BY Zenon DEF Events
    <2>4. Ends(i, n)'
      BY <2>1, <2>3, Zenon DEF Ends
    <2>5. QED
      BY <2>1, <2>2, <2>3, <2>4, Zenon DEF EndsAhead
  <1>2. QED
    BY <1>1, Zenon DEF EndInvariant

LEMMA EndOfNothing ==
  ASSUME RunningInvariant',
         active' = {} \/ phase' \in {"flush", "panic"}
  PROVE  EndInvariant'
  BY Zenon DEF EndInvariant

LEMMA EndDispatchEvent ==
  ASSUME NoteOnsArePaired, TypeOK, EndInvariant, RunningInvariant', DispatchEvent
  PROVE  EndInvariant'
  <1> DEFINE e == Events[index]
             m == Voice[chord][e.src]
  <1>1. /\ UNCHANGED <<sections, current, chord, cursor, origin, samples, tempo>>
        /\ phase = "dispatch" /\ phase' = "dispatch" /\ index' = index + 1
        /\ index <= Len(Events)
    BY DEF DispatchEvent, seqVars, playVars, clockVars
  <1>2. Events' = Events /\ Rel' = Rel
    BY <1>1, Zenon DEF Events, Rel, Position
  <1>3. current \in DOMAIN sections /\ index \in Nat /\ index >= 1
    BY <1>1 DEF TypeOK
  <1>4. Events \in Seq(SectionEvent)
    BY <1>3, EventsTyped
  <1>5. index \in DOMAIN Events /\ e \in SectionEvent
    BY <1>1, <1>3, <1>4
  <1>6. Rel \in Int /\ cursor \in Int
    BY PositionIsNat DEF TypeOK, Rel
  <1>7. \A i \in DOMAIN Events : i \in Nat /\ Events[i] \in SectionEvent
    BY <1>4
  <1>8. \/ active' = active /\ ~(InWindow(e) /\ ~Redundant(e))
        \/ InWindow(e) /\ e.kind = "on" /\ active' = active \cup {m}
        \/ InWindow(e) /\ e.kind = "off" /\ active' = active \ {m}
    BY <1>5 DEF DispatchEvent, Dispatched, MarkOn, MarkOff, panicVars, SectionEvent
  <1> HIDE DEF m
  <1>9. ASSUME NEW n \in active', n \in active
        PROVE  EndsAhead(n)'
    <2>1. PICK i \in DOMAIN Events : Ends(i, n) /\ (i >= index \/ Events[i].tick > Rel)
      BY <1>1, <1>9, Zenon DEF EndInvariant, EndsAhead
    <2>2. Events[i] \in SectionEvent /\ Events[i].tick \in Nat
      BY <1>7, <2>1 DEF SectionEvent
    <2>3. i >= index + 1 \/ Events[i].tick > Rel
      <3>1. SUFFICES ASSUME i = index, Events[i].tick <= Rel
                     PROVE  FALSE
        BY <1>3, <1>6, <1>7, <2>1, <2>2
      <3>2. InWindow(e) /\ e.kind = "off" /\ m = n
        BY <1>6, <2>1, <2>2, <3>1 DEF InWindow, Ends, m
      <3>3. ~Redundant(e)
        BY <1>9, <3>2 DEF Redundant, m
      <3>4. active' = active \ {n}
        BY <1>8, <3>2, <3>3
      <3>5. QED
        BY <1>9, <3>4
    <2>4. Ends(i, n)'
      BY <1>1, <1>2, <2>1, Zenon DEF Ends
    <2>5. QED
      BY <1>1, <1>2, <2>1, <2>3, <2>4, Zenon DEF EndsAhead
  <1>10. ASSUME NEW n \in active', n \notin active
         PROVE  EndsAhead(n)'
    <2>1. InWindow(e) /\ e.kind = "on" /\ n = m
      BY <1>8, <1>10
    <2>2. sections \in SectionTables
      BY <1>3 DEF TypeOK, SeqTypeOK, EmptyTable
    <2>3. PICK j \in DOMAIN Events :
             /\ j > index /\ Events[j].kind = "off" /\ Events[j].src = e.src
             /\ Events[j].tick >= e.tick
      BY <1>3, <1>5, <2>1, <2>2, Zenon DEF NoteOnsArePaired, Events
    <2>4. Events[j].tick \in Nat /\ e.tick \in Nat
      BY <1>5, <1>7, <2>3 DEF SectionEvent
    <2>5. Events[j].tick > cursor
      BY <1>6, <2>1, <2>3, <2>4 DEF InWindow
    <2>6. j >= index + 1
      BY <1>3, <1>7, <2>3
    <2>7. Ends(j, n)
      BY <2>1, <2>3, <2>5, Zenon DEF Ends, m
    <2>8. Ends(j, n)'
      BY <1>1, <1>2, <2>7, Zenon DEF Ends
    <2>9. QED
      BY <1>1, <1>2, <2>3, <2>6, <2>8, Zenon DEF EndsAhead
  <1>11. QED
    BY <1>1, <1>3, <1>9, <1>10, Zenon DEF EndInvariant

LEMMA EndDispatchEnd ==
  ASSUME TypeOK, EndInvariant, RunningInvariant', DispatchEnd
  PROVE  EndInvariant'
  <1>1. /\ UNCHANGED <<sections, current, chord, active>>
        /\ phase = "dispatch" /\ phase' = "drain" /\ index > Len(Events)
        /\ cursor' = IF Rel > cursor THEN Rel ELSE cursor
    BY DEF DispatchEnd, seqVars, panicVars
  <1>2. current \in DOMAIN sections /\ index \in Nat
    BY <1>1 DEF TypeOK
  <1>3. Events \in Seq(SectionEvent)
    BY <1>2, EventsTyped
  <1>4. Rel \in Int /\ cursor \in Int
    BY PositionIsNat DEF TypeOK, Rel
  <1>5. Events' = Events
    BY <1>1, Zenon DEF Events
  <1>a. \A i \in DOMAIN Events : i \in Nat /\ i <= Len(Events) /\ Events[i] \in SectionEvent
    BY <1>3
  <1>6. ASSUME NEW n \in active
        PROVE  EndsAhead(n)'
    <2>1. PICK i \in DOMAIN Events : Ends(i, n) /\ (i >= index \/ Events[i].tick > Rel)
      BY <1>1, <1>6, Zenon DEF EndInvariant, EndsAhead
    <2>2. i \in Nat /\ i <= Len(Events) /\ Events[i].tick \in Nat
      BY <1>a, <2>1 DEF SectionEvent
    <2>3. Events[i].tick > Rel /\ Events[i].tick > cursor
      BY <1>1, <1>2, <1>3, <2>1, <2>2 DEF Ends
    <2>4. Events[i].tick > cursor'
      BY <1>1, <1>4, <2>2, <2>3
    <2>5. Ends(i, n)'
      BY <1>1, <1>5, <2>1, <2>4, Zenon DEF Ends
    <2>6. QED
      BY <1>1, <1>5, <2>1, <2>5, Zenon DEF EndsAhead
  <1>7. QED
    BY <1>1, <1>2, <1>6, Zenon DEF EndInvariant

LEMMA EndEnterDispatch ==
  ASSUME TypeOK, EndInvariant, RunningInvariant', TickRunning,
         ~Switches(Position, BarSize)
  PROVE  EndInvariant'
  <1>1. /\ UNCHANGED <<sections, current, chord, cursor, active>>
        /\ phase = "commands" /\ EnterDispatch
    BY DEF TickRunning, Advance, panicVars, playVars
  <1>2. Events' = Events
    BY <1>1, Zenon DEF Events
  <1>3. ASSUME NEW n \in active
        PROVE  (current \in DOMAIN sections)' /\ EndsAhead(n)'
    <2>1. PICK i \in DOMAIN Events : Ends(i, n)
      BY <1>1, <1>3, Zenon DEF EndInvariant, EndsAhead
    <2>2. current \in DOMAIN sections
      BY <1>1, <1>3, Zenon DEF EndInvariant
    <2>3. index' = 1
      BY <1>1, <2>2 DEF EnterDispatch
    <2>4. Events \in Seq(SectionEvent)
      BY <2>2, EventsTyped
    <2>5. i >= index'
      BY <2>1, <2>3, <2>4
    <2>6. Ends(i, n)'
      BY <1>1, <1>2, <2>1, Zenon DEF Ends
    <2>7. QED
      BY <1>1, <1>2, <2>1, <2>2, <2>5, <2>6, Zenon DEF EndsAhead
  <1>4. QED
    BY <1>1, <1>3, Zenon DEF EndInvariant

LEMMA EndStep ==
  ASSUME NoteOnsArePaired, OneStyleOnly, NoRestart, TypeOK, EndInvariant, [Next]_vars
  PROVE  EndInvariant'
  <1>a. RunningInvariant /\ RunningInvariant'
    BY StepRunning DEF EndInvariant
  <1> USE DEF vars, seqVars, panicVars, schedVars, balanceVars, playVars, clockVars, loopVars
  <1>1. CASE LoadStyle
    <2>1. PICK table \in SectionTables : sections' = table
      BY <1>1 DEF LoadStyle, SetSections
    <2>2. /\ UNCHANGED <<current, active, chord, cursor, phase>> /\ phase = "idle"
      BY <1>1 DEF LoadStyle, SetSections
    <2>3. CASE active = {}
      BY <1>a, <2>2, <2>3, EndOfNothing
    <2>4. CASE active # {}
      <3>1. current \in DOMAIN sections
        BY <2>2, <2>4 DEF EndInvariant
      <3>2. sections \in SectionTables
        BY <3>1 DEF TypeOK, SeqTypeOK, EmptyTable
      <3>3. sections' = sections
        BY <2>1, <3>2, Zenon DEF OneStyleOnly
      <3>4. QED
        BY <1>a, <2>2, <3>3, EndStays
    <2>5. QED
      BY <2>3, <2>4
  <1>2. CASE SetSwing
    BY <1>2, <1>a, EndStays DEF SetSwing
  <1>3. CASE BeginRound
    BY <1>3, <1>a, EndStays DEF BeginRound
  <1>4. ASSUME NEW i \in QueueArgs, Start(i)
        PROVE  EndInvariant'
    <2>1. ~running /\ active' = active
      BY <1>4 DEF Start, NoRestart
    <2>2. active = {}
      BY <1>a, <2>1 DEF RunningInvariant
    <2>3. QED
      BY <1>a, <2>1, <2>2, EndOfNothing
  <1>5. CASE Queue
    <2>1. sections' = sections /\ current' = current
      BY <1>5 DEF Queue, QueueIntro, QueueFill, QueueBreak, QueueEnding, QueueKind,
                  QueueSection
    <2>2. QED
      BY <1>5, <1>a, <2>1, EndStays DEF Queue
  <1>6. ASSUME NEW c \in Chords, SetChordStopped(c)
        PROVE  EndInvariant'
    <2>1. active' = {}
      BY <1>6, <1>a DEF SetChordStopped, RunningInvariant
    <2>2. QED
      BY <1>a, <2>1, EndOfNothing
  <1>7. ASSUME NEW c \in Chords, SetChordRunning(c)
        PROVE  EndInvariant'
    BY <1>7, <1>a, EndOfNothing DEF SetChordRunning, EnterFlush
  <1>8. CASE Stop \/ Panic \/ FlushNote \/ SilenceChannel
    BY <1>8, <1>a, EndOfNothing
    DEF Stop, EnterFlush, Panic, EnterPanic, FlushNote, SilenceChannel
  <1>9. CASE AfterPanic
    BY <1>9, <1>a, EndOfNothing DEF AfterPanic, ClearBits
  <1>10. CASE AfterFlushStop \/ AfterFlushShutdown \/ AfterFlushChord \/ AfterFlushSwitch
    BY <1>10, <1>a, EndOfNothing
    DEF AfterFlushStop, AfterFlushShutdown, AfterFlushChord, AfterFlushSwitch, FlushEnd,
        ResetCount
  <1>11. CASE TickStopped
    BY <1>11, <1>a, EndStays DEF TickStopped
  <1>12. CASE TickRunning
    <2>1. CASE Switches(Position, BarSize)
      BY <1>12, <1>a, <2>1, EndOfNothing DEF TickRunning, EnterFlush
    <2>2. QED
      BY <1>12, <1>a, <2>1, EndEnterDispatch
  <1>13. CASE DispatchEvent
    BY <1>13, <1>a, EndDispatchEvent
  <1>14. CASE DispatchEnd
    BY <1>14, <1>a, EndDispatchEnd
  <1>15. CASE Deliver \/ DrainEnd
    BY <1>15, <1>a, EndStays DEF Deliver, DrainEnd
  <1>16. CASE UNCHANGED vars
    BY <1>16, Zenon DEF EndInvariant, RunningInvariant, EndsAhead, Ends, Events, Rel, Position
  <1>17. QED
    BY <1>1, <1>2, <1>3, <1>4, <1>5, <1>6, <1>7, <1>8, <1>9, <1>10, <1>11, <1>12, <1>13,
       <1>14, <1>15, <1>16 DEF Next

(***************************************************************************)
(* A note never outlives its chord or its section (style_player.cpp:108):  *)
(* for every style whose note-ons are paired with note-offs, and at every  *)
(* swing and tempo, each tracked note has its note-off still to come.      *)
(***************************************************************************)
THEOREM NotesEnd ==
  ASSUME NoteOnsArePaired, OneStyleOnly, NoRestart
  PROVE  Spec => []ActiveNotesWillEnd
  <1>1. Init => EndInvariant
    BY DEF Init, HandlerInit, EndInvariant, RunningInvariant
  <1>2. TypeOK /\ EndInvariant /\ [Next]_vars => EndInvariant'
    BY EndStep
  <1>3. EndInvariant => ActiveNotesWillEnd
    BY Zenon DEF EndInvariant, EndsAhead, Ends, ActiveNotesWillEnd
  <1>4. QED
    BY <1>1, <1>2, <1>3, TypeCorrect, PTL DEF Spec
-----------------------------------------------------------------------------
(***************************************************************************)
(* Part 5: bar lines.  At a constant tempo, and without Start while the    *)
(* style plays, the sequencer's last bar is never ahead of the last tick's *)
(* bar, so it recognises every later bar.                                  *)
(***************************************************************************)
ConstantTempo == Tempos \subseteq {StyleTempo}

BarInvariant ==
  /\ tempo = StyleTempo
  /\ ~running => current = None
  /\ running =>
       /\ lastTickBar <= BarOf(Position)
       /\ current < 0 \/ BarOf(lastBarStart) <= lastTickBar

LEMMA BarLength == TicksPerBeat * BeatsPerBar \in Nat \ {0}
  BY ClockAssumption, SMT

LEMMA BarOfGrows ==
  /\ BarOf(0) = 0
  /\ \A a, b \in Nat : a <= b => BarOf(a) <= BarOf(b)
  /\ \A a \in Nat : /\ BarOf(a) \in Nat
                    /\ BarOf(a) * (TicksPerBeat * BeatsPerBar) \in Nat
                    /\ BarOf(BarOf(a) * (TicksPerBeat * BeatsPerBar)) = BarOf(a)
  <1> DEFINE d == TicksPerBeat * BeatsPerBar
  <1>1. d \in Nat /\ d > 0
    BY BarLength
  <1> HIDE DEF d
  <1>2. 0 \div d = 0
    BY <1>1, SMT
  <1>3. ASSUME NEW a \in Nat
        PROVE  a \div d \in Nat /\ (a \div d) * d <= a /\ a < (a \div d) * d + d
    BY <1>1, SMT
  <1>4. ASSUME NEW a \in Nat, NEW b \in Nat, a <= b
        PROVE  a \div d <= b \div d
    BY <1>1, <1>4, SMT
  <1>5. ASSUME NEW k \in Nat
        PROVE  k * d \in Nat /\ (k * d) \div d = k
    BY <1>1, SMT
  <1>6. QED
    BY <1>2, <1>3, <1>4, <1>5 DEF BarOf, d

LEMMA ProductGrows ==
  ASSUME NEW a \in Nat, NEW b \in Nat, NEW c \in Nat, a <= b
  PROVE  a * c <= b * c /\ a * c \in Nat /\ b * c \in Nat
  <1>1. PICK k \in Nat : b = a + k
    <2>1. b - a \in Nat /\ b = a + (b - a)
      OBVIOUS
    <2>2. QED
      BY <2>1
  <1>2. b * c = a * c + k * c /\ a * c \in Nat /\ k * c \in Nat
    BY <1>1, SMT
  <1>3. QED
    BY <1>2

LEMMA BarTick ==
  ASSUME TypeOK, BarInvariant, TickRunning
  PROVE  /\ BarInvariant'
         /\ QueuedIsValid /\ BarOf(Position) > lastTickBar => current' = queued
  <1> DEFINE d == TicksPerBeat * BeatsPerBar
             p == Position
  <1>1. p \in Nat /\ lastBarStart \in Nat /\ lastTickBar \in Nat /\ current \in Int
        /\ tempo \in Nat
    BY PositionIsNat DEF TypeOK, SeqTypeOK
  <1>2. /\ running /\ sections # EmptyTable /\ UNCHANGED <<samples, tempo, running>>
        /\ Advance(p, BarSize) /\ lastTickBar' = BarOf(p)
    BY DEF TickRunning, clockVars
  <1>3. Position' = p
    BY <1>2, Zenon DEF Position
  <1>4. lastTickBar <= BarOf(p) /\ (current < 0 \/ BarOf(lastBarStart) <= lastTickBar)
    BY <1>2 DEF BarInvariant
  <1>5. BarOf(p) \in Nat /\ BarOf(lastBarStart) \in Nat /\ BarOf(BarOf(p) * d) = BarOf(p)
    BY <1>1, BarOfGrows
  <1>6. CASE tempo = 0
    <2>1. p = 0
      BY <1>6 DEF Position, TypeOK
    <2>2. BarOf(p) = 0 /\ BarSize = 0
      BY <1>6, <2>1, BarOfGrows DEF BarSize
    <2>3. current' = current /\ lastBarStart' = lastBarStart
      BY <1>2, <2>2 DEF Advance, Switches, Advancing
    <2>4. QED
      BY <1>1, <1>2, <1>3, <1>4, <1>5, <2>2, <2>3 DEF BarInvariant
  <1>7. CASE tempo # 0
    <2>1. BarSize = d /\ BarSize > 0
      BY <1>7, BarLength DEF BarSize
    <2>2. Advancing(BarSize)
      BY <1>2, <2>1 DEF Advancing
    <2>3. CrossesBar(p, BarSize) <=> BarOf(p) > BarOf(lastBarStart)
      BY <2>1 DEF CrossesBar, BarOf
    <2>4. (p \div BarSize) * BarSize = BarOf(p) * d
      BY <2>1 DEF BarOf
    <2> HIDE DEF d, p
    <2>5. \/ BarOf(lastBarStart)' = BarOf(p)
          \/ current' = current /\ lastBarStart' = lastBarStart
      <3>1. CASE Switches(p, BarSize) \/ CrossesBar(p, BarSize)
        <4>1. lastBarStart' = BarOf(p) * d
          BY <1>2, <2>2, <2>4, <3>1 DEF Advance
        <4>2. BarOf(lastBarStart') = BarOf(p)
          BY <1>5, <4>1
        <4>3. QED
          BY <4>2 DEF BarOf
      <3>2. CASE ~(Switches(p, BarSize) \/ CrossesBar(p, BarSize))
        BY <1>2, <3>2 DEF Advance
      <3>3. QED
        BY <3>1, <3>2
    <2>6. (BarOf(p) = lastTickBar' /\ (current' < 0 \/ BarOf(lastBarStart)' <= lastTickBar'))
      <3>1. CASE BarOf(lastBarStart)' = BarOf(p)
        BY <1>2, <1>5, <3>1
      <3>2. CASE current' = current /\ lastBarStart' = lastBarStart
        <4>1. BarOf(lastBarStart)' = BarOf(lastBarStart)
          BY <3>2 DEF BarOf
        <4>2. QED
          BY <1>1, <1>2, <1>4, <1>5, <3>2, <4>1
      <3>3. QED
        BY <2>5, <3>1, <3>2
    <2>7. BarOf(Position)' = BarOf(p)
      BY <1>3 DEF BarOf
    <2>8. BarInvariant'
      BY <1>2, <1>5, <2>6, <2>7 DEF BarInvariant
    <2>9. ASSUME QueuedIsValid, BarOf(p) > lastTickBar
          PROVE  current' = queued
      <3>1. Switches(p, BarSize)
        BY <1>1, <1>4, <1>5, <2>2, <2>3, <2>9 DEF Switches
      <3>2. QED
        BY <1>2, <3>1 DEF Advance, ActivateQueued
    <2>10. QED
      BY <2>8, <2>9 DEF p
  <1>8. QED
    BY <1>6, <1>7

LEMMA BarStep ==
  ASSUME ConstantTempo, NoRestart, TypeOK, BarInvariant, [Next]_vars
  PROVE  BarInvariant'
  <1> USE DEF vars, seqVars, panicVars, schedVars, balanceVars, playVars, clockVars, loopVars
  <1>1. CASE UNCHANGED <<running, samples, tempo, current, lastBarStart, lastTickBar>>
    BY <1>1, Zenon DEF BarInvariant, BarOf, Position
  <1>2. CASE BeginRound
    <2>1. tempo' = tempo /\ tempo \in Nat /\ samples \in Nat
      BY <1>2 DEF BeginRound, ConstantTempo, BarInvariant, TypeOK
    <2>2. samples' \in Nat /\ samples' >= samples
      <3>1. PICK k \in Steps : samples' = IF running /\ samples + k <= MaxSamples
                                          THEN samples + k ELSE samples
        BY <1>2 DEF BeginRound
      <3>2. k \in Nat
        BY ClockAssumption
      <3>3. QED
        BY <2>1, <3>1, <3>2
    <2>3. samples * tempo <= samples' * tempo /\ samples * tempo \in Nat
          /\ samples' * tempo \in Nat
      BY <2>1, <2>2, ProductGrows
    <2>4. BarOf(samples * tempo) <= BarOf(samples' * tempo)
      BY <2>3, BarOfGrows
    <2>5. Position = samples * tempo /\ Position' = samples' * tempo
      BY <2>1 DEF Position
    <2>6. BarOf(Position)' = BarOf(Position')
      BY DEF BarOf
    <2>7. BarOf(Position) <= BarOf(Position)' /\ BarOf(Position) \in Nat
          /\ BarOf(Position)' \in Nat
      BY <2>3, <2>4, <2>5, <2>6, BarOfGrows
    <2>8. UNCHANGED <<running, current, lastBarStart, lastTickBar>> /\ lastTickBar \in Nat
      BY <1>2 DEF BeginRound, TypeOK
    <2>9. BarOf(lastBarStart)' = BarOf(lastBarStart)
      BY <2>8 DEF BarOf
    <2>10. QED
      BY <2>1, <2>7, <2>8, <2>9 DEF BarInvariant
  <1>3. ASSUME NEW i \in QueueArgs, Start(i)
        PROVE  BarInvariant'
    <2>1. ~running /\ tempo' = StyleTempo /\ samples' = 0 /\ current' = current
          /\ lastTickBar' = 0 /\ running'
      BY <1>3, Zenon DEF Start, NoRestart, QueueSection
    <2>2. current' = None
      BY <2>1, Zenon DEF BarInvariant
    <2>3. Position' = 0
      BY <2>1, ClockAssumption DEF Position
    <2>4. BarOf(Position)' = 0
      BY <2>3, BarOfGrows DEF BarOf
    <2>5. QED
      BY <2>1, <2>2, <2>4 DEF BarInvariant, None
  <1>4. CASE Queue
    <2>1. current' = current /\ lastBarStart' = lastBarStart
      BY <1>4 DEF Queue, QueueIntro, QueueFill, QueueBreak, QueueEnding, QueueKind,
                  QueueSection
    <2>2. QED
      BY <1>1, <1>4, <2>1 DEF Queue
  <1>5. CASE AfterFlushStop \/ AfterFlushShutdown \/ AfterPanic
    <2>1. running' = FALSE /\ current' = None /\ tempo' = tempo
      BY <1>5, Zenon DEF AfterFlushStop, AfterFlushShutdown, AfterPanic, FlushEnd, Stopped,
                         SequencerPanic
    <2>2. QED
      BY <2>1, Zenon DEF BarInvariant
  <1>6. CASE TickRunning
    BY <1>6, BarTick
  <1>7. CASE \/ LoadStyle \/ SetSwing \/ Stop \/ Panic \/ FlushNote \/ SilenceChannel
             \/ AfterFlushChord \/ AfterFlushSwitch \/ TickStopped
             \/ DispatchEvent \/ DispatchEnd \/ Deliver \/ DrainEnd
             \/ \E c \in Chords : SetChordStopped(c) \/ SetChordRunning(c)
             \/ UNCHANGED vars
    <2>1. UNCHANGED <<running, samples, tempo, current, lastBarStart, lastTickBar>>
      BY <1>7, Zenon
      DEF LoadStyle, SetSections, SetSwing, Stop, Panic, FlushNote, SilenceChannel,
          AfterFlushChord, AfterFlushSwitch, FlushEnd, TickStopped, DispatchEvent,
          DispatchEnd, Deliver, DrainEnd, SetChordStopped, SetChordRunning
    <2>2. QED
      BY <1>1, <2>1
  <1>8. QED
    BY <1>2, <1>3, <1>4, <1>5, <1>6, <1>7, Zenon DEF Next

(***************************************************************************)
(* A queued section starts at the next bar line (section_sequencer.h:16)   *)
(* for every style and every way of queueing, as long as the tempo is the  *)
(* style's and Start is not pressed while the style plays.                 *)
(***************************************************************************)
THEOREM QueuedStartsAtBar ==
  ASSUME ConstantTempo, NoRestart
  PROVE  Spec => QueuedRunsAtNextBar
  <1>1. Init => BarInvariant
    BY DEF Init, SeqInit, BarInvariant
  <1>2. TypeOK /\ BarInvariant /\ [Next]_vars => BarInvariant'
    BY BarStep
  <1>3. TypeOK /\ BarInvariant /\ [Next]_vars
          => [TickRunning /\ QueuedIsValid /\ BarOf(Position) > lastTickBar
                => current' = queued]_vars
    BY BarTick
  <1>4. QED
    BY <1>1, <1>2, <1>3, TypeCorrect, PTL DEF Spec, QueuedRunsAtNextBar
=============================================================================
