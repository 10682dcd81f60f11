------------------------- MODULE LatencyTraceProofs -------------------------
(***************************************************************************)
(* The latency trace loses and doubles no record and a PASS of its report  *)
(* covers every one, for any capacity of the ring, any limits and any      *)
(* order of the producers and the collector.                               *)
(*                                                                         *)
(* The ring's positions never wrap, only its slots do: the records from    *)
(* position First on, those in the collector's buffer and then those in    *)
(* the ring, are one stream, which a claim extends and a pop leaves alone. *)
(***************************************************************************)
EXTENDS LatencyTrace, FiniteSetTheorems, SequenceLemmas

Record == [stage : Stages \cup {"none"}, at : Nat, corr : Nat,
           by : Producers \cup {"none"}]
Place == [step : {"idle", "stamped", "push", "publish"}, pos : Nat, rec : Record]
Counters == [inputs : Nat, outputs : Nat, sends : Nat, dropped : Nat, active : Nat,
             overflows : Nat, panics : Nat]

Types ==
  /\ seq \in [Slots -> Nat] /\ value \in [Slots -> Record]
  /\ enqueuePos \in Nat /\ dequeuePos \in Nat
  /\ emitting \in [Producers -> Place]
  /\ time \in 0 .. MaxRecords
  /\ correlation \in 0 .. MaxChords /\ accomp \in 0 .. correlation
  /\ counters \in Counters
  /\ player \in [sounding : BOOLEAN, scheduled : Nat, queued : Nat]
  /\ collector \in [running : BOOLEAN, copied : BOOLEAN]
  /\ buffer \in Seq(Record)

\* A note that sounds is counted; what a flush or a panic ends stays counted.
GaugeInvariant == player.sounding => counters.active >= 1
-----------------------------------------------------------------------------
(***************************************************************************)
(* The ring: what each position's sequence number must be, from the oldest *)
(* unread position to the last one its slots have room for.                *)
(***************************************************************************)
Publishing(p, q) == At(p, "publish") /\ Pos(p) = q
Claimed(q) == \E p \in Producers : Publishing(p, q)

\* The slot whose record the collector has copied and not released yet.
InHand(q) == collector.copied /\ q = dequeuePos + Capacity - 1

Expected(q) ==
  IF q < enqueuePos
  THEN IF Claimed(q) THEN q ELSE q + 1
  ELSE IF InHand(q) THEN dequeuePos ELSE q

Bounded ==
  /\ dequeuePos <= enqueuePos /\ enqueuePos <= dequeuePos + Capacity
  /\ collector.copied => /\ collector.running
                         /\ 1 <= dequeuePos
                         /\ enqueuePos < dequeuePos + Capacity
  /\ ~ collector.running => buffer = <<>>

Publishers ==
  /\ \A p \in Producers : At(p, "publish") =>
       /\ Pos(p) \in dequeuePos .. enqueuePos - 1
       /\ value[Slot(Pos(p))] = emitting[p].rec
  /\ \A p, r \in Producers :
       At(p, "publish") /\ At(r, "publish") /\ p # r => Pos(p) # Pos(r)

SlotsExpected ==
  \A q \in dequeuePos .. dequeuePos + Capacity - 1 : seq[Slot(q)] = Expected(q)

RingInvariant == Bounded /\ Publishers /\ SlotsExpected
-----------------------------------------------------------------------------
(***************************************************************************)
(* The stream: in it one producer's records are in the order of their      *)
(* times, what a producer is about to push is later than all of its own    *)
(* before, and every record made is in the stream, lost or being pushed.   *)
(***************************************************************************)
First == dequeuePos - Len(buffer)
Positions == First .. enqueuePos - 1
RecordAt(q) == IF q < dequeuePos THEN buffer[q - First + 1] ELSE value[Slot(q)]

InOrder ==
  \A q, r \in Positions :
    q < r /\ RecordAt(q).by = RecordAt(r).by => RecordAt(q).at < RecordAt(r).at

Begun(p) == At(p, "stamped") \/ At(p, "push")

Earlier(p, rec) == rec.by = p => rec.at < emitting[p].rec.at

NewestLast ==
  \A p \in Producers : Begun(p) =>
    /\ emitting[p].rec.by = p
    /\ emitting[p].rec.at <= time
    /\ \A q \in Positions : Earlier(p, RecordAt(q))
    /\ \A rec \in lost : Earlier(p, rec)

InThePast ==
  /\ \A q \in Positions : RecordAt(q).at <= time
  /\ \A rec \in lost : rec \in Record /\ rec.at <= time

Streamed == {RecordAt(q) : q \in Positions}
BeingPushed == {emitting[p].rec : p \in {r \in Producers : At(r, "push")}}

NothingElse ==
  /\ lost \cap Streamed = {}
  /\ made = Streamed \cup lost \cup BeingPushed
  /\ IsFiniteSet(lost) /\ counters.dropped = Cardinality(lost)

StreamInvariant == InOrder /\ NewestLast /\ InThePast /\ NothingElse

TraceInvariant == Types /\ GaugeInvariant /\ RingInvariant /\ StreamInvariant

-----------------------------------------------------------------------------
(***************************************************************************)
(* Remainders, and the least element of a set of numbers.                  *)
(***************************************************************************)
LEMMA ModUnique ==
  ASSUME NEW C \in Nat \ {0}, NEW a \in Nat, NEW q \in Int, NEW x \in 0 .. C - 1,
         a = C * q + x
  PROVE  a % C = x
  <1> DEFINE r == a \div C
             y == a % C
  <1>1. r \in Int /\ a = C * r + y /\ y \in 0 .. C - 1
    OBVIOUS
  <1> HIDE DEF r, y
  <1>2. C * (r - q) = x - y
    BY <1>1
  <1>3. CASE r - q >= 1
    <2>1. C * (r - q) >= C
      BY <1>1, <1>3
    <2>2. QED
      BY <1>1, <1>2, <2>1
  <1>4. CASE r - q <= -1
    <2>1. C * (r - q) <= -C
      BY <1>1, <1>4
    <2>2. QED
      BY <1>1, <1>2, <2>1
  <1>5. CASE r - q = 0
    BY <1>1, <1>2, <1>5 DEF y
  <1>6. QED
    BY <1>1, <1>3, <1>4, <1>5

LEMMA ModRange ==
  ASSUME NEW C \in Nat \ {0}, NEW a \in Nat
  PROVE  a % C \in 0 .. C - 1
  OBVIOUS

LEMMA ModPlus ==
  ASSUME NEW C \in Nat \ {0}, NEW a \in Nat
  PROVE  (a + C) % C = a % C
  <1> DEFINE q == a \div C
             x == a % C
  <1>1. q \in Int /\ a = C * q + x /\ x \in 0 .. C - 1
    OBVIOUS
  <1> HIDE DEF q, x
  <1>2. a + C = C * (q + 1) + x /\ q + 1 \in Int /\ a + C \in Nat
    BY <1>1
  <1>3. (a + C) % C = x
    BY <1>1, <1>2, ModUnique
  <1>4. QED
    BY <1>3 DEF x

\* Positions less than a lap apart have different slots.
LEMMA ModDistinct ==
  ASSUME NEW C \in Nat \ {0}, NEW a \in Nat, NEW b \in Nat, a < b, b < a + C
  PROVE  a % C # b % C
  <1> DEFINE q == a \div C
             r == b \div C
  <1>1. q \in Int /\ r \in Int /\ a = C * q + (a % C) /\ b = C * r + (b % C)
    OBVIOUS
  <1>2. ASSUME a % C = b % C PROVE FALSE
    <2>1. b - a = C * (r - q)
      BY <1>1, <1>2
    <2> HIDE DEF q, r
    <2>2. CASE r - q >= 1
      <3>1. C * (r - q) >= C
        BY <1>1, <2>2
      <3>2. QED
        BY <2>1, <3>1
    <2>3. CASE r - q <= 0
      <3>1. C * (r - q) <= 0
        BY <1>1, <2>3
      <3>2. QED
        BY <2>1, <3>1
    <2>4. QED
      BY <1>1, <2>2, <2>3
  <1>3. QED
    BY <1>2

\* Every slot is that of a position of the lap that begins at a.
LEMMA ModHit ==
  ASSUME NEW C \in Nat \ {0}, NEW a \in Nat, NEW i \in 0 .. C - 1
  PROVE  \E s \in a .. a + C - 1 : s % C = i
  <1> DEFINE q == a \div C
             x == a % C
  <1>1. q \in Int /\ a = C * q + x /\ x \in 0 .. C - 1
    OBVIOUS
  <1> HIDE DEF q, x
  <1>2. CASE i >= x
    <2>1. a - x + i = C * q + i /\ a - x + i \in Nat /\ a - x + i \in a .. a + C - 1
      BY <1>1, <1>2
    <2>2. (a - x + i) % C = i
      BY <1>1, <2>1, ModUnique
    <2>3. QED
      BY <2>1, <2>2
  <1>3. CASE i < x
    <2>1. a - x + i + C = C * (q + 1) + i /\ q + 1 \in Int
      BY <1>1, <1>3
    <2>2. a - x + i + C \in Nat /\ a - x + i + C \in a .. a + C - 1
      BY <1>1, <1>3
    <2>3. (a - x + i + C) % C = i
      BY <1>1, <2>1, <2>2, ModUnique
    <2>4. QED
      BY <2>2, <2>3
  <1>4. QED
    BY <1>1, <1>2, <1>3

\* The same for the positions of the ring.
LEMMA SlotFacts ==
  /\ Capacity \in Nat \ {0, 1}
  /\ \A a \in Nat : Slot(a) \in Slots /\ Slot(a + Capacity) = Slot(a)
  /\ \A a, b \in Nat : a < b /\ b < a + Capacity => Slot(a) # Slot(b)
  <1>1. Capacity \in Nat \ {0, 1} /\ Capacity \in Nat \ {0}
    BY TraceAssumption
  <1>2. \A a \in Nat : Slot(a) \in Slots /\ Slot(a + Capacity) = Slot(a)
    BY <1>1, ModRange, ModPlus DEF Slot, Slots
  <1>3. \A a, b \in Nat : a < b /\ b < a + Capacity => Slot(a) # Slot(b)
    BY <1>1, ModDistinct DEF Slot
  <1>4. QED
    BY <1>1, <1>2, <1>3

-----------------------------------------------------------------------------
LEMMA Limits ==
  /\ Capacity \in Nat \ {0, 1}
  /\ MaxRecords \in Nat /\ MaxBefore \in Nat /\ MaxBefore <= MaxRecords
  /\ MaxChords \in Nat /\ MaxInputs \in Nat /\ MaxPanics \in Nat
  /\ MaxScheduled \in Nat /\ OutputSlots \in Nat /\ MinGateSamples \in Nat
  BY TraceAssumption

LEMMA StartHolds == Init => TraceInvariant
  <1> SUFFICES ASSUME Init PROVE TraceInvariant
    OBVIOUS
  <1> USE Limits DEF Init
  <1>1. NoRecord \in Record /\ Idle \in Place /\ NoCount \in Counters
    BY DEF NoRecord, Idle, NoCount, Record, Place, Counters
  <1>2. Types
    <2>1. seq \in [Slots -> Nat] /\ value \in [Slots -> Record]
      BY <1>1 DEF Slots
    <2>2. emitting \in [Producers -> Place]
      BY <1>1
    <2>3. /\ counters \in Counters
          /\ player \in [sounding : BOOLEAN, scheduled : Nat, queued : Nat]
      BY <1>1
    <2>a. collector \in [running : BOOLEAN, copied : BOOLEAN]
      OBVIOUS
    <2>4. buffer \in Seq(Record)
      OBVIOUS
    <2>5. QED
      BY <2>1, <2>2, <2>3, <2>a, <2>4 DEF Types
  <1>3. \A p \in Producers : ~ At(p, "stamped") /\ ~ At(p, "push") /\ ~ At(p, "publish")
    BY DEF At, Idle
  <1>4. GaugeInvariant
    BY DEF GaugeInvariant
  <1>5. RingInvariant
    <2>1. Bounded
      BY DEF Bounded
    <2>2. Publishers
      BY <1>3 DEF Publishers
    <2>3. SlotsExpected
      <3>1. ASSUME NEW q \in 0 .. Capacity - 1
            PROVE  Slot(q) = q /\ q \in Slots
        <4>1. q = Capacity * 0 + q /\ q \in Nat /\ 0 \in Int /\ Capacity \in Nat \ {0}
          OBVIOUS
        <4>2. QED
          BY <4>1, ModUnique DEF Slot, Slots
      <3>2. \A q : ~ InHand(q)
        BY DEF InHand
      <3>3. QED
        BY <3>1, <3>2 DEF SlotsExpected, Expected
    <2>4. QED
      BY <2>1, <2>2, <2>3 DEF RingInvariant
  <1>6. StreamInvariant
    <2>1. Len(buffer) = 0 /\ dequeuePos = 0
      OBVIOUS
    <2>a. First = 0
      <3>1. First = 0 - 0
        BY <2>1, Zenon DEF First
      <3>2. QED
        BY <3>1
    <2>2. Positions = {}
      BY <2>a DEF Positions
    <2>3. Streamed = {} /\ BeingPushed = {}
      BY <2>2, <1>3 DEF Streamed, BeingPushed
    <2>4. InOrder /\ NewestLast /\ InThePast
      BY <2>2, <1>3 DEF InOrder, NewestLast, InThePast, Begun
    <2>5. IsFiniteSet(lost) /\ Cardinality(lost) = 0
      BY FS_EmptySet
    <2>6. NothingElse
      BY <2>3, <2>5 DEF NothingElse, NoCount
    <2>7. QED
      BY <2>4, <2>6 DEF StreamInvariant
  <1>7. QED
    BY <1>2, <1>4, <1>5, <1>6 DEF TraceInvariant
-----------------------------------------------------------------------------
(***************************************************************************)
(* Types.                                                                  *)
(***************************************************************************)
LEMMA StampTypes ==
  ASSUME Types, NEW p \in Producers, NEW stage \in Stages, NEW corr \in Nat,
         Stamped(p, stage, corr)
  PROVE  /\ emitting' \in [Producers -> Place]
         /\ time' \in 0 .. MaxRecords
  <1> USE Limits
  <1> DEFINE rec == [stage |-> stage, at |-> time + 1, corr |-> corr, by |-> p]
             place == [step |-> IF p = "dispatch" THEN "stamped" ELSE "push",
                       pos |-> enqueuePos, rec |-> rec]
  <1>1. rec \in Record
    BY DEF Types, Record
  <1>2. place \in Place
    BY <1>1 DEF Types, Place
  <1>3. emitting' = [emitting EXCEPT ![p] = place]
    BY DEF Stamped
  <1>4. emitting' \in [Producers -> Place]
    BY <1>2, <1>3 DEF Types
  <1>5. time' \in 0 .. MaxRecords
    <2>1. time < (IF collector.running THEN MaxRecords ELSE MaxBefore) /\ time' = time + 1
      BY DEF Stamped
    <2>2. time < MaxRecords /\ time \in Nat
      BY <2>1 DEF Types
    <2>3. QED
      BY <2>1, <2>2
  <1>6. QED
    BY <1>4, <1>5

LEMMA PlaceTypes ==
  ASSUME Types, NEW p \in Producers
  PROVE  /\ emitting[p].step \in {"idle", "stamped", "push", "publish"}
         /\ Pos(p) \in Nat /\ emitting[p].rec \in Record
  BY DEF Types, Place, Pos

LEMMA EmittingTypes ==
  ASSUME Types, NEW p \in Producers, Emitting(p)
  PROVE  Types'
  <1>1. CASE LoadContext(p)
    <2>a. correlation \in Nat
      BY Limits DEF Types
    <2>1. [emitting[p].rec EXCEPT !.corr = correlation] \in Record
      BY <2>a, PlaceTypes DEF Record
    <2>2. [step |-> "push", pos |-> enqueuePos,
           rec |-> [emitting[p].rec EXCEPT !.corr = correlation]] \in Place
      BY <2>1 DEF Place, Types
    <2>3. emitting' \in [Producers -> Place]
      BY <1>1, <2>2 DEF LoadContext, Types
    <2>4. QED
      BY <1>1, <2>3 DEF LoadContext, Types, ring, tracer
  <1>2. CASE ClaimCell(p)
    <2>1. [emitting[p] EXCEPT !.step = "publish"] \in Place
      BY DEF Types, Place
    <2>2. emitting' \in [Producers -> Place]
      BY <1>2, <2>1 DEF ClaimCell, Types
    <2>3. value' \in [Slots -> Record] /\ enqueuePos' \in Nat
      <3>1. Pos(p) \in Nat /\ emitting[p].rec \in Record
        BY PlaceTypes
      <3>2. enqueuePos' \in Nat
        BY <1>2, <3>1 DEF ClaimCell
      <3>3. value' = [value EXCEPT ![Slot(Pos(p))] = emitting[p].rec]
        BY <1>2 DEF ClaimCell
      <3>4. QED
        BY <3>1, <3>2, <3>3 DEF Types
    <2>4. QED
      BY <1>2, <2>2, <2>3 DEF ClaimCell, Types, tracer
  <1>3. CASE DropRecord(p)
    <2>1. emitting' \in [Producers -> Place]
      BY <1>3 DEF DropRecord, Ends, Types, Idle, NoRecord, Place, Record
    <2>2. counters' \in Counters
      <3>1. counters' = [counters EXCEPT !.dropped = counters.dropped + 1]
        BY <1>3 DEF DropRecord
      <3>2. counters \in Counters /\ counters.dropped + 1 \in Nat
        BY DEF Types, Counters
      <3>3. QED
        BY <3>1, <3>2 DEF Counters
    <2>3. QED
      BY <1>3, <2>1, <2>2 DEF DropRecord, Types, ring
  <1>4. CASE ReloadPos(p)
    <2>1. [emitting[p] EXCEPT !.pos = enqueuePos] \in Place
      BY DEF Types, Place
    <2>2. emitting' \in [Producers -> Place]
      BY <1>4, <2>1 DEF ReloadPos, Types
    <2>3. QED
      BY <1>4, <2>2 DEF ReloadPos, Types, ring, tracer
  <1>5. CASE PublishCell(p)
    <2>1. emitting' \in [Producers -> Place]
      BY <1>5 DEF PublishCell, Ends, Types, Idle, NoRecord, Place, Record
    <2>2. seq' \in [Slots -> Nat]
      <3>1. Pos(p) + 1 \in Nat
        BY PlaceTypes
      <3>2. QED
        BY <1>5, <3>1 DEF PublishCell, Types
    <2>3. QED
      BY <1>5, <2>1, <2>2 DEF PublishCell, Types, tracer
  <1>6. QED
    BY <1>1, <1>2, <1>3, <1>4, <1>5 DEF Emitting

\* What the trace points do to the ring, to the capture and to the gauge.
LEMMA TracePoints ==
  ASSUME Types, TracePoint
  PROVE  /\ UNCHANGED <<ring, collector, buffer, lost>>
         /\ counters'.dropped = counters.dropped
         /\ \/ \E p \in Producers, stage \in Stages, corr \in Nat :
                 Ready(p) /\ Stamped(p, stage, corr)
            \/ UNCHANGED <<emitting, time, made>>
  <1> USE Limits DEF Producers, Stages
  <1>1. counters \in Counters /\ correlation \in Nat /\ correlation + 1 \in Nat
    BY DEF Types
  <1>2. CASE InputNoteOn
    BY <1>1, <1>2 DEF InputNoteOn, Counters
  <1>3. CASE ChordConfirmed
    BY <1>1, <1>3 DEF ChordConfirmed
  <1>4. ASSUME NEW on \in BOOLEAN, DispatchNote(on)
        PROVE  /\ UNCHANGED <<ring, collector, buffer, lost>>
               /\ counters'.dropped = counters.dropped
               /\ \/ \E p \in Producers, stage \in Stages, corr \in Nat :
                       Ready(p) /\ Stamped(p, stage, corr)
                  \/ UNCHANGED <<emitting, time, made>>
    BY <1>1, <1>4 DEF DispatchNote, MarkAccompFirst, Counters
  <1>5. CASE OutputEnqueue
    BY <1>1, <1>5 DEF OutputEnqueue, Counters
  <1>6. CASE MidiSend
    BY <1>1, <1>6 DEF MidiSend, Counters
  <1>7. CASE SendNowhere
    BY <1>1, <1>7 DEF SendNowhere, tracer
  <1>8. CASE Panic
    BY <1>1, <1>8 DEF Panic, Counters
  <1>9. QED
    BY <1>2, <1>3, <1>4, <1>5, <1>6, <1>7, <1>8 DEF TracePoint, NoteOn, NoteOff

PlayerTypes ==
  /\ correlation \in 0 .. MaxChords /\ accomp \in 0 .. correlation
  /\ counters \in Counters
  /\ player \in [sounding : BOOLEAN, scheduled : Nat, queued : Nat]
  /\ GaugeInvariant

LEMMA PlayerStep ==
  ASSUME Types, GaugeInvariant, TracePoint
  PROVE  PlayerTypes'
  <1> USE Limits
  <1> DEFINE Player == [sounding : BOOLEAN, scheduled : Nat, queued : Nat]
  <1>1. /\ counters \in Counters /\ player \in Player
        /\ correlation \in 0 .. MaxChords /\ accomp \in 0 .. correlation
    BY DEF Types
  <1>a. player.sounding \in BOOLEAN /\ player.scheduled \in Nat /\ player.queued \in Nat
    BY <1>1
  <1>b. /\ counters.inputs \in Nat /\ counters.outputs \in Nat /\ counters.sends \in Nat
        /\ counters.active \in Nat /\ counters.overflows \in Nat /\ counters.panics \in Nat
    BY <1>1 DEF Counters
  <1>2. CASE InputNoteOn
    <2>1. counters' \in Counters /\ counters'.active = counters.active
      BY <1>1, <1>b, <1>2 DEF InputNoteOn, Counters
    <2>2. QED
      BY <1>1, <2>1, <1>2 DEF InputNoteOn, PlayerTypes, GaugeInvariant
  <1>3. CASE ChordConfirmed
    <2>1. PICK n \in Nat : player' = [player EXCEPT !.sounding = FALSE, !.scheduled = n]
      <3>1. PICK k \in {0, 1} :
              player' = [player EXCEPT !.sounding = FALSE, !.scheduled = player.scheduled + k]
        BY <1>3 DEF ChordConfirmed, Flushed
      <3>2. player.scheduled + k \in Nat
        BY <1>a
      <3>3. QED
        BY <3>1, <3>2
    <2>2. player' \in Player /\ player'.sounding = FALSE
      BY <1>1, <2>1
    <2>3. correlation' \in 0 .. MaxChords /\ accomp' \in 0 .. correlation'
      BY <1>1, <1>3 DEF ChordConfirmed
    <2>4. QED
      BY <1>1, <1>3, <2>2, <2>3 DEF ChordConfirmed, PlayerTypes, GaugeInvariant
  <1>4. ASSUME NEW on \in BOOLEAN, DispatchNote(on)
        PROVE  PlayerTypes'
    <2>1. on = TRUE \/ (on = FALSE /\ counters.active >= 1)
      BY <1>1, <1>a, <1>4 DEF DispatchNote, GaugeInvariant
    <2>2. counters' \in Counters /\ (on => counters'.active >= 1)
      BY <1>1, <1>b, <1>4, <2>1 DEF DispatchNote, Counters
    <2>3. PICK n \in Nat : player' = [player EXCEPT !.sounding = on, !.scheduled = n]
      <3>1. player.scheduled + 1 \in Nat
        BY <1>a
      <3>2. QED
        BY <1>4, <3>1 DEF DispatchNote
    <2>4. player' \in Player /\ player'.sounding = on
      BY <1>1, <2>3
    <2>5. correlation' = correlation /\ accomp' \in 0 .. correlation
      BY <1>1, <1>4 DEF DispatchNote, MarkAccompFirst
    <2>6. QED
      BY <1>1, <2>2, <2>4, <2>5 DEF PlayerTypes, GaugeInvariant
  <1>5. CASE OutputEnqueue
    <2>1. PICK k, n \in Nat : player' = [player EXCEPT !.scheduled = k, !.queued = n]
      <3>1. player.scheduled - 1 \in Nat /\ player.queued + 1 \in Nat
        BY <1>a, <1>5 DEF OutputEnqueue
      <3>2. PICK m \in {player.queued, player.queued + 1} :
              player' = [player EXCEPT !.scheduled = player.scheduled - 1, !.queued = m]
        BY <1>5 DEF OutputEnqueue
      <3>3. m \in Nat
        BY <1>a, <3>1
      <3>4. QED
        BY <3>1, <3>2, <3>3
    <2>3. player' \in Player /\ player'.sounding = player.sounding
      BY <1>1, <2>1
    <2>4. PICK i, j \in Nat : counters' = [counters EXCEPT !.outputs = i, !.overflows = j]
      <3>1. counters.outputs + 1 \in Nat /\ counters.overflows + 1 \in Nat
        BY <1>b
      <3>2. PICK m \in {counters.overflows, counters.overflows + 1} :
              counters' = [counters EXCEPT !.outputs = counters.outputs + 1, !.overflows = m]
        BY <1>5 DEF OutputEnqueue
      <3>3. m \in Nat
        BY <1>b, <3>1
      <3>4. QED
        BY <3>1, <3>2, <3>3
    <2>5. counters' \in Counters /\ counters'.active = counters.active
      BY <1>1, <2>4 DEF Counters
    <2>6. QED
      BY <1>1, <1>5, <2>3, <2>5 DEF OutputEnqueue, PlayerTypes, GaugeInvariant
  <1>6. CASE MidiSend
    <2>1. player.queued - 1 \in Nat
      BY <1>a, <1>6 DEF MidiSend
    <2>2. player' \in Player /\ player'.sounding = player.sounding
      BY <1>1, <1>6, <2>1 DEF MidiSend
    <2>3. counters' \in Counters /\ counters'.active = counters.active
      BY <1>1, <1>b, <1>6 DEF MidiSend, Counters
    <2>4. QED
      BY <1>1, <1>6, <2>2, <2>3 DEF MidiSend, PlayerTypes, GaugeInvariant
  <1>7. CASE SendNowhere
    <2>1. player.queued - 1 \in Nat
      BY <1>a, <1>7 DEF SendNowhere
    <2>2. player' \in Player /\ player'.sounding = player.sounding
      BY <1>1, <1>7, <2>1 DEF SendNowhere
    <2>3. QED
      BY <1>1, <1>7, <2>2 DEF SendNowhere, tracer, PlayerTypes, GaugeInvariant
  <1>8. CASE Panic
    <2>1. PICK n \in Nat : player' = [player EXCEPT !.sounding = FALSE, !.scheduled = n]
      BY <1>8 DEF Panic
    <2>2. player' \in Player /\ player'.sounding = FALSE
      BY <1>1, <2>1
    <2>3. counters' \in Counters
      BY <1>1, <1>b, <1>8 DEF Panic, Counters
    <2>4. QED
      BY <1>1, <1>8, <2>2, <2>3 DEF Panic, PlayerTypes, GaugeInvariant
  <1>9. QED
    BY <1>2, <1>3, <1>4, <1>5, <1>6, <1>7, <1>8 DEF TracePoint, NoteOn, NoteOff

LEMMA TracePointTypes ==
  ASSUME Types, GaugeInvariant, TracePoint
  PROVE  Types' /\ GaugeInvariant'
  <1>1. PlayerTypes' /\ UNCHANGED <<ring, collector, buffer>>
    BY PlayerStep, TracePoints
  <1>2. emitting' \in [Producers -> Place] /\ time' \in 0 .. MaxRecords
    BY TracePoints, StampTypes DEF Types
  <1>3. QED
    BY <1>1, <1>2 DEF Types, PlayerTypes, ring

LEMMA CollectingTypes ==
  ASSUME Types, GaugeInvariant, RingInvariant, Collecting
  PROVE  Types' /\ GaugeInvariant'
  <1> USE Limits
  <1>1. CASE Start
    <2>1. \A i \in Slots : \E s \in enqueuePos .. enqueuePos + Capacity - 1 : Slot(s) = i
      BY ModHit DEF Slot, Slots, Types
    <2>2. seq' \in [Slots -> Nat]
      <3>1. \A i \in Slots :
              (CHOOSE s \in enqueuePos .. enqueuePos + Capacity - 1 : Slot(s) = i) \in
                enqueuePos .. enqueuePos + Capacity - 1
        BY <2>1
      <3>2. enqueuePos .. enqueuePos + Capacity - 1 \subseteq Nat
        BY DEF Types
      <3>3. QED
        BY <1>1, <3>1, <3>2, Zenon DEF Start
    <2>3. counters' \in Counters /\ counters'.active = counters.active
      BY <1>1 DEF Start, WarmedUp, NoCount, Counters, Types
    <2>4. collector' \in [running : BOOLEAN, copied : BOOLEAN]
      BY <1>1 DEF Start, Types
    <2>5. correlation' \in 0 .. MaxChords /\ accomp' \in 0 .. correlation'
      BY <1>1 DEF Start
    <2>6. dequeuePos' \in Nat
      BY <1>1 DEF Start, Types
    <2>7. QED
      BY <1>1, <2>2, <2>3, <2>4, <2>5, <2>6 DEF Start, Types, GaugeInvariant
  <1>2. CASE PopCopy
    <2>1. Slot(dequeuePos) \in Slots
      BY SlotFacts DEF Types
    <2>2. buffer' \in Seq(Record)
      BY <1>2, <2>1 DEF PopCopy, Types
    <2>3. collector' \in [running : BOOLEAN, copied : BOOLEAN]
      BY <1>2 DEF PopCopy, Types
    <2>4. dequeuePos' \in Nat
      <3>1. dequeuePos \in Nat /\ dequeuePos' = dequeuePos + 1
        BY <1>2 DEF PopCopy, Types
      <3>2. QED
        BY <3>1
    <2>5. QED
      BY <1>2, <2>2, <2>3, <2>4 DEF PopCopy, Types, GaugeInvariant, tracer
  <1>3. CASE PopRelease
    <2>a. collector.copied
      BY <1>3 DEF PopRelease
    <2>b. 1 <= dequeuePos
      BY <2>a DEF RingInvariant, Bounded
    <2>1. dequeuePos - 1 + Capacity \in Nat
      BY <2>b DEF Types
    <2>2. seq' \in [Slots -> Nat]
      BY <1>3, <2>1 DEF PopRelease, Types
    <2>3. collector' \in [running : BOOLEAN, copied : BOOLEAN]
      BY <1>3 DEF PopRelease, Types
    <2>4. QED
      BY <1>3, <2>2, <2>3 DEF PopRelease, Types, GaugeInvariant, tracer
  <1>4. QED
    BY <1>1, <1>2, <1>3 DEF Collecting, DrainNow

-----------------------------------------------------------------------------
(***************************************************************************)
(* The ring.  A step that changes no cell, no position and nothing of a    *)
(* producer in its cell leaves it as it is.                                *)
(***************************************************************************)
LEMMA RingKept ==
  ASSUME RingInvariant, UNCHANGED <<ring, collector, buffer>>,
         \A p \in Producers :
           \/ emitting'[p] = emitting[p]
           \/ ~ At(p, "publish") /\ emitting'[p].step # "publish"
  PROVE  RingInvariant'
  <1>1. UNCHANGED <<seq, value, enqueuePos, dequeuePos, collector, buffer>>
    BY DEF ring
  <1>2. \A p \in Producers : At(p, "publish")' <=> At(p, "publish")
    BY DEF At
  <1>3. \A p \in Producers : At(p, "publish") => emitting'[p] = emitting[p]
    BY DEF At
  <1>4. \A p \in Producers : At(p, "publish") => Pos(p)' = Pos(p)
    BY <1>3 DEF Pos
  <1>5. \A q : Claimed(q)' <=> Claimed(q)
    BY <1>2, <1>4 DEF Claimed, Publishing
  <1>6. \A q : InHand(q)' <=> InHand(q)
    BY <1>1 DEF InHand
  <1>7. \A q : Expected(q)' = Expected(q)
    BY <1>1, <1>5, <1>6 DEF Expected
  <1>8. \A q : Slot(q)' = Slot(q)
    BY DEF Slot
  <1>9. Bounded'
    BY <1>1 DEF Bounded, RingInvariant
  <1>10. Publishers'
    BY <1>1, <1>2, <1>3, <1>4 DEF Publishers, RingInvariant, Slot
  <1>11. SlotsExpected'
    BY <1>1, <1>7 DEF SlotsExpected, RingInvariant, Slot
  <1>12. QED
    BY <1>9, <1>10, <1>11 DEF RingInvariant

\* What a successful check of the sequence number means.
LEMMA FreeIsFree ==
  ASSUME Types, RingInvariant, NEW p \in Producers, ClaimCell(p)
  PROVE  /\ Pos(p) = enqueuePos
         /\ enqueuePos < dequeuePos + Capacity
         /\ collector.copied => enqueuePos < dequeuePos + Capacity - 1
         /\ seq[Slot(enqueuePos)] = enqueuePos
  <1> USE SlotFacts
  <1>1. dequeuePos \in Nat /\ enqueuePos \in Nat /\ seq \in [Slots -> Nat]
    BY DEF Types
  <1>2. Pos(p) = enqueuePos /\ seq[Slot(Pos(p))] - Pos(p) = 0
    BY DEF ClaimCell, IsFree, Diff
  <1>3. seq[Slot(enqueuePos)] = enqueuePos
    <2>1. Slot(enqueuePos) \in Slots
      BY <1>1
    <2>2. seq[Slot(enqueuePos)] \in Nat
      BY <1>1, <2>1
    <2>3. seq[Slot(enqueuePos)] - enqueuePos = 0
      BY <1>2
    <2>4. QED
      BY <1>1, <2>2, <2>3
  <1>4. dequeuePos <= enqueuePos /\ enqueuePos <= dequeuePos + Capacity
    BY DEF RingInvariant, Bounded
  <1>5. enqueuePos # dequeuePos + Capacity
    <2>1. SUFFICES ASSUME enqueuePos = dequeuePos + Capacity PROVE FALSE
      OBVIOUS
    <2>2. Slot(enqueuePos) = Slot(dequeuePos)
      BY <1>1, <2>1
    <2>3. seq[Slot(dequeuePos)] = Expected(dequeuePos)
      BY <1>1 DEF RingInvariant, SlotsExpected
    <2>4. Expected(dequeuePos) \in {dequeuePos, dequeuePos + 1}
      BY <1>1, <2>1 DEF Expected
    <2>5. QED
      BY <1>1, <1>3, <2>1, <2>2, <2>3, <2>4
  <1>6. ASSUME collector.copied, enqueuePos = dequeuePos + Capacity - 1 PROVE FALSE
    <2>1. seq[Slot(enqueuePos)] = Expected(enqueuePos)
      BY <1>1, <1>4, <1>6 DEF RingInvariant, SlotsExpected
    <2>2. Expected(enqueuePos) = dequeuePos
      BY <1>1, <1>6 DEF Expected, InHand
    <2>3. QED
      BY <1>1, <1>3, <1>6, <2>1, <2>2
  <1>7. QED
    BY <1>1, <1>2, <1>3, <1>4, <1>5, <1>6

LEMMA ClaimRing ==
  ASSUME Types, RingInvariant, NEW p \in Producers, ClaimCell(p)
  PROVE  RingInvariant'
  <1> USE SlotFacts
  <1>1. /\ dequeuePos \in Nat /\ enqueuePos \in Nat /\ value \in [Slots -> Record]
        /\ emitting \in [Producers -> Place]
    BY DEF Types
  <1>2. /\ enqueuePos' = enqueuePos + 1
        /\ value' = [value EXCEPT ![Slot(enqueuePos)] = emitting[p].rec]
        /\ emitting' = [emitting EXCEPT ![p].step = "publish"]
        /\ UNCHANGED <<seq, dequeuePos, collector, buffer>>
    BY FreeIsFree DEF ClaimCell
  <1>3. /\ Pos(p) = enqueuePos /\ enqueuePos < dequeuePos + Capacity
        /\ collector.copied => enqueuePos < dequeuePos + Capacity - 1
        /\ seq[Slot(enqueuePos)] = enqueuePos
    BY FreeIsFree
  <1>4. /\ emitting'[p].step = "publish" /\ emitting'[p].pos = emitting[p].pos
        /\ emitting'[p].rec = emitting[p].rec
        /\ \A r \in Producers : r # p => emitting'[r] = emitting[r]
    BY <1>1, <1>2 DEF Place
  <1>5. /\ At(p, "publish")' /\ ~ At(p, "publish")
        /\ \A r \in Producers : Pos(r)' = Pos(r)
        /\ \A r \in Producers : r # p => (At(r, "publish")' <=> At(r, "publish"))
    BY <1>4 DEF At, Pos, ClaimCell
  <1>6. dequeuePos <= enqueuePos
    BY DEF RingInvariant, Bounded
  <1>7. Bounded'
    <2>1. dequeuePos' <= enqueuePos' /\ enqueuePos' <= dequeuePos' + Capacity
      BY <1>1, <1>2, <1>3, <1>6
    <2>2. collector.copied => enqueuePos' < dequeuePos + Capacity
      BY <1>1, <1>2, <1>3
    <2>3. QED
      BY <1>2, <2>1, <2>2 DEF Bounded, RingInvariant
  <1>8. Publishers'
    <2>1. ASSUME NEW r \in Producers, r # p, At(r, "publish")
          PROVE  /\ Pos(r) \in dequeuePos .. enqueuePos - 1
                 /\ value'[Slot(Pos(r))] = emitting[r].rec
      <3>1. Pos(r) \in dequeuePos .. enqueuePos - 1 /\ value[Slot(Pos(r))] = emitting[r].rec
        BY <2>1 DEF RingInvariant, Publishers
      <3>2. Pos(r) \in Nat /\ Pos(r) < enqueuePos /\ enqueuePos < Pos(r) + Capacity
        BY <1>1, <1>3, <3>1
      <3>3. Slot(Pos(r)) # Slot(enqueuePos) /\ Slot(Pos(r)) \in Slots
        BY <1>1, <3>2
      <3>4. QED
        BY <1>1, <1>2, <3>1, <3>3
    <2>2. value'[Slot(Pos(p))] = emitting'[p].rec
      BY <1>1, <1>2, <1>3, <1>4
    <2>3. ASSUME NEW r \in Producers, At(r, "publish")'
          PROVE  Pos(r)' \in dequeuePos' .. enqueuePos' - 1 /\ value'[Slot(Pos(r)')] = emitting'[r].rec
      <3>1. CASE r = p
        BY <1>1, <1>2, <1>3, <1>5, <1>6, <2>2, <3>1
      <3>2. CASE r # p
        <4>1. Pos(r)' = Pos(r) /\ At(r, "publish") /\ emitting'[r] = emitting[r]
          BY <1>4, <1>5, <2>3, <3>2
        <4>2. Pos(r) \in dequeuePos .. enqueuePos - 1 /\ value'[Slot(Pos(r))] = emitting[r].rec
          BY <2>1, <3>2, <4>1
        <4>3. Pos(r) \in dequeuePos' .. enqueuePos' - 1
          BY <1>1, <1>2, <4>2
        <4>4. QED
          BY <4>1, <4>2, <4>3
      <3>3. QED
        BY <3>1, <3>2
    <2>4. ASSUME NEW r \in Producers, NEW t \in Producers,
                 At(r, "publish")', At(t, "publish")', r # t
          PROVE  Pos(r)' # Pos(t)'
      <3>1. \A u \in Producers : u # p /\ At(u, "publish") => Pos(u) # enqueuePos
        BY <1>1, <2>1
      <3>2. QED
        BY <1>3, <1>5, <2>4, <3>1 DEF RingInvariant, Publishers
    <2>5. QED
      BY <2>3, <2>4 DEF Publishers, Slot
  <1>9. SlotsExpected'
    <2>1. ASSUME NEW q \in dequeuePos .. dequeuePos + Capacity - 1
          PROVE  seq[Slot(q)] = Expected(q)'
      <3>1. seq[Slot(q)] = Expected(q)
        BY DEF RingInvariant, SlotsExpected
      <3>2. InHand(q)' <=> InHand(q)
        BY <1>2 DEF InHand
      <3>3. CASE q = enqueuePos
        <4>1. Claimed(q)' /\ q < enqueuePos'
          BY <1>1, <1>2, <1>3, <1>5, <3>3 DEF Claimed, Publishing
        <4>2. Expected(q)' = q
          BY <4>1 DEF Expected
        <4>3. QED
          BY <1>3, <3>3, <4>2
      <3>4. CASE q # enqueuePos
        <4>1. (q < enqueuePos') <=> (q < enqueuePos)
          BY <1>1, <1>2, <3>4
        <4>2. Claimed(q)' <=> Claimed(q)
          BY <1>3, <1>5, <3>4 DEF Claimed, Publishing
        <4>3. Expected(q)' = Expected(q)
          BY <1>2, <3>2, <4>1, <4>2 DEF Expected
        <4>4. QED
          BY <3>1, <4>3
      <3>5. QED
        BY <3>3, <3>4
    <2>2. QED
      BY <1>2, <2>1 DEF SlotsExpected, Slot
  <1>10. QED
    BY <1>7, <1>8, <1>9 DEF RingInvariant

LEMMA PublishRing ==
  ASSUME Types, RingInvariant, NEW p \in Producers, PublishCell(p)
  PROVE  RingInvariant'
  <1> USE SlotFacts
  <1>1. /\ dequeuePos \in Nat /\ enqueuePos \in Nat /\ seq \in [Slots -> Nat]
        /\ emitting \in [Producers -> Place]
    BY DEF Types
  <1>2. /\ At(p, "publish")
        /\ seq' = [seq EXCEPT ![Slot(Pos(p))] = Pos(p) + 1]
        /\ emitting' = [emitting EXCEPT ![p] = Idle]
        /\ UNCHANGED <<value, enqueuePos, dequeuePos, collector, buffer>>
    BY DEF PublishCell, Ends
  <1>3. Pos(p) \in dequeuePos .. enqueuePos - 1
    BY <1>2 DEF RingInvariant, Publishers
  <1>4. ~ At(p, "publish")' /\ \A r \in Producers : r # p => emitting'[r] = emitting[r]
    BY <1>1, <1>2 DEF At, Idle
  <1>5. \A r \in Producers :
          r # p => Pos(r)' = Pos(r) /\ (At(r, "publish")' <=> At(r, "publish"))
    BY <1>4 DEF At, Pos
  <1>6. Bounded'
    BY <1>2 DEF Bounded, RingInvariant
  <1>7. Publishers'
    <2>1. ASSUME NEW r \in Producers, At(r, "publish")'
          PROVE  /\ r # p /\ At(r, "publish") /\ Pos(r)' = Pos(r)
                 /\ Pos(r) \in dequeuePos .. enqueuePos - 1
                 /\ value[Slot(Pos(r))] = emitting[r].rec
                 /\ emitting'[r] = emitting[r]
      BY <1>4, <1>5, <2>1 DEF RingInvariant, Publishers
    <2>2. \A r, t \in Producers :
            At(r, "publish")' /\ At(t, "publish")' /\ r # t => Pos(r)' # Pos(t)'
      BY <2>1 DEF RingInvariant, Publishers
    <2>3. QED
      BY <1>2, <2>1, <2>2 DEF Publishers, Slot
  <1>8. SlotsExpected'
    <2>1. ASSUME NEW q \in dequeuePos .. dequeuePos + Capacity - 1
          PROVE  seq'[Slot(q)] = Expected(q)'
      <3>1. seq[Slot(q)] = Expected(q) /\ q \in Nat
        BY <1>1 DEF RingInvariant, SlotsExpected
      <3>2. InHand(q)' <=> InHand(q)
        BY <1>2 DEF InHand
      <3>3. CASE q = Pos(p)
        <4>1. ~ Claimed(q)'
          BY <1>2, <1>4, <1>5, <3>3 DEF Claimed, Publishing, RingInvariant, Publishers
        <4>2. q < enqueuePos'
          BY <1>1, <1>2, <1>3, <3>3
        <4>3. Expected(q)' = q + 1
          BY <4>1, <4>2 DEF Expected
        <4>4. Slot(q) \in Slots
          BY <3>1
        <4>5. QED
          BY <1>1, <1>2, <3>3, <4>3, <4>4
      <3>4. CASE q # Pos(p)
        <4>1. Claimed(q)' <=> Claimed(q)
          BY <1>4, <1>5, <3>4 DEF Claimed, Publishing
        <4>2. Expected(q)' = Expected(q)
          BY <1>2, <3>2, <4>1 DEF Expected
        <4>a. Pos(p) \in Nat /\ q \in Nat
          BY <1>1, <1>3
        <4>3. q < Pos(p) \/ Pos(p) < q
          BY <3>4, <4>a
        <4>4. q < Pos(p) + Capacity /\ Pos(p) < q + Capacity
          <5>1. enqueuePos <= dequeuePos + Capacity
            BY DEF RingInvariant, Bounded
          <5>2. QED
            BY <1>1, <1>3, <5>1
        <4>5. Slot(q) # Slot(Pos(p)) /\ Slot(q) \in Slots
          BY <4>a, <4>3, <4>4
        <4>6. QED
          BY <1>1, <1>2, <3>1, <4>2, <4>5
      <3>5. QED
        BY <3>3, <3>4
    <2>2. QED
      BY <1>2, <2>1 DEF SlotsExpected, Slot
  <1>9. QED
    BY <1>6, <1>7, <1>8 DEF RingInvariant

LEMMA StartRing ==
  ASSUME Types, RingInvariant, Start
  PROVE  RingInvariant'
  <1> USE SlotFacts
  <1>1. dequeuePos \in Nat /\ enqueuePos \in Nat
    BY DEF Types
  <1>2. /\ dequeuePos' = enqueuePos /\ enqueuePos' = enqueuePos
        /\ seq' = [i \in Slots |->
              CHOOSE s \in enqueuePos .. enqueuePos + Capacity - 1 : Slot(s) = i]
        /\ UNCHANGED <<value, emitting, buffer>>
    BY DEF Start
  <1>3. ~ collector.copied /\ collector'.running /\ ~ collector'.copied
    BY DEF Start, RingInvariant, Bounded, Types
  <1>4. \A p \in Producers : ~ At(p, "publish")'
    BY <1>2 DEF Start, AllReady, Ready, At
  <1>5. Bounded'
    BY <1>1, <1>2, <1>3 DEF Bounded
  <1>6. Publishers'
    BY <1>4 DEF Publishers
  <1>7. ASSUME NEW q \in enqueuePos .. enqueuePos + Capacity - 1
        PROVE  seq'[Slot(q)] = q /\ Expected(q)' = q
    <2>1. q \in Nat /\ Slot(q) \in Slots
      BY <1>1
    <2>2. \A s \in enqueuePos .. enqueuePos + Capacity - 1 : Slot(s) = Slot(q) => s = q
      <3>1. SUFFICES ASSUME NEW s \in enqueuePos .. enqueuePos + Capacity - 1, s # q
                     PROVE  Slot(s) # Slot(q)
        OBVIOUS
      <3>2. s \in Nat /\ (s < q \/ q < s) /\ s < q + Capacity /\ q < s + Capacity
        BY <1>1, <2>1, <3>1
      <3>3. QED
        BY <2>1, <3>2
    <2>3. (CHOOSE s \in enqueuePos .. enqueuePos + Capacity - 1 : Slot(s) = Slot(q)) = q
      BY <2>2
    <2>4. seq'[Slot(q)] = q
      BY <1>2, <2>1, <2>3
    <2>5. ~ (q < enqueuePos') /\ ~ InHand(q)'
      BY <1>1, <1>2, <1>3 DEF InHand
    <2>6. QED
      BY <2>4, <2>5 DEF Expected
  <1>8. SlotsExpected'
    BY <1>2, <1>7 DEF SlotsExpected, Slot
  <1>9. QED
    BY <1>5, <1>6, <1>8 DEF RingInvariant

\* What the collector finds unread is a published record.
LEMMA UnreadIsThere ==
  ASSUME Types, RingInvariant, PopCopy
  PROVE  dequeuePos < enqueuePos /\ ~ Claimed(dequeuePos)
  <1> USE SlotFacts
  <1>1. dequeuePos \in Nat /\ enqueuePos \in Nat
    BY DEF Types
  <1>2. seq[Slot(dequeuePos)] = dequeuePos + 1 /\ ~ collector.copied
    BY DEF PopCopy, Unread
  <1>3. seq[Slot(dequeuePos)] = Expected(dequeuePos)
    BY <1>1 DEF RingInvariant, SlotsExpected
  <1>4. ~ InHand(dequeuePos)
    BY <1>2 DEF InHand
  <1>5. QED
    BY <1>1, <1>2, <1>3, <1>4 DEF Expected

LEMMA CopyRing ==
  ASSUME Types, RingInvariant, PopCopy
  PROVE  RingInvariant'
  <1> USE SlotFacts
  <1>1. dequeuePos \in Nat /\ enqueuePos \in Nat
    BY DEF Types
  <1>2. /\ dequeuePos' = dequeuePos + 1
        /\ UNCHANGED <<seq, value, enqueuePos, emitting>>
        /\ collector'.copied /\ collector'.running /\ ~ collector.copied
        /\ seq[Slot(dequeuePos)] = dequeuePos + 1
    BY DEF PopCopy, Types, Unread
  <1>3. dequeuePos < enqueuePos /\ ~ Claimed(dequeuePos)
        /\ enqueuePos <= dequeuePos + Capacity
    BY UnreadIsThere DEF RingInvariant, Bounded
  <1>4. Bounded'
    <2>1. dequeuePos' <= enqueuePos' /\ enqueuePos' < dequeuePos' + Capacity /\ 1 <= dequeuePos'
      BY <1>1, <1>2, <1>3
    <2>2. enqueuePos' <= dequeuePos' + Capacity
      BY <1>1, <1>2, <2>1
    <2>3. QED
      BY <1>2, <2>1, <2>2 DEF Bounded
  <1>5. \A q : Claimed(q)' <=> Claimed(q)
    BY <1>2 DEF Claimed, Publishing, At, Pos
  <1>6. Publishers'
    <2>1. ASSUME NEW p \in Producers, At(p, "publish")
          PROVE  /\ Pos(p) \in dequeuePos + 1 .. enqueuePos - 1
                 /\ value[Slot(Pos(p))] = emitting[p].rec
      <3>1. /\ Pos(p) \in dequeuePos .. enqueuePos - 1
            /\ value[Slot(Pos(p))] = emitting[p].rec
        BY <2>1 DEF RingInvariant, Publishers
      <3>2. Pos(p) # dequeuePos
        BY <1>3, <2>1 DEF Claimed, Publishing
      <3>3. QED
        BY <1>1, <3>1, <3>2
    <2>2. \A p, r \in Producers :
            At(p, "publish") /\ At(r, "publish") /\ p # r => Pos(p) # Pos(r)
      BY DEF RingInvariant, Publishers
    <2>3. \A p \in Producers :
            (At(p, "publish")' <=> At(p, "publish")) /\ Pos(p)' = Pos(p)
      BY <1>2 DEF At, Pos
    <2>4. ASSUME NEW p \in Producers, At(p, "publish")'
          PROVE  /\ Pos(p)' \in dequeuePos' .. enqueuePos' - 1
                 /\ value'[Slot(Pos(p)')] = emitting'[p].rec
      <3>1. At(p, "publish") /\ Pos(p)' = Pos(p) /\ emitting'[p] = emitting[p]
        BY <1>2, <2>3, <2>4
      <3>2. /\ Pos(p) \in dequeuePos + 1 .. enqueuePos - 1
            /\ value[Slot(Pos(p))] = emitting[p].rec
        BY <3>1, <2>1
      <3>3. QED
        BY <1>2, <3>1, <3>2
    <2>5. \A p, r \in Producers :
            At(p, "publish")' /\ At(r, "publish")' /\ p # r => Pos(p)' # Pos(r)'
      BY <2>3, <2>2
    <2>6. QED
      BY <2>4, <2>5 DEF Publishers, Slot
  <1>7. ASSUME NEW q \in dequeuePos + 1 .. dequeuePos + Capacity
        PROVE  seq[Slot(q)] = Expected(q)'
    <2>1. CASE q = dequeuePos + Capacity
      <3>1. Slot(q) = Slot(dequeuePos)
        BY <1>1, <2>1
      <3>2. ~ (q < enqueuePos') /\ InHand(q)'
        BY <1>1, <1>2, <1>3, <2>1 DEF InHand
      <3>3. Expected(q)' = dequeuePos + 1
        BY <1>2, <3>2 DEF Expected
      <3>4. QED
        BY <1>2, <3>1, <3>3
    <2>2. CASE q # dequeuePos + Capacity
      <3>1. q \in dequeuePos .. dequeuePos + Capacity - 1
        BY <1>1, <2>2
      <3>2. seq[Slot(q)] = Expected(q)
        BY <3>1 DEF RingInvariant, SlotsExpected
      <3>3. ~ InHand(q) /\ ~ InHand(q)'
        BY <1>1, <1>2, <2>2 DEF InHand
      <3>4. Expected(q)' = Expected(q)
        BY <1>2, <1>5, <3>3 DEF Expected
      <3>5. QED
        BY <3>2, <3>4
    <2>3. QED
      BY <2>1, <2>2
  <1>8. SlotsExpected'
    <2>1. \A q \in dequeuePos' .. dequeuePos' + Capacity - 1 :
            q \in dequeuePos + 1 .. dequeuePos + Capacity
      BY <1>1, <1>2
    <2>2. QED
      BY <1>2, <1>7, <2>1 DEF SlotsExpected, Slot
  <1>9. QED
    BY <1>4, <1>6, <1>8 DEF RingInvariant

LEMMA ReleaseRing ==
  ASSUME Types, RingInvariant, PopRelease
  PROVE  RingInvariant'
  <1> USE SlotFacts
  <1>1. dequeuePos \in Nat /\ enqueuePos \in Nat /\ seq \in [Slots -> Nat]
    BY DEF Types
  <1>2. /\ seq' = [seq EXCEPT ![Slot(dequeuePos - 1)] = dequeuePos - 1 + Capacity]
        /\ UNCHANGED <<value, enqueuePos, dequeuePos, emitting, buffer>>
        /\ collector.copied /\ ~ collector'.copied /\ collector'.running = collector.running
    BY DEF PopRelease, Types
  <1>3. /\ 1 <= dequeuePos /\ dequeuePos <= enqueuePos
        /\ enqueuePos < dequeuePos + Capacity
        /\ collector.running
    BY <1>2 DEF RingInvariant, Bounded
  <1>a. enqueuePos <= dequeuePos + Capacity
    BY <1>1, <1>3
  <1>4. Bounded'
    BY <1>1, <1>2, <1>3, <1>a DEF Bounded
  <1>5. \A q : Claimed(q)' <=> Claimed(q)
    BY <1>2 DEF Claimed, Publishing, At, Pos
  <1>6. Publishers'
    <2>1. \A p \in Producers :
            (At(p, "publish")' <=> At(p, "publish")) /\ Pos(p)' = Pos(p)
      BY <1>2 DEF At, Pos
    <2>2. ASSUME NEW p \in Producers, At(p, "publish")'
          PROVE  /\ Pos(p)' \in dequeuePos' .. enqueuePos' - 1
                 /\ value'[Slot(Pos(p)')] = emitting'[p].rec
      <3>1. At(p, "publish") /\ Pos(p)' = Pos(p) /\ emitting'[p] = emitting[p]
        BY <1>2, <2>1, <2>2
      <3>2. /\ Pos(p) \in dequeuePos .. enqueuePos - 1
            /\ value[Slot(Pos(p))] = emitting[p].rec
        BY <3>1 DEF RingInvariant, Publishers
      <3>3. QED
        BY <1>2, <3>1, <3>2
    <2>3. \A p, r \in Producers :
            At(p, "publish")' /\ At(r, "publish")' /\ p # r => Pos(p)' # Pos(r)'
      BY <2>1 DEF RingInvariant, Publishers
    <2>4. QED
      BY <2>2, <2>3 DEF Publishers, Slot
  <1>7. dequeuePos - 1 \in Nat /\ dequeuePos - 1 + Capacity = dequeuePos + Capacity - 1
    BY <1>1, <1>3
  <1>8. Slot(dequeuePos + Capacity - 1) = Slot(dequeuePos - 1) /\ Slot(dequeuePos - 1) \in Slots
    BY <1>7
  <1>9. ASSUME NEW q \in dequeuePos .. dequeuePos + Capacity - 1
        PROVE  seq'[Slot(q)] = Expected(q)'
    <2>1. ~ InHand(q)'
      BY <1>2 DEF InHand
    <2>2. CASE q = dequeuePos + Capacity - 1
      <3>1. ~ (q < enqueuePos')
        BY <1>1, <1>2, <1>3, <2>2
      <3>2. Expected(q)' = q
        BY <2>1, <3>1 DEF Expected
      <3>3. seq'[Slot(q)] = dequeuePos - 1 + Capacity
        BY <1>1, <1>2, <1>8, <2>2
      <3>4. QED
        BY <1>7, <2>2, <3>2, <3>3
    <2>3. CASE q # dequeuePos + Capacity - 1
      <3>1. seq[Slot(q)] = Expected(q)
        BY DEF RingInvariant, SlotsExpected
      <3>2. ~ InHand(q)
        BY <2>3 DEF InHand
      <3>3. Expected(q)' = Expected(q)
        BY <1>2, <1>5, <2>1, <3>2 DEF Expected
      <3>4. q \in Nat /\ dequeuePos - 1 < q /\ q < dequeuePos - 1 + Capacity
        BY <1>1, <2>3
      <3>5. Slot(q) # Slot(dequeuePos - 1) /\ Slot(q) \in Slots
        BY <1>7, <3>4
      <3>6. QED
        BY <1>1, <1>2, <3>1, <3>3, <3>5
    <2>4. QED
      BY <2>2, <2>3
  <1>10. SlotsExpected'
    BY <1>2, <1>9 DEF SlotsExpected, Slot
  <1>11. QED
    BY <1>4, <1>6, <1>10 DEF RingInvariant

-----------------------------------------------------------------------------
(***************************************************************************)
(* The stream.                                                             *)
(***************************************************************************)
LEMMA StreamTypes ==
  ASSUME Types
  PROVE  /\ Len(buffer) \in Nat /\ First \in Int
         /\ \A q \in Positions : q \in Int /\ RecordAt(q) \in Record
  <1> USE SlotFacts
  <1>1. dequeuePos \in Nat /\ enqueuePos \in Nat /\ value \in [Slots -> Record]
    BY DEF Types
  <1>a. buffer \in Seq(Record)
    BY DEF Types
  <1>2. Len(buffer) \in Nat /\ \A i \in 1 .. Len(buffer) : buffer[i] \in Record
    BY <1>a, ElementOfSeq, LenProperties
  <1>3. First \in Int /\ dequeuePos - First = Len(buffer)
    BY <1>1, <1>2 DEF First
  <1>4. ASSUME NEW q \in Positions
        PROVE  q \in Int /\ RecordAt(q) \in Record
    <2>1. q \in Int /\ First <= q /\ q < enqueuePos
      BY <1>1, <1>3, <1>4 DEF Positions
    <2>2. CASE q < dequeuePos
      <3>1. q - First + 1 \in 1 .. Len(buffer)
        BY <1>1, <1>2, <1>3, <2>1, <2>2
      <3>2. QED
        BY <1>2, <2>1, <2>2, <3>1 DEF RecordAt
    <2>3. CASE ~ (q < dequeuePos)
      <3>1. q \in Nat
        BY <1>1, <2>1, <2>3
      <3>2. QED
        BY <1>1, <2>1, <2>3, <3>1 DEF RecordAt
    <2>4. QED
      BY <2>2, <2>3
  <1>5. QED
    BY <1>2, <1>3, <1>4

SameStream ==
  Positions' = Positions /\ \A q \in Positions : RecordAt(q)' = RecordAt(q)

LEMMA StreamedKept ==
  ASSUME SameStream
  PROVE  Streamed' = Streamed
  BY DEF SameStream, Streamed

LEMMA StandingStream ==
  ASSUME UNCHANGED <<value, enqueuePos, dequeuePos, buffer>>
  PROVE  SameStream
  <1>1. First' = First
    BY DEF First
  <1>2. Positions' = Positions
    BY <1>1 DEF Positions
  <1>3. \A q : RecordAt(q)' = RecordAt(q)
    BY <1>1 DEF RecordAt, Slot
  <1>4. QED
    BY <1>2, <1>3 DEF SameStream

\* A pop moves a record from the ring to the buffer, at the same position.
LEMMA CopyStream ==
  ASSUME Types, RingInvariant, PopCopy
  PROVE  SameStream
  <1> USE SlotFacts
  <1>1. /\ dequeuePos \in Nat /\ enqueuePos \in Nat /\ value \in [Slots -> Record]
        /\ Len(buffer) \in Nat /\ First \in Int /\ buffer \in Seq(Record)
    BY StreamTypes DEF Types
  <1>2. /\ dequeuePos' = dequeuePos + 1
        /\ buffer' = Append(buffer, value[Slot(dequeuePos)])
        /\ UNCHANGED <<value, enqueuePos>>
    BY DEF PopCopy
  <1>3. value[Slot(dequeuePos)] \in Record
    BY <1>1
  <1>4. /\ Len(buffer') = Len(buffer) + 1
        /\ buffer'[Len(buffer) + 1] = value[Slot(dequeuePos)]
        /\ \A i \in 1 .. Len(buffer) : buffer'[i] = buffer[i]
    BY <1>1, <1>2, <1>3, AppendProperties
  <1>5. dequeuePos - First = Len(buffer)
    BY <1>1 DEF First
  <1>a. /\ dequeuePos \in Nat /\ Len(buffer) \in Nat /\ First \in Int
        /\ dequeuePos' = dequeuePos + 1
    BY <1>1, <1>2
  <1>6. First' = First
    BY <1>1, <1>2, <1>4 DEF First
  <1>7. Positions' = Positions
    BY <1>2, <1>6 DEF Positions
  <1>8. ASSUME NEW q \in Positions
        PROVE  RecordAt(q)' = RecordAt(q)
    <2>1. q \in Int /\ First <= q /\ q < enqueuePos
      BY <1>1, <1>8 DEF Positions
    <2>2. CASE q < dequeuePos
      <3>1. q < dequeuePos' /\ q - First + 1 \in 1 .. Len(buffer)
        BY <1>a, <1>5, <2>1, <2>2, SMTT(30)
      <3>2. RecordAt(q)' = buffer'[q - First + 1] /\ RecordAt(q) = buffer[q - First + 1]
        BY <1>6, <2>2, <3>1 DEF RecordAt
      <3>3. QED
        BY <1>4, <3>1, <3>2
    <2>3. CASE q = dequeuePos
      <3>1. q < dequeuePos' /\ q - First + 1 = Len(buffer) + 1 /\ ~ (q < dequeuePos)
        BY <1>a, <1>5, <2>3, SMTT(30)
      <3>2. RecordAt(q)' = buffer'[q - First + 1] /\ RecordAt(q) = value[Slot(dequeuePos)]
        BY <1>6, <2>3, <3>1 DEF RecordAt
      <3>3. QED
        BY <1>4, <3>1, <3>2
    <2>4. CASE q > dequeuePos
      <3>1. ~ (q < dequeuePos') /\ ~ (q < dequeuePos)
        BY <1>1, <1>2, <2>1, <2>4
      <3>2. QED
        BY <1>2, <3>1 DEF RecordAt, Slot
    <2>5. QED
      BY <1>1, <2>1, <2>2, <2>3, <2>4
  <1>9. QED
    BY <1>7, <1>8 DEF SameStream

\* A claim puts the record behind all the others.
LEMMA ClaimStream ==
  ASSUME Types, RingInvariant, NEW p \in Producers, ClaimCell(p)
  PROVE  /\ Positions' = Positions \cup {enqueuePos}
         /\ \A q \in Positions : q < enqueuePos /\ RecordAt(q)' = RecordAt(q)
         /\ \A q : q = enqueuePos => RecordAt(q)' = emitting[p].rec
  <1> USE SlotFacts
  <1>1. /\ dequeuePos \in Nat /\ enqueuePos \in Nat /\ value \in [Slots -> Record]
        /\ Len(buffer) \in Nat /\ First \in Int
    BY StreamTypes DEF Types
  <1>2. /\ enqueuePos' = enqueuePos + 1
        /\ value' = [value EXCEPT ![Slot(enqueuePos)] = emitting[p].rec]
        /\ UNCHANGED <<dequeuePos, buffer>>
    BY FreeIsFree DEF ClaimCell
  <1>3. enqueuePos < dequeuePos + Capacity /\ dequeuePos <= enqueuePos
    BY FreeIsFree DEF RingInvariant, Bounded
  <1>4. First' = First /\ First <= dequeuePos
    BY <1>1, <1>2 DEF First
  <1>5. Positions' = Positions \cup {enqueuePos}
    <2>a. /\ enqueuePos \in Nat /\ dequeuePos \in Nat /\ First \in Int
          /\ First <= enqueuePos /\ enqueuePos' - 1 = enqueuePos
      BY <1>1, <1>2, <1>3, <1>4
    <2>1. First .. enqueuePos' - 1 = (First .. enqueuePos - 1) \cup {enqueuePos}
      BY <2>a
    <2>2. QED
      BY <1>4, <2>1 DEF Positions
  <1>6. ASSUME NEW q \in Positions
        PROVE  q < enqueuePos /\ RecordAt(q)' = RecordAt(q)
    <2>1. q \in Int /\ First <= q /\ q < enqueuePos
      BY <1>1, <1>6 DEF Positions
    <2>2. CASE q < dequeuePos
      BY <1>2, <1>4, <2>1, <2>2 DEF RecordAt
    <2>3. CASE ~ (q < dequeuePos)
      <3>1. q \in Nat /\ enqueuePos < q + Capacity
        BY <1>1, <1>3, <2>1, <2>3
      <3>2. Slot(q) # Slot(enqueuePos) /\ Slot(q) \in Slots
        BY <1>1, <2>1, <3>1
      <3>3. value'[Slot(q)] = value[Slot(q)]
        BY <1>1, <1>2, <3>2
      <3>4. QED
        BY <1>2, <2>1, <2>3, <3>3 DEF RecordAt, Slot
    <2>4. QED
      BY <2>2, <2>3
  <1>7. \A q : q = enqueuePos => RecordAt(q)' = emitting[p].rec
    <2>1. ~ (enqueuePos < dequeuePos) /\ Slot(enqueuePos) \in Slots
      BY <1>1, <1>3
    <2>2. value'[Slot(enqueuePos)] = emitting[p].rec
      BY <1>1, <1>2, <2>1
    <2>3. \A q : ~ (q < dequeuePos) => RecordAt(q)' = value'[Slot(q)]
      BY <1>2 DEF RecordAt, Slot
    <2>4. QED
      BY <2>1, <2>2, <2>3
  <1>8. QED
    BY <1>5, <1>6, <1>7

(***************************************************************************)
(* The stream's invariant, by what a step does to what is begun, lost and  *)
(* made.                                                                   *)
(***************************************************************************)
LEMMA StreamKept ==
  ASSUME StreamInvariant, SameStream, UNCHANGED <<time, made, lost>>,
         counters'.dropped = counters.dropped,
         \A p \in Producers :
           /\ At(p, "stamped")' <=> At(p, "stamped")
           /\ At(p, "push")' <=> At(p, "push")
           /\ Begun(p) => emitting'[p].rec = emitting[p].rec
  PROVE  StreamInvariant'
  <1>1. \A p \in Producers : Begun(p)' <=> Begun(p)
    BY DEF Begun
  <1>2. InOrder'
    BY DEF InOrder, StreamInvariant, SameStream
  <1>3. NewestLast'
    <2>1. ASSUME NEW p \in Producers, Begun(p)'
          PROVE  /\ emitting'[p].rec.by = p
                 /\ emitting'[p].rec.at <= time'
                 /\ \A q \in Positions' : Earlier(p, RecordAt(q))'
                 /\ \A rec \in lost' : Earlier(p, rec)'
      <3>1. Begun(p) /\ emitting'[p].rec = emitting[p].rec
        BY <1>1, <2>1
      <3>2. /\ emitting[p].rec.by = p /\ emitting[p].rec.at <= time
            /\ \A q \in Positions : Earlier(p, RecordAt(q))
            /\ \A rec \in lost : Earlier(p, rec)
        BY <3>1 DEF StreamInvariant, NewestLast
      <3>3. \A q \in Positions' : Earlier(p, RecordAt(q))'
        BY <3>1, <3>2 DEF Earlier, SameStream
      <3>4. \A rec \in lost' : Earlier(p, rec)'
        BY <3>1, <3>2 DEF Earlier
      <3>5. QED
        BY <3>1, <3>2, <3>3, <3>4
    <2>2. QED
      BY <2>1 DEF NewestLast
  <1>4. InThePast'
    BY DEF InThePast, StreamInvariant, SameStream
  <1>5. NothingElse'
    <2>1. BeingPushed' = BeingPushed
      BY DEF BeingPushed, Begun
    <2>2. Streamed' = Streamed
      BY StreamedKept
    <2>3. QED
      BY <2>1, <2>2 DEF NothingElse, StreamInvariant
  <1>6. QED
    BY <1>2, <1>3, <1>4, <1>5 DEF StreamInvariant

LEMMA StampStream ==
  ASSUME Types, StreamInvariant, UNCHANGED <<ring, buffer, lost>>,
         counters'.dropped = counters.dropped,
         NEW p \in Producers, NEW stage \in Stages, NEW corr \in Nat,
         Ready(p), Stamped(p, stage, corr)
  PROVE  StreamInvariant'
  <1> DEFINE rec == [stage |-> stage, at |-> time + 1, corr |-> corr, by |-> p]
             next == IF p = "dispatch" THEN "stamped" ELSE "push"
  <1>1. /\ time \in Nat /\ time' = time + 1 /\ emitting \in [Producers -> Place]
        /\ emitting' = [emitting EXCEPT ![p] = [step |-> next, pos |-> enqueuePos, rec |-> rec]]
        /\ made' = IF p = "dispatch" THEN made ELSE made \cup {rec}
    BY DEF Types, Stamped
  <1>2. SameStream
    BY StandingStream DEF ring
  <1>3. /\ emitting'[p].rec = rec /\ emitting'[p].step = next
        /\ \A r \in Producers : r # p => emitting'[r] = emitting[r]
    BY <1>1
  <1>4. ~ At(p, "push") /\ (At(p, "push")' <=> p # "dispatch")
    BY <1>3 DEF At, Ready
  <1>5. rec.at = time + 1 /\ rec.by = p
    OBVIOUS
  <1>6. \A r \in Producers : r # p => (At(r, "push")' <=> At(r, "push"))
                                   /\ (Begun(r)' <=> Begun(r))
    BY <1>3 DEF At, Begun
  <1> HIDE DEF rec, next
  <1>7. InOrder'
    BY <1>2 DEF InOrder, StreamInvariant, SameStream
  <1>8. InThePast'
    <2>1. \A q \in Positions : RecordAt(q).at \in Nat
      BY StreamTypes DEF Record
    <2>2. \A l \in lost : l.at \in Nat
      BY DEF StreamInvariant, InThePast, Record
    <2>3. \A n \in Nat : n <= time => n <= time'
      BY <1>1
    <2>4. QED
      BY <1>2, <2>1, <2>2, <2>3 DEF InThePast, StreamInvariant, SameStream
  <1>9. NewestLast'
    <2>1. ASSUME NEW r \in Producers, Begun(r)'
          PROVE  /\ emitting'[r].rec.by = r
                 /\ emitting'[r].rec.at <= time'
                 /\ \A q \in Positions' : Earlier(r, RecordAt(q))'
                 /\ \A l \in lost' : Earlier(r, l)'
      <3>1. CASE r = p
        <4>1. \A q \in Positions : RecordAt(q).at \in Nat /\ RecordAt(q).at <= time
          BY StreamTypes DEF Record, StreamInvariant, InThePast
        <4>2. \A l \in lost : l.at \in Nat /\ l.at <= time
          BY DEF StreamInvariant, InThePast, Record
        <4>3. \A n \in Nat : n <= time => n < rec.at
          BY <1>1, <1>5
        <4>4. \A q \in Positions' : Earlier(r, RecordAt(q))'
          BY <1>2, <1>3, <3>1, <4>1, <4>3 DEF Earlier, SameStream
        <4>5. \A l \in lost' : Earlier(r, l)'
          BY <1>3, <3>1, <4>2, <4>3 DEF Earlier
        <4>6. emitting'[r].rec.by = r /\ emitting'[r].rec.at <= time'
          BY <1>1, <1>3, <1>5, <3>1
        <4>7. QED
          BY <4>4, <4>5, <4>6
      <3>2. CASE r # p
        <4>1. Begun(r) /\ emitting'[r] = emitting[r]
          BY <1>3, <1>6, <2>1, <3>2
        <4>2. /\ emitting[r].rec.by = r /\ emitting[r].rec.at <= time
              /\ \A q \in Positions : Earlier(r, RecordAt(q))
              /\ \A l \in lost : Earlier(r, l)
          BY <4>1 DEF StreamInvariant, NewestLast
        <4>3. \A q \in Positions' : Earlier(r, RecordAt(q))'
          BY <1>2, <4>1, <4>2 DEF Earlier, SameStream
        <4>4. \A l \in lost' : Earlier(r, l)'
          BY <4>1, <4>2 DEF Earlier
        <4>5. emitting[r].rec.at \in Nat
          BY PlaceTypes DEF Record
        <4>6. emitting[r].rec.at <= time'
          BY <1>1, <4>2, <4>5
        <4>7. QED
          BY <4>1, <4>2, <4>3, <4>4, <4>6
      <3>3. QED
        BY <3>1, <3>2
    <2>2. QED
      BY <2>1 DEF NewestLast
  <1>10. NothingElse'
    <2>1. BeingPushed' = IF p = "dispatch" THEN BeingPushed ELSE BeingPushed \cup {rec}
      BY <1>3, <1>4, <1>6 DEF BeingPushed
    <2>2. Streamed' = Streamed
      BY <1>2, StreamedKept
    <2>3. QED
      BY <1>1, <2>1, <2>2 DEF NothingElse, StreamInvariant
  <1>11. QED
    BY <1>7, <1>8, <1>9, <1>10 DEF StreamInvariant

LEMMA LoadStream ==
  ASSUME Types, StreamInvariant, NEW p \in Producers, LoadContext(p)
  PROVE  StreamInvariant'
  <1> DEFINE rec == [emitting[p].rec EXCEPT !.corr = correlation]
  <1>1. /\ emitting \in [Producers -> Place] /\ At(p, "stamped")
        /\ emitting' = [emitting EXCEPT ![p] =
                          [step |-> "push", pos |-> enqueuePos, rec |-> rec]]
        /\ made' = made \cup {rec}
        /\ UNCHANGED <<ring, time, counters, buffer, lost>>
    BY DEF Types, LoadContext, tracer
  <1>2. SameStream
    BY <1>1, StandingStream DEF ring
  <1>3. /\ emitting'[p].rec = rec /\ emitting'[p].step = "push"
        /\ \A r \in Producers : r # p => emitting'[r] = emitting[r]
    BY <1>1
  <1>4. rec.at = emitting[p].rec.at /\ rec.by = emitting[p].rec.by
    BY PlaceTypes DEF Record
  <1>5. ~ At(p, "push") /\ At(p, "push")' /\ Begun(p)
    BY <1>1, <1>3 DEF At, Begun
  <1>6. \A r \in Producers : r # p => (At(r, "push")' <=> At(r, "push"))
                                   /\ (Begun(r)' <=> Begun(r))
    BY <1>3 DEF At, Begun
  <1>7. \A r \in Producers : Begun(r)' => Begun(r) /\ emitting'[r].rec.at = emitting[r].rec.at
                                       /\ emitting'[r].rec.by = emitting[r].rec.by
    BY <1>3, <1>4, <1>5, <1>6
  <1> HIDE DEF rec
  <1>8. InOrder' /\ InThePast'
    BY <1>1, <1>2 DEF InOrder, InThePast, StreamInvariant, SameStream
  <1>9. NewestLast'
    <2>1. ASSUME NEW r \in Producers, Begun(r)'
          PROVE  /\ emitting'[r].rec.by = r
                 /\ emitting'[r].rec.at <= time'
                 /\ \A q \in Positions' : Earlier(r, RecordAt(q))'
                 /\ \A l \in lost' : Earlier(r, l)'
      <3>1. /\ Begun(r) /\ emitting'[r].rec.at = emitting[r].rec.at
            /\ emitting'[r].rec.by = emitting[r].rec.by
        BY <1>7, <2>1
      <3>2. /\ emitting[r].rec.by = r /\ emitting[r].rec.at <= time
            /\ \A q \in Positions : Earlier(r, RecordAt(q))
            /\ \A l \in lost : Earlier(r, l)
        BY <3>1 DEF StreamInvariant, NewestLast
      <3>3. \A q \in Positions' : Earlier(r, RecordAt(q))'
        BY <1>2, <3>1, <3>2 DEF Earlier, SameStream
      <3>4. \A l \in lost' : Earlier(r, l)'
        BY <1>1, <3>1, <3>2 DEF Earlier
      <3>5. QED
        BY <1>1, <3>1, <3>2, <3>3, <3>4
    <2>2. QED
      BY <2>1 DEF NewestLast
  <1>10. NothingElse'
    <2>1. BeingPushed' = BeingPushed \cup {rec}
      BY <1>3, <1>5, <1>6 DEF BeingPushed
    <2>2. Streamed' = Streamed
      BY <1>2, StreamedKept
    <2>3. QED
      BY <1>1, <2>1, <2>2 DEF NothingElse, StreamInvariant
  <1>11. QED
    BY <1>8, <1>9, <1>10 DEF StreamInvariant

LEMMA ClaimKeepsStream ==
  ASSUME Types, RingInvariant, StreamInvariant, NEW p \in Producers, ClaimCell(p)
  PROVE  StreamInvariant'
  <1> DEFINE rec == emitting[p].rec
  <1>1. /\ emitting \in [Producers -> Place] /\ At(p, "push")
        /\ emitting' = [emitting EXCEPT ![p].step = "publish"]
        /\ UNCHANGED <<time, counters, made, lost>>
    BY DEF Types, ClaimCell, tracer
  <1>2. /\ Positions' = Positions \cup {enqueuePos}
        /\ \A q \in Positions : q < enqueuePos /\ RecordAt(q)' = RecordAt(q)
        /\ \A q : q = enqueuePos => RecordAt(q)' = rec
    BY ClaimStream
  <1>3. /\ emitting'[p].step = "publish"
        /\ \A r \in Producers : r # p => emitting'[r] = emitting[r]
    BY <1>1 DEF Place
  <1>4. Begun(p) /\ ~ At(p, "push")' /\ ~ Begun(p)'
    BY <1>1, <1>3 DEF At, Begun
  <1>5. \A r \in Producers : r # p => (At(r, "push")' <=> At(r, "push"))
                                   /\ (Begun(r)' <=> Begun(r))
    BY <1>3 DEF At, Begun
  <1>6. /\ rec.by = p /\ rec.at <= time
        /\ \A q \in Positions : RecordAt(q).by = p => RecordAt(q).at < rec.at
        /\ \A l \in lost : l.by = p => l.at < rec.at
    BY <1>4 DEF StreamInvariant, NewestLast, Earlier
  <1>7. rec.at \in Nat /\ enqueuePos \in Nat
    BY PlaceTypes DEF Record, Types
  <1> HIDE DEF rec
  <1>8. InOrder'
    <2>1. ASSUME NEW q \in Positions', NEW r \in Positions', q < r,
                 RecordAt(q)'.by = RecordAt(r)'.by
          PROVE  RecordAt(q)'.at < RecordAt(r)'.at
      <3>1. \A t \in Positions : t \in Int
        BY StreamTypes
      <3>2. q \in Positions
        BY <1>2, <1>7, <2>1, <3>1
      <3>3. CASE r \in Positions
        BY <1>2, <2>1, <3>2, <3>3 DEF InOrder, StreamInvariant
      <3>4. CASE r = enqueuePos
        BY <1>2, <1>6, <2>1, <3>2, <3>4
      <3>5. QED
        BY <1>2, <3>3, <3>4
    <2>2. QED
      BY <2>1 DEF InOrder
  <1>9. NewestLast'
    <2>1. ASSUME NEW r \in Producers, Begun(r)'
          PROVE  /\ emitting'[r].rec.by = r
                 /\ emitting'[r].rec.at <= time'
                 /\ \A q \in Positions' : Earlier(r, RecordAt(q))'
                 /\ \A l \in lost' : Earlier(r, l)'
      <3>1. r # p /\ Begun(r) /\ emitting'[r] = emitting[r]
        BY <1>3, <1>4, <1>5, <2>1
      <3>2. /\ emitting[r].rec.by = r /\ emitting[r].rec.at <= time
            /\ \A q \in Positions : Earlier(r, RecordAt(q))
            /\ \A l \in lost : Earlier(r, l)
        BY <3>1 DEF StreamInvariant, NewestLast
      <3>3. ASSUME NEW q \in Positions' PROVE Earlier(r, RecordAt(q))'
        <4>1. CASE q \in Positions
          BY <1>2, <3>1, <3>2, <4>1 DEF Earlier
        <4>2. CASE q = enqueuePos
          <5>1. RecordAt(q)'.by = p
            BY <1>2, <1>6, <4>2
          <5>2. QED
            BY <3>1, <5>1 DEF Earlier
        <4>3. QED
          BY <1>2, <4>1, <4>2
      <3>4. \A l \in lost' : Earlier(r, l)'
        BY <1>1, <3>1, <3>2 DEF Earlier
      <3>5. QED
        BY <1>1, <3>1, <3>2, <3>3, <3>4
    <2>2. QED
      BY <2>1 DEF NewestLast
  <1>10. InThePast'
    <2>1. \A q \in Positions : RecordAt(q)'.at <= time
      BY <1>2 DEF InThePast, StreamInvariant
    <2>2. \A q : q = enqueuePos => RecordAt(q)'.at <= time
      BY <1>2, <1>6
    <2>3. \A l \in lost : l \in Record /\ l.at <= time
      BY DEF InThePast, StreamInvariant
    <2>4. QED
      BY <1>1, <1>2, <2>1, <2>2, <2>3 DEF InThePast
  <1>11. NothingElse'
    <2>1. BeingPushed = BeingPushed' \cup {rec}
      BY <1>1, <1>3, <1>4, <1>5 DEF BeingPushed, rec
    <2>2. Streamed' = Streamed \cup {rec}
      BY <1>2 DEF Streamed
    <2>3. rec \notin lost
      BY <1>6, <1>7
    <2>4. made' = Streamed' \cup lost' \cup BeingPushed'
      <3>1. made = Streamed \cup lost \cup BeingPushed
        BY DEF NothingElse, StreamInvariant
      <3>2. QED
        BY <1>1, <2>1, <2>2, <3>1
    <2>5. QED
      BY <1>1, <2>2, <2>3, <2>4 DEF NothingElse, StreamInvariant
  <1>12. QED
    BY <1>8, <1>9, <1>10, <1>11 DEF StreamInvariant

LEMMA DropKeepsStream ==
  ASSUME Types, StreamInvariant, NEW p \in Producers, DropRecord(p)
  PROVE  StreamInvariant'
  <1> DEFINE rec == emitting[p].rec
  <1>1. /\ emitting \in [Producers -> Place] /\ At(p, "push")
        /\ emitting' = [emitting EXCEPT ![p] = Idle]
        /\ lost' = lost \cup {rec}
        /\ UNCHANGED <<ring, time, made, buffer>>
    BY DEF Types, DropRecord, Ends
  <1>2. SameStream
    BY <1>1, StandingStream DEF ring
  <1>3. /\ emitting'[p].step = "idle"
        /\ \A r \in Producers : r # p => emitting'[r] = emitting[r]
    BY <1>1 DEF Idle
  <1>4. Begun(p) /\ ~ At(p, "push")' /\ ~ Begun(p)'
    BY <1>1, <1>3 DEF At, Begun
  <1>5. \A r \in Producers : r # p => (At(r, "push")' <=> At(r, "push"))
                                   /\ (Begun(r)' <=> Begun(r))
    BY <1>3 DEF At, Begun
  <1>6. /\ rec.by = p /\ rec.at <= time
        /\ \A q \in Positions : RecordAt(q).by = p => RecordAt(q).at < rec.at
        /\ \A l \in lost : l.by = p => l.at < rec.at
    BY <1>4 DEF StreamInvariant, NewestLast, Earlier
  <1>7. rec.at \in Nat /\ rec \in Record
    BY PlaceTypes DEF Record
  <1>8. counters'.dropped = counters.dropped + 1
    BY DEF DropRecord, Types, Counters
  <1> HIDE DEF rec
  <1>9. InOrder' /\ InThePast'
    <2>1. InOrder'
      BY <1>2 DEF InOrder, StreamInvariant, SameStream
    <2>2. \A l \in lost' : l \in Record /\ l.at <= time
      BY <1>1, <1>6, <1>7 DEF InThePast, StreamInvariant
    <2>3. QED
      BY <1>1, <1>2, <2>1, <2>2 DEF InThePast, StreamInvariant, SameStream
  <1>10. NewestLast'
    <2>1. ASSUME NEW r \in Producers, Begun(r)'
          PROVE  /\ emitting'[r].rec.by = r
                 /\ emitting'[r].rec.at <= time'
                 /\ \A q \in Positions' : Earlier(r, RecordAt(q))'
                 /\ \A l \in lost' : Earlier(r, l)'
      <3>1. r # p /\ Begun(r) /\ emitting'[r] = emitting[r]
        BY <1>3, <1>4, <1>5, <2>1
      <3>2. /\ emitting[r].rec.by = r /\ emitting[r].rec.at <= time
            /\ \A q \in Positions : Earlier(r, RecordAt(q))
            /\ \A l \in lost : Earlier(r, l)
        BY <3>1 DEF StreamInvariant, NewestLast
      <3>3. \A q \in Positions' : Earlier(r, RecordAt(q))'
        BY <1>2, <3>1, <3>2 DEF Earlier, SameStream
      <3>4. \A l \in lost' : Earlier(r, l)'
        BY <1>1, <1>6, <3>1, <3>2 DEF Earlier
      <3>5. QED
        BY <1>1, <3>1, <3>2, <3>3, <3>4
    <2>2. QED
      BY <2>1 DEF NewestLast
  <1>11. NothingElse'
    <2>1. BeingPushed = BeingPushed' \cup {rec}
      BY <1>1, <1>3, <1>4, <1>5 DEF BeingPushed, rec
    <2>2. Streamed' = Streamed
      BY <1>2, StreamedKept
    <2>3. rec \notin lost
      BY <1>6, <1>7
    <2>4. rec \notin Streamed
      BY <1>6, <1>7 DEF Streamed
    <2>5. /\ lost \cap Streamed = {} /\ made = Streamed \cup lost \cup BeingPushed
          /\ IsFiniteSet(lost) /\ counters.dropped = Cardinality(lost)
      BY DEF NothingElse, StreamInvariant
    <2>6. lost' \cap Streamed' = {}
      BY <1>1, <2>2, <2>4, <2>5
    <2>7. made' = Streamed' \cup lost' \cup BeingPushed'
      BY <1>1, <2>1, <2>2, <2>5
    <2>8. IsFiniteSet(lost') /\ Cardinality(lost') = Cardinality(lost) + 1
      BY <1>1, <2>3, <2>5, FS_AddElement
    <2>9. QED
      BY <1>8, <2>5, <2>6, <2>7, <2>8 DEF NothingElse
  <1>12. QED
    BY <1>9, <1>10, <1>11 DEF StreamInvariant

LEMMA StartStream ==
  ASSUME Types, RingInvariant, Start
  PROVE  StreamInvariant'
  <1>1. buffer = <<>> /\ buffer' = <<>>
    BY DEF Start, RingInvariant, Bounded
  <1>2. enqueuePos \in Nat /\ dequeuePos' = enqueuePos /\ enqueuePos' = enqueuePos
    BY DEF Start, Types
  <1>3. \A p \in Producers : ~ At(p, "push")' /\ ~ Begun(p)'
    BY DEF Start, AllReady, Ready, At, Begun
  <1>4. First' = enqueuePos
    <2>1. First' = enqueuePos - 0
      BY <1>1, <1>2 DEF First
    <2>2. QED
      BY <1>2, <2>1
  <1>5. Positions' = {}
    BY <1>2, <1>4 DEF Positions
  <1>6. Streamed' = {} /\ BeingPushed' = {}
    BY <1>3, <1>5 DEF Streamed, BeingPushed
  <1>7. lost' = {} /\ made' = {}
    BY DEF Start
  <1>8. counters'.dropped = 0
    BY DEF Start, WarmedUp, NoCount
  <1>9. InOrder' /\ NewestLast' /\ InThePast'
    BY <1>3, <1>5, <1>7 DEF InOrder, NewestLast, InThePast
  <1>10. IsFiniteSet(lost') /\ Cardinality(lost') = 0
    BY <1>7, FS_EmptySet
  <1>11. NothingElse'
    BY <1>6, <1>7, <1>8, <1>10 DEF NothingElse
  <1>12. QED
    BY <1>9, <1>11 DEF StreamInvariant
-----------------------------------------------------------------------------
LEMMA EmittingStep ==
  ASSUME TraceInvariant, NEW p \in Producers, Emitting(p)
  PROVE  TraceInvariant'
  <1>1. Types /\ GaugeInvariant /\ RingInvariant /\ StreamInvariant
    BY DEF TraceInvariant
  <1>2. Types'
    BY <1>1, EmittingTypes
  <1>3. GaugeInvariant'
    <2>1. player' = player /\ counters'.active = counters.active
      BY <1>1 DEF Emitting, LoadContext, ClaimCell, DropRecord, ReloadPos, PublishCell,
                  tracer, Types, Counters
    <2>2. QED
      BY <1>1, <2>1 DEF GaugeInvariant
  <1>4. emitting \in [Producers -> Place]
    BY <1>1 DEF Types
  <1>5. CASE LoadContext(p)
    <2>1. /\ UNCHANGED <<ring, collector, buffer>> /\ At(p, "stamped")
          /\ \A r \in Producers : r # p => emitting'[r] = emitting[r]
          /\ emitting'[p].step = "push"
      BY <1>4, <1>5 DEF LoadContext
    <2>a. ~ At(p, "publish") /\ emitting'[p].step # "publish"
      BY <2>1 DEF At
    <2>2. RingInvariant'
      BY <1>1, <2>1, <2>a, RingKept
    <2>3. StreamInvariant'
      BY <1>1, <1>5, LoadStream
    <2>4. QED
      BY <1>2, <1>3, <2>2, <2>3 DEF TraceInvariant
  <1>6. CASE ClaimCell(p)
    BY <1>1, <1>2, <1>3, <1>6, ClaimRing, ClaimKeepsStream DEF TraceInvariant
  <1>7. CASE DropRecord(p)
    <2>1. /\ UNCHANGED <<ring, collector, buffer>> /\ At(p, "push")
          /\ \A r \in Producers : r # p => emitting'[r] = emitting[r]
          /\ emitting'[p].step = "idle"
      BY <1>4, <1>7 DEF DropRecord, Ends, Idle
    <2>a. ~ At(p, "publish") /\ emitting'[p].step # "publish"
      BY <2>1 DEF At
    <2>2. RingInvariant'
      BY <1>1, <2>1, <2>a, RingKept
    <2>3. StreamInvariant'
      BY <1>1, <1>7, DropKeepsStream
    <2>4. QED
      BY <1>2, <1>3, <2>2, <2>3 DEF TraceInvariant
  <1>8. CASE ReloadPos(p)
    <2>1. /\ UNCHANGED <<ring, time, counters, collector, buffer, made, lost>>
          /\ At(p, "push") /\ \A r \in Producers : r # p => emitting'[r] = emitting[r]
      BY <1>4, <1>8 DEF ReloadPos, tracer
    <2>2. emitting'[p].step = emitting[p].step /\ emitting'[p].rec = emitting[p].rec
      BY <1>4, <1>8 DEF ReloadPos, Place
    <2>3. RingInvariant'
      BY <1>1, <2>1, <2>2, RingKept DEF At
    <2>4. SameStream
      BY <2>1, StandingStream DEF ring
    <2>5. \A r \in Producers :
            /\ At(r, "stamped")' <=> At(r, "stamped")
            /\ At(r, "push")' <=> At(r, "push")
            /\ emitting'[r].rec = emitting[r].rec
      BY <2>1, <2>2 DEF At
    <2>6. StreamInvariant'
      BY <1>1, <2>1, <2>4, <2>5, StreamKept
    <2>7. QED
      BY <1>2, <1>3, <2>3, <2>6 DEF TraceInvariant
  <1>9. CASE PublishCell(p)
    <2>1. /\ UNCHANGED <<value, enqueuePos, dequeuePos, time, counters, buffer, made, lost>>
          /\ At(p, "publish") /\ \A r \in Producers : r # p => emitting'[r] = emitting[r]
          /\ emitting'[p].step = "idle"
      BY <1>4, <1>9 DEF PublishCell, Ends, Idle, tracer
    <2>2. SameStream
      BY <2>1, StandingStream
    <2>3. \A r \in Producers :
            /\ At(r, "stamped")' <=> At(r, "stamped")
            /\ At(r, "push")' <=> At(r, "push")
            /\ Begun(r) => emitting'[r].rec = emitting[r].rec
      BY <2>1 DEF At, Begun
    <2>4. StreamInvariant'
      BY <1>1, <2>1, <2>2, <2>3, StreamKept
    <2>5. QED
      BY <1>1, <1>2, <1>3, <1>9, <2>4, PublishRing DEF TraceInvariant
  <1>10. QED
    BY <1>5, <1>6, <1>7, <1>8, <1>9 DEF Emitting

LEMMA TracePointStep ==
  ASSUME TraceInvariant, TracePoint
  PROVE  TraceInvariant'
  <1>1. Types /\ GaugeInvariant /\ RingInvariant /\ StreamInvariant
    BY DEF TraceInvariant
  <1>2. Types' /\ GaugeInvariant'
    BY <1>1, TracePointTypes
  <1>3. UNCHANGED <<ring, collector, buffer, lost>> /\ counters'.dropped = counters.dropped
    BY <1>1, TracePoints
  <1>4. ASSUME NEW p \in Producers, NEW stage \in Stages, NEW corr \in Nat,
               Ready(p), Stamped(p, stage, corr)
        PROVE  RingInvariant' /\ StreamInvariant'
    <2>1. emitting'[p].step # "publish"
          /\ \A r \in Producers : r # p => emitting'[r] = emitting[r]
      BY <1>1, <1>4 DEF Stamped, Types
    <2>2. ~ At(p, "publish")
      BY <1>4 DEF At, Ready
    <2>3. RingInvariant'
      BY <1>1, <1>3, <2>1, <2>2, RingKept
    <2>4. StreamInvariant'
      BY <1>1, <1>3, <1>4, StampStream
    <2>5. QED
      BY <2>3, <2>4
  <1>5. ASSUME UNCHANGED <<emitting, time, made>>
        PROVE  RingInvariant' /\ StreamInvariant'
    <2>1. RingInvariant'
      BY <1>1, <1>3, <1>5, RingKept
    <2>2. SameStream
      BY <1>3, StandingStream DEF ring
    <2>3. StreamInvariant'
      BY <1>1, <1>3, <1>5, <2>2, StreamKept DEF At
    <2>4. QED
      BY <2>1, <2>3
  <1>6. RingInvariant' /\ StreamInvariant'
    BY <1>1, <1>4, <1>5, TracePoints
  <1>7. QED
    BY <1>2, <1>6 DEF TraceInvariant

LEMMA CollectingStep ==
  ASSUME TraceInvariant, Collecting
  PROVE  TraceInvariant'
  <1>1. Types /\ GaugeInvariant /\ RingInvariant /\ StreamInvariant
    BY DEF TraceInvariant
  <1>2. Types' /\ GaugeInvariant'
    BY <1>1, CollectingTypes
  <1>3. CASE Start
    BY <1>1, <1>2, <1>3, StartRing, StartStream DEF TraceInvariant
  <1>4. CASE PopCopy
    <2>1. UNCHANGED <<time, counters, made, lost, emitting>>
      BY <1>4 DEF PopCopy, tracer
    <2>2. SameStream
      BY <1>1, <1>4, CopyStream
    <2>3. StreamInvariant'
      BY <1>1, <2>1, <2>2, StreamKept DEF At
    <2>4. QED
      BY <1>1, <1>2, <1>4, <2>3, CopyRing DEF TraceInvariant
  <1>5. CASE PopRelease
    <2>1. /\ UNCHANGED <<time, counters, made, lost, emitting>>
          /\ UNCHANGED <<value, enqueuePos, dequeuePos, buffer>>
      BY <1>5 DEF PopRelease, tracer
    <2>2. SameStream
      BY <2>1, StandingStream
    <2>3. StreamInvariant'
      BY <1>1, <2>1, <2>2, StreamKept DEF At
    <2>4. QED
      BY <1>1, <1>2, <1>5, <2>3, ReleaseRing DEF TraceInvariant
  <1>6. QED
    BY <1>3, <1>4, <1>5 DEF Collecting, DrainNow

\* The invariant is inductive, so that it always holds.
LEMMA TraceInvariantHolds == Spec => []TraceInvariant
  <1>1. TraceInvariant /\ [Next]_vars => TraceInvariant'
    <2> SUFFICES ASSUME TraceInvariant, [Next]_vars PROVE TraceInvariant'
      OBVIOUS
    <2>1. CASE Next
      BY <2>1, EmittingStep, TracePointStep, CollectingStep DEF Next
    <2>2. CASE UNCHANGED vars
      <3>1. Types /\ GaugeInvariant /\ RingInvariant /\ StreamInvariant
        BY DEF TraceInvariant
      <3>2. UNCHANGED <<seq, value, enqueuePos, dequeuePos, emitting, time, correlation,
                        accomp, counters, player, collector, buffer, made, lost>>
        BY <2>2 DEF vars, ring, tracer
      <3>3. Types' /\ GaugeInvariant'
        BY <3>1, <3>2 DEF Types, GaugeInvariant
      <3>4. RingInvariant'
        BY <3>1, <3>2, RingKept DEF ring
      <3>5. SameStream
        BY <3>2, StandingStream
      <3>6. StreamInvariant'
        BY <3>1, <3>2, <3>5, StreamKept DEF At
      <3>7. QED
        BY <3>3, <3>4, <3>6 DEF TraceInvariant
    <2>3. QED
      BY <2>1, <2>2
  <1>2. QED
    BY StartHolds, <1>1, PTL DEF Spec

(***************************************************************************)
(* TypeOK (LatencyTrace): the threads of the trace, the collector and the  *)
(* ring keep their types, within the bounds of records and chords.         *)
(***************************************************************************)
THEOREM TraceTypes == Spec => []TypeOK
  <1>1. TraceInvariant => TypeOK
    <2> SUFFICES ASSUME TraceInvariant PROVE TypeOK
      OBVIOUS
    <2>1. Types
      BY DEF TraceInvariant
    <2>2. \A p \in Producers : emitting[p].rec.stage \in Stages \cup {"none"}
      BY <2>1, PlaceTypes DEF Record
    <2>3. QED
      BY <2>1, <2>2 DEF TypeOK, Types
  <1>2. QED
    BY <1>1, TraceInvariantHolds, PTL

\* The buffer is the part of the stream before the ring.
LEMMA BufferInStream ==
  ASSUME TraceInvariant
  PROVE  /\ \A i \in DOMAIN buffer :
              i \in Nat /\ First + i - 1 \in Positions /\ RecordAt(First + i - 1) = buffer[i]
         /\ enqueuePos = dequeuePos => Streamed = Collected
  <1>1. Types /\ RingInvariant
    BY DEF TraceInvariant
  <1>2. /\ dequeuePos \in Nat /\ enqueuePos \in Nat /\ Len(buffer) \in Nat /\ First \in Int
        /\ DOMAIN buffer = 1 .. Len(buffer)
    BY <1>1, StreamTypes DEF Types
  <1>3. dequeuePos - First = Len(buffer) /\ dequeuePos <= enqueuePos
    BY <1>1, <1>2 DEF First, RingInvariant, Bounded
  <1>4. ASSUME NEW i \in DOMAIN buffer
        PROVE  i \in Nat /\ First + i - 1 \in Positions /\ RecordAt(First + i - 1) = buffer[i]
    <2>1. i \in Nat /\ 1 <= i /\ i <= Len(buffer)
      BY <1>2
    <2>2. /\ First + i - 1 \in First .. enqueuePos - 1
          /\ First + i - 1 < dequeuePos /\ (First + i - 1) - First + 1 = i
      BY <1>2, <1>3, <2>1
    <2>3. QED
      BY <2>1, <2>2 DEF Positions, RecordAt
  <1>5. ASSUME enqueuePos = dequeuePos
        PROVE  Streamed = Collected
    <2>1. ASSUME NEW q \in Positions
          PROVE  \E i \in DOMAIN buffer : RecordAt(q) = buffer[i]
      <3>1. q \in Int /\ First <= q /\ q < dequeuePos
        BY <1>2, <1>5 DEF Positions
      <3>2. q - First + 1 \in DOMAIN buffer
        BY <1>2, <1>3, <3>1
      <3>3. QED
        BY <3>1, <3>2 DEF RecordAt
    <2>2. Streamed \subseteq Collected
      BY <2>1 DEF Streamed, Collected, Range
    <2>3. Collected \subseteq Streamed
      BY <1>4 DEF Streamed, Collected, Range
    <2>4. QED
      BY <2>2, <2>3
  <1>6. QED
    BY <1>4, <1>5

(***************************************************************************)
(* CollectedOnceInOrder (LatencyTrace): MpscRing::try_push and try_pop,    *)
(* whatever the interleaving, hand over every record that is not counted   *)
(* as dropped, once, and each producer's in the order it made them.        *)
(***************************************************************************)
THEOREM RingLosesNothing == Spec => []CollectedOnceInOrder
  <1>1. TraceInvariant => CollectedOnceInOrder
    <2> SUFFICES ASSUME TraceInvariant PROVE CollectedOnceInOrder
      OBVIOUS
    <2>1. Types /\ InOrder /\ NothingElse
      BY DEF TraceInvariant, StreamInvariant
    <2>2. \A i \in DOMAIN buffer :
            i \in Nat /\ First + i - 1 \in Positions /\ RecordAt(First + i - 1) = buffer[i]
      BY BufferInStream
    <2>3. Collected \subseteq Streamed
      BY <2>2 DEF Collected, Range, Streamed
    <2>4. Collected \subseteq made \ lost
      BY <2>1, <2>3 DEF NothingElse
    <2>5. ASSUME NEW i \in DOMAIN buffer, NEW j \in DOMAIN buffer, i < j
          PROVE  /\ buffer[i] # buffer[j]
                 /\ buffer[i].by = buffer[j].by => buffer[i].at < buffer[j].at
      <3> DEFINE q == First + i - 1
                 r == First + j - 1
      <3>1. First \in Int /\ i \in Nat /\ j \in Nat
        BY <2>1, <2>2, StreamTypes
      <3>2. q < r
        BY <2>5, <3>1
      <3>3. /\ q \in Positions /\ r \in Positions
            /\ RecordAt(q) = buffer[i] /\ RecordAt(r) = buffer[j]
        BY <2>2
      <3> HIDE DEF q, r
      <3>4. buffer[i].by = buffer[j].by => buffer[i].at < buffer[j].at
        BY <2>1, <3>2, <3>3 DEF InOrder
      <3>5. buffer[i].at \in Nat
        BY <2>1, <3>3, StreamTypes DEF Record
      <3>6. QED
        BY <3>4, <3>5
    <2>6. ASSUME Captured
          PROVE  made = Collected \cup lost
      <3>1. BeingPushed = {}
        BY <2>6 DEF Captured, AllReady, Ready, At, BeingPushed
      <3>2. Streamed = Collected
        BY <2>6, BufferInStream DEF Captured
      <3>3. QED
        BY <2>1, <3>1, <3>2 DEF NothingElse
    <2>7. QED
      BY <2>1, <2>4, <2>5, <2>6 DEF CollectedOnceInOrder, NothingElse
  <1>2. QED
    BY <1>1, TraceInvariantHolds, PTL

-----------------------------------------------------------------------------
(***************************************************************************)
(* The report.  A journey's latency is at most the time of its first send, *)
(* so that of finitely many complete journeys one is the slowest, and the  *)
(* percentile of 100 is its latency.                                       *)
(***************************************************************************)
LEMMA JourneyLatency ==
  ASSUME NEW recs, \A r \in recs : r \in Record /\ r.at <= time, time \in Nat,
         NEW c \in Complete(recs)
  PROVE  Latency(recs, c) \in Int /\ Latency(recs, c) <= time
  <1>1. /\ Times(recs, c, "send") \in SUBSET Nat /\ Times(recs, c, "chord") \in SUBSET Nat
        /\ \A n \in Times(recs, c, "send") : n <= time
    BY DEF Times, Record
  <1>2. Times(recs, c, "send") # {} /\ Times(recs, c, "chord") # {}
    BY DEF Complete, IsComplete, CoreStages
  <1>3. Min(Times(recs, c, "send")) \in Times(recs, c, "send")
    BY <1>1, <1>2, MinIsLeast
  <1>4. Min(Times(recs, c, "chord")) \in Times(recs, c, "chord")
    BY <1>1, <1>2, MinIsLeast
  <1>5. /\ Min(Times(recs, c, "send")) \in Nat /\ Min(Times(recs, c, "send")) <= time
        /\ Min(Times(recs, c, "chord")) \in Nat
    BY <1>1, <1>3, <1>4
  <1>6. QED
    BY <1>5 DEF Latency

LEMMA CompleteFinite ==
  ASSUME NEW recs
  PROVE  IsFiniteSet(Complete(recs)) /\ Cardinality(Complete(recs)) \in Nat
  <1>1. Complete(recs) \subseteq 1 .. MaxChords
    BY DEF Complete, Journeys
  <1>2. IsFiniteSet(1 .. MaxChords)
    BY Limits, FS_Interval
  <1>3. IsFiniteSet(Complete(recs))
    BY <1>1, <1>2, FS_Subset
  <1>4. QED
    BY <1>3, FS_CardinalityType

LEMMA SlowestIsPercentile ==
  ASSUME NEW recs, \A r \in recs : r \in Record /\ r.at <= time, time \in Nat,
         NEW c \in Complete(recs)
  PROVE  Percentile(recs, 100) \in Int /\ Latency(recs, c) <= Percentile(recs, 100)
  <1> DEFINE Done == Complete(recs)
             L(d) == Latency(recs, d)
             Early == {time - L(d) : d \in Done}
             Enough == {v \in {L(d) : d \in Done} :
                          100 * Cardinality(AtMost(recs, v)) >= 100 * Cardinality(Done)}
  <1>1. \A d \in Done : L(d) \in Int /\ L(d) <= time
    BY JourneyLatency
  <1>2. IsFiniteSet(Done) /\ Cardinality(Done) \in Nat
    BY CompleteFinite
  <1>3. \A v : AtMost(recs, v) = {d \in Done : L(d) <= v}
    BY DEF AtMost
  <1>4. Percentile(recs, 100) = Min(Enough)
    BY DEF Percentile
  <1> HIDE DEF Done, L
  <1>5. PICK slow \in Done : \A d \in Done : L(d) <= L(slow)
    <2>1. Early \in SUBSET Nat /\ Early # {}
      BY <1>1 DEF Done
    <2>2. PICK m \in Early : \A n \in Early : m <= n
      BY <2>1, LeastExists
    <2>3. PICK slow \in Done : m = time - L(slow)
      BY <2>2
    <2>4. ASSUME NEW d \in Done PROVE L(d) <= L(slow)
      <3>1. time - L(slow) <= time - L(d)
        BY <2>2, <2>3
      <3>2. QED
        BY <1>1, <3>1
    <2>5. QED
      BY <2>4
  <1>6. ASSUME NEW v \in Enough
        PROVE  v = L(slow)
    <2>1. PICK d \in Done : v = L(d)
      OBVIOUS
    <2>2. AtMost(recs, v) \subseteq Done
      BY <1>3
    <2>3. IsFiniteSet(AtMost(recs, v)) /\ Cardinality(AtMost(recs, v)) <= Cardinality(Done)
      BY <1>2, <2>2, FS_Subset
    <2>4. Cardinality(AtMost(recs, v)) \in Nat
      BY <2>3, FS_CardinalityType
    <2>5. Cardinality(AtMost(recs, v)) = Cardinality(Done)
      <3>1. 100 * Cardinality(AtMost(recs, v)) >= 100 * Cardinality(Done)
        OBVIOUS
      <3>2. QED
        BY <1>2, <2>3, <2>4, <3>1
    <2>6. AtMost(recs, v) = Done
      BY <1>2, <2>2, <2>5, FS_Subset
    <2>7. L(slow) <= v
      BY <1>3, <2>6
    <2>8. QED
      BY <1>1, <1>5, <2>1, <2>7
  <1>7. L(slow) \in Enough
    <2>1. AtMost(recs, L(slow)) = Done
      BY <1>3, <1>5
    <2>2. QED
      BY <1>2, <2>1
  <1>8. Enough = {L(slow)}
    BY <1>6, <1>7
  <1>9. Min(Enough) = L(slow)
    <2>1. L(slow) \in Int
      BY <1>1
    <2>2. \A y \in Enough : L(slow) =< y
      BY <1>8, <2>1
    <2>3. \E x \in Enough : \A y \in Enough : x =< y
      BY <1>7, <2>2
    <2>4. Min(Enough) \in Enough
      BY <2>3, Zenon DEF Min
    <2>5. QED
      BY <1>8, <2>4
  <1>10. Percentile(recs, 100) \in Int /\ L(c) <= Percentile(recs, 100)
    BY <1>1, <1>4, <1>5, <1>9 DEF Done
  <1>11. QED
    BY <1>10 DEF L

LEMMA OnlyPass ==
  ASSUME NEW recs, NEW cs, Verdict(recs, cs) = "PASS"
  PROVE  ~ TooSlow(recs) /\ ~ BadCounter(cs) /\ ~ Thin(recs)
  <1> DEFINE S == TooSlow(recs)
             B == BadCounter(cs)
             T == Thin(recs)
  <1>1. (CASE S \/ B -> "FAIL" [] ~ (S \/ B) /\ T -> "INSUFFICIENT_DATA" [] OTHER -> "PASS")
          = "PASS"
    BY DEF Verdict
  <1> HIDE DEF S, B, T
  <1>2. ~ S /\ ~ B /\ ~ T
    BY <1>1
  <1>3. QED
    BY <1>2 DEF S, B, T

(***************************************************************************)
(* PassIsEarned (LatencyTrace): when tools/latency_report says PASS of a   *)
(* finished capture, no complete journey it looked at was slower than the  *)
(* limit and enough were complete; and if the export has the counters, no  *)
(* record was missing and no note of the accompaniment sounded.            *)
(***************************************************************************)
THEOREM PassMeansPass == Spec => []PassIsEarned
  <1>1. TraceInvariant /\ CollectedOnceInOrder => PassIsEarned
    <2> SUFFICES ASSUME TraceInvariant, CollectedOnceInOrder, Captured,
                        NEW cs \in Exports, Verdict(Collected, cs) = "PASS"
                 PROVE  /\ Cardinality(Complete(Collected)) >= MinGateSamples
                        /\ \A c \in Complete(Collected) :
                             Latency(Collected, c) <= MaxLatency.max
                        /\ cs = Json => Collected = made /\ ~ player.sounding
      BY DEF PassIsEarned
    <2>1. ~ TooSlow(Collected) /\ ~ BadCounter(cs) /\ ~ Thin(Collected)
      BY OnlyPass
    <2>2. cs = Json => counters.dropped = 0 /\ counters.active = 0
      BY <2>1 DEF BadCounter, Json
    <2>3. cs = Json => lost = {}
      BY <2>2, FS_EmptySet DEF TraceInvariant, StreamInvariant, NothingElse
    <2>4. cs = Json => Collected = made
      BY <2>3 DEF CollectedOnceInOrder
    <2>5. Types /\ time \in Nat
      BY DEF TraceInvariant, Types
    <2>6. \A r \in Collected : r \in Record /\ r.at <= time
      <3>1. \A q \in Positions : RecordAt(q) \in Record /\ RecordAt(q).at <= time
        BY <2>5, StreamTypes DEF TraceInvariant, StreamInvariant, InThePast
      <3>2. \A i \in DOMAIN buffer : \E q \in Positions : RecordAt(q) = buffer[i]
        BY BufferInStream
      <3>3. QED
        BY <3>1, <3>2 DEF Collected, Range
    <2>7. Cardinality(Complete(Collected)) >= MinGateSamples
      <3>1. ~ (Cardinality(Complete(Collected)) < MinGateSamples)
        BY <2>1 DEF Thin
      <3>2. Cardinality(Complete(Collected)) \in Nat
        BY CompleteFinite
      <3>3. QED
        BY <3>1, <3>2, Limits
    <2>8. ASSUME NEW c \in Complete(Collected) PROVE Latency(Collected, c) <= MaxLatency.max
      <3>1. Percentile(Collected, 100) \in Int /\ Latency(Collected, c) <= Percentile(Collected, 100)
        BY <2>5, <2>6, SlowestIsPercentile
      <3>2. ~ (Percentile(Collected, 100) > MaxLatency.max)
        BY <2>1 DEF TooSlow
      <3>3. Latency(Collected, c) \in Int
        BY <2>5, <2>6, JourneyLatency
      <3>4. MaxLatency.max \in Nat
        BY TraceAssumption
      <3>5. QED
        BY <3>1, <3>2, <3>3, <3>4
    <2>9. cs = Json => ~ player.sounding
      BY <2>2 DEF TraceInvariant, GaugeInvariant
    <2>10. QED
      BY <2>4, <2>7, <2>8, <2>9
  <1>2. QED
    BY <1>1, TraceInvariantHolds, RingLosesNothing, PTL
=============================================================================
