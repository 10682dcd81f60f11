---------------------------- MODULE LatencyTrace ----------------------------
(***************************************************************************)
(* The latency trace (src/engine/trace): three threads of the live engine  *)
(* emit records into one lock-free ring, a collector takes them out, and   *)
(* tools/latency_report decides whether the capture passes the gate.       *)
(*                                                                         *)
(* MpscRing is modelled step by step, the steps being what another thread  *)
(* can come between.  A load sees the latest store; a push that is         *)
(* overtaken after its first load finds a stale position all the same.     *)
(***************************************************************************)
EXTENDS Integers, Sequences, FiniteSets, Functions, FiniteSetsExt

CONSTANTS
  Capacity,         \* slots of the ring, kCapacity
  OutputSlots,      \* what the MIDI output queue holds
  MaxRecords,       \* bound: records begun
  MaxBefore,        \* bound: records begun before the capture is started
  MaxChords,        \* bound: chords confirmed
  MaxInputs,        \* bound: notes played
  MaxPanics,        \* bound: panics
  MaxScheduled,     \* bound: events waiting in the scheduler
  MinGateSamples,   \* MIN_GATE_SAMPLES
  MaxLatency        \* [p50, p95, max |-> threshold], in units of the model's clock

ASSUME TraceAssumption ==
  /\ Capacity \in Nat \ {0, 1}
  /\ {OutputSlots, MinGateSamples} \subseteq Nat \ {0}
  /\ {MaxRecords, MaxBefore, MaxChords, MaxInputs, MaxPanics, MaxScheduled} \subseteq Nat
  /\ MaxBefore <= MaxRecords
  /\ MaxLatency \in [{"p50", "p95", "max"} -> Nat]

Producers == {"read", "tick", "dispatch"}
Stages == {"input", "chord", "accomp", "enqueue", "send", "lifecycle"}

VARIABLES
  seq,              \* the cells' sequence numbers
  value,            \* the cells' records
  enqueuePos, dequeuePos,
  emitting,         \* where each producer is in emit()
  time,             \* traceNowNs(): the records begun so far
  correlation,      \* correlation_ and correlation_seq_, which never differ
  accomp,           \* accomp_correlation_
  counters,         \* TraceCounters
  player,           \* what the emitting code acts on: notes and queues
  collector,        \* running_, and where drainNow() is
  buffer,           \* the collector's buffer_
  made, lost        \* history: the records pushed or dropped, and the dropped

ring == <<seq, value, enqueuePos, dequeuePos>>
tracer == <<correlation, accomp, counters>>
vars == <<ring, emitting, time, tracer, player, collector, buffer, made, lost>>

Slots == 0 .. Capacity - 1
Slot(pos) == pos % Capacity
NoRecord == [stage |-> "none", at |-> 0, corr |-> 0, by |-> "none"]
Idle == [step |-> "idle", pos |-> 0, rec |-> NoRecord]
NoCount == [inputs |-> 0, outputs |-> 0, sends |-> 0, dropped |-> 0, active |-> 0,
            overflows |-> 0, panics |-> 0]

Init ==
  /\ seq = [i \in Slots |-> i]
  /\ value = [i \in Slots |-> NoRecord]
  /\ enqueuePos = 0 /\ dequeuePos = 0
  /\ emitting = [p \in Producers |-> Idle]
  /\ time = 0 /\ correlation = 0 /\ accomp = 0
  /\ counters = NoCount
  /\ player = [sounding |-> FALSE, scheduled |-> 0, queued |-> 0]
  /\ collector = [running |-> FALSE, copied |-> FALSE]
  /\ buffer = <<>>
  /\ made = {} /\ lost = {}
-----------------------------------------------------------------------------
(***************************************************************************)
(* emit(): take the time, load the correlation id, then try_push(), which  *)
(* begins by loading enqueue_pos_.  Only the dispatch thread can be        *)
(* overtaken between the first two by anything that shows: the tick thread *)
(* itself opens the correlations, and an input's is not read.              *)
(***************************************************************************)
Stamped(p, stage, corr) ==
  /\ time < IF collector.running THEN MaxRecords ELSE MaxBefore
  /\ time' = time + 1
  /\ LET rec == [stage |-> stage, at |-> time + 1, corr |-> corr, by |-> p]
     IN  /\ emitting' = [emitting EXCEPT ![p] =
              [step |-> IF p = "dispatch" THEN "stamped" ELSE "push",
               pos |-> enqueuePos, rec |-> rec]]
         /\ made' = IF p = "dispatch" THEN made ELSE made \cup {rec}

Ready(p) == emitting[p].step = "idle"
At(p, step) == emitting[p].step = step
Pos(p) == emitting[p].pos
Ends(p) == emitting' = [emitting EXCEPT ![p] = Idle]

LoadContext(p) ==
  /\ At(p, "stamped")
  /\ LET rec == [emitting[p].rec EXCEPT !.corr = correlation]
     IN  /\ emitting' = [emitting EXCEPT ![p] =
              [step |-> "push", pos |-> enqueuePos, rec |-> rec]]
         /\ made' = made \cup {rec}
  /\ UNCHANGED <<ring, time, tracer, player, collector, buffer, lost>>

(***************************************************************************)
(* try_push(): the cell's sequence number says whether the position is     *)
(* free, still holds an unread record, or was taken by another producer.   *)
(* The check and the exchange that claims the position are one step: when  *)
(* the exchange succeeds nobody has claimed the position since the check,  *)
(* and only who claims it changes its cell.  A claimed cell is written:    *)
(* nobody else may touch it until its sequence number is published.        *)
(***************************************************************************)
Diff(p) == seq[Slot(Pos(p))] - Pos(p)

\* Mutated: a store where the code compares and exchanges.
FreeUnchecked(p) == Diff(p) = 0

IsFree(p) == Diff(p) = 0 /\ enqueuePos = Pos(p)

IsFull(p) == Diff(p) < 0

ClaimCell(p) ==
  /\ At(p, "push") /\ IsFree(p)
  /\ enqueuePos' = Pos(p) + 1
  /\ value' = [value EXCEPT ![Slot(Pos(p))] = emitting[p].rec]
  /\ emitting' = [emitting EXCEPT ![p].step = "publish"]
  /\ UNCHANGED <<seq, dequeuePos, time, tracer, player, collector, buffer, made, lost>>

DropRecord(p) ==
  /\ At(p, "push") /\ IsFull(p)
  /\ counters' = [counters EXCEPT !.dropped = @ + 1]
  /\ lost' = lost \cup {emitting[p].rec}
  /\ Ends(p)
  /\ UNCHANGED <<ring, time, correlation, accomp, player, collector, buffer, made>>

ReloadPos(p) ==
  /\ At(p, "push") /\ ~ IsFree(p) /\ ~ IsFull(p)
  /\ emitting' = [emitting EXCEPT ![p].pos = enqueuePos]
  /\ UNCHANGED <<ring, time, tracer, player, collector, buffer, made, lost>>

PublishCell(p) ==
  /\ At(p, "publish")
  /\ seq' = [seq EXCEPT ![Slot(Pos(p))] = Pos(p) + 1]
  /\ Ends(p)
  /\ UNCHANGED <<value, enqueuePos, dequeuePos, time, tracer, player, collector,
                 buffer, made, lost>>

Emitting(p) ==
  LoadContext(p) \/ ClaimCell(p) \/ DropRecord(p) \/ ReloadPos(p) \/ PublishCell(p)
-----------------------------------------------------------------------------
(***************************************************************************)
(* The trace points.  CoreMidiIn::readProc counts and records a note on;   *)
(* StylePlayer::setChord flushes what sounds, without the gauge, and opens *)
(* a correlation; dispatchSection keeps the gauge and records the first    *)
(* event of a correlation; CoreMidiOut::send and dispatchOne record what   *)
(* is queued and what is sent.                                             *)
(***************************************************************************)
InputNoteOn ==
  /\ Ready("read") /\ counters.inputs < MaxInputs
  /\ Stamped("read", "input", correlation)
  /\ counters' = [counters EXCEPT !.inputs = @ + 1]
  /\ UNCHANGED <<ring, correlation, accomp, player, collector, buffer, lost>>

CanSchedule(n) == player.scheduled + n <= MaxScheduled

\* The note-off the flush schedules for a note that sounds.
Flushed ==
  LET n == IF player.sounding THEN 1 ELSE 0
  IN  /\ CanSchedule(n)
      /\ player' = [player EXCEPT !.sounding = FALSE, !.scheduled = @ + n]

ChordConfirmed ==
  /\ Ready("tick") /\ correlation < MaxChords
  /\ Flushed
  /\ correlation' = correlation + 1
  /\ Stamped("tick", "chord", correlation + 1)
  /\ UNCHANGED <<ring, accomp, counters, collector, buffer, lost>>

FirstOfChord == correlation # 0 /\ correlation # accomp

MarkAccompFirst ==
  IF FirstOfChord
  THEN accomp' = correlation /\ Stamped("tick", "accomp", correlation)
  ELSE UNCHANGED <<accomp, emitting, time, made>>

DispatchNote(on) ==
  /\ Ready("tick") /\ CanSchedule(1)
  /\ player.sounding # on
  /\ player' = [player EXCEPT !.sounding = on, !.scheduled = @ + 1]
  /\ counters' = [counters EXCEPT !.active = IF on THEN @ + 1 ELSE @ - 1]
  /\ MarkAccompFirst
  /\ UNCHANGED <<ring, correlation, collector, buffer, lost>>

NoteOn == DispatchNote(TRUE)
NoteOff == DispatchNote(FALSE)

OutputEnqueue ==
  /\ Ready("tick") /\ player.scheduled > 0
  /\ LET pushed == player.queued < OutputSlots
     IN  /\ player' = [player EXCEPT !.scheduled = @ - 1,
                                     !.queued = IF pushed THEN @ + 1 ELSE @]
         /\ counters' = [counters EXCEPT !.outputs = @ + 1,
                                         !.overflows = IF pushed THEN @ ELSE @ + 1]
  /\ Stamped("tick", "enqueue", correlation)
  /\ UNCHANGED <<ring, correlation, accomp, collector, buffer, lost>>

MidiSend ==
  /\ Ready("dispatch") /\ player.queued > 0
  /\ player' = [player EXCEPT !.queued = @ - 1]
  /\ counters' = [counters EXCEPT !.sends = @ + 1]
  /\ Stamped("dispatch", "send", correlation)
  /\ UNCHANGED <<ring, correlation, accomp, collector, buffer, lost>>

\* dispatchOne with no endpoint, or a MIDISend that fails: nothing is recorded.
SendNowhere ==
  /\ Ready("dispatch") /\ player.queued > 0
  /\ player' = [player EXCEPT !.queued = @ - 1]
  /\ UNCHANGED <<ring, emitting, time, tracer, collector, buffer, made, lost>>

\* StylePlayer::panic(): the scheduler is cleared, then given the note-offs.
Panic ==
  /\ Ready("tick") /\ counters.panics < MaxPanics
  /\ player' = [player EXCEPT !.sounding = FALSE,
                              !.scheduled = IF player.sounding THEN 1 ELSE 0]
  /\ counters' = [counters EXCEPT !.panics = @ + 1]
  /\ Stamped("tick", "lifecycle", correlation)
  /\ UNCHANGED <<ring, correlation, accomp, collector, buffer, lost>>

TracePoint ==
  \/ InputNoteOn \/ ChordConfirmed \/ NoteOn \/ NoteOff
  \/ OutputEnqueue \/ MidiSend \/ SendNowhere \/ Panic
-----------------------------------------------------------------------------
(***************************************************************************)
(* TraceCollector.  start() warms the tracer up, which discards what the   *)
(* ring holds and zeroes everything but the gauge; its contract is that no *)
(* producer is live then.  drainNow() pops until the ring is empty, time   *)
(* and again.  stop() drains once more, so a capture that is stopped is    *)
(* one in which these steps come to an end with the ring empty.            *)
(***************************************************************************)
AllReady == \A p \in Producers : Ready(p)

WarmedUp == [NoCount EXCEPT !.active = counters.active]

Start ==
  /\ ~ collector.running
  /\ AllReady
  /\ collector' = [collector EXCEPT !.running = TRUE]
  /\ seq' = [i \in Slots |->
              CHOOSE s \in enqueuePos .. enqueuePos + Capacity - 1 : Slot(s) = i]
  /\ dequeuePos' = enqueuePos
  /\ correlation' = 0 /\ accomp' = 0
  /\ counters' = WarmedUp
  /\ made' = {} /\ lost' = {}
  /\ UNCHANGED <<value, enqueuePos, emitting, time, player, buffer>>

(***************************************************************************)
(* try_pop(): the record is copied, then its cell released for the next    *)
(* lap.  Only the collector reads dequeuePos.                              *)
(***************************************************************************)
Unread == seq[Slot(dequeuePos)] = dequeuePos + 1

PopCopy ==
  /\ collector.running /\ ~ collector.copied /\ Unread
  /\ dequeuePos' = dequeuePos + 1
  /\ buffer' = Append(buffer, value[Slot(dequeuePos)])
  /\ collector' = [collector EXCEPT !.copied = TRUE]
  /\ UNCHANGED <<seq, value, enqueuePos, emitting, time, tracer, player, made, lost>>

PopRelease ==
  /\ collector.copied
  /\ seq' = [seq EXCEPT ![Slot(dequeuePos - 1)] = dequeuePos - 1 + Capacity]
  /\ collector' = [collector EXCEPT !.copied = FALSE]
  /\ UNCHANGED <<value, enqueuePos, dequeuePos, emitting, time, tracer, player,
                 buffer, made, lost>>

DrainNow == PopCopy \/ PopRelease
Collecting == Start \/ DrainNow

Next == (\E p \in Producers : Emitting(p)) \/ TracePoint \/ Collecting

Spec == Init /\ [][Next]_vars
-----------------------------------------------------------------------------
(***************************************************************************)
(* latency_report.py on what was collected: a journey is a correlation     *)
(* whose chord was collected; it is complete when every linked stage was.  *)
(***************************************************************************)
Collected == Range(buffer)
Times(recs, c, stage) == {r.at : r \in {q \in recs : q.corr = c /\ q.stage = stage}}

CoreStages == {"chord", "accomp", "enqueue", "send"}
Journeys(recs) == {c \in 1 .. MaxChords : Times(recs, c, "chord") # {}}
IsComplete(recs, c) == \A s \in CoreStages : Times(recs, c, s) # {}
Complete(recs) == {c \in Journeys(recs) : IsComplete(recs, c)}
Latency(recs, c) == Min(Times(recs, c, "send")) - Min(Times(recs, c, "chord"))

\* The nearest-rank percentile of the complete journeys' latencies.
AtMost(recs, v) == {c \in Complete(recs) : Latency(recs, c) <= v}
Percentile(recs, p) ==
  Min({v \in {Latency(recs, c) : c \in Complete(recs)} :
         100 * Cardinality(AtMost(recs, v)) >= p * Cardinality(Complete(recs))})

TooSlow(recs) ==
  /\ Complete(recs) # {}
  /\ \/ Percentile(recs, 50) > MaxLatency.p50
     \/ Percentile(recs, 95) > MaxLatency.p95
     \/ Percentile(recs, 100) > MaxLatency.max

(***************************************************************************)
(* What load_trace() makes of an export: writeJson() writes the records    *)
(* and the counters, writeCsv() the records only, so there are counters in *)
(* the one and none in the other, and what is not there is not looked at.  *)
(***************************************************************************)
Json == {counters}
Csv == {}
Exports == {Json, Csv}

\* Mutated: dropped records are a warning only.
DropsWarn(cs) == \E c \in cs : c.active # 0 \/ c.overflows # 0

BadCounter(cs) == \E c \in cs : c.active # 0 \/ c.dropped # 0 \/ c.overflows # 0

\* MAX_INCOMPLETE_FRACTION is one in twenty.
Thin(recs) ==
  \/ Cardinality(Complete(recs)) < MinGateSamples
  \/ 20 * Cardinality(Journeys(recs) \ Complete(recs)) > Cardinality(Journeys(recs))

Verdict(recs, cs) ==
  CASE TooSlow(recs) \/ BadCounter(cs) -> "FAIL"
    [] ~ (TooSlow(recs) \/ BadCounter(cs)) /\ Thin(recs) -> "INSUFFICIENT_DATA"
    [] OTHER -> "PASS"
-----------------------------------------------------------------------------
TypeOK ==
  /\ seq \in [Slots -> Nat] /\ enqueuePos \in Nat /\ dequeuePos \in Nat
  /\ \A p \in Producers : emitting[p].rec.stage \in Stages \cup {"none"}
  /\ time \in 0 .. MaxRecords /\ correlation \in 0 .. MaxChords
  /\ accomp \in 0 .. correlation
  /\ collector \in [running : BOOLEAN, copied : BOOLEAN]

(***************************************************************************)
(* The ring loses and doubles nothing: what is collected are records that  *)
(* were made, each once, one producer's in the order it made them; what    *)
(* was dropped is counted and never collected; and once the producers have *)
(* finished and the ring is read out, no record is neither.                *)
(***************************************************************************)
Captured ==
  collector.running /\ ~ collector.copied /\ AllReady /\ enqueuePos = dequeuePos

CollectedOnceInOrder ==
  /\ Collected \subseteq made \ lost
  /\ \A i, j \in DOMAIN buffer :
       i < j => /\ buffer[i] # buffer[j]
                /\ buffer[i].by = buffer[j].by => buffer[i].at < buffer[j].at
  /\ counters.dropped = Cardinality(lost)
  /\ Captured => made = Collected \cup lost

(***************************************************************************)
(* A PASS of a capture whose producers have finished, read out to the end: *)
(* at least MinGateSamples of the journeys looked at are complete and none *)
(* of them is above the limit.  If the export has the counters, they are   *)
(* all the journeys there were, whatever the ring has dropped, and no note *)
(* of the accompaniment still sounds.                                      *)
(***************************************************************************)
PassIsEarned ==
  \A cs \in Exports : Captured /\ Verdict(Collected, cs) = "PASS" =>
    /\ Cardinality(Complete(Collected)) >= MinGateSamples
    /\ \A c \in Complete(Collected) : Latency(Collected, c) <= MaxLatency.max
    /\ cs = Json => Collected = made /\ ~ player.sounding

\* "A PASS requires clean counters" (GATE_3_LATENCY_INSTRUMENTATION.md:158-162):
\* of an export without counters this does not hold.
PassHasCleanCounters ==
  \A cs \in Exports : Captured /\ Verdict(Collected, cs) = "PASS" => ~ BadCounter(Json)

(***************************************************************************)
(* The gauge is zero when nothing sounds: "must be 0 after                 *)
(* stop/panic/switch/close = no stuck notes"                               *)
(* (GATE_3_LATENCY_INSTRUMENTATION.md:95-96).                              *)
(***************************************************************************)
GaugeIsTrue == ~ player.sounding => counters.active = 0
=============================================================================
