----------------------------- MODULE MidiScheduler -----------------------------
(***************************************************************************)
(* MidiScheduler (src/engine/midi/scheduler.{h,cpp}): the bounded queue    *)
(* between the arranger and the MIDI output.  Here the queue is a sequence *)
(* and each call is one step; SpscQueue models the ring underneath it,     *)
(* load by load and store by store.                                        *)
(*                                                                         *)
(* An event is a note-on or a note-off of a note, or the all-sound-off /   *)
(* all-notes-off controller of a channel ("cc"), with the tick it is due   *)
(* at.  A note is numbered channel * 128 + MIDI note, so that the order of *)
(* the numbers is the order in which the code walks its bit sets.          *)
(***************************************************************************)
EXTENDS Integers, Sequences

CONSTANTS
  Notes,           \* the notes the style's tracks can voice
  MaxChannel,      \* kMaxChannel
  QueueCapacity    \* events the queue can hold: kDefaultQueueSize - 1

Channels == 0 .. MaxChannel

ChannelOf(n) == n \div 128

ASSUME NotesAssumption ==
  /\ MaxChannel \in Nat
  /\ Notes \subseteq Nat
  /\ \A n \in Notes : ChannelOf(n) \in Channels

ASSUME CapacityAssumption == QueueCapacity \in Nat \ {0}

Event == [kind : {"on", "off"}, key : Notes, tick : Nat]
           \cup [kind : {"cc"}, key : Channels, tick : Nat]

NoteOnEvent(n, tick)  == [kind |-> "on", key |-> n, tick |-> tick]
NoteOffEvent(n, tick) == [kind |-> "off", key |-> n, tick |-> tick]

\* Mutated: the channel is left out.
SilenceFirstChannel(ch) == [kind |-> "cc", key |-> 0, tick |-> 0]

SilenceEvent(ch) == [kind |-> "cc", key |-> ch, tick |-> 0]

(***************************************************************************)
(* The event decides whether note n sounds: a note-on or note-off of n, or *)
(* a silencing of its channel.                                             *)
(***************************************************************************)
Addresses(ev, n) ==
  \/ ev.kind \in {"on", "off"} /\ ev.key = n
  \/ ev.kind = "cc" /\ ev.key = ChannelOf(n)

VARIABLES
  queue,           \* queue_
  lost             \* history: scheduleEvent has returned false, unnoticed

schedVars == <<queue, lost>>

SchedInit == queue = <<>> /\ lost = FALSE

(***************************************************************************)
(* scheduleEvent(): every caller in StylePlayer ignores the result, so a   *)
(* push on a full queue loses the event.                                   *)
(***************************************************************************)
Full == Len(queue) >= QueueCapacity

Schedule(ev) ==
  /\ queue' = IF Full THEN queue ELSE Append(queue, ev)
  /\ lost' = (lost \/ Full)

ClearQueue == queue' = <<>> /\ UNCHANGED lost

(***************************************************************************)
(* The body of advanceTo()'s loop.  The event at the front is delivered    *)
(* when it is due; otherwise it goes to the BACK of the queue and the loop *)
(* ends, whatever is due behind it.                                        *)
(***************************************************************************)
\* Mutated: strictly later than the event.
FrontIsOverdue(tick) == queue # <<>> /\ Head(queue).tick < tick

FrontIsDue(tick) == queue # <<>> /\ Head(queue).tick <= tick

PopFront == queue' = Tail(queue) /\ UNCHANGED lost

PushBackFront ==
  /\ queue' = Append(Tail(queue), Head(queue))
  /\ UNCHANGED lost

SchedTypeOK == queue \in Seq(Event) /\ lost \in BOOLEAN
=============================================================================
