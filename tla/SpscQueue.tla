------------------------------ MODULE SpscQueue ------------------------------
(***************************************************************************)
(* The lock-free ring of the engine, load by load and store by store:      *)
(* LockFreeQueue (src/engine/midi/scheduler.h), whose names are used here, *)
(* and its twins UiEventQueue (src/control/ui_event_queue.h) and           *)
(* ControlEventQueue (src/engine/control/control_surface.h), in which the  *)
(* producer's index is called head_.  It carries commands from the UI to   *)
(* the engine thread, MIDI input from the read thread to the engine        *)
(* thread, and events from the engine thread to CoreMidiOut's.             *)
(*                                                                         *)
(* An index another thread has stored may be seen late, but never earlier  *)
(* than a value already seen (coherence); seenHead and seenTail are what   *)
(* each side has seen.  What was written before an index was stored with   *)
(* release is seen by whoever loads that index with acquire, so the slots  *)
(* themselves need no such delay.  A slot is copied in a step of its own:  *)
(* while one side is at it, the other may be anywhere.                     *)
(***************************************************************************)
EXTENDS Integers, Sequences

CONSTANTS
  Items,           \* what the queue carries
  Blank,           \* the content of a slot never written
  Capacity,        \* slots; one is always left empty
  MaxSent          \* bound: items the producer puts in

ASSUME RingAssumption ==
  /\ Capacity \in Nat \ {0, 1}
  /\ MaxSent \in Nat
  /\ Blank \notin Items

VARIABLES
  buffer,          \* buffer_
  head,            \* head_: the slot to read next, the consumer's
  tail,            \* tail_: the slot to write next, the producer's
  seenHead,        \* the latest head_ the producer has loaded
  seenTail,        \* the latest tail_ the consumer has loaded
  producer,        \* where push() is
  consumer,        \* where pop() is
  pushing,         \* push()'s argument
  popped,          \* pop()'s result, once it is copied
  sent,            \* history: the items whose push has returned true
  taken            \* history: the items whose pop has returned true

vars == <<buffer, head, tail, seenHead, seenTail, producer, consumer, pushing,
          popped, sent, taken>>

Slots == 0 .. Capacity - 1

NextIndex(i) == (i + 1) % Capacity

(***************************************************************************)
(* size(): how many slots lie from h up to t, going round; and the k-th    *)
(* slot from h on.                                                         *)
(***************************************************************************)
Size(h, t) == IF t >= h THEN t - h ELSE Capacity - h + t

SlotAt(h, k) == IF h + k < Capacity THEN h + k ELSE h + k - Capacity

(***************************************************************************)
(* The values a load may return: from what was seen up to what is stored.  *)
(***************************************************************************)
Loads(seen, stored) == {SlotAt(seen, k) : k \in 0 .. Size(seen, stored)}

Init ==
  /\ buffer = [i \in Slots |-> Blank]
  /\ head = 0 /\ tail = 0 /\ seenHead = 0 /\ seenTail = 0
  /\ producer = "idle" /\ consumer = "idle"
  /\ pushing = Blank /\ popped = Blank
  /\ sent = <<>> /\ taken = <<>>
-----------------------------------------------------------------------------
(***************************************************************************)
(* push(): load head_ and give up when the ring looks full, copy the item  *)
(* into the slot, store tail_.                                             *)
(***************************************************************************)
\* Mutated: no slot is left empty.
NeverFull(t, h) == FALSE

LooksFull(t, h) == NextIndex(t) = h

PushBegin ==
  /\ producer = "idle"
  /\ Len(sent) < MaxSent
  /\ \E item \in Items, h \in Loads(seenHead, head) :
       /\ seenHead' = h
       /\ IF LooksFull(tail, h)
          THEN UNCHANGED <<producer, pushing>>
          ELSE producer' = "copy" /\ pushing' = item
  /\ UNCHANGED <<buffer, head, tail, seenTail, consumer, popped, sent, taken>>

\* Mutated: one slot too far.
WriteAhead == buffer' = [buffer EXCEPT ![NextIndex(tail)] = pushing]

WriteSlot == buffer' = [buffer EXCEPT ![tail] = pushing]

PushCopy ==
  /\ producer = "copy"
  /\ WriteSlot
  /\ producer' = "publish"
  /\ UNCHANGED <<head, tail, seenHead, seenTail, consumer, pushing, popped, sent,
                 taken>>

PushPublish ==
  /\ producer = "publish"
  /\ tail' = NextIndex(tail)
  /\ sent' = Append(sent, pushing)
  /\ producer' = "idle"
  /\ pushing' = Blank
  /\ UNCHANGED <<buffer, head, seenHead, seenTail, consumer, popped, taken>>
-----------------------------------------------------------------------------
(***************************************************************************)
(* pop(): load tail_ and give up when the ring looks empty, copy the item  *)
(* out of the slot, store head_.                                           *)
(***************************************************************************)
LooksEmpty(h, t) == h = t

PopBegin ==
  /\ consumer = "idle"
  /\ \E t \in Loads(seenTail, tail) :
       /\ seenTail' = t
       /\ consumer' = IF LooksEmpty(head, t) THEN "idle" ELSE "copy"
  /\ UNCHANGED <<buffer, head, tail, seenHead, producer, pushing, popped, sent, taken>>

PopCopy ==
  /\ consumer = "copy"
  /\ popped' = buffer[head]
  /\ consumer' = "release"
  /\ UNCHANGED <<buffer, head, tail, seenHead, seenTail, producer, pushing, sent, taken>>

\* Mutated: the slot is kept.
PopKeepsSlot ==
  /\ consumer = "release"
  /\ consumer' = "idle"
  /\ popped' = Blank
  /\ UNCHANGED <<buffer, head, tail, seenHead, seenTail, producer, pushing, sent, taken>>

PopRelease ==
  /\ consumer = "release"
  /\ head' = NextIndex(head)
  /\ taken' = Append(taken, popped)
  /\ consumer' = "idle"
  /\ popped' = Blank
  /\ UNCHANGED <<buffer, tail, seenHead, seenTail, producer, pushing, sent>>

Next == PushBegin \/ PushCopy \/ PushPublish \/ PopBegin \/ PopCopy \/ PopRelease

Spec == Init /\ [][Next]_vars

(***************************************************************************)
(* Both threads go on with a call they have begun, the consumer's loop     *)
(* (LiveEngineFacade::tick, CoreMidiOut::dispatchLoop) polls for ever, and *)
(* a stored index is seen in the end.                                      *)
(***************************************************************************)
PopSeesTail == PopBegin /\ seenTail' = tail

Fairness ==
  /\ WF_vars(PushCopy) /\ WF_vars(PushPublish)
  /\ WF_vars(PopSeesTail) /\ WF_vars(PopCopy) /\ WF_vars(PopRelease)

FairSpec == Spec /\ Fairness
-----------------------------------------------------------------------------
TypeOK ==
  /\ buffer \in [Slots -> Items \cup {Blank}]
  /\ head \in Slots /\ tail \in Slots /\ seenHead \in Slots /\ seenTail \in Slots
  /\ producer \in {"idle", "copy", "publish"}
  /\ consumer \in {"idle", "copy", "release"}
  /\ pushing \in Items \cup {Blank} /\ popped \in Items \cup {Blank}
  /\ sent \in Seq(Items) /\ taken \in Seq(Items)

(***************************************************************************)
(* The two sides are never at one slot together: that would be a data race *)
(* on the item (scheduler.h:36, 46).                                       *)
(***************************************************************************)
NoSlotRace ==
  ~ (producer \in {"copy", "publish"} /\ consumer \in {"copy", "release"} /\ head = tail)

(***************************************************************************)
(* The ring is a bounded FIFO: its content is what lies from head_ to      *)
(* tail_, and storing an index is what puts an item in or takes it out.    *)
(* So nothing is lost, doubled, reordered or torn.                         *)
(***************************************************************************)
Content == [k \in 1 .. Size(head, tail) |-> buffer[SlotAt(head, k - 1)]]

Fifo == INSTANCE BoundedFifo WITH Limit <- Capacity - 1, fifo <- Content

ImplementsFifo == Fifo!Spec

(***************************************************************************)
(* Every item put in is taken out in the end.                              *)
(***************************************************************************)
EverythingArrives ==
  \A n \in 1 .. MaxSent : Len(sent) >= n ~> Len(taken) >= n
=============================================================================
