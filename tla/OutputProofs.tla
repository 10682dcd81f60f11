---------------------------- MODULE OutputProofs ----------------------------
(***************************************************************************)
(* Theorems about the way out of the engine's thread: the ring that takes  *)
(* its events (SpscQueue, for every capacity and every set of items) and   *)
(* the thread that sends them on (CoreMidiOut, for every set of devices,   *)
(* names and queue capacity, with and without a run loop).                 *)
(***************************************************************************)
EXTENDS SpscQueue, CoreMidiOut, SequenceTheorems, TLAPS

(***************************************************************************)
(* Part 1: going round.  The index arithmetic is modulo the capacity; with *)
(* these lemmas it is linear.                                              *)
(***************************************************************************)
LEMMA NextIs ==
  ASSUME NEW i \in Slots
  PROVE  NextIndex(i) = IF i = Capacity - 1 THEN 0 ELSE i + 1
  <1>1. CASE i = Capacity - 1
    BY <1>1, RingAssumption DEF NextIndex, Slots
  <1>2. CASE i # Capacity - 1
    BY <1>2, RingAssumption DEF NextIndex, Slots
  <1>3. QED
    BY <1>1, <1>2

LEMMA NextSlot ==
  ASSUME NEW i \in Slots
  PROVE  NextIndex(i) \in Slots /\ NextIndex(i) # i
  BY NextIs, RingAssumption DEF Slots

LEMMA SizeRange ==
  ASSUME NEW h \in Slots, NEW t \in Slots
  PROVE  Size(h, t) \in 0 .. Capacity - 1 /\ (Size(h, t) = 0 <=> h = t)
  BY RingAssumption DEF Slots, Size

\* Storing an item makes the ring longer by one, unless it looked full.
LEMMA SizeGrows ==
  ASSUME NEW h \in Slots, NEW t \in Slots, Size(h, t) < Capacity - 1
  PROVE  Size(h, NextIndex(t)) = Size(h, t) + 1
  BY NextIs, RingAssumption DEF Slots, Size

\* Taking one makes it shorter by one, unless it looked empty.
LEMMA SizeShrinks ==
  ASSUME NEW h \in Slots, NEW t \in Slots, h # t
  PROVE  Size(NextIndex(h), t) = Size(h, t) - 1
  BY NextIs, RingAssumption DEF Slots, Size

LEMMA FullSize ==
  ASSUME NEW h \in Slots, NEW t \in Slots
  PROVE  LooksFull(t, h) <=> Size(h, t) = Capacity - 1
  BY NextIs, RingAssumption DEF Slots, Size, LooksFull

LEMMA SlotInRing ==
  ASSUME NEW h \in Slots, NEW k \in 0 .. Capacity - 1
  PROVE  SlotAt(h, k) \in Slots
  BY RingAssumption DEF Slots, SlotAt

\* Between the two indices no slot comes twice, and the one to write is not among them.
LEMMA SlotBeforeTail ==
  ASSUME NEW h \in Slots, NEW t \in Slots, NEW k \in 0 .. Size(h, t) - 1
  PROVE  SlotAt(h, k) \in Slots /\ SlotAt(h, k) # t
  BY RingAssumption DEF Slots, SlotAt, Size

LEMMA SlotOfTail ==
  ASSUME NEW h \in Slots, NEW t \in Slots
  PROVE  SlotAt(h, Size(h, t)) = t
  BY RingAssumption DEF Slots, SlotAt, Size

LEMMA SlotAfterHead ==
  ASSUME NEW h \in Slots, NEW k \in 0 .. Capacity - 2
  PROVE  SlotAt(NextIndex(h), k) = SlotAt(h, k + 1)
  BY NextIs, RingAssumption DEF Slots, SlotAt

(***************************************************************************)
(* What a load returns lies between what was seen and what is stored: the  *)
(* producer never underestimates, nor the consumer overestimates, how much *)
(* is in the ring, and neither view ever goes back.                        *)
(***************************************************************************)
LEMMA LoadOfHead ==
  ASSUME NEW s \in Slots, NEW h \in Slots, NEW t \in Slots,
         Size(h, t) <= Size(s, t), NEW x \in Loads(s, h)
  PROVE  x \in Slots /\ Size(h, t) <= Size(x, t)
  <1>1. PICK k \in 0 .. Size(s, h) : x = SlotAt(s, k)
    BY DEF Loads
  <1>2. QED
    BY <1>1, RingAssumption DEF Slots, Size, SlotAt

LEMMA LoadOfTail ==
  ASSUME NEW h \in Slots, NEW s \in Slots, NEW t \in Slots,
         Size(h, s) <= Size(h, t), NEW x \in Loads(s, t)
  PROVE  x \in Slots /\ Size(h, x) <= Size(h, t)
  <1>1. PICK k \in 0 .. Size(s, t) : x = SlotAt(s, k)
    BY DEF Loads
  <1>2. QED
    BY <1>1, RingAssumption DEF Slots, Size, SlotAt

-----------------------------------------------------------------------------
(***************************************************************************)
(* Part 2: the invariant.  Each side's view of the other's index is out of *)
(* date in the safe direction, and what a side has decided on from it      *)
(* stays true until it acts: the producer in a call knows of a free slot,  *)
(* the consumer in a call of an item.                                      *)
(***************************************************************************)
Views ==
  /\ Size(head, tail) <= Size(seenHead, tail)
  /\ Size(head, seenTail) <= Size(head, tail)

ProducerKnows ==
  /\ producer # "idle" => /\ ~ LooksFull(tail, seenHead)
                          /\ pushing \in Items
  /\ producer = "publish" => buffer[tail] = pushing

ConsumerKnows ==
  /\ consumer # "idle" => head # seenTail
  /\ consumer = "release" => popped = buffer[head]

ContentIsItems ==
  \A k \in 0 .. Size(head, tail) - 1 : buffer[SlotAt(head, k)] \in Items

RingInvariant == TypeOK /\ Views /\ ProducerKnows /\ ConsumerKnows /\ ContentIsItems
LEMMA InitRing == Init => RingInvariant
  BY RingAssumption DEF Init, RingInvariant, TypeOK, Views, ProducerKnows,
     ConsumerKnows, ContentIsItems, Slots, Size

\* An item is stored in a slot that is not in use; the rest of the ring stays.
LEMMA WriteKeepsContent ==
  ASSUME RingInvariant, PushCopy
  PROVE  /\ \A k \in 0 .. Size(head, tail) - 1 :
              buffer'[SlotAt(head, k)] = buffer[SlotAt(head, k)]
         /\ buffer'[tail] = pushing
         /\ buffer' \in [Slots -> Items \cup {Blank}]
  BY SlotBeforeTail DEF PushCopy, WriteSlot, RingInvariant, TypeOK, ProducerKnows

LEMMA StepRing == RingInvariant /\ [Next]_vars => RingInvariant'
  <1> SUFFICES ASSUME RingInvariant, [Next]_vars
               PROVE  RingInvariant'
    OBVIOUS
  <1> USE DEF RingInvariant
  <1>0. /\ Size(head, tail) \in 0 .. Capacity - 1
        /\ Size(seenHead, tail) \in 0 .. Capacity - 1
        /\ Size(head, seenTail) \in 0 .. Capacity - 1
    BY SizeRange DEF TypeOK
  <1>1. CASE UNCHANGED vars
    BY <1>1 DEF vars, TypeOK, Views, ProducerKnows, ConsumerKnows, ContentIsItems
  <1>2. CASE PushBegin
    <2>1. PICK item \in Items, h \in Loads(seenHead, head) :
            /\ seenHead' = h
            /\ IF LooksFull(tail, h)
               THEN UNCHANGED <<producer, pushing>>
               ELSE producer' = "copy" /\ pushing' = item
      BY <1>2 DEF PushBegin
    <2>2. h \in Slots /\ Size(head, tail) <= Size(h, tail)
      BY LoadOfHead DEF TypeOK, Views
    <2>3. TypeOK' /\ Views'
      BY <1>2, <2>1, <2>2 DEF PushBegin, TypeOK, Views
    <2>4. ProducerKnows'
      BY <1>2, <2>1 DEF PushBegin, ProducerKnows
    <2>5. ConsumerKnows' /\ ContentIsItems'
      BY <1>2 DEF PushBegin, ConsumerKnows, ContentIsItems
    <2>6. QED
      BY <2>3, <2>4, <2>5
  <1>3. CASE PushCopy
    <2>1. TypeOK'
      BY <1>3, WriteKeepsContent DEF PushCopy, TypeOK
    <2>2. Views'
      BY <1>3 DEF PushCopy, Views
    <2>3. ProducerKnows'
      BY <1>3, WriteKeepsContent DEF PushCopy, ProducerKnows
    <2>4. ConsumerKnows'
      <3>1. consumer = "release" => buffer'[head] = buffer[head]
        <4> SUFFICES ASSUME consumer = "release"
                     PROVE  buffer'[head] = buffer[head]
          OBVIOUS
        <4>1. head # tail
          BY SizeRange DEF TypeOK, Views, ConsumerKnows
        <4>2. QED
          BY <1>3, <4>1 DEF PushCopy, WriteSlot, TypeOK
      <3>2. QED
        BY <1>3, <3>1 DEF PushCopy, ConsumerKnows
    <2>5. ContentIsItems'
      BY <1>3, WriteKeepsContent DEF PushCopy, ContentIsItems
    <2>6. QED
      BY <2>1, <2>2, <2>3, <2>4, <2>5
  <1>4. CASE PushPublish
    <2>1. Size(seenHead, tail) < Capacity - 1 /\ Size(head, tail) < Capacity - 1
      BY <1>4, FullSize, SizeRange, RingAssumption, SMTT(30) DEF PushPublish, TypeOK, Views, ProducerKnows
    <2>2. /\ Size(head, NextIndex(tail)) = Size(head, tail) + 1
          /\ Size(seenHead, NextIndex(tail)) = Size(seenHead, tail) + 1
      BY <2>1, SizeGrows DEF TypeOK
    <2>3. TypeOK'
      BY <1>4, NextSlot DEF PushPublish, TypeOK, ProducerKnows
    <2>4. Views'
      BY <1>4, <2>2, SizeRange, SMTT(30) DEF PushPublish, Views, TypeOK
    <2>5. ProducerKnows' /\ ConsumerKnows'
      BY <1>4 DEF PushPublish, ProducerKnows, ConsumerKnows
    <2>6. ContentIsItems'
      <3> SUFFICES ASSUME NEW k \in 0 .. Size(head, tail)
                   PROVE  buffer[SlotAt(head, k)] \in Items
        BY <1>0, <1>4, <2>2 DEF PushPublish, ContentIsItems
      <3>1. CASE k = Size(head, tail)
        BY <1>4, <3>1, SlotOfTail DEF PushPublish, TypeOK, ProducerKnows
      <3>2. CASE k # Size(head, tail)
        BY <3>2, SizeRange, SMTT(30) DEF ContentIsItems, TypeOK
      <3>3. QED
        BY <3>1, <3>2
    <2>7. QED
      BY <2>3, <2>4, <2>5, <2>6
  <1>5. CASE PopBegin
    <2>1. PICK t \in Loads(seenTail, tail) :
            /\ seenTail' = t
            /\ consumer' = IF LooksEmpty(head, t) THEN "idle" ELSE "copy"
      BY <1>5 DEF PopBegin
    <2>2. t \in Slots /\ Size(head, t) <= Size(head, tail)
      BY LoadOfTail DEF TypeOK, Views
    <2>3. TypeOK' /\ Views'
      BY <1>5, <2>1, <2>2 DEF PopBegin, TypeOK, Views
    <2>4. ConsumerKnows'
      BY <1>5, <2>1 DEF PopBegin, ConsumerKnows, LooksEmpty
    <2>5. ProducerKnows' /\ ContentIsItems'
      BY <1>5 DEF PopBegin, ProducerKnows, ContentIsItems
    <2>6. QED
      BY <2>3, <2>4, <2>5
  <1>6. CASE PopCopy
    BY <1>6 DEF PopCopy, TypeOK, Views, ProducerKnows, ConsumerKnows, ContentIsItems
  <1>7. CASE PopRelease
    <2>1. head # seenTail /\ head # tail
      BY <1>7, SizeRange DEF PopRelease, TypeOK, Views, ConsumerKnows
    <2>2. /\ Size(NextIndex(head), tail) = Size(head, tail) - 1
          /\ Size(NextIndex(head), seenTail) = Size(head, seenTail) - 1
      BY <2>1, SizeShrinks DEF TypeOK
    <2>3. popped \in Items
      <3>1. SlotAt(head, 0) = head
        BY RingAssumption DEF SlotAt, TypeOK, Slots
      <3>2. QED
        BY <1>7, <2>1, <3>1, SizeRange, SMTT(30) DEF PopRelease, ConsumerKnows, ContentIsItems, TypeOK
    <2>4. TypeOK'
      BY <1>7, <2>3, NextSlot DEF PopRelease, TypeOK
    <2>5. Views'
      BY <1>0, <1>7, <2>2, RingAssumption DEF PopRelease, Views
    <2>6. ProducerKnows' /\ ConsumerKnows'
      BY <1>7 DEF PopRelease, ProducerKnows, ConsumerKnows
    <2>7. ContentIsItems'
      <3> SUFFICES ASSUME NEW k \in 0 .. Size(head, tail) - 2
                   PROVE  buffer[SlotAt(NextIndex(head), k)] \in Items
        BY <1>7, <2>2, SizeRange, SMTT(30) DEF PopRelease, ContentIsItems, TypeOK
      <3>1. k \in 0 .. Capacity - 2 /\ k + 1 \in 0 .. Size(head, tail) - 1
        BY <1>0, RingAssumption
      <3>2. QED
        BY <3>1, SlotAfterHead DEF ContentIsItems, TypeOK
    <2>8. QED
      BY <2>4, <2>5, <2>6, <2>7
  <1>8. QED
    BY <1>1, <1>2, <1>3, <1>4, <1>5, <1>6, <1>7 DEF Next

LEMMA RingCorrect == Spec => []RingInvariant
  BY InitRing, StepRing, PTL DEF Spec

(***************************************************************************)
(* The producer and the consumer are never at one slot together            *)
(* (scheduler.h:36, 46): a consumer in a call knows of an item between the *)
(* indices, so they are not equal.                                         *)
(***************************************************************************)
THEOREM NoRace == Spec => []NoSlotRace
  <1>1. RingInvariant => NoSlotRace
    BY SizeRange DEF RingInvariant, TypeOK, Views, ConsumerKnows, NoSlotRace
  <1>2. QED
    BY <1>1, RingCorrect, PTL
-----------------------------------------------------------------------------
(***************************************************************************)
(* Part 3: the refinement.  Storing tail_ is the abstract Put, storing     *)
(* head_ the abstract Take; every other step leaves the content as it is.  *)
(***************************************************************************)
ContentOf(b, h, t) == [k \in 1 .. Size(h, t) |-> b[SlotAt(h, k - 1)]]

HoldsItems(b, h, t) == \A k \in 0 .. Size(h, t) - 1 : b[SlotAt(h, k)] \in Items

LEMMA ContentIsSeq ==
  ASSUME NEW h \in Slots, NEW t \in Slots, NEW b, HoldsItems(b, h, t)
  PROVE  ContentOf(b, h, t) \in Seq(Items) /\ Len(ContentOf(b, h, t)) = Size(h, t)
  <1>1. Size(h, t) \in Nat
    BY SizeRange
  <1>2. \A k \in 1 .. Size(h, t) : b[SlotAt(h, k - 1)] \in Items
    BY <1>1 DEF HoldsItems
  <1>3. QED
    BY <1>1, <1>2 DEF ContentOf

LEMMA ContentGrows ==
  ASSUME NEW h \in Slots, NEW t \in Slots, NEW b, HoldsItems(b, h, t),
         Size(h, t) < Capacity - 1, b[t] \in Items
  PROVE  ContentOf(b, h, NextIndex(t)) = Append(ContentOf(b, h, t), b[t])
  <1>1. Size(h, t) \in Nat /\ Size(h, NextIndex(t)) = Size(h, t) + 1
    BY SizeRange, SizeGrows
  <1>2. SlotAt(h, Size(h, t)) = t
    BY SlotOfTail
  <1>3. Append(ContentOf(b, h, t), b[t])
          = [k \in 1 .. Size(h, t) + 1 |->
               IF k = Size(h, t) + 1 THEN b[t] ELSE b[SlotAt(h, k - 1)]]
    BY <1>1, ContentIsSeq DEF ContentOf
  <1>4. QED
    BY <1>1, <1>2, <1>3 DEF ContentOf

LEMMA ContentShrinks ==
  ASSUME NEW h \in Slots, NEW t \in Slots, NEW b, HoldsItems(b, h, t), h # t
  PROVE  /\ ContentOf(b, h, t) # <<>>
         /\ Head(ContentOf(b, h, t)) = b[h]
         /\ Tail(ContentOf(b, h, t)) = ContentOf(b, NextIndex(h), t)
  <1> DEFINE n == Size(h, t)
  <1>1. n \in 1 .. Capacity - 1 /\ Size(NextIndex(h), t) = n - 1
    BY SizeRange, SizeShrinks
  <1>2. SlotAt(h, 0) = h
    BY RingAssumption DEF SlotAt, Slots
  <1>3. ContentOf(b, h, t) \in Seq(Items) /\ Len(ContentOf(b, h, t)) = n
    BY ContentIsSeq
  <1>4. ContentOf(b, h, t) # <<>> /\ Head(ContentOf(b, h, t)) = b[h]
    BY <1>1, <1>2, <1>3 DEF ContentOf
  <1>5. Tail(ContentOf(b, h, t)) = ContentOf(b, NextIndex(h), t)
    <2> DEFINE s == ContentOf(b, h, t)
               u == ContentOf(b, NextIndex(h), t)
    <2>1. /\ Tail(s) \in Seq(Items) /\ Len(Tail(s)) = n - 1
          /\ \A k \in 1 .. n - 1 : Tail(s)[k] = s[k + 1]
      BY <1>1, <1>3, <1>4, HeadTailProperties
    <2>2. \A k \in 0 .. n - 2 : SlotAt(NextIndex(h), k) = SlotAt(h, k + 1)
      BY <1>1, SlotAfterHead, RingAssumption
    <2>3. HoldsItems(b, NextIndex(h), t)
      BY <1>1, <2>2 DEF HoldsItems
    <2>4. u \in Seq(Items) /\ Len(u) = n - 1
      BY <1>1, <2>3, NextSlot, ContentIsSeq
    <2>5. ASSUME NEW k \in 1 .. n - 1
          PROVE  Tail(s)[k] = u[k]
      <3>1. s[k + 1] = b[SlotAt(h, k)] /\ u[k] = b[SlotAt(NextIndex(h), k - 1)]
        BY <1>1 DEF ContentOf
      <3>2. k - 1 \in 0 .. n - 2 /\ (k - 1) + 1 = k
        BY <1>1
      <3>3. QED
        BY <2>1, <2>2, <3>1, <3>2
    <2>6. QED
      BY <2>1, <2>4, <2>5, SeqEqual
  <1>6. QED
    BY <1>4, <1>5

LEMMA ContentIs ==
  ASSUME RingInvariant
  PROVE  /\ Content = ContentOf(buffer, head, tail)
         /\ HoldsItems(buffer, head, tail)
         /\ head \in Slots /\ tail \in Slots
  BY DEF RingInvariant, TypeOK, ContentIsItems, Content, ContentOf, HoldsItems

LEMMA InitIsEmpty == Init => Fifo!Init
  BY RingAssumption DEF Init, Fifo!Init, Content, Size

LEMMA PublishPuts ==
  ASSUME RingInvariant, PushPublish
  PROVE  Fifo!Put(pushing) /\ pushing \in Items
  <1>1. /\ Size(head, tail) < Capacity - 1
        /\ buffer[tail] = pushing /\ pushing \in Items
    BY FullSize, SizeRange, RingAssumption, SMTT(30) DEF RingInvariant, PushPublish, TypeOK, Views, ProducerKnows
  <1>2. Content' = ContentOf(buffer, head, NextIndex(tail))
    BY DEF PushPublish, Content, ContentOf
  <1>3. Content' = Append(Content, pushing)
    BY <1>1, <1>2, ContentIs, ContentGrows
  <1>4. Len(Content) = Size(head, tail)
    BY ContentIs, ContentIsSeq
  <1>5. QED
    BY <1>1, <1>3, <1>4 DEF Fifo!Put, PushPublish

LEMMA ReleaseTakes ==
  ASSUME RingInvariant, PopRelease
  PROVE  Fifo!Take
  <1>1. head # tail /\ popped = buffer[head]
    BY SizeRange DEF PopRelease, RingInvariant, TypeOK, Views, ConsumerKnows
  <1>2. Content' = ContentOf(buffer, NextIndex(head), tail)
    BY DEF PopRelease, Content, ContentOf
  <1>3. Content # <<>> /\ Head(Content) = popped /\ Tail(Content) = Content'
    BY <1>1, <1>2, ContentIs, ContentShrinks
  <1>4. QED
    BY <1>3 DEF Fifo!Take, PopRelease

LEMMA CopyStutters ==
  ASSUME RingInvariant, PushCopy
  PROVE  UNCHANGED <<Content, taken>>
  <1>1. \A k \in 1 .. Size(head, tail) : k - 1 \in 0 .. Size(head, tail) - 1
    BY SizeRange, SMTT(30) DEF RingInvariant, TypeOK
  <1>2. QED
    BY <1>1, WriteKeepsContent DEF PushCopy, Content

LEMMA StepImplements ==
  RingInvariant /\ [Next]_vars => [Fifo!Next]_<<Content, taken>>
  <1> SUFFICES ASSUME RingInvariant, [Next]_vars
               PROVE  Fifo!Next \/ UNCHANGED <<Content, taken>>
    BY DEF Fifo!Next
  <1>1. CASE PushPublish
    BY <1>1, PublishPuts DEF Fifo!Next
  <1>2. CASE PopRelease
    BY <1>2, ReleaseTakes DEF Fifo!Next
  <1>3. CASE PushCopy
    BY <1>3, CopyStutters
  <1>4. CASE PushBegin \/ PopBegin \/ PopCopy \/ UNCHANGED vars
    BY <1>4 DEF PushBegin, PopBegin, PopCopy, vars, Content
  <1>5. QED
    BY <1>1, <1>2, <1>3, <1>4 DEF Next

(***************************************************************************)
(* Whatever the capacity, and however late the indices are seen, the ring  *)
(* is a queue of Capacity - 1 places: what push() has put in pop() takes   *)
(* out once, in order and whole (LockFreeQueue, scheduler.h).              *)
(***************************************************************************)
THEOREM RingIsFifo == Spec => ImplementsFifo
  <1>1. RingInvariant /\ [Next]_vars => [Fifo!Next]_<<Content, taken>>
    BY StepImplements
  <1>2. QED
    BY <1>1, InitIsEmpty, RingCorrect, PTL DEF Spec, ImplementsFifo, Fifo!Spec

(***************************************************************************)
(* Part 4: shutdown.  The dispatch thread exists only while the output is  *)
(* initialized.  It drains for the last time only when shutdown() waits    *)
(* for it, and then nothing is queued any more; so it leaves with an empty *)
(* queue, and the port is disposed of after it has left.                   *)
(***************************************************************************)
ThreadInvariant ==
  /\ initialized => port
  /\ owner = "spawn" => port /\ ~ initialized
  /\ owner = "join" <=> initialized /\ ~ running
  /\ dispatch # "exited" => initialized
  /\ dispatch # "exited" /\ final => owner = "join"
  /\ dispatch = "exited" /\ initialized => owner = "join"
  /\ dispatch = "exited" => queue = <<>>

threadVars == <<initialized, port, running, queue, dispatch, final>>

LEMMA OwnerMoves ==
  ASSUME ThreadInvariant, UNCHANGED threadVars,
         owner # "join", owner' # "join",
         owner' = "spawn" => port /\ ~ initialized
  PROVE  ThreadInvariant'
  BY Zenon DEF ThreadInvariant, threadVars

LEMMA DispatchMoves ==
  ASSUME ThreadInvariant, UNCHANGED <<initialized, port, running, owner, final>>,
         dispatch # "exited", dispatch' # "exited"
  PROVE  ThreadInvariant'
  BY Zenon DEF ThreadInvariant

LEMMA StepThread == ThreadInvariant /\ [OutputNext]_outputVars => ThreadInvariant'
  <1> SUFFICES ASSUME ThreadInvariant, [OutputNext]_outputVars
               PROVE  ThreadInvariant'
    OBVIOUS
  <1>1. CASE UNCHANGED outputVars
    BY <1>1, Zenon DEF outputVars, ThreadInvariant, ownerVars, dispatchVars
  <1>2. CASE Send
    BY <1>2, DispatchMoves, Zenon DEF Send, Open, ThreadInvariant, ownerVars,
       dispatchVars
  <1>3. CASE Initialize
    BY <1>3 DEF Initialize, BeginSelect, ThreadInvariant, dispatchVars
  <1>4. CASE SelectDevice \/ SelectNone \/ Silence \/ RememberName
    BY <1>4, OwnerMoves DEF SelectDevice, SelectNone, Silence, RememberName,
       BeginSelect, threadVars, dispatchVars
  <1>5. CASE StoreIndex \/ StoreTarget
    BY <1>5, OwnerMoves DEF StoreIndex, StoreTarget, EndSelect, threadVars, dispatchVars
  <1>6. CASE Spawn
    BY <1>6 DEF Spawn, ThreadInvariant
  <1>7. CASE Shutdown
    BY <1>7 DEF Shutdown, StopsRunning, ThreadInvariant, dispatchVars
  <1>8. CASE Dispose
    BY <1>8 DEF Dispose, Joined, ThreadInvariant, dispatchVars
  <1>9. CASE CheckRunning
    BY <1>9 DEF CheckRunning, FinalDrain, ThreadInvariant, ownerVars
  <1>10. CASE Drained
    BY <1>10 DEF Drained, ThreadInvariant, ownerVars
  <1>11. CASE ExchangeFlag \/ Probe
    BY <1>11, DispatchMoves DEF ExchangeFlag, Probe, CountAndProbe, ownerVars
  <1>12. CASE ResolveIndex \/ ReadName \/ Find \/ Mark \/ StoreFound
    BY <1>12, DispatchMoves DEF ResolveIndex, ReadName, Find, Mark, StoreFound, Goes,
       ownerVars
  <1>13. CASE Pop \/ LoadEndpoint \/ SendPacket
    BY <1>13, DispatchMoves DEF Pop, LoadEndpoint, SendPacket, Goes, ownerVars
  <1>14. CASE DevicesChange \/ NotifyProc
    <2>1. UNCHANGED <<threadVars, owner>>
      BY <1>14 DEF DevicesChange, NotifyProc, threadVars, ownerVars, dispatchVars
    <2>2. QED
      BY <2>1, Zenon DEF threadVars, ThreadInvariant
  <1>15. QED
    BY <1>1, <1>2, <1>3, <1>4, <1>5, <1>6, <1>7, <1>8, <1>9, <1>10, <1>11, <1>12,
       <1>13, <1>14 DEF OutputNext, OwnerStep, DispatchStep

LEMMA ThreadCorrect == OutputSpec => []ThreadInvariant
  <1>1. OutputInit => ThreadInvariant
    BY DEF OutputInit, ThreadInvariant
  <1>2. QED
    BY <1>1, StepThread, PTL DEF OutputSpec

(***************************************************************************)
(* Nothing is sent through a port that is gone (coremidi_out.cpp:290-292). *)
(***************************************************************************)
THEOREM PortIsThere == OutputSpec => []PortOutlivesSend
  <1>1. ThreadInvariant => PortOutlivesSend
    BY DEF ThreadInvariant, PortOutlivesSend
  <1>2. QED
    BY <1>1, ThreadCorrect, PTL

(***************************************************************************)
(* When shutdown() has returned, everything queued before it has been      *)
(* dispatched (coremidi_out.cpp:290-292).                                  *)
(***************************************************************************)
THEOREM QueueIsSent == OutputSpec => []ShutdownDrains
  <1>1. ThreadInvariant => ShutdownDrains
    BY DEF ThreadInvariant, ShutdownDrains
  <1>2. QED
    BY <1>1, ThreadCorrect, PTL
-----------------------------------------------------------------------------
(***************************************************************************)
(* Part 5: strays.  A device the thread is about to send to, and the one   *)
(* that is the endpoint, has had none.                                     *)
(***************************************************************************)
StrayInvariant ==
  /\ strays \in [Endpoints -> 0 .. 1]
  /\ endpoint \in Endpoints \cup {None}
  /\ target \in Endpoints \cup {None}
  /\ found \in Endpoints \cup {None}
  /\ present \subseteq Endpoints
  /\ endpoint # None => strays[endpoint] = 0
  /\ dispatch = "send" => dest \in Endpoints /\ strays[dest] = 0

LEMMA SameStrays ==
  ASSUME StrayInvariant, UNCHANGED <<strays, endpoint>>,
         target' \in Endpoints \cup {None}, found' \in Endpoints \cup {None},
         present' \subseteq Endpoints,
         dispatch' = "send" => dispatch = "send" /\ dest' = dest
  PROVE  StrayInvariant'
  BY Zenon DEF StrayInvariant

LEMMA StoreStrays ==
  ASSUME StrayInvariant, NEW e \in Endpoints \cup {None}, StoreEndpoint(e),
         target' \in Endpoints \cup {None}, found' \in Endpoints \cup {None},
         present' \subseteq Endpoints,
         dispatch' = "send" => dispatch = "send" /\ dest' = dest
  PROVE  StrayInvariant'
  <1>1. strays' \in [Endpoints -> 0 .. 1]
    BY DEF StoreEndpoint, StrayInvariant
  <1>2. endpoint' = e /\ (e # None => strays'[e] = 0)
    BY DEF StoreEndpoint
  <1>3. ASSUME dispatch' = "send"
        PROVE  dest' \in Endpoints /\ strays'[dest'] = 0
    BY <1>3 DEF StoreEndpoint, StrayInvariant
  <1>4. QED
    BY <1>1, <1>2, <1>3 DEF StrayInvariant

LEMMA StepStrays == StrayInvariant /\ [OutputNext]_outputVars => StrayInvariant'
  <1> SUFFICES ASSUME StrayInvariant, [OutputNext]_outputVars
               PROVE  StrayInvariant'
    OBVIOUS
  <1> USE OutputAssumption
  <1>0. /\ target \in Endpoints \cup {None} /\ found \in Endpoints \cup {None}
        /\ present \subseteq Endpoints
    BY DEF StrayInvariant
  <1>1. CASE UNCHANGED outputVars
    BY <1>0, <1>1, SameStrays DEF outputVars, shared, ownerVars, dispatchVars, devices
  <1>2. CASE Send \/ DevicesChange \/ NotifyProc
    BY <1>0, <1>2, SameStrays DEF Send, DevicesChange, NotifyProc, shared, ownerVars,
       dispatchVars, devices
  <1>3. CASE Initialize \/ SelectDevice
    <2>1. target' \in Endpoints \cup {None}
      BY <1>0, <1>3 DEF Initialize, SelectDevice, BeginSelect
    <2>2. QED
      BY <1>0, <1>3, <2>1, SameStrays DEF Initialize, SelectDevice, shared, dispatchVars,
         devices
  <1>4. CASE SelectNone
    BY <1>0, <1>4, StoreStrays DEF SelectNone, BeginSelect, dispatchVars, devices
  <1>5. CASE Silence \/ RememberName \/ StoreIndex \/ Spawn \/ Shutdown
    BY <1>0, <1>5, SameStrays DEF Silence, RememberName, StoreIndex, EndSelect, Spawn,
       Shutdown, shared, dispatchVars, devices
  <1>6. CASE StoreTarget
    BY <1>0, <1>6, StoreStrays DEF StoreTarget, EndSelect, dispatchVars, devices
  <1>7. CASE Dispose
    BY <1>0, <1>7, StoreStrays DEF Dispose, dispatchVars, devices
  <1>8. CASE CheckRunning \/ ExchangeFlag \/ Probe \/ ResolveIndex \/ ReadName \/ Mark
    BY <1>0, <1>8, SameStrays DEF CheckRunning, FinalDrain, ExchangeFlag, Probe,
       CountAndProbe, ResolveIndex, ReadName, Mark, Goes, shared, ownerVars, devices
  <1>9. CASE Find
    BY <1>0, <1>9, SameStrays DEF Find, shared, ownerVars, devices
  <1>10. CASE StoreFound
    BY <1>0, <1>10, StoreStrays DEF StoreFound, Goes, ownerVars, devices
  <1>11. CASE Pop \/ Drained
    BY <1>0, <1>11, SameStrays DEF Pop, Drained, shared, ownerVars, devices
  <1>12. CASE LoadEndpoint
    BY <1>0, <1>12 DEF LoadEndpoint, Destination, StrayInvariant, shared, ownerVars,
       devices
  <1>13. CASE SendPacket
    BY <1>0, <1>13 DEF SendPacket, Goes, StrayInvariant, shared, ownerVars, devices
  <1>14. QED
    BY <1>1, <1>2, <1>3, <1>4, <1>5, <1>6, <1>7, <1>8, <1>9, <1>10, <1>11, <1>12,
       <1>13 DEF OutputNext, OwnerStep, DispatchStep

LEMMA StraysCorrect == OutputSpec => []StrayInvariant
  <1>1. OutputInit => StrayInvariant
    BY DEF OutputInit, StrayInvariant
  <1>2. QED
    BY <1>1, StepStrays, PTL DEF OutputSpec

(***************************************************************************)
(* Whoever changes the endpoint, and whenever: a device gets at most one   *)
(* event more (coremidi_out.cpp:302, 318).                                 *)
(***************************************************************************)
THEOREM OneStray == OutputSpec => []AtMostOneStray
  <1>1. StrayInvariant => AtMostOneStray
    BY DEF StrayInvariant, AtMostOneStray
  <1>2. QED
    BY <1>1, StraysCorrect, PTL
=============================================================================
