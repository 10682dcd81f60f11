--------------------------- MODULE MidiInputProofs ---------------------------
(***************************************************************************)
(* Theorems about the MIDI input, from the read thread to the note.        *)
(*                                                                         *)
(* CoreMidiIn (parts 1-3), for any number of read threads, any sinks and   *)
(* any sources: the handshake of accepting_ and in_flight_ keeps the read  *)
(* threads out while the owner destroys what they use.                     *)
(*                                                                         *)
(* KeyInput (parts 4-8), for any packets of MIDI messages: the adapter     *)
(* gets the events the packets stand for, in their order; and whatever     *)
(* keys are held, a note of the accompaniment fits the chord detected.     *)
(***************************************************************************)
EXTENDS CoreMidiIn, KeyInput, FiniteSetTheorems, SequenceLemmas

(***************************************************************************)
(* Part 1: types, all but the range of in_flight_.                         *)
(***************************************************************************)
Types ==
  /\ source \in Sources \cup {NoSource} /\ selected \in Sources \cup {NoSource}
  /\ sink \in Sinks \cup {NoSink} /\ newSink \in Sinks \cup {NoSink}
  /\ initialized \in BOOLEAN /\ accepting \in BOOLEAN
  /\ inFlight \in Int
  /\ pending \in Seq(BOOLEAN)
  /\ rbuf \in [Readers -> Seq({1, -1})]
  /\ op \in {"none", "setSink", "shutdown"}
  /\ owner \in {"idle", "fence", "wait", "out"}
  /\ reader \in [Readers -> {"idle", "called", "fence", "check", "sink", "leave"}]
  /\ using \in [Readers -> Sinks \cup {NoSink}]
  /\ left \in [Readers -> 0 .. MaxMessages]

(***************************************************************************)
(* Part 2: the count.  A read thread is inside from the increment to the   *)
(* decrement, as it sees it.  Its store buffer holds increments and        *)
(* decrements by turns, and the last one is what it did last; so memory    *)
(* counts it exactly if the first change still in the buffer takes it      *)
(* out, or if nothing is buffered and it is inside.                        *)
(***************************************************************************)
Inside(r) == reader[r] \in {"fence", "check", "sink", "leave"}

Counted(r) == IF rbuf[r] = <<>> THEN Inside(r) ELSE Head(rbuf[r]) = -1

CountedReaders == {r \in Readers : Counted(r)}

ByTurns(s) == \A i \in 1 .. Len(s) - 1 : s[i] # s[i + 1]

CountInvariant ==
  /\ \A r \in Readers : /\ ByTurns(rbuf[r])
                        /\ rbuf[r] # <<>> => (rbuf[r][Len(rbuf[r])] = 1 <=> Inside(r))
  /\ inFlight = Cardinality(CountedReaders)

(***************************************************************************)
(* Part 3: the handshake.  A thread past its fence is in memory's count.   *)
(* The owner past its own fence has closed in memory, nothing it stored is *)
(* under way, and once it has found the count at zero no thread is calling *)
(* a sink; none can begin to, since it would find the input closed.        *)
(***************************************************************************)
Closed == pending = <<>> /\ ~ accepting

Closing ==
  IF pending = <<>> THEN ~ accepting ELSE pending[Len(pending)] = FALSE

Handshake ==
  /\ \A r \in Readers : reader[r] \in {"check", "sink"} => rbuf[r] = <<>>
  /\ \A r \in Readers : reader[r] = "sink" => using[r] = sink /\ sink # NoSink
  /\ owner = "fence" => Closing
  /\ owner \in {"wait", "out"} => Closed
  /\ owner = "out" => \A r \in Readers : reader[r] # "sink"

InputInvariant == Types /\ CountInvariant /\ Handshake
-----------------------------------------------------------------------------
LEMMA LastOfAppend ==
  ASSUME NEW S, NEW s \in Seq(S), NEW e \in S
  PROVE  Append(s, e) # <<>> /\ Append(s, e)[Len(Append(s, e))] = e
  BY AppendProperties

LEMMA LastOfTail ==
  ASSUME NEW S, NEW s \in Seq(S), s # <<>>
  PROVE  IF Tail(s) = <<>> THEN Head(s) = s[Len(s)]
                           ELSE Tail(s)[Len(Tail(s))] = s[Len(s)]
  <1>1. /\ Tail(s) \in Seq(S) /\ Len(Tail(s)) = Len(s) - 1
        /\ \A i \in 1 .. Len(Tail(s)) : Tail(s)[i] = s[i + 1]
        /\ Len(s) \in Nat \ {0}
    BY HeadTailProperties, EmptySeq
  <1>2. CASE Tail(s) = <<>>
    <2>1. Len(Tail(s)) = 0
      BY <1>2, Zenon, EmptySeq
    <2>2. Len(s) = 1
      <3>1. Len(Tail(s)) = Len(s) - 1 /\ Len(s) \in Nat
        BY <1>1, Zenon
      <3>2. QED
        BY <2>1, <3>1
    <2>3. Head(s) = s[1]
      BY HeadTailProperties
    <2>4. QED
      BY <1>2, <2>2, <2>3
  <1>3. CASE Tail(s) # <<>>
    <2>1. Len(Tail(s)) \in Nat \ {0}
      BY <1>1, <1>3, EmptySeq
    <2>2. QED
      BY <1>1, <1>3, <2>1
  <1>4. QED
    BY <1>2, <1>3

LEMMA InitInput == Init => InputInvariant
  <1> SUFFICES ASSUME Init
               PROVE  InputInvariant
    OBVIOUS
  <1>1. Types
    <2>1. rbuf \in [Readers -> Seq({1, -1})] /\ pending \in Seq(BOOLEAN)
      BY EmptySeq, Zenon DEF Init
    <2>2. left \in [Readers -> 0 .. MaxMessages]
      BY InputAssumption DEF Init
    <2>3. reader \in [Readers -> {"idle", "called", "fence", "check", "sink", "leave"}]
      BY DEF Init
    <2>4. using \in [Readers -> Sinks \cup {NoSink}]
      BY DEF Init
    <2>5. inFlight \in Int
      BY DEF Init
    <2>6. initialized \in BOOLEAN /\ accepting \in BOOLEAN
      BY Zenon DEF Init
    <2>7. QED
      BY <2>1, <2>2, <2>3, <2>4, <2>5, <2>6, Zenon DEF Init, Types
  <1>2. CountInvariant
    <2>1. CountedReaders = {}
      BY DEF Init, CountedReaders, Counted, Inside
    <2>2. QED
      BY <2>1, FS_EmptySet DEF Init, CountInvariant, ByTurns, Inside
  <1>3. Handshake
    BY DEF Init, Handshake
  <1>4. QED
    BY <1>1, <1>2, <1>3 DEF InputInvariant

LEMMA StepTypes == Types /\ [Next]_vars => Types'
  <1> SUFFICES ASSUME Types, [Next]_vars
               PROVE  Types'
    OBVIOUS
  <1> USE DEF Types, ownerVars, readerVars
  <1>1. CASE UNCHANGED vars
    BY <1>1 DEF vars
  <1>2. CASE Initialize
    BY <1>2 DEF Initialize
  <1>3. CASE SelectSource
    BY <1>3 DEF SelectSource
  <1>4. CASE SetSink
    BY <1>4, AppendProperties DEF SetSink, Close
  <1>5. CASE Shutdown
    BY <1>5, AppendProperties DEF Shutdown, Close
  <1>6. CASE OwnerFence \/ QuiesceEnds
    BY <1>6 DEF OwnerFence, QuiesceEnds
  <1>7. CASE Swap
    BY <1>7, AppendProperties DEF Swap
  <1>8. CASE Dispose
    BY <1>8 DEF Dispose
  <1>9. CASE FlushOwner
    BY <1>9, HeadTailProperties DEF FlushOwner
  <1>10. ASSUME NEW r \in Readers, PacketsArrive(r)
         PROVE  Types'
    BY <1>10 DEF PacketsArrive, Goes
  <1>11. ASSUME NEW r \in Readers, Enter(r)
         PROVE  Types'
    BY <1>11, AppendProperties DEF Enter, Goes, Adds
  <1>12. ASSUME NEW r \in Readers, ReaderFence(r)
         PROVE  Types'
    BY <1>12 DEF ReaderFence, Goes
  <1>13. ASSUME NEW r \in Readers, Check(r)
         PROVE  Types'
    BY <1>13, ZenonT(30) DEF Check, Goes
  <1>14. ASSUME NEW r \in Readers, Deliver(r)
         PROVE  Types'
    BY <1>14, InputAssumption DEF Deliver, Goes
  <1>15. ASSUME NEW r \in Readers, DoneOrThrown(r)
         PROVE  Types'
    BY <1>15, InputAssumption DEF DoneOrThrown, Goes
  <1>16. ASSUME NEW r \in Readers, Leave(r)
         PROVE  Types'
    BY <1>16, AppendProperties, InputAssumption DEF Leave, Goes, Adds
  <1>17. ASSUME NEW r \in Readers, FlushReader(r)
         PROVE  Types'
    BY <1>17, HeadTailProperties DEF FlushReader
  <1>18. QED
    BY <1>1, <1>2, <1>3, <1>4, <1>5, <1>6, <1>7, <1>8, <1>9, <1>10, <1>11, <1>12,
       <1>13, <1>14, <1>15, <1>16, <1>17 DEF Next, OwnerNext, ReaderNext

-----------------------------------------------------------------------------
(***************************************************************************)
(* The count is disturbed only by what changes a store buffer; everything  *)
(* else moves a thread between two places on the same side of the door.    *)
(***************************************************************************)
LEMMA CountStays ==
  ASSUME CountInvariant, UNCHANGED <<rbuf, inFlight>>,
         \A r \in Readers : Inside(r)' = Inside(r)
  PROVE  CountInvariant'
  <1>1. CountedReaders' = CountedReaders
    BY DEF CountedReaders, Counted
  <1>2. QED
    BY <1>1 DEF CountInvariant

LEMMA SameSide ==
  ASSUME Types, CountInvariant, UNCHANGED <<rbuf, inFlight>>,
         NEW r \in Readers, NEW here, NEW there, Goes(r, here, there),
         \/ {here, there} \subseteq {"idle", "called"}
         \/ {here, there} \subseteq {"fence", "check", "sink", "leave"}
  PROVE  CountInvariant'
  <1>1. \A q \in Readers : Inside(q)' = Inside(q)
    BY DEF Types, Goes, Inside
  <1>2. QED
    BY <1>1, CountStays

\* What a thread at the door adds keeps the turns and waits behind what is there.
LEMMA AddKeepsTurns ==
  ASSUME NEW s \in Seq({1, -1}), NEW n \in {1, -1}, ByTurns(s),
         s # <<>> => s[Len(s)] # n
  PROVE  /\ ByTurns(Append(s, n)) /\ Append(s, n) # <<>>
         /\ Append(s, n)[Len(Append(s, n))] = n
         /\ Head(Append(s, n)) = IF s = <<>> THEN n ELSE Head(s)
  <1>1. /\ Append(s, n) \in Seq({1, -1}) /\ Append(s, n) # <<>>
        /\ Len(Append(s, n)) = Len(s) + 1 /\ Len(s) \in Nat
        /\ \A i \in 1 .. Len(s) : Append(s, n)[i] = s[i]
        /\ Append(s, n)[Len(s) + 1] = n
    BY AppendProperties, LenProperties, SMTT(30)
  <1>2. ByTurns(Append(s, n))
    <2> SUFFICES ASSUME NEW i \in 1 .. Len(s)
                 PROVE  Append(s, n)[i] # Append(s, n)[i + 1]
      BY <1>1 DEF ByTurns
    <2>1. CASE i = Len(s)
      BY <1>1, <2>1, EmptySeq
    <2>2. CASE i # Len(s)
      BY <1>1, <2>2 DEF ByTurns
    <2>3. QED
      BY <2>1, <2>2
  <1>3. Head(Append(s, n)) = IF s = <<>> THEN n ELSE Head(s)
    BY HeadTailAppend
  <1>4. QED
    BY <1>1, <1>2, <1>3

LEMMA DoorKeepsCount ==
  ASSUME Types, CountInvariant, UNCHANGED inFlight,
         NEW r \in Readers, NEW n \in {1, -1}, Adds(r, n),
         Inside(r) <=> n = -1, Inside(r)' <=> n = 1,
         \A q \in Readers \ {r} : Inside(q)' = Inside(q)
  PROVE  CountInvariant'
  <1>1. rbuf[r] \in Seq({1, -1}) /\ rbuf'[r] = Append(rbuf[r], n)
    BY DEF Types, Adds
  <1>2. \A q \in Readers \ {r} : rbuf'[q] = rbuf[q]
    BY DEF Types, Adds
  <1>3. rbuf[r] # <<>> => rbuf[r][Len(rbuf[r])] # n
    <2> SUFFICES ASSUME rbuf[r] # <<>>
                 PROVE  rbuf[r][Len(rbuf[r])] # n
      OBVIOUS
    <2>1. rbuf[r][Len(rbuf[r])] = 1 <=> Inside(r)
      BY DEF CountInvariant
    <2>2. QED
      BY <2>1 DEF Inside
  <1>4. /\ ByTurns(rbuf'[r]) /\ rbuf'[r] # <<>>
        /\ rbuf'[r][Len(rbuf'[r])] = n
        /\ Head(rbuf'[r]) = IF rbuf[r] = <<>> THEN n ELSE Head(rbuf[r])
    BY <1>1, <1>3, AddKeepsTurns DEF CountInvariant
  <1>5. CountedReaders' = CountedReaders
    <2>1. Counted(r)' <=> Counted(r)
      BY <1>4 DEF Counted, Inside
    <2>2. \A q \in Readers \ {r} : Counted(q)' <=> Counted(q)
      BY <1>2 DEF Counted, Inside
    <2>3. QED
      BY <2>1, <2>2 DEF CountedReaders
  <1>6. QED
    BY <1>2, <1>4, <1>5 DEF CountInvariant

\* The first change in a buffer reaches memory: the count goes up or down by it.
LEMMA TailKeepsTurns ==
  ASSUME NEW s \in Seq({1, -1}), s # <<>>, ByTurns(s)
  PROVE  /\ ByTurns(Tail(s))
         /\ Tail(s) = <<>> => Head(s) = s[Len(s)]
         /\ Tail(s) # <<>> => /\ Head(Tail(s)) # Head(s)
                              /\ Tail(s)[Len(Tail(s))] = s[Len(s)]
  <1>1. /\ Tail(s) \in Seq({1, -1}) /\ Len(Tail(s)) = Len(s) - 1
        /\ \A i \in 1 .. Len(Tail(s)) : Tail(s)[i] = s[i + 1]
        /\ Len(s) \in Nat \ {0}
    BY HeadTailProperties, EmptySeq
  <1>2. ByTurns(Tail(s))
    BY <1>1 DEF ByTurns
  <1>3. Tail(s) # <<>> => Head(Tail(s)) # Head(s)
    <2> SUFFICES ASSUME Tail(s) # <<>>
                 PROVE  Head(Tail(s)) # Head(s)
      OBVIOUS
    <2>1. Len(Tail(s)) \in Nat \ {0}
      BY <1>1, EmptySeq
    <2>2. Tail(s)[1] = s[2] /\ s[1] # s[2]
      BY <1>1, <2>1 DEF ByTurns
    <2>3. QED
      BY <1>1, <2>2
  <1>4. QED
    BY <1>2, <1>3, LastOfTail

LEMMA FlushCounts ==
  ASSUME Types, CountInvariant, NEW r \in Readers, FlushReader(r)
  PROVE  CountInvariant'
  <1>1. /\ rbuf[r] \in Seq({1, -1}) /\ rbuf[r] # <<>>
        /\ ByTurns(rbuf[r]) /\ (rbuf[r][Len(rbuf[r])] = 1 <=> Inside(r))
    BY DEF Types, FlushReader, CountInvariant
  <1>2. rbuf'[r] = Tail(rbuf[r]) /\ \A q \in Readers \ {r} : rbuf'[q] = rbuf[q]
    BY DEF Types, FlushReader
  <1>3. \A q \in Readers : Inside(q)' = Inside(q)
    BY DEF FlushReader, readerVars, Inside
  <1>4. Head(rbuf[r]) \in {1, -1}
    BY <1>1, HeadTailProperties
  <1>5. /\ ByTurns(rbuf'[r])
        /\ rbuf'[r] # <<>> => (rbuf'[r][Len(rbuf'[r])] = 1 <=> Inside(r))
    BY <1>1, <1>2, TailKeepsTurns
  <1>6. (Counted(r) <=> Head(rbuf[r]) = -1) /\ (Counted(r)' <=> Head(rbuf[r]) = 1)
    <2>1. rbuf'[r] # <<>> => Head(rbuf'[r]) \in {1, -1}
      BY <1>1, <1>2, HeadTailProperties
    <2>2. Counted(r) <=> Head(rbuf[r]) = -1
      BY <1>1 DEF Counted
    <2>3. CASE rbuf'[r] = <<>>
      <3>1. Head(rbuf[r]) = rbuf[r][Len(rbuf[r])]
        BY <1>1, <1>2, <2>3, TailKeepsTurns
      <3>2. Counted(r)' <=> Inside(r)
        BY <1>3, <2>3 DEF Counted
      <3>3. QED
        BY <1>1, <2>2, <3>1, <3>2
    <2>4. CASE rbuf'[r] # <<>>
      BY <1>1, <1>2, <1>4, <2>1, <2>2, <2>4, TailKeepsTurns DEF Counted
    <2>5. QED
      BY <2>3, <2>4
  <1>7. \A q \in Readers \ {r} : Counted(q)' <=> Counted(q)
    BY <1>2, <1>3 DEF Counted, Inside
  <1>8. inFlight' = Cardinality(CountedReaders')
    <2>1. IsFiniteSet(CountedReaders) /\ inFlight = Cardinality(CountedReaders)
      BY InputAssumption, FS_Subset DEF CountedReaders, CountInvariant
    <2>2. CASE Head(rbuf[r]) = 1
      <3>1. CountedReaders' = CountedReaders \cup {r} /\ r \notin CountedReaders
        BY <1>6, <1>7, <2>2 DEF CountedReaders
      <3>2. QED
        BY <2>1, <2>2, <3>1, FS_AddElement DEF FlushReader
    <2>3. CASE Head(rbuf[r]) = -1
      <3>1. CountedReaders' = CountedReaders \ {r} /\ r \in CountedReaders
        BY <1>6, <1>7, <2>3 DEF CountedReaders
      <3>2. Cardinality(CountedReaders') = Cardinality(CountedReaders) - 1
        BY <2>1, <3>1, FS_RemoveElement
      <3>3. Cardinality(CountedReaders) \in Nat
        BY <2>1, FS_CardinalityType
      <3>4. QED
        BY <2>1, <2>3, <3>2, <3>3 DEF FlushReader
    <2>4. QED
      BY <1>4, <2>2, <2>3
  <1>9. QED
    BY <1>2, <1>3, <1>5, <1>8 DEF CountInvariant

LEMMA StepCount == Types /\ CountInvariant /\ [Next]_vars => CountInvariant'
  <1> SUFFICES ASSUME Types, CountInvariant, [Next]_vars
               PROVE  CountInvariant'
    OBVIOUS
  <1>1. CASE UNCHANGED vars \/ OwnerNext
    <2>1. UNCHANGED <<rbuf, inFlight, reader>>
      BY <1>1 DEF vars, readerVars, OwnerNext, Initialize, SelectSource, SetSink, Shutdown,
         OwnerFence, QuiesceEnds, Swap, Dispose, FlushOwner
    <2>2. \A r \in Readers : Inside(r)' = Inside(r)
      BY <2>1 DEF Inside
    <2>3. QED
      BY <2>1, <2>2, CountStays
  <1>2. ASSUME NEW r \in Readers, ReaderNext(r)
        PROVE  CountInvariant'
    <2>1. CASE PacketsArrive(r)
      BY <2>1, SameSide DEF PacketsArrive
    <2>2. CASE Enter(r)
      <3>1. /\ ~ Inside(r) /\ Inside(r)'
            /\ \A q \in Readers \ {r} : Inside(q)' = Inside(q)
        BY <2>2 DEF Enter, Goes, Inside, Types
      <3>2. QED
        BY <2>2, <3>1, DoorKeepsCount DEF Enter
    <2>3. CASE ReaderFence(r)
      BY <2>3, SameSide DEF ReaderFence
    <2>4. CASE Check(r)
      BY <2>4, SameSide DEF Check
    <2>5. CASE Deliver(r)
      BY <2>5, SameSide DEF Deliver
    <2>6. CASE DoneOrThrown(r)
      BY <2>6, SameSide DEF DoneOrThrown
    <2>7. CASE Leave(r)
      <3>1. /\ Inside(r) /\ ~ Inside(r)'
            /\ \A q \in Readers \ {r} : Inside(q)' = Inside(q)
        BY <2>7 DEF Leave, Goes, Inside, Types
      <3>2. QED
        BY <2>7, <3>1, DoorKeepsCount DEF Leave
    <2>8. CASE FlushReader(r)
      BY <2>8, FlushCounts
    <2>9. QED
      BY <1>2, <2>1, <2>2, <2>3, <2>4, <2>5, <2>6, <2>7, <2>8 DEF ReaderNext
  <1>3. QED
    BY <1>1, <1>2 DEF Next

-----------------------------------------------------------------------------
LEMMA CountSeesCaller ==
  ASSUME InputInvariant, inFlight = 0, NEW r \in Readers
  PROVE  reader[r] # "sink"
  <1>1. CountedReaders = {}
    BY InputAssumption, FS_Subset, FS_EmptySet DEF InputInvariant, CountInvariant,
       CountedReaders
  <1>2. QED
    BY <1>1 DEF InputInvariant, Handshake, CountedReaders, Counted, Inside

LEMMA StepHandshake == InputInvariant /\ [Next]_vars => Handshake'
  <1> SUFFICES ASSUME InputInvariant, [Next]_vars
               PROVE  Handshake'
    OBVIOUS
  <1> USE DEF InputInvariant, Handshake, Closed, ownerVars, readerVars
  <1>1. CASE UNCHANGED vars
    BY <1>1 DEF vars, Closing
  <1>2. CASE Initialize \/ SelectSource
    BY <1>2 DEF Initialize, SelectSource
  <1>3. CASE SetSink \/ Shutdown
    <2>1. pending' = Append(pending, FALSE) /\ owner' = "fence"
      BY <1>3 DEF SetSink, Shutdown, Close
    <2>2. pending \in Seq(BOOLEAN) /\ FALSE \in BOOLEAN
      BY DEF Types
    <2>3. Closing'
      BY <2>1, <2>2, LastOfAppend, Zenon DEF Closing
    <2>4. QED
      BY <1>3, <2>1, <2>3 DEF SetSink, Shutdown
  <1>4. CASE OwnerFence
    BY <1>4 DEF OwnerFence, Closing
  <1>5. CASE QuiesceEnds
    BY <1>5, CountSeesCaller DEF QuiesceEnds
  <1>6. CASE Swap \/ Dispose
    BY <1>6 DEF Swap, Dispose
  <1>7. CASE FlushOwner
    <2>1. /\ pending \in Seq(BOOLEAN) /\ pending # <<>>
          /\ pending' = Tail(pending) /\ accepting' = Head(pending)
      BY <1>7 DEF FlushOwner, Types
    <2>2. Closing => Closing'
      BY <2>1, LastOfTail, Zenon DEF Closing
    <2>3. owner \notin {"wait", "out"}
      BY <1>7 DEF FlushOwner
    <2>4. QED
      BY <1>7, <2>2, <2>3 DEF FlushOwner
  <1>8. ASSUME NEW r \in Readers, ReaderNext(r)
        PROVE  Handshake'
    <2> USE DEF Types
    <2>0. Closing' = Closing
      BY <1>8 DEF ReaderNext, Closing, PacketsArrive, Enter, ReaderFence, Check, Deliver,
         DoneOrThrown, Leave, FlushReader
    <2>1. CASE PacketsArrive(r)
      BY <2>0, <2>1 DEF PacketsArrive, Goes
    <2>2. CASE Enter(r)
      BY <2>0, <2>2 DEF Enter, Goes, Adds
    <2>3. CASE ReaderFence(r)
      BY <2>0, <2>3 DEF ReaderFence, Goes
    <2>4. CASE Check(r)
      BY <2>0, <2>4 DEF Check, Admitted, Goes
    <2>5. CASE Deliver(r)
      BY <2>0, <2>5 DEF Deliver, Goes
    <2>6. CASE DoneOrThrown(r)
      BY <2>0, <2>6 DEF DoneOrThrown, Goes
    <2>7. CASE Leave(r)
      BY <2>0, <2>7 DEF Leave, Goes, Adds
    <2>8. CASE FlushReader(r)
      BY <2>0, <2>8 DEF FlushReader
    <2>9. QED
      BY <1>8, <2>1, <2>2, <2>3, <2>4, <2>5, <2>6, <2>7, <2>8 DEF ReaderNext
  <1>9. QED
    BY <1>1, <1>2, <1>3, <1>4, <1>5, <1>6, <1>7, <1>8 DEF Next, OwnerNext

LEMMA InputCorrect == Spec => []InputInvariant
  <1>1. InputInvariant /\ [Next]_vars => InputInvariant'
    BY StepTypes, StepCount, StepHandshake DEF InputInvariant
  <1>2. QED
    BY <1>1, InitInput, PTL DEF Spec

(***************************************************************************)
(* in_flight_ is never negative and never above the number of read threads *)
(* (coremidi_in.cpp), and every variable has its type.                     *)
(***************************************************************************)
THEOREM InputTypes == Spec => []TypeOK
  <1>1. InputInvariant => TypeOK
    <2> SUFFICES ASSUME InputInvariant
                 PROVE  TypeOK
      OBVIOUS
    <2>1. inFlight \in 0 .. Cardinality(Readers)
      BY InputAssumption, FS_Subset, FS_CardinalityType DEF InputInvariant, CountInvariant,
         CountedReaders
    <2>2. QED
      BY <2>1 DEF InputInvariant, Types, TypeOK
  <1>2. QED
    BY <1>1, InputCorrect, PTL

(***************************************************************************)
(* The sink a read thread is calling is the one installed, however many    *)
(* threads there are and however late their stores reach memory            *)
(* (coremidi_in.h:55-57).                                                  *)
(***************************************************************************)
THEOREM SinkIsSafe == Spec => []SinkOutlivesCall
  <1>1. InputInvariant => SinkOutlivesCall
    BY DEF InputInvariant, Handshake, SinkOutlivesCall
  <1>2. QED
    BY <1>1, InputCorrect, PTL

(***************************************************************************)
(* No message is handed over while the port and the client are disposed of *)
(* (coremidi_in.cpp:62-66).                                                *)
(***************************************************************************)
THEOREM PortIsSafe == Spec => []PortOutlivesCall
  <1>1. InputInvariant => PortOutlivesCall
    BY DEF InputInvariant, Handshake, PortOutlivesCall
  <1>2. QED
    BY <1>1, InputCorrect, PTL

(***************************************************************************)
(* Part 4: from the keys that are held to the note that is played.  The    *)
(* root detected is the pitch class of a key.                              *)
(***************************************************************************)
LEMMA RootIsKey ==
  ASSUME NEW mode \in Modes, NEW keys \in SUBSET Nat
  PROVE  Detect(mode, keys).root \in Nat
  <1>1. CASE keys = {}
    BY <1>1 DEF Detect, NoChord
  <1>2. CASE keys # {}
    <2>1. Min(keys) \in Nat
      BY <1>2, MinIsLeast
    <2>2. CASE mode = "fingered"
      BY <1>2, <2>1, <2>2 DEF Detect, Fingered
    <2>3. CASE mode = "single"
      BY <1>2, <2>1, <2>3 DEF Detect, SingleFinger
    <2>4. CASE mode = "on_bass"
      <3> DEFINE upper == keys \ {Min(keys)}
                 slash == Cardinality(keys) >= 4 /\ MatchChordType(upper) # "NoChord"
                 of == IF slash THEN upper ELSE keys
      <3>1. Detect(mode, keys).root = Min(of)
        BY <1>2, <2>4 DEF Detect, FingeredOnBass, Fingered
      <3>2. slash => upper # {}
        <4>1. SUFFICES ASSUME upper = {} PROVE MatchChordType(upper) = "NoChord"
          OBVIOUS
        <4>2. Cardinality(upper) = 0
          BY <4>1, FS_EmptySet
        <4>3. QED
          BY <4>2 DEF MatchChordType
      <3>3. of \in SUBSET Nat /\ of # {}
        BY <1>2, <3>2, Zenon
      <3>4. Min(of) \in Nat
        BY <3>3, MinIsLeast, Zenon
      <3>5. QED
        BY <3>1, <3>4, Zenon
    <2>5. QED
      BY <2>2, <2>3, <2>4 DEF Modes
  <1>3. QED
    BY <1>1, <1>2

(***************************************************************************)
(* The tones of a chord are pitch classes, the root among them, and so are *)
(* those of a scale.                                                       *)
(***************************************************************************)
PitchSet(s) == s \in SUBSET (0 .. 11) /\ 0 \in s

LEMMA ChordTonesArePitches ==
  ASSUME NEW type
  PROVE  LET tones == ChordTones(type)
         IN  /\ Len(tones) \in 2 .. 4 /\ tones[1] = 0
             /\ \A i \in 1 .. Len(tones) : tones[i] \in ToSet(tones)
             /\ PitchSet(ToSet(tones))
  <1> DEFINE tones == ChordTones(type)
  <1>1. \/ tones = <<0, 4, 7, 11>> \/ tones = <<0, 3, 7, 10>> \/ tones = <<0, 4, 7, 10>>
        \/ tones = <<0, 3, 6, 9>> \/ tones = <<0, 3, 7>> \/ tones = <<0, 3, 6>>
        \/ tones = <<0, 4, 8>> \/ tones = <<0, 5, 7>> \/ tones = <<0, 2, 7>>
        \/ tones = <<0, 7>> \/ tones = <<0, 4, 7>>
    BY DEF ChordTones
  <1> HIDE DEF tones
  <1>2. tones \in Seq(0 .. 11) /\ Len(tones) \in 2 .. 4 /\ tones[1] = 0
    <2>1. /\ <<0, 4, 7, 11>> \in Seq(0 .. 11) /\ <<0, 3, 7, 10>> \in Seq(0 .. 11)
          /\ <<0, 4, 7, 10>> \in Seq(0 .. 11) /\ <<0, 3, 6, 9>> \in Seq(0 .. 11)
          /\ <<0, 3, 7>> \in Seq(0 .. 11) /\ <<0, 3, 6>> \in Seq(0 .. 11)
          /\ <<0, 4, 8>> \in Seq(0 .. 11) /\ <<0, 5, 7>> \in Seq(0 .. 11)
          /\ <<0, 2, 7>> \in Seq(0 .. 11) /\ <<0, 4, 7>> \in Seq(0 .. 11)
          /\ <<0, 7>> \in Seq(0 .. 11)
      OBVIOUS
    <2>5. tones \in Seq(0 .. 11)
      BY <1>1, <2>1, Zenon
    <2>6. Len(tones) \in 2 .. 4 /\ tones[1] = 0
      BY <1>1
    <2>7. QED
      BY <2>5, <2>6
  <1>3. DOMAIN tones = 1 .. Len(tones) /\ \A i \in 1 .. Len(tones) : tones[i] \in 0 .. 11
    BY <1>2
  <1>4. /\ \A i \in 1 .. Len(tones) : tones[i] \in ToSet(tones)
        /\ ToSet(tones) \in SUBSET (0 .. 11)
    BY <1>3, Zenon DEF ToSet
  <1>5. 0 \in ToSet(tones)
    BY <1>2, <1>4
  <1>6. QED
    BY <1>2, <1>4, <1>5 DEF PitchSet, tones

LEMMA ScaleIsPitches ==
  ASSUME NEW ntt, NEW type
  PROVE  PitchSet(ScaleFor(ntt, type))
  BY DEF ScaleFor, PitchSet

(***************************************************************************)
(* The nearest representative of a tone is that tone in some octave, and   *)
(* a tone of the chord is its own.                                         *)
(***************************************************************************)
OnTone(n, s) == \E t \in s, k \in {-12, 0, 12} : n = t + k

LEMMA DistanceFacts ==
  /\ \A a, b \in Int : Distance(a, b) \in Nat
  /\ \A a, b \in Int : Distance(a, b) = 0 <=> a = b
  BY DEF Distance

LEMMA RankOrders ==
  ASSUME NEW a \in 0 .. 11, NEW b \in 0 .. 11, NEW x \in -12 .. 23, NEW y \in -12 .. 23,
         40 * a + x + 12 <= 40 * b + y + 12
  PROVE  a < b \/ (a = b /\ x <= y)
  OBVIOUS

LEMMA NearestIsOnTone ==
  ASSUME NEW s, PitchSet(s), NEW rel \in Int
  PROVE  /\ OnTone(NearestRepresentative(rel, s), s)
         /\ rel \in s => NearestRepresentative(rel, s) = rel
  <1> DEFINE candidates == {<<t, t + k>> : t \in s, k \in {-12, 0, 12}}
             distances == {Distance(c[2], rel) : c \in candidates}
             least == Min(distances)
             nearest == {c \in candidates : Distance(c[2], rel) = least}
             IsFirst(c) == \A d \in nearest : c[1] < d[1] \/ (c[1] = d[1] /\ c[2] <= d[2])
             first == CHOOSE c \in nearest : IsFirst(c)
  <1>0. NearestRepresentative(rel, s) = first[2]
    BY DEF NearestRepresentative
  <1>1. \A c \in candidates : c[1] \in 0 .. 11 /\ c[2] \in -12 .. 23
    BY DEF PitchSet
  <1>2. <<0, 0>> \in candidates
    <2>1. 0 \in s /\ 0 = 0 + 0
      BY DEF PitchSet
    <2>2. QED
      BY <2>1
  <1> HIDE DEF candidates
  <1>3. distances \in SUBSET Nat /\ distances # {}
    <2>1. ASSUME NEW c \in candidates PROVE Distance(c[2], rel) \in Nat
      <3>1. c[2] \in Int
        BY <1>1
      <3>2. QED
        BY <3>1, DistanceFacts, Zenon
    <2>2. QED
      BY <1>2, <2>1, Zenon
  <1>4. least \in distances /\ \A n \in distances : least <= n
    BY <1>3, MinIsLeast, Zenon
  <1> HIDE DEF least
  <1>5. nearest # {} /\ nearest \subseteq candidates
    BY <1>4
  <1> HIDE DEF nearest
  <1>6. \E c \in nearest : IsFirst(c)
    <2> DEFINE ranks == {40 * c[1] + c[2] + 12 : c \in nearest}
    <2>1. ranks \in SUBSET Nat /\ ranks # {}
      <3>1. \A c \in nearest : 40 * c[1] + c[2] + 12 \in Nat
        BY <1>1, <1>5
      <3>2. QED
        BY <1>5, <3>1, Zenon
    <2>2. PICK m \in ranks : \A n \in ranks : m <= n
      BY <2>1, LeastExists, Zenon
    <2>3. PICK c \in nearest : m = 40 * c[1] + c[2] + 12
      BY <2>2
    <2>4. ASSUME NEW d \in nearest PROVE c[1] < d[1] \/ (c[1] = d[1] /\ c[2] <= d[2])
      <3>1. 40 * d[1] + d[2] + 12 \in ranks
        OBVIOUS
      <3>2. 40 * c[1] + c[2] + 12 <= 40 * d[1] + d[2] + 12
        BY <2>2, <2>3, <3>1
      <3>3. c[1] \in 0 .. 11 /\ d[1] \in 0 .. 11 /\ c[2] \in -12 .. 23 /\ d[2] \in -12 .. 23
        BY <1>1, <1>5
      <3>4. QED
        BY <3>2, <3>3, RankOrders, Zenon
    <2>5. QED
      BY <2>4
  <1>7. first \in nearest
    BY <1>6, Zenon
  <1> HIDE DEF first
  <1>8. OnTone(first[2], s)
    <2>1. first \in candidates
      BY <1>5, <1>7
    <2>2. PICK t \in s, k \in {-12, 0, 12} : first = <<t, t + k>>
      BY <2>1 DEF candidates
    <2>3. first[2] = t + k
      BY <2>2
    <2>4. QED
      BY <2>3, Zenon DEF OnTone
  <1>9. ASSUME rel \in s PROVE first[2] = rel
    <2>1. <<rel, rel>> \in candidates
      <3>1. rel = rel + 0
        OBVIOUS
      <3>2. QED
        BY <1>9, <3>1 DEF candidates
    <2>2. Distance(rel, rel) \in distances
      BY <2>1
    <2>3. Distance(rel, rel) = 0 /\ least \in Nat
      BY <1>3, <1>4, DistanceFacts
    <2>4. least = 0
      BY <1>4, <2>2, <2>3
    <2>5. Distance(first[2], rel) = 0
      BY <1>7, <2>4 DEF nearest
    <2>6. first[2] \in Int
      BY <1>1, <1>5, <1>7
    <2>7. QED
      BY <2>5, <2>6, DistanceFacts
  <1>10. QED
    BY <1>0, <1>8, <1>9, Zenon

LEMMA OnToneIsPitch ==
  ASSUME NEW s, PitchSet(s), NEW n, OnTone(n, s)
  PROVE  n \in Int /\ n % 12 \in s
  <1>1. PICK t \in s, k \in {-12, 0, 12} : n = t + k
    BY DEF OnTone
  <1>2. t \in 0 .. 11
    BY DEF PitchSet
  <1>3. n \in Int /\ n % 12 = t
    BY <1>1, <1>2
  <1>4. QED
    BY <1>3

LEMMA FoldedIsNote ==
  ASSUME NEW n \in Int
  PROVE  Folded(n) \in 0 .. 127 /\ Folded(n) % 12 = n % 12
  <1>1. CASE n < 0
    BY <1>1 DEF Folded
  <1>2. CASE n \in 0 .. 127
    BY <1>2 DEF Folded
  <1>3. CASE n > 127
    <2> DEFINE r == n % 12
               m == IF r >= 8 THEN 108 + r ELSE 120 + r
    <2>1. r \in 0 .. 11
      OBVIOUS
    <2>2. m \in 116 .. 127 /\ m % 12 = r
      BY <2>1
    <2>3. \E x \in 116 .. 127 : x % 12 = n % 12
      BY <2>2
    <2>4. Folded(n) = CHOOSE x \in 116 .. 127 : x % 12 = n % 12
      BY <1>3 DEF Folded
    <2>5. Folded(n) \in 116 .. 127 /\ Folded(n) % 12 = n % 12
      BY <2>3, <2>4, Zenon
    <2>6. QED
      BY <2>5
  <1>4. QED
    BY <1>1, <1>2, <1>3

(***************************************************************************)
(* Where a pitch class of the source chord lands.                          *)
(***************************************************************************)
Played(ntt, type) ==
  IF ntt \in {"Bass", "Chord", "Guitar"}
  THEN ToSet(ChordTones(type)) ELSE ToSet(ChordTones(type)) \cup ScaleFor(ntt, type)

LEMMA DegreeIsTone ==
  ASSUME NEW rel \in 0 .. 11
  PROVE  LET degree == SelectInSeq(SourceChordTones, LAMBDA t : t = rel)
         IN  degree \in 0 .. 4 /\ (rel = 0 => degree = 1)
  <1> DEFINE I == {i \in 1 .. Len(SourceChordTones) : SourceChordTones[i] = rel}
             degree == SelectInSeq(SourceChordTones, LAMBDA t : t = rel)
  <1>1. Len(SourceChordTones) = 4 /\ SourceChordTones[1] = 0
    BY DEF SourceChordTones
  <1>2. degree = IF I # {} THEN Min(I) ELSE 0
    BY DEF SelectInSeq
  <1>3. I \in SUBSET (1 .. 4)
    BY <1>1
  <1>4. I # {} => Min(I) \in I /\ \A i \in I : Min(I) <= i
    <2>1. I \in SUBSET Nat
      BY <1>3
    <2>2. QED
      BY <2>1, MinIsLeast, Zenon
  <1>5. rel = 0 => 1 \in I
    BY <1>1
  <1> HIDE DEF I, degree
  <1>6. degree \in 0 .. 4
    <2>1. I # {} => Min(I) \in 1 .. 4
      BY <1>3, <1>4, Zenon
    <2>2. QED
      BY <1>2, <2>1
  <1>7. rel = 0 => degree = 1
    <2>1. SUFFICES ASSUME rel = 0 PROVE degree = 1
      OBVIOUS
    <2>2. Min(I) \in 1 .. 4 /\ Min(I) <= 1 /\ degree = Min(I)
      BY <1>2, <1>3, <1>4, <1>5, <2>1
    <2>3. QED
      BY <2>2
  <1>8. QED
    BY <1>6, <1>7 DEF degree

LEMMA RemappedFits ==
  ASSUME NEW rel \in 0 .. 11, NEW ntt, NEW type
  PROVE  /\ Remapped(rel, ntt, type) \in Int
         /\ Remapped(rel, ntt, type) % 12 \in Played(ntt, type)
         /\ rel = 0 => Remapped(rel, ntt, type) = 0
  <1> DEFINE tones == ChordTones(type)
             scale == ScaleFor(ntt, type)
             degree == SelectInSeq(SourceChordTones, LAMBDA t : t = rel)
             chordTone == NearestRepresentative(rel, ToSet(tones))
             scaleTone == NearestRepresentative(rel, scale)
             near == IF Distance(chordTone, rel) <= Distance(scaleTone, rel)
                     THEN chordTone ELSE scaleTone
             landed == IF degree # 0 THEN tones[Min({degree, Len(tones)})]
                       ELSE IF rel \in scale THEN rel ELSE near
             close == NearestRepresentative(landed, ToSet(tones))
  <1>1. Remapped(rel, ntt, type) = IF ntt \in {"Bass", "Chord", "Guitar"} THEN close ELSE landed
    BY DEF Remapped
  <1>2. /\ Len(tones) \in 2 .. 4 /\ tones[1] = 0
        /\ \A i \in 1 .. Len(tones) : tones[i] \in ToSet(tones)
        /\ PitchSet(ToSet(tones)) /\ PitchSet(scale)
    BY ChordTonesArePitches, ScaleIsPitches
  <1>3. degree \in 0 .. 4 /\ (rel = 0 => degree = 1)
    BY DegreeIsTone
  <1>4. /\ chordTone \in Int /\ chordTone % 12 \in ToSet(tones)
        /\ scaleTone \in Int /\ scaleTone % 12 \in scale
    <2>1. OnTone(chordTone, ToSet(tones)) /\ OnTone(scaleTone, scale)
      <3>1. rel \in Int
        OBVIOUS
      <3>2. QED
        BY <1>2, <3>1, NearestIsOnTone, Zenon
    <2>2. QED
      BY <1>2, <2>1, OnToneIsPitch, Zenon
  <1> HIDE DEF tones, scale, degree, chordTone, scaleTone
  <1>5. landed \in Int /\ landed % 12 \in ToSet(tones) \cup scale /\ (rel = 0 => landed = 0)
    <2>1. CASE degree # 0
      <3> DEFINE d == Min({degree, Len(tones)})
      <3>1. {degree, Len(tones)} \in SUBSET Nat
        BY <1>2, <1>3
      <3>2. d \in {degree, Len(tones)} /\ d <= degree /\ d <= Len(tones)
        BY <3>1, MinIsLeast
      <3>3. d \in 1 .. Len(tones) /\ (rel = 0 => d = 1)
        BY <1>2, <1>3, <2>1, <3>2
      <3> HIDE DEF d
      <3>4. tones[d] \in ToSet(tones)
        BY <1>2, <3>3
      <3>5. tones[d] \in 0 .. 11
        BY <1>2, <3>4 DEF PitchSet
      <3>6. tones[d] % 12 = tones[d]
        BY <3>5
      <3>7. landed = tones[d]
        BY <2>1 DEF d
      <3>8. QED
        BY <1>2, <3>3, <3>4, <3>5, <3>6, <3>7
    <2>2. CASE degree = 0 /\ rel \in scale
      <3>1. landed = rel /\ rel # 0 /\ rel % 12 = rel
        BY <1>3, <2>2
      <3>2. QED
        BY <2>2, <3>1
    <2>3. CASE degree = 0 /\ rel \notin scale
      <3>1. landed \in {chordTone, scaleTone} /\ rel # 0
        BY <1>3, <2>3
      <3>2. QED
        BY <1>4, <3>1
    <2>4. QED
      BY <2>1, <2>2, <2>3
  <1> HIDE DEF landed
  <1>6. close \in Int /\ close % 12 \in ToSet(tones) /\ (rel = 0 => close = 0)
    <2>1. OnTone(close, ToSet(tones)) /\ (landed \in ToSet(tones) => close = landed)
      BY <1>2, <1>5, NearestIsOnTone
    <2>2. 0 \in ToSet(tones)
      BY <1>2 DEF PitchSet
    <2>3. close \in Int /\ close % 12 \in ToSet(tones)
      BY <1>2, <2>1, OnToneIsPitch
    <2>4. QED
      BY <1>5, <2>1, <2>2, <2>3
  <1> HIDE DEF close
  <1>7. Played(ntt, type) = IF ntt \in {"Bass", "Chord", "Guitar"}
                            THEN ToSet(tones) ELSE ToSet(tones) \cup scale
    BY DEF Played, tones, scale
  <1>8. QED
    BY <1>1, <1>5, <1>6, <1>7

(***************************************************************************)
(* A transposed note is in the MIDI range; moved, it is where its pitch    *)
(* class lands above the root.                                             *)
(***************************************************************************)
LEMMA TransposeFits ==
  ASSUME NEW note \in 0 .. 127, NEW chord, chord.root \in Nat, NEW ntr, NEW ntt
  PROVE  LET root == IF ntr = "RootFixed" THEN 60 ELSE chord.root
             n == Transpose(note, chord, ntr, ntt)
         IN  /\ n \in 0 .. 127
             /\ IF chord.type = "NoChord" \/ "Bypass" \in {ntr, ntt}
                THEN n = note
                ELSE /\ note % 12 = 0 => (n - root) % 12 = 0
                     /\ (n - root) % 12 \in Played(ntt, chord.type)
  <1> DEFINE root == IF ntr = "RootFixed" THEN 60 ELSE chord.root
             rel == (note - 60) % 12
             to == Remapped(rel, ntt, chord.type)
             at == note + (root - 60) + to - rel
  <1>1. CASE chord.type = "NoChord" \/ "Bypass" \in {ntr, ntt}
    BY <1>1 DEF Transpose
  <1>2. CASE ~ (chord.type = "NoChord" \/ "Bypass" \in {ntr, ntt})
    <2>1. rel \in 0 .. 11 /\ (note % 12 = 0 => rel = 0) /\ root \in Int
      OBVIOUS
    <2>2. to \in Int /\ to % 12 \in Played(ntt, chord.type) /\ (rel = 0 => to = 0)
      BY <2>1, RemappedFits
    <2>3. Transpose(note, chord, ntr, ntt)
            = Folded(note + (IF ntr = "RootFixed" THEN 0 ELSE chord.root - 60) + to - rel)
      BY <1>2 DEF Transpose
    <2> HIDE DEF to, rel
    <2>4. Transpose(note, chord, ntr, ntt) = Folded(at)
      <3>1. (IF ntr = "RootFixed" THEN 0 ELSE chord.root - 60) = root - 60
        OBVIOUS
      <3>2. QED
        BY <2>3, <3>1, Zenon
    <2> HIDE DEF root
    <2>5. at \in Int
      BY <2>1, <2>2
    <2>6. Folded(at) \in 0 .. 127 /\ Folded(at) % 12 = at % 12
      BY <2>5, FoldedIsNote
    <2>7. (Folded(at) - root) % 12 = to % 12
      <3>1. Folded(at) \in Int /\ note \in Int
        BY <2>6
      <3>2. at = note + (root - 60) + to - ((note - 60) % 12)
        BY DEF rel
      <3> HIDE DEF at
      <3>3. QED
        <4>1. root \in Int /\ to \in Int
          BY <2>1, <2>2
        <4>2. Folded(at) % 12 = at % 12
          BY <2>6
        <4> DEFINE f == Folded(at)
        <4>3. f \in Int /\ f % 12 = at % 12
          BY <3>1, <4>2
        <4> HIDE DEF f
        <4>4. (f - root) % 12 = to % 12
          BY <2>5, <3>1, <3>2, <4>1, <4>3
        <4>5. QED
          BY <4>4 DEF f
    <2>8. 0 % 12 = 0
      OBVIOUS
    <2> HIDE DEF at
    <2>9. QED
      BY <1>2, <2>1, <2>2, <2>4, <2>6, <2>7, <2>8 DEF root
  <1>3. QED
    BY <1>1, <1>2

(***************************************************************************)
(* A rendered note comes last; before it, if anything, its keyswitch, on   *)
(* and off and not later.                                                  *)
(***************************************************************************)
LEMMA FrontOfThree ==
  ASSUME NEW a, NEW b, NEW c
  PROVE  Front(<<a, b, c>>) = <<a, b>>
  <1> DEFINE s == <<a, b, c>>
  <1>1. Len(s) = 3 /\ s \in Seq({a, b, c}) /\ s[1] = a /\ s[2] = b
    OBVIOUS
  <1> HIDE DEF s
  <1>2. SubSeq(s, 1, 2) = <<a, b>>
    <2> DEFINE t == SubSeq(s, 1, 2)
    <2>1. t \in Seq({a, b, c}) /\ Len(t) = 2 /\ t[1] = s[1] /\ t[2] = s[2]
      BY <1>1
    <2> HIDE DEF t
    <2>2. t = [i \in 1 .. 2 |-> t[i]]
      BY <2>1
    <2>3. t = <<a, b>>
      BY <1>1, <2>1, <2>2
    <2>4. QED
      BY <2>3 DEF t
  <1>3. QED
    BY <1>1, <1>2 DEF Front, s

LEMMA RenderFits ==
  ASSUME NEW renderer, NEW event, NEW keyswitch, event.tick \in Nat
  PROVE  LET events == Render(renderer, event, keyswitch)
             extra == Front(events)
         IN  /\ Last(events) = event
             /\ \A i \in 1 .. Len(extra) : extra[i].tick <= event.tick
             /\ extra # <<>> => [i \in 1 .. Len(extra) |-> <<extra[i].note, extra[i].velocity>>]
                                = <<<<keyswitch, 1>>, <<keyswitch, 0>>>>
  <1> DEFINE events == Render(renderer, event, keyswitch)
             extra == Front(events)
             tick == IF event.tick > 0 THEN event.tick - 1 ELSE 0
             on == [note |-> keyswitch, velocity |-> 1, tick |-> tick]
             off == [note |-> keyswitch, velocity |-> 0, tick |-> tick]
  <1>1. CASE events = <<event>>
    <2>1. Last(events) = event /\ extra = <<>>
      BY <1>1 DEF Last, Front
    <2>2. QED
      BY <2>1
  <1>2. CASE events = <<on, off, event>>
    <2>1. Last(events) = event
      BY <1>2 DEF Last
    <2>2. extra = <<on, off>>
      BY <1>2, FrontOfThree, Zenon
    <2>3. Len(extra) = 2 /\ extra[1] = on /\ extra[2] = off
      BY <2>2
    <2>4. tick <= event.tick /\ on.tick = tick /\ off.tick = tick
      OBVIOUS
    <2>5. \A i \in 1 .. Len(extra) : extra[i].tick <= event.tick
      BY <2>3, <2>4
    <2>6. on.note = keyswitch /\ off.note = keyswitch /\ on.velocity = 1 /\ off.velocity = 0
      OBVIOUS
    <2>7. [i \in 1 .. Len(extra) |-> <<extra[i].note, extra[i].velocity>>]
            = <<<<keyswitch, 1>>, <<keyswitch, 0>>>>
      BY <2>3, <2>6
    <2>8. QED
      BY <2>1, <2>5, <2>7
  <1>3. events = <<event>> \/ events = <<on, off, event>>
    BY DEF Render
  <1>4. QED
    BY <1>1, <1>2, <1>3

(***************************************************************************)
(* Part 5: what is parsed and posted has MIDI data bytes for keys, so the  *)
(* keys held are keys, and a note dispatched under them fits their chord.  *)
(***************************************************************************)
Messages == [type : {"NoteOn", "NoteOff", "ControlChange", "Other"}, d1 : 0 .. 127,
             d2 : 0 .. 255]

KeyTypes ==
  /\ bytes \in Seq(0 .. 255) /\ status \in {0} \cup 128 .. 239
  /\ out \in Seq(Messages)
  /\ posted \in Seq(ControlEvents) /\ played \in Seq(ControlEvents)

LEMMA RoutedType ==
  ASSUME NEW m \in Messages
  PROVE  Routed(m) \in Seq(ControlEvents)
  <1>1. m.d1 \in 0 .. 127 /\ 0 \in 0 .. 127 /\ 1 \in 0 .. 127
    BY DEF Messages
  <1>2. \A t \in {"NoteOn", "NoteOff", "Sustain", "Panic"}, k \in 0 .. 127 :
          <<<<t, k>>>> \in Seq(ControlEvents)
    BY DEF ControlEvents
  <1>3. <<>> \in Seq(ControlEvents)
    OBVIOUS
  <1>4. CASE m.type \in {"NoteOn", "NoteOff"}
    BY <1>1, <1>2, <1>4 DEF Routed
  <1>5. CASE m.type \notin {"NoteOn", "NoteOff"}
    <2> DEFINE v == IF m.d2 >= 64 THEN 1 ELSE 0
    <2>1. <<<<"Sustain", v>>>> \in Seq(ControlEvents)
      BY <1>1, <1>2
    <2>2. <<<<"Panic", 0>>>> \in Seq(ControlEvents)
      BY <1>1, <1>2
    <2>3. Routed(m) \in {<<<<"Sustain", v>>>>, <<<<"Panic", 0>>>>, <<>>}
      BY <1>5 DEF Routed
    <2>4. QED
      BY <1>3, <2>1, <2>2, <2>3, Zenon
  <1>6. QED
    BY <1>4, <1>5

LEMMA HeldAreKeys ==
  ASSUME posted \in Seq(ControlEvents)
  PROVE  Held \in SUBSET Nat
  <1>1. \A j \in 1 .. Len(posted) : posted[j] \in ControlEvents
    OBVIOUS
  <1>2. \A j \in 1 .. Len(posted) : posted[j][2] \in Nat
    <2>1. ASSUME NEW e \in ControlEvents PROVE e[2] \in Nat
      <3>1. e[2] \in 0 .. 127
        BY Zenon DEF ControlEvents
      <3>2. \A k \in 0 .. 127 : k \in Nat
        OBVIOUS
      <3>3. QED
        BY <3>1, <3>2, Zenon
    <2>2. QED
      BY <1>1, <2>1, Zenon
  <1>3. QED
    BY <1>2, Zenon DEF Held

LEMMA SoundFits ==
  ASSUME KeyTypes, Sound
  PROVE  AccompanimentFitsChord'
  <1>1. PICK mode \in Modes, note \in Notes, rule \in Rules, r \in Renderings :
          LET chord == Detect(mode, Held)
              event == [note |-> Transpose(note, chord, rule[1], rule[2]),
                        velocity |-> 100, tick |-> r[3]]
          IN  heard' = [chord |-> chord, note |-> note,
                        ntr |-> rule[1], ntt |-> rule[2], keyswitch |-> r[2],
                        events |-> Render(r[1], event, r[2])]
    BY Zenon DEF Sound
  <1> DEFINE chord == Detect(mode, Held)
             event == [note |-> Transpose(note, chord, rule[1], rule[2]),
                       velocity |-> 100, tick |-> r[3]]
             events == Render(r[1], event, r[2])
             h == [chord |-> chord, note |-> note, ntr |-> rule[1], ntt |-> rule[2],
                   keyswitch |-> r[2], events |-> events]
             root == IF rule[1] = "RootFixed" THEN 60 ELSE chord.root
             n == Transpose(note, chord, rule[1], rule[2])
  <1>2. chord.root \in Nat
    BY HeldAreKeys, RootIsKey DEF KeyTypes
  <1>3. note \in 0 .. 127 /\ r[3] \in Nat
    BY KeyInputAssumption
  <1>4. /\ n \in 0 .. 127
        /\ IF chord.type = "NoChord" \/ "Bypass" \in {rule[1], rule[2]}
           THEN n = note
           ELSE /\ note % 12 = 0 => (n - root) % 12 = 0
                /\ (n - root) % 12 \in Played(rule[2], chord.type)
    BY <1>2, <1>3, TransposeFits
  <1>5. heard' = h
    BY <1>1, Zenon
  <1> HIDE DEF n, chord
  <1>6. /\ Last(events) = event
        /\ \A i \in 1 .. Len(Front(events)) : Front(events)[i].tick <= event.tick
        /\ Front(events) # <<>> =>
             [i \in 1 .. Len(Front(events)) |->
                <<Front(events)[i].note, Front(events)[i].velocity>>]
               = <<<<r[2], 1>>, <<r[2], 0>>>>
    <2>1. event.tick \in Nat
      BY <1>3
    <2> HIDE DEF event
    <2>2. QED
      BY <2>1, RenderFits
  <1>7. event.note = n /\ event.velocity = 100
    BY DEF n
  <1> HIDE DEF event, events
  <1>8. /\ h.chord = chord /\ h.note = note /\ h.ntr = rule[1] /\ h.ntt = rule[2]
        /\ h.keyswitch = r[2] /\ h.events = events
    OBVIOUS
  <1> HIDE DEF h
  <1>9. QED
    BY <1>4, <1>5, <1>6, <1>7, <1>8, ZenonT(60) DEF AccompanimentFitsChord, Played

(***************************************************************************)
(* Part 6: a packet, read piece by piece.  MapTail takes the map of a      *)
(* sequence apart, FirstPiece the bytes and the meaning of a packet.       *)
(***************************************************************************)
Pieces == [bytes : Seq(0 .. 255), means : Seq(ControlEvents)]

Rest(p, i) == SubSeq(p, i, Len(p))

RoutesOf(ms) == FlattenSeq([i \in 1 .. Len(ms) |-> Routed(ms[i])])

LEMMA PieceFacts ==
  ASSUME NEW p \in Packets
  PROVE  /\ p \in Seq(Pieces)
         /\ \A i \in 1 .. Len(p) :
              /\ p[i].bytes \in Seq(0 .. 255) /\ p[i].means \in Seq(ControlEvents)
              /\ IF IsMessage(p, i)
                 THEN p[i].means = StandsFor(StatusAt(p, i), p[i].bytes[1],
                                             p[i].bytes[Len(p[i].bytes)])
                 ELSE IsAside(p, i) /\ p[i].means = <<>>
  <1>1. /\ p \in Seq(Pieces)
        /\ \A i \in 1 .. Len(p) :
              IF IsMessage(p, i)
              THEN p[i].means = StandsFor(StatusAt(p, i), p[i].bytes[1],
                                          p[i].bytes[Len(p[i].bytes)])
              ELSE IsAside(p, i) /\ p[i].means = <<>>
    BY KeyInputAssumption, Zenon DEF PacketsAssumption, Pieces
  <1>2. \A i \in 1 .. Len(p) : p[i] \in Pieces
    BY <1>1
  <1>3. \A x \in Pieces : x.bytes \in Seq(0 .. 255) /\ x.means \in Seq(ControlEvents)
    BY DEF Pieces
  <1>4. QED
    BY <1>1, <1>2, <1>3, Zenon

LEMMA MapTail ==
  ASSUME NEW S, NEW T, NEW q \in Seq(S), q # <<>>, NEW g, NEW h,
         g = [k \in 1 .. Len(q) |-> h[q[k]]], \A x \in S : h[x] \in T
  PROVE  /\ g \in Seq(T) /\ g # <<>> /\ g[1] = h[q[1]]
         /\ Tail(g) = [k \in 1 .. Len(Tail(q)) |-> h[Tail(q)[k]]]
  <1>1. \A k \in 1 .. Len(q) : q[k] \in S
    OBVIOUS
  <1>2. g \in Seq(T) /\ Len(g) = Len(q) /\ Len(q) \in Nat \ {0}
    BY <1>1
  <1>3. \A k \in 1 .. Len(q) : g[k] = h[q[k]]
    OBVIOUS
  <1>4. Len(Tail(q)) = Len(q) - 1 /\ \A k \in 1 .. Len(q) - 1 : Tail(q)[k] = q[k + 1]
    BY HeadTailProperties
  <1>5. Tail(g) \in Seq(T) /\ Len(Tail(g)) = Len(q) - 1 /\ \A k \in 1 .. Len(q) - 1 : Tail(g)[k] = g[k + 1]
    BY <1>2, HeadTailProperties
  <1>6. \A k \in 1 .. Len(q) - 1 : k + 1 \in 1 .. Len(q)
    BY <1>2
  <1>7. \A k \in 1 .. Len(q) - 1 : Tail(g)[k] = h[Tail(q)[k]]
    BY <1>3, <1>4, <1>5, <1>6
  <1>8. Tail(g) = [k \in 1 .. Len(q) - 1 |-> Tail(g)[k]]
    <2>1. Tail(g) \in [1 .. Len(Tail(g)) -> T]
      BY <1>5, LenProperties, Zenon
    <2>2. Tail(g) \in [1 .. Len(q) - 1 -> T]
      BY <1>5, <2>1
    <2>3. QED
      BY <2>2, Zenon
  <1>9. Tail(g) = [k \in 1 .. Len(q) - 1 |-> h[Tail(q)[k]]]
    BY <1>7, <1>8, Zenon
  <1>10. QED
    BY <1>2, <1>3, <1>4, <1>9

LEMMA FirstPiece ==
  ASSUME NEW q \in Seq(Pieces), q # <<>>
  PROVE  /\ BytesOf(q) \in Seq(0 .. 255) /\ BytesOf(Tail(q)) \in Seq(0 .. 255)
         /\ BytesOf(q) = q[1].bytes \o BytesOf(Tail(q))
         /\ MeaningOf(q) \in Seq(ControlEvents) /\ MeaningOf(Tail(q)) \in Seq(ControlEvents)
         /\ MeaningOf(q) = q[1].means \o MeaningOf(Tail(q))
  <1>0. /\ \A x \in Pieces : x.bytes \in Seq(0 .. 255) /\ x.means \in Seq(ControlEvents)
        /\ \A k \in 1 .. Len(q) : q[k] \in Pieces
        /\ \A k \in 1 .. Len(Tail(q)) : Tail(q)[k] \in Pieces
        /\ q[1] \in Pieces
    <2>1. \A x \in Pieces : x.bytes \in Seq(0 .. 255) /\ x.means \in Seq(ControlEvents)
      BY DEF Pieces
    <2>2. \A k \in 1 .. Len(q) : q[k] \in Pieces
      OBVIOUS
    <2>3. Tail(q) \in Seq(Pieces) /\ q[1] \in Pieces
      OBVIOUS
    <2>4. \A k \in 1 .. Len(Tail(q)) : Tail(q)[k] \in Pieces
      BY <2>3
    <2>5. QED
      BY <2>1, <2>2, <2>3, <2>4, Zenon
  <1>1. /\ BytesOf(q) \in Seq(0 .. 255) /\ BytesOf(Tail(q)) \in Seq(0 .. 255)
        /\ BytesOf(q) = q[1].bytes \o BytesOf(Tail(q))
    <2> DEFINE h == [x \in Pieces |-> x.bytes]
               g == [k \in 1 .. Len(q) |-> q[k].bytes]
               gt == [k \in 1 .. Len(Tail(q)) |-> Tail(q)[k].bytes]
    <2>1. \A x \in Pieces : h[x] = x.bytes /\ h[x] \in Seq(0 .. 255)
      BY <1>0, Zenon
    <2> HIDE DEF h
    <2>2. /\ g = [k \in 1 .. Len(q) |-> h[q[k]]]
          /\ gt = [k \in 1 .. Len(Tail(q)) |-> h[Tail(q)[k]]]
      BY <1>0, <2>1, Zenon
    <2>3. BytesOf(q) = FlattenSeq(g) /\ BytesOf(Tail(q)) = FlattenSeq(gt)
      BY Zenon DEF BytesOf
    <2> HIDE DEF g, gt
    <2>4. g \in Seq(Seq(0 .. 255)) /\ g # <<>> /\ g[1] = h[q[1]] /\ Tail(g) = gt
      <3>1. \A x \in Pieces : h[x] \in Seq(0 .. 255)
        BY <2>1
      <3>2. g = [k \in 1 .. Len(q) |-> h[q[k]]]
        BY <2>2
      <3>3. /\ g \in Seq(Seq(0 .. 255)) /\ g # <<>> /\ g[1] = h[q[1]]
            /\ Tail(g) = [k \in 1 .. Len(Tail(q)) |-> h[Tail(q)[k]]]
        BY <3>1, <3>2, MapTail, SMTT(40)
      <3>4. QED
        BY <2>2, <3>3, Zenon
    <2>5. /\ FlattenSeq(g) \in Seq(0 .. 255) /\ FlattenSeq(Tail(g)) \in Seq(0 .. 255)
          /\ FlattenSeq(g) = g[1] \o FlattenSeq(Tail(g))
      BY <2>4, FlattenFirst, Zenon
    <2>6. QED
      BY <1>0, <2>1, <2>3, <2>4, <2>5, ZenonT(60)
  <1>2. /\ MeaningOf(q) \in Seq(ControlEvents) /\ MeaningOf(Tail(q)) \in Seq(ControlEvents)
        /\ MeaningOf(q) = q[1].means \o MeaningOf(Tail(q))
    <2> DEFINE h == [x \in Pieces |-> x.means]
               g == [k \in 1 .. Len(q) |-> q[k].means]
               gt == [k \in 1 .. Len(Tail(q)) |-> Tail(q)[k].means]
    <2>1. \A x \in Pieces : h[x] = x.means /\ h[x] \in Seq(ControlEvents)
      BY <1>0, Zenon
    <2> HIDE DEF h
    <2>2. /\ g = [k \in 1 .. Len(q) |-> h[q[k]]]
          /\ gt = [k \in 1 .. Len(Tail(q)) |-> h[Tail(q)[k]]]
      BY <1>0, <2>1, Zenon
    <2>3. MeaningOf(q) = FlattenSeq(g) /\ MeaningOf(Tail(q)) = FlattenSeq(gt)
      BY Zenon DEF MeaningOf
    <2> HIDE DEF g, gt
    <2>4. g \in Seq(Seq(ControlEvents)) /\ g # <<>> /\ g[1] = h[q[1]] /\ Tail(g) = gt
      <3>1. \A x \in Pieces : h[x] \in Seq(ControlEvents)
        BY <2>1
      <3>2. g = [k \in 1 .. Len(q) |-> h[q[k]]]
        BY <2>2
      <3>3. /\ g \in Seq(Seq(ControlEvents)) /\ g # <<>> /\ g[1] = h[q[1]]
            /\ Tail(g) = [k \in 1 .. Len(Tail(q)) |-> h[Tail(q)[k]]]
        BY <3>1, <3>2, MapTail, SMTT(40)
      <3>4. QED
        BY <2>2, <3>3, Zenon
    <2>5. /\ FlattenSeq(g) \in Seq(ControlEvents) /\ FlattenSeq(Tail(g)) \in Seq(ControlEvents)
          /\ FlattenSeq(g) = g[1] \o FlattenSeq(Tail(g))
      BY <2>4, FlattenFirst, Zenon
    <2>6. QED
      BY <1>0, <2>1, <2>3, <2>4, <2>5, Zenon
  <1>3. QED
    BY <1>1, <1>2

LEMMA NoPiece == BytesOf(<<>>) = <<>> /\ MeaningOf(<<>>) = <<>> /\ RoutesOf(<<>>) = <<>>
  <1>1. \A s : Len(s) = 0 => FlattenSeq(s) = s
    BY Zenon DEF FlattenSeq
  <1>2. \A g : g = [i \in 1 .. 0 |-> g[i]] => g = <<>>
    OBVIOUS
  <1>3. QED
    BY <1>1, <1>2 DEF BytesOf, MeaningOf, RoutesOf

LEMMA RestOfPacket ==
  ASSUME NEW p \in Packets, NEW i \in 1 .. Len(p)
  PROVE  /\ Rest(p, i + 1) \in Seq(Pieces) /\ (i = Len(p) => Rest(p, i + 1) = <<>>)
         /\ BytesOf(Rest(p, i)) = p[i].bytes \o BytesOf(Rest(p, i + 1))
         /\ MeaningOf(Rest(p, i)) = p[i].means \o MeaningOf(Rest(p, i + 1))
         /\ BytesOf(Rest(p, i)) \in Seq(0 .. 255) /\ BytesOf(Rest(p, i + 1)) \in Seq(0 .. 255)
         /\ MeaningOf(Rest(p, i)) \in Seq(ControlEvents)
         /\ MeaningOf(Rest(p, i + 1)) \in Seq(ControlEvents)
  <1>1. p \in Seq(Pieces) /\ Len(p) \in Nat
    <2>1. p \in Seq(Pieces)
      BY PieceFacts, Zenon
    <2>2. QED
      BY <2>1
  <1> DEFINE q == Rest(p, i)
  <1>2. q \in Seq(Pieces) /\ Len(q) = Len(p) - i + 1 /\ q # <<>>
    <2>1. \A k \in i .. Len(p) : p[k] \in Pieces
      BY <1>1
    <2>2. q \in Seq(Pieces) /\ Len(q) = IF i <= Len(p) THEN Len(p) - i + 1 ELSE 0
      BY <1>1, <2>1, SubSeqProperties DEF Rest
    <2>3. Len(q) = Len(p) - i + 1 /\ Len(q) # 0
      BY <1>1, <2>2
    <2>4. q # <<>>
      BY <2>3
    <2>5. QED
      BY <2>2, <2>3, <2>4
  <1>3. Head(q) = p[i] /\ Tail(q) = Rest(p, i + 1)
    <2>1. Len(p) \in i .. Len(p)
      BY <1>1
    <2>2. QED
      BY <1>1, <2>1, HeadTailOfSubSeq DEF Rest
  <1>4. q[1] = Head(q) /\ Tail(q) \in Seq(Pieces) /\ Len(Tail(q)) = Len(p) - i
    BY <1>2
  <1> HIDE DEF q
  <1>5. /\ BytesOf(q) \in Seq(0 .. 255) /\ BytesOf(Tail(q)) \in Seq(0 .. 255)
        /\ BytesOf(q) = q[1].bytes \o BytesOf(Tail(q))
        /\ MeaningOf(q) \in Seq(ControlEvents) /\ MeaningOf(Tail(q)) \in Seq(ControlEvents)
        /\ MeaningOf(q) = q[1].means \o MeaningOf(Tail(q))
    BY <1>2, FirstPiece, Zenon
  <1>6. i = Len(p) => Tail(q) = <<>>
    <2>1. i = Len(p) => Len(Tail(q)) = 0
      BY <1>1, <1>4
    <2>2. Tail(q) \in Seq(Pieces)
      BY <1>4
    <2> DEFINE t == Tail(q)
    <2> HIDE DEF t
    <2>3. t \in Seq(Pieces) /\ (i = Len(p) => Len(t) = 0)
      BY <2>1, <2>2 DEF t
    <2>4. i = Len(p) => t = <<>>
      BY <2>3, SMTT(40)
    <2>5. QED
      BY <2>4 DEF t
  <1>7. QED
    BY <1>3, <1>4, <1>5, <1>6, Zenon DEF q

(***************************************************************************)
(* The running status after a piece.                                       *)
(***************************************************************************)
LEMMA StatusAfter ==
  ASSUME NEW p \in Packets, NEW i \in 1 .. Len(p), NEW b \in 0 .. 255, b = p[i].bytes[1]
  PROVE  StatusAt(p, i + 1) = IF b \notin 128 .. 247 THEN StatusAt(p, i)
                             ELSE IF b >= 240 THEN 0 ELSE b
  <1> DEFINE Sets(j) == p[j].bytes[1] \in 128 .. 247
             Setters(n) == {j \in 1 .. (n - 1) : Sets(j)}
             last(n) == p[Max(Setters(n))].bytes[1]
  <1>0. i \in Nat /\ Len(p) \in Nat
    <2>1. p \in Seq(Pieces)
      BY PieceFacts, Zenon
    <2>2. QED
      BY <2>1
  <1>1. \A n \in Int : StatusAt(p, n) = IF Setters(n) = {} \/ last(n) >= 240 THEN 0 ELSE last(n)
    BY Zenon DEF StatusAt
  <1>2. /\ i + 1 - 1 = i /\ i \in 1 .. (i + 1 - 1)
        /\ \A j \in 1 .. (i + 1 - 1) : i >= j /\ j \in Int
        /\ \A j : j \in 1 .. (i + 1 - 1) <=> j \in 1 .. (i - 1) \/ j = i
    BY <1>0
  <1>3. CASE b \notin 128 .. 247
    <2>1. ~ Sets(i)
      BY <1>3, Zenon
    <2> HIDE DEF Sets
    <2>2. Setters(i + 1) = Setters(i)
      BY <1>2, <2>1
    <2> HIDE DEF Setters
    <2>3. StatusAt(p, i + 1) = StatusAt(p, i)
      <3>1. i \in Int /\ i + 1 \in Int
        OBVIOUS
      <3>2. QED
        BY <1>1, <2>2, <3>1
    <2>4. QED
      BY <1>3, <2>3
  <1>4. CASE b \in 128 .. 247
    <2>1. Sets(i)
      BY <1>4, Zenon
    <2> HIDE DEF Sets
    <2>2. /\ i \in Setters(i + 1)
          /\ \A j \in Setters(i + 1) : i >= j /\ j \in Int
      BY <1>2, <2>1
    <2> HIDE DEF Setters
    <2>3. \A j \in Setters(i + 1) : (\A k \in Setters(i + 1) : j >= k) => j = i
      <3>1. \A j \in Int : j >= i /\ i >= j => j = i
        BY <1>0
      <3>2. QED
        BY <2>2, <3>1, Zenon
    <2>4. Max(Setters(i + 1)) = i
      BY <2>2, <2>3, Zenon DEF Max
    <2>5. last(i + 1) = b /\ Setters(i + 1) # {}
      BY <2>2, <2>4, Zenon
    <2>6. StatusAt(p, i + 1) = IF b >= 240 THEN 0 ELSE b
      <3>1. i + 1 \in Int
        OBVIOUS
      <3>2. QED
        BY <1>1, <2>5, <3>1, Zenon
    <2>7. QED
      BY <1>4, <2>6, Zenon
  <1>5. QED
    BY <1>3, <1>4

(***************************************************************************)
(* What messages become, one after the other.                              *)
(***************************************************************************)
LEMMA RoutesOfMessages ==
  ASSUME NEW ms \in Seq(Messages)
  PROVE  /\ RoutesOf(ms) \in Seq(ControlEvents)
         /\ ms # <<>> => /\ RoutesOf(Tail(ms)) \in Seq(ControlEvents)
                         /\ RoutesOf(ms) = Routed(Head(ms)) \o RoutesOf(Tail(ms))
         /\ \A m \in Messages : RoutesOf(Append(ms, m)) = RoutesOf(ms) \o Routed(m)
  <1> DEFINE h == [m \in Messages |-> Routed(m)]
             g == [k \in 1 .. Len(ms) |-> Routed(ms[k])]
  <1>0. \A m \in Messages : h[m] = Routed(m) /\ h[m] \in Seq(ControlEvents)
    BY RoutedType, Zenon
  <1> HIDE DEF h
  <1>1. \A k \in 1 .. Len(ms) : ms[k] \in Messages
    OBVIOUS
  <1>2. g \in Seq(Seq(ControlEvents)) /\ Len(g) = Len(ms)
    <2>1. \A k \in 1 .. Len(ms) : Routed(ms[k]) \in Seq(ControlEvents)
      BY <1>1, RoutedType
    <2>2. QED
      BY <2>1
  <1>3. RoutesOf(ms) = FlattenSeq(g)
    BY Zenon DEF RoutesOf
  <1>4. ASSUME ms = <<>> PROVE RoutesOf(ms) \in Seq(ControlEvents)
    <2>1. RoutesOf(ms) = <<>>
      BY <1>4, NoPiece, Zenon
    <2>2. <<>> \in Seq(ControlEvents)
      OBVIOUS
    <2>3. QED
      BY <2>1, <2>2, Zenon
  <1>5. ASSUME ms # <<>>
        PROVE  /\ RoutesOf(ms) \in Seq(ControlEvents) /\ RoutesOf(Tail(ms)) \in Seq(ControlEvents)
               /\ RoutesOf(ms) = Routed(Head(ms)) \o RoutesOf(Tail(ms))
    <2> DEFINE gt == [k \in 1 .. Len(Tail(ms)) |-> Routed(Tail(ms)[k])]
    <2>1. Head(ms) \in Messages /\ Head(ms) = ms[1] /\ Tail(ms) \in Seq(Messages)
      BY <1>5
    <2>2. \A k \in 1 .. Len(Tail(ms)) : Tail(ms)[k] \in Messages
      BY <2>1
    <2>3. /\ g = [k \in 1 .. Len(ms) |-> h[ms[k]]]
          /\ gt = [k \in 1 .. Len(Tail(ms)) |-> h[Tail(ms)[k]]]
      BY <1>0, <1>1, <2>2, Zenon
    <2>4. RoutesOf(Tail(ms)) = FlattenSeq(gt)
      BY Zenon DEF RoutesOf
    <2> HIDE DEF g, gt
    <2>5. g # <<>> /\ g[1] = h[ms[1]] /\ Tail(g) = [k \in 1 .. Len(Tail(ms)) |-> h[Tail(ms)[k]]]
      <3>1. \A m \in Messages : h[m] \in Seq(ControlEvents)
        BY <1>0
      <3>2. g = [k \in 1 .. Len(ms) |-> h[ms[k]]]
        BY <2>3
      <3>3. /\ g \in Seq(Seq(ControlEvents)) /\ g # <<>> /\ g[1] = h[ms[1]]
            /\ Tail(g) = [k \in 1 .. Len(Tail(ms)) |-> h[Tail(ms)[k]]]
        BY <1>5, <3>1, <3>2, MapTail, SMTT(40)
      <3>4. QED
        BY <3>3
    <2>6. /\ FlattenSeq(g) \in Seq(ControlEvents) /\ FlattenSeq(Tail(g)) \in Seq(ControlEvents)
          /\ FlattenSeq(g) = g[1] \o FlattenSeq(Tail(g))
      BY <1>2, <2>5, FlattenFirst, Zenon
    <2>7. Tail(g) = gt /\ g[1] = Routed(Head(ms))
      BY <1>0, <2>1, <2>3, <2>5, Zenon
    <2>8. QED
      BY <1>3, <2>4, <2>6, <2>7, Zenon
  <1>6. ASSUME NEW m \in Messages
        PROVE  RoutesOf(Append(ms, m)) = RoutesOf(ms) \o Routed(m)
    <2> DEFINE ma == Append(ms, m)
               ga == [k \in 1 .. Len(ma) |-> Routed(ma[k])]
    <2>1. /\ Len(ma) = Len(ms) + 1 /\ Len(ms) \in Nat
          /\ \A k \in 1 .. Len(ms) : ma[k] = ms[k]
          /\ ma[Len(ms) + 1] = m
      BY AppendProperties
    <2>2. RoutesOf(ma) = FlattenSeq(ga)
      BY Zenon DEF RoutesOf
    <2> HIDE DEF ma
    <2>3. /\ Len(g) = Len(ms) /\ \A k \in 1 .. Len(ms) : g[k] = Routed(ms[k])
      BY <1>2
    <2>4. /\ Len(ga) = Len(ms) + 1 /\ DOMAIN ga = 1 .. Len(ms) + 1
          /\ \A k \in 1 .. Len(ms) : ga[k] = g[k]
          /\ ga[Len(ms) + 1] = Routed(m)
      <3>1. DOMAIN ga = 1 .. Len(ms) + 1 /\ \A k \in 1 .. Len(ms) + 1 : ga[k] = Routed(ma[k])
        BY <2>1
      <3>2. \A k \in 1 .. Len(ms) : k \in 1 .. Len(ms) + 1
        BY <2>1
      <3>3. Len(ms) + 1 \in 1 .. Len(ms) + 1
        BY <2>1
      <3>4. Len(ga) = Len(ms) + 1
        BY <2>1
      <3> HIDE DEF ga, g
      <3>5. QED
        BY <2>1, <2>3, <3>1, <3>2, <3>3, <3>4, Zenon
    <2>5. Routed(m) \in Seq(ControlEvents)
      BY RoutedType
    <2> DEFINE gm == Append(g, Routed(m))
    <2>6. /\ gm \in Seq(Seq(ControlEvents)) /\ Len(gm) = Len(ms) + 1
          /\ \A k \in 1 .. Len(ms) : gm[k] = g[k]
          /\ gm[Len(ms) + 1] = Routed(m)
      <3> HIDE DEF g
      <3>1. /\ gm \in Seq(Seq(ControlEvents)) /\ Len(gm) = Len(g) + 1
            /\ \A k \in 1 .. Len(g) : gm[k] = g[k]
            /\ gm[Len(g) + 1] = Routed(m)
        BY <1>2, <2>5, AppendProperties
      <3> HIDE DEF gm
      <3>2. QED
        BY <1>2, <3>1
    <2>7. ga = gm
      <3> HIDE DEF g, gm
      <3>1. \A k \in 1 .. Len(ms) + 1 : k \in 1 .. Len(ms) \/ k = Len(ms) + 1
        BY <2>1
      <3>2. \A k \in 1 .. Len(ms) + 1 : ga[k] = gm[k]
        <4> HIDE DEF ga
        <4>1. QED
          BY <2>4, <2>6, <3>1, Zenon
      <3>3. ga = [k \in 1 .. Len(ms) + 1 |-> ga[k]]
        <4>1. Len(ma) = Len(ms) + 1
          BY <2>1
        <4>2. QED
          BY <4>1, Zenon
      <3>4. gm = [k \in 1 .. Len(ms) + 1 |-> gm[k]]
        <4>1. gm \in [1 .. Len(gm) -> Seq(ControlEvents)]
          BY <2>6, LenProperties, Zenon
        <4>2. QED
          BY <2>6, <4>1, Zenon
      <3> HIDE DEF ga
      <3>5. QED
        BY <3>2, <3>3, <3>4, Zenon
    <2> HIDE DEF g, ga
    <2>8. FlattenSeq(gm) = FlattenSeq(g) \o Routed(m)
      BY <1>2, <2>5, FlattenLast, Zenon
    <2>9. QED
      BY <1>3, <2>2, <2>7, <2>8, Zenon DEF ma
  <1>7. QED
    BY <1>4, <1>5, <1>6, Zenon

(***************************************************************************)
(* While a packet is parsed, what was played is what has been posted, then *)
(* what the messages parsed become, then what the rest of the packet       *)
(* stands for; and the messages fit.                                       *)
(***************************************************************************)
Reading(p, i) ==
  /\ bytes = BytesOf(Rest(p, i)) /\ status = StatusAt(p, i)
  /\ played = (posted \o RoutesOf(out)) \o MeaningOf(Rest(p, i))
  /\ Len(out) <= Cardinality(MessagesIn(p, i - 1))

KeyFlow ==
  /\ bytes = <<>> => played = posted \o RoutesOf(out)
  /\ bytes # <<>> => \E p \in Packets : \E i \in 1 .. Len(p) : Reading(p, i)

LEMMA MessagesCounted ==
  ASSUME NEW p \in Packets, NEW i \in 1 .. Len(p)
  PROVE  LET before == Cardinality(MessagesIn(p, i - 1))
             now == Cardinality(MessagesIn(p, i))
             all == Cardinality(MessagesIn(p, Len(p)))
         IN  /\ before \in Nat /\ now \in Nat /\ all \in Nat
             /\ before <= now /\ now <= all
             /\ IsMessage(p, i) => now = before + 1
  <1>0. i \in Nat /\ Len(p) \in Nat /\ i <= Len(p)
    <2>1. p \in Seq(Pieces)
      BY PieceFacts, Zenon
    <2>2. QED
      BY <2>1
  <1> DEFINE b == MessagesIn(p, i - 1)
             n == MessagesIn(p, i)
             a == MessagesIn(p, Len(p))
  <1>1. IsFiniteSet(1 .. Len(p))
    BY <1>0, FS_Interval
  <1>2. a \in SUBSET (1 .. Len(p)) /\ n \in SUBSET a /\ b \in SUBSET n
    <2>1. /\ \A k \in 1 .. i : k \in 1 .. Len(p)
          /\ \A k \in 1 .. (i - 1) : k \in 1 .. i
      BY <1>0
    <2>2. QED
      BY <2>1, Zenon DEF MessagesIn
  <1>3. i \notin b /\ (IsMessage(p, i) => n = b \cup {i})
    <2>1. i \notin 1 .. (i - 1) /\ \A k : k \in 1 .. i <=> k \in 1 .. (i - 1) \/ k = i
      BY <1>0
    <2>2. i \notin b
      BY <2>1, Zenon DEF MessagesIn
    <2>3. IsMessage(p, i) => n = b \cup {i}
      <3> DEFINE M(k) == IsMessage(p, k)
      <3>1. n = {k \in 1 .. i : M(k)} /\ b = {k \in 1 .. (i - 1) : M(k)}
        BY Zenon DEF MessagesIn
      <3> HIDE DEF n, b
      <3>2. M(i) => n = b \cup {i}
        <4> HIDE DEF M
        <4>1. QED
          BY <2>1, <3>1
      <3>3. QED
        BY <3>2 DEF n, b
    <2>4. QED
      BY <2>2, <2>3
  <1> HIDE DEF a, n, b
  <1>4. IsFiniteSet(a) /\ IsFiniteSet(n) /\ IsFiniteSet(b)
    BY <1>1, <1>2, FS_Subset, Zenon
  <1>5. /\ Cardinality(a) \in Nat /\ Cardinality(n) \in Nat /\ Cardinality(b) \in Nat
        /\ Cardinality(n) <= Cardinality(a) /\ Cardinality(b) <= Cardinality(n)
    BY <1>2, <1>4, FS_Subset, FS_CardinalityType, Zenon
  <1>6. IsMessage(p, i) => Cardinality(n) = Cardinality(b) + 1
    BY <1>3, <1>4, FS_AddElement, Zenon
  <1>7. QED
    BY <1>5, <1>6, Zenon DEF a, n, b

(* The bytes read are those of the first piece that is left, then the rest. *)
ByPairs(a, b, c, d) == (a \o b) \o (c \o d)
Inwards(a, b, c, d) == (a \o (b \o c)) \o d

LEMMA ConcatRegroup ==
  ASSUME NEW S, NEW a \in Seq(S), NEW b \in Seq(S), NEW c \in Seq(S), NEW d \in Seq(S)
  PROVE  ByPairs(a, b, c, d) = Inwards(a, b, c, d)
  BY DEF ByPairs, Inwards

LEMMA SeqElements ==
  ASSUME NEW S, NEW s \in Seq(S)
  PROVE  Len(s) \in Nat /\ (s # <<>> => Len(s) # 0) /\ \A k \in 1 .. Len(s) : s[k] \in S
  OBVIOUS

LEMMA PieceHasBytes ==
  ASSUME NEW p \in Packets, NEW i \in 1 .. Len(p)
  PROVE  /\ p[i].bytes \in Seq(0 .. 255) /\ p[i].means \in Seq(ControlEvents)
         /\ Len(p[i].bytes) \in Nat \ {0} /\ p[i].bytes[1] \in 0 .. 255
  <1> DEFINE b == p[i].bytes
  <1>1. /\ b \in Seq(0 .. 255) /\ p[i].means \in Seq(ControlEvents)
        /\ IsMessage(p, i) \/ IsAside(p, i)
    BY PieceFacts, ZenonT(60)
  <1>2. IsMessage(p, i) => Len(b) \in {1, 2}
    <2>1. IsMessage(p, i) => Len(b) = IF StatusAt(p, i) \in 192 .. 223 THEN 1 ELSE 2
      BY Zenon DEF IsMessage
    <2> HIDE DEF b
    <2>2. QED
      BY <2>1
  <1>3. IsAside(p, i) => Len(b) = 1 \/ b # <<>>
    BY Zenon DEF IsAside
  <1>a. b \in Seq(0 .. 255)
    BY <1>1
  <1> HIDE DEF b
  <1>4. Len(b) \in Nat \ {0}
    <2>1. Len(b) \in {1, 2} \/ b # <<>>
      BY <1>1, <1>2, <1>3
    <2>2. Len(b) \in Nat /\ (b # <<>> => Len(b) # 0)
      BY <1>a, SeqElements, Zenon
    <2>3. QED
      BY <2>1, <2>2
  <1>5. b[1] \in 0 .. 255
    <2>1. \A k \in 1 .. Len(b) : b[k] \in 0 .. 255
      BY <1>a, SeqElements, ZenonT(60)
    <2>2. 1 \in 1 .. Len(b)
      BY <1>4
    <2>3. QED
      BY <2>1, <2>2
  <1>6. QED
    BY <1>1, <1>4, <1>5 DEF b

LEMMA ReadingPiece ==
  ASSUME NEW p \in Packets, NEW i \in 1 .. Len(p), bytes = BytesOf(Rest(p, i))
  PROVE  LET x == p[i].bytes
             rest == BytesOf(Rest(p, i + 1))
         IN  /\ x \in Seq(0 .. 255) /\ rest \in Seq(0 .. 255)
             /\ bytes = x \o rest /\ bytes # <<>>
             /\ Len(x) \in Nat \ {0} /\ Head(bytes) = x[1] /\ x[1] \in 0 .. 255
             /\ i = Len(p) => rest = <<>>
             /\ Len(x) = 1 => Tail(bytes) = rest
             /\ Len(bytes) = Len(x) + Len(rest)
  <1> DEFINE x == p[i].bytes
             rest == BytesOf(Rest(p, i + 1))
  <1>1. /\ x \in Seq(0 .. 255) /\ rest \in Seq(0 .. 255) /\ bytes = x \o rest
        /\ Len(x) \in Nat \ {0} /\ x[1] \in 0 .. 255
    BY RestOfPacket, PieceHasBytes, ZenonT(60)
  <1>2. i = Len(p) => rest = <<>>
    BY RestOfPacket, NoPiece, Zenon
  <1> HIDE DEF x, rest
  <1>3. Len(bytes) = Len(x) + Len(rest) /\ bytes # <<>> /\ Head(bytes) = x[1]
    BY <1>1
  <1>4. ASSUME Len(x) = 1 PROVE Tail(bytes) = rest
    <2>1. /\ bytes \in Seq(0 .. 255) /\ Len(bytes) = 1 + Len(rest) /\ Len(rest) \in Nat
          /\ \A k \in 1 .. 1 + Len(rest) : bytes[k] = IF k <= 1 THEN x[k] ELSE rest[k - 1]
      <3>1. /\ x \o rest \in Seq(0 .. 255)
            /\ Len(x \o rest) = Len(x) + Len(rest)
            /\ \A k \in 1 .. Len(x) + Len(rest) :
                 (x \o rest)[k] = IF k <= Len(x) THEN x[k] ELSE rest[k - Len(x)]
        BY <1>1, ConcatProperties, ZenonT(60)
      <3>2. Len(rest) \in Nat
        BY <1>1
      <3>3. QED
        BY <1>1, <1>4, <3>1, <3>2, Zenon
    <2>2. /\ Tail(bytes) \in Seq(0 .. 255) /\ Len(Tail(bytes)) = Len(bytes) - 1
          /\ \A k \in 1 .. Len(Tail(bytes)) : Tail(bytes)[k] = bytes[k + 1]
      BY <1>3, <2>1, HeadTailProperties, ZenonT(60)
    <2>3. Len(Tail(bytes)) = Len(rest) /\ \A k \in 1 .. Len(rest) : Tail(bytes)[k] = rest[k]
      <3>1. \A k \in 1 .. Len(rest) : k + 1 \in 1 .. 1 + Len(rest) /\ ~ (k + 1 <= 1) /\ k + 1 - 1 = k
        BY <2>1
      <3>2. Len(Tail(bytes)) = Len(rest)
        BY <2>1, <2>2
      <3>3. \A k \in 1 .. Len(rest) : bytes[k + 1] = rest[k]
        BY <2>1, <3>1
      <3>4. QED
        BY <2>2, <3>2, <3>3
    <2>4. QED
      BY <1>1, <2>2, <2>3, SeqEqual
  <1>5. QED
    BY <1>1, <1>2, <1>3, <1>4 DEF x, rest

(* What was played stays in place when a piece has been read: it gave the   *)
(* message it stands for, or nothing and stands for nothing.                *)
LEMMA PieceDone ==
  ASSUME KeyTypes, NEW p \in Packets, NEW i \in 1 .. Len(p), Reading(p, i),
         bytes' = BytesOf(Rest(p, i + 1)), status' = StatusAt(p, i + 1),
         played' = played, posted' = posted,
         \/ out' = out /\ p[i].means = <<>>
         \/ \E m \in Messages :
               out' = Append(out, m) /\ p[i].means = Routed(m) /\ IsMessage(p, i)
  PROVE  KeyFlow'
  <1> DEFINE E == Seq(ControlEvents)
             M == p[i].means
             R == MeaningOf(Rest(p, i + 1))
             o == RoutesOf(out)
             oo == RoutesOf(out')
             before == Cardinality(MessagesIn(p, i - 1))
             now == Cardinality(MessagesIn(p, i))
  <1>1. i \in Nat /\ Len(p) \in Nat
    <2>1. p \in Seq(Pieces)
      BY PieceFacts, Zenon
    <2>2. QED
      BY <2>1
  <1>2. /\ posted \in E /\ out \in Seq(Messages) /\ o \in E /\ M \in E /\ R \in E
        /\ MeaningOf(Rest(p, i)) = M \o R
    BY PieceHasBytes, RestOfPacket, RoutesOfMessages, ZenonT(60) DEF KeyTypes
  <1>3. oo = o \o M
    <2>1. CASE out' = out /\ M = <<>>
      <3>1. oo = o /\ o \o <<>> = o
        BY <1>2, <2>1, ConcatEmptySeq, Zenon
      <3>2. QED
        BY <2>1, <3>1, Zenon
    <2>2. ASSUME NEW m \in Messages, out' = Append(out, m), M = Routed(m)
          PROVE  oo = o \o M
      BY <1>2, <2>2, RoutesOfMessages, Zenon
    <2>3. QED
      BY <2>1, <2>2, Zenon
  <1>4. played' = (posted' \o oo) \o R
    <2>1. played = (posted \o o) \o (M \o R)
      BY <1>2, Zenon DEF Reading
    <2>2. ByPairs(posted, o, M, R) = Inwards(posted, o, M, R)
      BY <1>2, ConcatRegroup, ZenonT(60)
    <2>3. QED
      BY <1>3, <2>1, <2>2, Zenon DEF ByPairs, Inwards
  <1>5. Len(out') <= now
    <2>1. before \in Nat /\ now \in Nat /\ before <= now /\ (IsMessage(p, i) => now = before + 1)
      BY MessagesCounted, Zenon
    <2>2. Len(out) <= before
      BY Zenon DEF Reading
    <2> HIDE DEF before, now
    <2>3. CASE out' = out
      BY <1>2, <2>1, <2>2, <2>3
    <2>4. ASSUME NEW m \in Messages, out' = Append(out, m), IsMessage(p, i)
          PROVE  Len(out') <= now
      <3>1. Len(out') = Len(out) + 1 /\ Len(out) \in Nat
        BY <1>2, <2>4
      <3>2. QED
        BY <2>1, <2>2, <2>4, <3>1
    <2>5. QED
      BY <2>3, <2>4, Zenon
  <1>6. CASE i = Len(p)
    <2>1. Rest(p, i + 1) = <<>>
      BY <1>6, RestOfPacket, Zenon
    <2>2. bytes' = <<>> /\ R = <<>>
      BY <2>1, NoPiece, Zenon
    <2>3. posted \o oo \in E
      <3>1. oo \in E
        BY <1>2, <1>3, ConcatProperties, Zenon
      <3>2. QED
        BY <1>2, <3>1, ConcatProperties, Zenon
    <2>4. played' = posted' \o oo
      BY <1>4, <2>2, <2>3, ConcatEmptySeq, Zenon
    <2>5. QED
      BY <2>2, <2>4, Zenon DEF KeyFlow, RoutesOf
  <1>7. CASE i # Len(p)
    <2> DEFINE j == i + 1
    <2>1. j \in 1 .. Len(p) /\ j - 1 = i
      BY <1>1, <1>7
    <2>2. BytesOf(Rest(p, j)) = p[j].bytes \o BytesOf(Rest(p, j + 1))
      BY <2>1, RestOfPacket, Zenon
    <2>3. /\ p[j].bytes \in Seq(0 .. 255) /\ Len(p[j].bytes) \in Nat \ {0}
          /\ BytesOf(Rest(p, j + 1)) \in Seq(0 .. 255)
      BY <2>1, PieceHasBytes, RestOfPacket, ZenonT(60)
    <2>4. bytes' # <<>>
      <3>1. p[j].bytes # <<>>
        BY <2>3
      <3>2. bytes' = p[j].bytes \o BytesOf(Rest(p, j + 1))
        BY <2>2, Zenon
      <3>3. Len(bytes') = Len(p[j].bytes) + Len(BytesOf(Rest(p, j + 1)))
        BY <2>3, <3>2, ConcatProperties, ZenonT(60)
      <3>4. Len(BytesOf(Rest(p, j + 1))) \in Nat
        BY <2>3
      <3>5. Len(bytes') # 0
        <4>1. \A m \in Nat \ {0}, n \in Nat : m + n # 0
          OBVIOUS
        <4>2. QED
          BY <2>3, <3>3, <3>4, <4>1, Zenon
      <3>6. QED
        BY <3>5
    <2>5. Reading(p, j)'
      BY <1>4, <1>5, <2>1, Zenon DEF Reading, RoutesOf
    <2>6. QED
      BY <2>1, <2>4, <2>5, Zenon DEF KeyFlow
  <1>8. QED
    BY <1>6, <1>7

(***************************************************************************)
(* What the first byte of a piece says of it.                              *)
(***************************************************************************)
IsData(b) == b \in 0 .. 127
IsMark(b) == b \in 128 .. 255 \ {240}
StartsSysEx(b) == b = 240

LEMMA ByteClasses ==
  /\ \A b : IsData(b) => ~ IsMark(b) /\ ~ StartsSysEx(b)
  /\ \A b : StartsSysEx(b) => ~ IsMark(b)
  <1>1. /\ \A b \in 0 .. 127 : b \notin 128 .. 255 \ {240} /\ b # 240
        /\ \A b \in 128 .. 255 \ {240} : b # 240
    OBVIOUS
  <1>2. QED
    BY <1>1 DEF IsData, IsMark, StartsSysEx

LEMMA PieceKind ==
  ASSUME NEW p \in Packets, NEW i \in 1 .. Len(p)
  PROVE  LET x == p[i].bytes
             s == StatusAt(p, i)
         IN  /\ IsMark(x[1]) => Len(x) = 1 /\ p[i].means = <<>>
             /\ StartsSysEx(x[1]) => /\ p[i].means = <<>>
                                     /\ \A k \in 2 .. (Len(x) - 1) : x[k] # 247
                                     /\ x[Len(x)] = 247 \/ i = Len(p)
             /\ IsData(x[1]) =>
                  \/ IsMessage(p, i)
                  \/ /\ Len(x) = 1 /\ p[i].means = <<>> /\ ~ IsMessage(p, i)
                     /\ s = 0 \/ i = Len(p)
             /\ IsMessage(p, i) =>
                  /\ s # 0 /\ Len(x) = (IF s \in 192 .. 223 THEN 1 ELSE 2)
                  /\ p[i].means = StandsFor(s, x[1], x[Len(x)])
                  /\ IsData(x[1]) /\ IsData(x[Len(x)])
  <1> DEFINE x == p[i].bytes
             s == StatusAt(p, i)
             M == IsMessage(p, i)
             A == IsAside(p, i)
  <1>1. /\ M \/ A
        /\ M => p[i].means = StandsFor(s, x[1], x[Len(x)])
        /\ ~ M => p[i].means = <<>>
    BY PieceFacts, Zenon
  <1>2. Len(x) \in Nat \ {0} /\ x[1] \in 0 .. 255
    BY PieceHasBytes, ZenonT(60)
  <1>3. M => /\ s # 0 /\ Len(x) = (IF s \in 192 .. 223 THEN 1 ELSE 2)
             /\ \A k \in 1 .. Len(x) : IsData(x[k])
    BY Zenon DEF IsMessage, IsData
  <1>4. A => \/ Len(x) = 1 /\ IsMark(x[1])
             \/ Len(x) = 1 /\ IsData(x[1]) /\ (s = 0 \/ i = Len(p))
             \/ /\ x # <<>> /\ StartsSysEx(x[1])
                /\ \A k \in 2 .. (Len(x) - 1) : x[k] # 247
                /\ x[Len(x)] = 247 \/ i = Len(p)
    BY Zenon DEF IsAside, IsData, IsMark, StartsSysEx
  <1> HIDE DEF x, s, M, A
  <1>5. 1 \in 1 .. Len(x) /\ Len(x) \in 1 .. Len(x)
    BY <1>2
  <1>6. M => IsData(x[1]) /\ IsData(x[Len(x)])
    BY <1>3, <1>5, Zenon
  <1>7. IsData(x[1]) => ~ IsMark(x[1]) /\ ~ StartsSysEx(x[1])
    BY ByteClasses, Zenon
  <1>8. StartsSysEx(x[1]) => ~ IsMark(x[1])
    BY ByteClasses, Zenon
  <1>9. IsMark(x[1]) => Len(x) = 1 /\ p[i].means = <<>>
    BY <1>1, <1>4, <1>6, <1>7, <1>8, Zenon
  <1>10. StartsSysEx(x[1]) => /\ p[i].means = <<>>
                              /\ \A k \in 2 .. (Len(x) - 1) : x[k] # 247
                              /\ x[Len(x)] = 247 \/ i = Len(p)
    BY <1>1, <1>4, <1>6, <1>7, <1>8, Zenon
  <1>11. IsData(x[1]) =>
           \/ M
           \/ Len(x) = 1 /\ p[i].means = <<>> /\ ~ M /\ (s = 0 \/ i = Len(p))
    BY <1>1, <1>4, <1>7, Zenon
  <1>12. QED
    BY <1>1, <1>3, <1>6, <1>9, <1>10, <1>11, Zenon DEF x, s, M, A

FirstByte(p, i) == p[i].bytes[1]
LastByte(p, i) == p[i].bytes[Len(p[i].bytes)]
Size(p, i) == Len(p[i].bytes)
After(p, i) == BytesOf(Rest(p, i + 1))

LEMMA MarkPiece ==
  ASSUME NEW p \in Packets, NEW i \in 1 .. Len(p), IsMark(FirstByte(p, i))
  PROVE  Size(p, i) = 1 /\ p[i].means = <<>>
  BY PieceKind DEF FirstByte, Size

LEMMA SysExPiece ==
  ASSUME NEW p \in Packets, NEW i \in 1 .. Len(p), StartsSysEx(FirstByte(p, i))
  PROVE  /\ p[i].means = <<>>
         /\ \A k \in 2 .. (Len(p[i].bytes) - 1) : p[i].bytes[k] # 247
         /\ LastByte(p, i) = 247 \/ i = Len(p)
  BY PieceKind DEF FirstByte, LastByte

LEMMA DataPiece ==
  ASSUME NEW p \in Packets, NEW i \in 1 .. Len(p), IsData(FirstByte(p, i))
  PROVE  \/ IsMessage(p, i)
         \/ /\ Size(p, i) = 1 /\ p[i].means = <<>> /\ ~ IsMessage(p, i)
            /\ StatusAt(p, i) = 0 \/ i = Len(p)
  BY PieceKind DEF FirstByte, Size

LEMMA MessagePiece ==
  ASSUME NEW p \in Packets, NEW i \in 1 .. Len(p), IsMessage(p, i)
  PROVE  /\ StatusAt(p, i) # 0
         /\ Size(p, i) = IF StatusAt(p, i) \in 192 .. 223 THEN 1 ELSE 2
         /\ p[i].means = StandsFor(StatusAt(p, i), FirstByte(p, i), LastByte(p, i))
         /\ IsData(FirstByte(p, i)) /\ IsData(LastByte(p, i))
  BY PieceKind DEF FirstByte, LastByte, Size

LEMMA FirstRead ==
  ASSUME NEW p \in Packets, NEW i \in 1 .. Len(p), bytes = BytesOf(Rest(p, i))
  PROVE  /\ Head(bytes) = FirstByte(p, i) /\ Head(bytes) \in 0 .. 255
         /\ Size(p, i) = 1 => Tail(bytes) = After(p, i)
         /\ Size(p, i) \in Nat \ {0}
         /\ i = Len(p) => After(p, i) = <<>>
  <1>1. /\ Head(bytes) = p[i].bytes[1] /\ p[i].bytes[1] \in 0 .. 255
        /\ Len(p[i].bytes) \in Nat \ {0}
    BY ReadingPiece, ZenonT(60)
  <1>2. /\ Len(p[i].bytes) = 1 => Tail(bytes) = BytesOf(Rest(p, i + 1))
        /\ i = Len(p) => BytesOf(Rest(p, i + 1)) = <<>>
    BY ReadingPiece, ZenonT(60)
  <1>3. QED
    BY <1>1, <1>2, Zenon DEF FirstByte, Size, After

LEMMA NextStatus ==
  ASSUME NEW p \in Packets, NEW i \in 1 .. Len(p), bytes = BytesOf(Rest(p, i))
  PROVE  StatusAt(p, i + 1) = IF Head(bytes) \notin 128 .. 247 THEN StatusAt(p, i)
                             ELSE IF Head(bytes) >= 240 THEN 0 ELSE Head(bytes)
  <1>1. Head(bytes) = p[i].bytes[1] /\ Head(bytes) \in 0 .. 255
    BY ReadingPiece, ZenonT(60)
  <1>2. QED
    BY <1>1, StatusAfter, ZenonT(60)

LEMMA DataKeepsStatus ==
  ASSUME NEW p \in Packets, NEW i \in 1 .. Len(p), bytes = BytesOf(Rest(p, i)),
         Head(bytes) \in 0 .. 127
  PROVE  StatusAt(p, i + 1) = StatusAt(p, i)
  <1> DEFINE b == Head(bytes)
             s == StatusAt(p, i)
             next == StatusAt(p, i + 1)
  <1>1. next = IF b \notin 128 .. 247 THEN s ELSE IF b >= 240 THEN 0 ELSE b
    BY NextStatus, Zenon
  <1>2. b \in 0 .. 127
    OBVIOUS
  <1> HIDE DEF b, s, next
  <1>3. b \notin 128 .. 247
    BY <1>2
  <1>4. next = s
    BY <1>1, <1>3, Zenon
  <1>5. QED
    BY <1>4, Zenon DEF s, next

LEMMA RestAfter ==
  ASSUME NEW S, NEW a \in Seq(S), NEW b \in Seq(S), NEW c, c = a \o b
  PROVE  SubSeq(c, Len(a) + 1, Len(c)) = b
  <1>1. /\ c \in Seq(S) /\ Len(c) = Len(a) + Len(b) /\ Len(a) \in Nat /\ Len(b) \in Nat
        /\ \A k \in 1 .. Len(a) + Len(b) : c[k] = IF k <= Len(a) THEN a[k] ELSE b[k - Len(a)]
    BY ConcatProperties
  <1> DEFINE t == SubSeq(c, Len(a) + 1, Len(c))
  <1>2. \A k \in Len(a) + 1 .. Len(c) : c[k] \in S
    BY <1>1
  <1>3. /\ t \in Seq(S)
        /\ Len(t) = IF Len(a) + 1 <= Len(c) THEN Len(c) - (Len(a) + 1) + 1 ELSE 0
        /\ \A k \in 1 .. Len(c) - (Len(a) + 1) + 1 : t[k] = c[Len(a) + 1 + k - 1]
    BY <1>1, <1>2, SubSeqProperties
  <1> HIDE DEF t
  <1>4. Len(t) = Len(b)
    BY <1>1, <1>3
  <1>5. \A k \in 1 .. Len(b) : t[k] = b[k]
    <2>1. \A k \in 1 .. Len(b) : t[k] = c[Len(a) + k]
      BY <1>1, <1>3
    <2>2. \A k \in 1 .. Len(b) : Len(a) + k \in 1 .. Len(a) + Len(b) /\ ~ (Len(a) + k <= Len(a))
                                  /\ Len(a) + k - Len(a) = k
      BY <1>1
    <2>3. QED
      BY <1>1, <2>1, <2>2
  <1>6. t = b
    BY <1>3, <1>4, <1>5, SeqEqual
  <1>7. QED
    BY <1>6 DEF t

(* One byte of the packet that stands for nothing. *)
LEMMA AsideByte ==
  ASSUME KeyTypes, NEW p \in Packets, NEW i \in 1 .. Len(p), Reading(p, i),
         Realtime \/ SystemCommon \/ StatusByte \/ StrayData
  PROVE  KeyFlow'
  <1> DEFINE b == Head(bytes)
             s == StatusAt(p, i)
             next == StatusAt(p, i + 1)
             rest == BytesOf(Rest(p, i + 1))
  <1>1. bytes = BytesOf(Rest(p, i)) /\ status = s
    BY Zenon DEF Reading
  <1>2. b = FirstByte(p, i) /\ (Size(p, i) = 1 => Tail(bytes) = rest)
    BY <1>1, FirstRead, Zenon DEF After
  <1>3. /\ IsMark(b) => Size(p, i) = 1 /\ p[i].means = <<>>
        /\ IsData(b) /\ s = 0 => Size(p, i) = 1 /\ p[i].means = <<>>
    BY <1>2, MarkPiece, DataPiece, MessagePiece, ZenonT(60)
  <1>4. next = IF b \notin 128 .. 247 THEN s ELSE IF b >= 240 THEN 0 ELSE b
    BY <1>1, NextStatus, Zenon
  <1>5. /\ bytes' = Tail(bytes) /\ out' = out /\ played' = played /\ posted' = posted
        /\ \/ b \in 248 .. 255 /\ status' = status
           \/ b \in 241 .. 247 /\ status' = 0
           \/ b \in 128 .. 239 /\ status' = b
           \/ b \in 0 .. 127 /\ status = 0 /\ status' = status
    BY Zenon DEF Realtime, SystemCommon, StatusByte, StrayData, At
  <1> HIDE DEF b, s, next, rest
  <1>6. /\ status' = next
        /\ IsMark(b) \/ (IsData(b) /\ s = 0)
    <2>1. \A k \in 248 .. 255 : k \notin 128 .. 247 /\ IsMark(k)
      BY DEF IsMark
    <2>2. \A k \in 241 .. 247 : k \in 128 .. 247 /\ k >= 240 /\ IsMark(k)
      BY DEF IsMark
    <2>3. \A k \in 128 .. 239 : k \in 128 .. 247 /\ ~ (k >= 240) /\ IsMark(k)
      BY DEF IsMark
    <2>4. \A k \in 0 .. 127 : k \notin 128 .. 247 /\ IsData(k)
      BY DEF IsData
    <2>5. CASE b \in 248 .. 255 /\ status' = status
      <3>1. b \notin 128 .. 247 /\ IsMark(b)
        BY <2>1, <2>5, Zenon
      <3>2. next = s
        BY <1>4, <3>1, Zenon
      <3>3. QED
        BY <1>1, <2>5, <3>1, <3>2, Zenon
    <2>6. CASE b \in 241 .. 247 /\ status' = 0
      <3>1. b \in 128 .. 247 /\ b >= 240 /\ IsMark(b)
        BY <2>2, <2>6, Zenon
      <3>2. next = 0
        BY <1>4, <3>1, Zenon
      <3>3. QED
        BY <1>1, <2>6, <3>1, <3>2, Zenon
    <2>7. CASE b \in 128 .. 239 /\ status' = b
      <3>1. b \in 128 .. 247 /\ ~ (b >= 240) /\ IsMark(b)
        BY <2>3, <2>7, Zenon
      <3>2. next = b
        BY <1>4, <3>1, Zenon
      <3>3. QED
        BY <1>1, <2>7, <3>1, <3>2, Zenon
    <2>8. CASE b \in 0 .. 127 /\ status = 0 /\ status' = status
      <3>1. b \notin 128 .. 247 /\ IsData(b)
        BY <2>4, <2>8, Zenon
      <3>2. next = s
        BY <1>4, <3>1, Zenon
      <3>3. QED
        <4>1. s = 0 /\ status' = s
          BY <1>1, <2>8
        <4>2. QED
          BY <3>1, <3>2, <4>1, Zenon
    <2>9. QED
      BY <1>5, <2>5, <2>6, <2>7, <2>8
  <1>7. Size(p, i) = 1 /\ p[i].means = <<>>
    BY <1>3, <1>6, Zenon
  <1>8. bytes' = rest
    BY <1>2, <1>5, <1>7, Zenon
  <1>9. bytes' = BytesOf(Rest(p, i + 1)) /\ status' = StatusAt(p, i + 1)
    BY <1>6, <1>8, Zenon DEF rest, next
  <1>10. QED
    BY <1>5, <1>7, <1>9, PieceDone, Zenon

(* The end of a SysEx is the first 0xF7. *)
LEMMA EndOfSysEx ==
  ASSUME NEW p \in Packets, NEW i \in 1 .. Len(p), bytes = BytesOf(Rest(p, i)),
         StartsSysEx(FirstByte(p, i))
  PROVE  LET end == SelectInSeq(bytes, LAMBDA b : b = 247)
         IN  BytesOf(Rest(p, i + 1)) = IF end = 0 THEN <<>> ELSE SubSeq(bytes, end + 1, Len(bytes))
  <1> DEFINE x == p[i].bytes
             rest == BytesOf(Rest(p, i + 1))
             last == i = Len(p)
             I == {k \in 1 .. Len(bytes) : bytes[k] = 247}
             end == SelectInSeq(bytes, LAMBDA b : b = 247)
  <1>1. /\ x \in Seq(0 .. 255) /\ rest \in Seq(0 .. 255) /\ bytes = x \o rest
        /\ Len(x) \in Nat \ {0} /\ (last => rest = <<>>)
        /\ Len(bytes) = Len(x) + Len(rest)
    BY ReadingPiece, ZenonT(60)
  <1>2. x[1] = 240 /\ (\A k \in 2 .. (Len(x) - 1) : x[k] # 247) /\ (x[Len(x)] = 247 \/ last)
    BY SysExPiece DEF StartsSysEx, FirstByte, LastByte
  <1>3. end = IF I # {} THEN Min(I) ELSE 0
    BY DEF SelectInSeq
  <1>4. I \in SUBSET Nat
    OBVIOUS
  <1> HIDE DEF x, rest, last, end, I
  <1>5. /\ Len(rest) \in Nat
        /\ \A k \in 1 .. Len(x) : bytes[k] = x[k]
    <2>1. \A k \in 1 .. Len(x) + Len(rest) :
            (x \o rest)[k] = IF k <= Len(x) THEN x[k] ELSE rest[k - Len(x)]
      BY <1>1, ConcatProperties, ZenonT(60)
    <2>2. QED
      BY <1>1, <2>1
  <1>6. \A k \in 1 .. (Len(x) - 1) : bytes[k] # 247
    BY <1>1, <1>2, <1>5
  <1>7. CASE x[Len(x)] = 247
    <2>1. Len(x) \in I /\ \A k \in I : k \in Nat /\ Len(x) <= k
      BY <1>1, <1>5, <1>6, <1>7 DEF I
    <2>2. I # {} /\ Min(I) \in I /\ \A k \in I : Min(I) <= k
      <3>1. I # {}
        BY <2>1, Zenon
      <3>2. QED
        BY <1>4, <3>1, MinIsLeast, Zenon
    <2>3. end = Len(x) /\ end # 0
      BY <1>1, <1>3, <2>1, <2>2
    <2>4. SubSeq(bytes, Len(x) + 1, Len(bytes)) = rest
      BY <1>1, RestAfter
    <2>5. rest = IF end = 0 THEN <<>> ELSE SubSeq(bytes, end + 1, Len(bytes))
      BY <2>3, <2>4, Zenon
    <2>6. QED
      BY <2>5 DEF rest, end
  <1>8. CASE x[Len(x)] # 247
    <2>1. rest = <<>>
      BY <1>1, <1>2, <1>8
    <2>2. I = {}
      <3>1. Len(bytes) = Len(x)
        BY <1>1, <2>1
      <3>2. QED
        BY <1>1, <1>5, <1>6, <1>8, <3>1 DEF I
    <2>3. end = 0
      BY <1>3, <2>2
    <2>4. rest = IF end = 0 THEN <<>> ELSE SubSeq(bytes, end + 1, Len(bytes))
      BY <2>1, <2>3, Zenon
    <2>5. QED
      BY <2>4 DEF rest, end
  <1>9. QED
    BY <1>7, <1>8

LEMMA SysExFlows ==
  ASSUME KeyTypes, NEW p \in Packets, NEW i \in 1 .. Len(p), Reading(p, i), SysEx
  PROVE  KeyFlow'
  <1> DEFINE b == Head(bytes)
  <1>1. bytes = BytesOf(Rest(p, i)) /\ b = FirstByte(p, i)
    BY FirstRead, Zenon DEF Reading
  <1>2. b \in {240} /\ status' = 0 /\ out' = out /\ played' = played /\ posted' = posted
    BY Zenon DEF SysEx, At
  <1>3. StartsSysEx(FirstByte(p, i))
    BY <1>1, <1>2, Zenon DEF StartsSysEx
  <1>4. p[i].means = <<>>
    BY <1>3, SysExPiece
  <1>5. bytes' = BytesOf(Rest(p, i + 1))
    BY <1>1, <1>3, EndOfSysEx, Zenon DEF SysEx
  <1>6. status' = StatusAt(p, i + 1)
    <2>1. StatusAt(p, i + 1) = IF b \notin 128 .. 247 THEN StatusAt(p, i)
                              ELSE IF b >= 240 THEN 0 ELSE b
      BY <1>1, NextStatus, Zenon
    <2> HIDE DEF b
    <2>2. b \in 128 .. 247 /\ b >= 240
      BY <1>2
    <2>3. QED
      BY <1>2, <2>1, <2>2, Zenon
  <1>7. QED
    BY <1>2, <1>4, <1>5, <1>6, PieceDone, Zenon

(* The array has room for the message of a piece. *)
LEMMA RoomForOne ==
  ASSUME FewMessages, KeyTypes, NEW p \in Packets, NEW i \in 1 .. Len(p), Reading(p, i),
         IsMessage(p, i), NEW m
  PROVE  Emitted(m) = Append(out, m)
  <1> DEFINE before == Cardinality(MessagesIn(p, i - 1))
             now == Cardinality(MessagesIn(p, i))
             all == Cardinality(MessagesIn(p, Len(p)))
  <1>1. /\ before \in Nat /\ now \in Nat /\ all \in Nat
        /\ now <= all /\ now = before + 1
    BY MessagesCounted, Zenon
  <1>2. Len(out) <= before /\ all <= MaxOut
    BY Zenon DEF Reading, FewMessages
  <1>3. Len(out) \in Nat /\ MaxOut \in Nat
    BY KeyInputAssumption DEF KeyTypes
  <1> HIDE DEF before, now, all
  <1>4. Len(out) < MaxOut
    BY <1>1, <1>2, <1>3
  <1>5. QED
    BY <1>4 DEF Emitted

LEMMA OneByteFlows ==
  ASSUME FewMessages, KeyTypes, NEW p \in Packets, NEW i \in 1 .. Len(p), Reading(p, i),
         OneDataByte
  PROVE  KeyFlow'
  <1> DEFINE b == Head(bytes)
             s == StatusAt(p, i)
             first == FirstByte(p, i)
             size == Size(p, i)
             after == After(p, i)
             m == [type |-> "Other", d1 |-> b, d2 |-> 0]
  <1>1. bytes = BytesOf(Rest(p, i)) /\ status = s /\ s \in {0} \cup 128 .. 239
    BY Zenon DEF Reading, KeyTypes
  <1>2. b = first /\ (size = 1 => Tail(bytes) = after)
    BY <1>1, FirstRead, Zenon
  <1>3. /\ status \div 16 \in {12, 13} /\ b \in 0 .. 127 /\ out' = Emitted(m)
        /\ status' = status /\ bytes' = Tail(bytes) /\ played' = played /\ posted' = posted
    BY Zenon DEF OneDataByte, At
  <1>4. s \in 192 .. 223
    <2> HIDE DEF s
    <2>1. \A t \in {0} \cup 128 .. 239 : t \div 16 \in {12, 13} => t \in 192 .. 223
      OBVIOUS
    <2>2. s \div 16 \in {12, 13}
      BY <1>1, <1>3
    <2>3. QED
      BY <1>1, <2>1, <2>2
  <1>5. IsMessage(p, i) /\ size = 1
    <2>1. IsData(first)
      BY <1>2, <1>3, Zenon DEF IsData
    <2>2. IsMessage(p, i) \/ size = 1
      BY <2>1, DataPiece, Zenon
    <2>3. IsMessage(p, i) => size = IF s \in 192 .. 223 THEN 1 ELSE 2
      BY MessagePiece, Zenon
    <2>4. size = 1
      BY <1>4, <2>2, <2>3, Zenon
    <2>5. s # 0
      <3> HIDE DEF s
      <3>1. QED
        BY <1>4
    <2>6. \A k \in 1 .. size : p[i].bytes[k] \in 0 .. 127
      <3>1. \A k \in 1 .. 1 : k = 1
        OBVIOUS
      <3>2. p[i].bytes[1] \in 0 .. 127
        BY <2>1, Zenon DEF IsData, FirstByte
      <3>3. QED
        BY <2>4, <3>1, <3>2, Zenon
    <2>7. IsMessage(p, i)
      <3>1. Len(p[i].bytes) = IF s \in 192 .. 223 THEN 1 ELSE 2
        BY <1>4, <2>4, Zenon DEF Size
      <3>2. QED
        BY <2>5, <2>6, <3>1, Zenon DEF IsMessage, Size
    <2>8. QED
      BY <2>4, <2>7, Zenon
  <1>6. p[i].means = Routed(m)
    <2>1. p[i].means = StandsFor(s, first, LastByte(p, i))
      BY <1>5, MessagePiece, Zenon
    <2>2. StandsFor(s, first, LastByte(p, i)) = <<>>
      <3> HIDE DEF s
      <3>1. s \notin 128 .. 143 /\ s \notin 144 .. 159 /\ s \notin 176 .. 191
        BY <1>4
      <3>2. QED
        BY <3>1 DEF StandsFor
    <2>3. Routed(m) = <<>>
      BY DEF Routed
    <2>4. QED
      BY <2>1, <2>2, <2>3, Zenon
  <1>7. m \in Messages
    <2> HIDE DEF b
    <2>1. QED
      BY <1>3 DEF Messages
  <1> HIDE DEF m
  <1>8. out' = Append(out, m)
    BY <1>3, <1>5, RoomForOne, Zenon
  <1>9. status' = StatusAt(p, i + 1)
    <2>1. StatusAt(p, i + 1) = StatusAt(p, i)
      BY <1>1, <1>3, DataKeepsStatus, Zenon
    <2>2. QED
      BY <1>1, <1>3, <2>1, Zenon
  <1>10. bytes' = BytesOf(Rest(p, i + 1))
    BY <1>2, <1>3, <1>5, Zenon DEF After
  <1>11. QED
    BY <1>3, <1>5, <1>6, <1>7, <1>8, <1>9, <1>10, PieceDone, Zenon
LEMMA TwoByteStatus ==
  ASSUME NEW s \in {0} \cup 128 .. 239, s # 0, s \div 16 \notin {12, 13}
  PROVE  s \notin 192 .. 223 /\ s \in 128 .. 239
  OBVIOUS

(* The parser and an arranger read a message of two data bytes alike. *)
LEMMA TwoBytesRouted ==
  ASSUME status \in {0} \cup 128 .. 239, status # 0, status \div 16 \notin {12, 13},
         NEW d1 \in 0 .. 127, NEW d2 \in 0 .. 127
  PROVE  LET m == [type |-> TypeOf(d2), d1 |-> d1, d2 |-> d2]
         IN  m \in Messages /\ StandsFor(status, d1, d2) = Routed(m)
  <1> DEFINE m == [type |-> TypeOf(d2), d1 |-> d1, d2 |-> d2]
             n == status \div 16
  <1>1. /\ n = 9 <=> status \in 144 .. 159
        /\ n = 8 <=> status \in 128 .. 143
        /\ n = 11 <=> status \in 176 .. 191
    OBVIOUS
  <1>2. TypeOf(d2) = CASE n = 9 -> IF d2 = 0 THEN "NoteOff" ELSE "NoteOn"
                       [] n = 8 -> "NoteOff"
                       [] n = 11 -> "ControlChange"
                       [] OTHER -> "Other"
    BY DEF TypeOf
  <1> HIDE DEF n
  <1>3. TypeOf(d2) \in {"NoteOn", "NoteOff", "ControlChange", "Other"}
    BY <1>1, <1>2
  <1>4. m \in Messages
    <2>1. d2 \in 0 .. 255
      OBVIOUS
    <2>2. QED
      BY <1>3, <2>1 DEF Messages
  <1>a. /\ TypeOf(d2) = "NoteOn" => Routed(m) = <<<<"NoteOn", d1>>>>
        /\ TypeOf(d2) = "NoteOff" => Routed(m) = <<<<"NoteOff", d1>>>>
    BY DEF Routed
  <1>5. CASE status \in 144 .. 159
    <2>1. n = 9 /\ status \notin 128 .. 143 /\ status \notin 176 .. 191
      BY <1>1, <1>5
    <2>2. TypeOf(d2) = IF d2 = 0 THEN "NoteOff" ELSE "NoteOn"
      BY <1>2, <2>1
    <2>3. CASE d2 = 0
      <3>1. StandsFor(status, d1, d2) = <<<<"NoteOff", d1>>>>
        BY <1>5, <2>1, <2>3 DEF StandsFor
      <3>2. TypeOf(d2) = "NoteOff"
        BY <2>2, <2>3
      <3>3. QED
        BY <1>4, <1>a, <3>1, <3>2, Zenon
    <2>4. CASE d2 # 0
      <3>1. StandsFor(status, d1, d2) = <<<<"NoteOn", d1>>>>
        BY <1>5, <2>1, <2>4 DEF StandsFor
      <3>2. TypeOf(d2) = "NoteOn"
        BY <2>2, <2>4
      <3>3. QED
        BY <1>4, <1>a, <3>1, <3>2, Zenon
    <2>5. QED
      BY <1>4, <2>3, <2>4
  <1>6. CASE status \in 128 .. 143
    <2>1. TypeOf(d2) = "NoteOff" /\ status \notin 144 .. 159 /\ status \notin 176 .. 191
      BY <1>1, <1>2, <1>6
    <2>2. StandsFor(status, d1, d2) = <<<<"NoteOff", d1>>>>
      BY <1>6, <2>1 DEF StandsFor
    <2>3. Routed(m) = <<<<"NoteOff", d1>>>>
      BY <1>a, <2>1, Zenon
    <2>4. QED
      BY <1>4, <2>2, <2>3, Zenon
  <1>7. CASE status \in 176 .. 191
    <2>1. TypeOf(d2) = "ControlChange" /\ status \notin 128 .. 143 /\ status \notin 144 .. 159
      BY <1>1, <1>2, <1>7
    <2>2. CASE d1 = 64
      <3>1. ASSUME d2 < 64 PROVE StandsFor(status, d1, d2) = Routed(m)
        <4>1. StandsFor(status, d1, d2) = <<<<"Sustain", 0>>>>
          BY <1>7, <2>1, <2>2, <3>1 DEF StandsFor
        <4>2. Routed(m) = <<<<"Sustain", 0>>>>
          BY <2>1, <2>2, <3>1 DEF Routed
        <4>3. QED
          BY <4>1, <4>2, Zenon
      <3>2. ASSUME ~ (d2 < 64) PROVE StandsFor(status, d1, d2) = Routed(m)
        <4>1. StandsFor(status, d1, d2) = <<<<"Sustain", 1>>>>
          BY <1>7, <2>1, <2>2, <3>2 DEF StandsFor
        <4>2. Routed(m) = <<<<"Sustain", 1>>>>
          BY <2>1, <2>2, <3>2 DEF Routed
        <4>3. QED
          BY <4>1, <4>2, Zenon
      <3>3. QED
        BY <1>4, <3>1, <3>2, Zenon
    <2>3. CASE d1 = 123
      <3>1. StandsFor(status, d1, d2) = <<<<"Panic", 0>>>>
        BY <1>7, <2>1, <2>3 DEF StandsFor
      <3>2. Routed(m) = <<<<"Panic", 0>>>>
        BY <2>1, <2>3 DEF Routed
      <3>3. QED
        BY <1>4, <3>1, <3>2, Zenon
    <2>4. CASE d1 # 64 /\ d1 # 123
      <3>1. StandsFor(status, d1, d2) = <<>>
        BY <1>7, <2>1, <2>4 DEF StandsFor
      <3>2. Routed(m) = <<>>
        BY <2>1, <2>4 DEF Routed
      <3>3. QED
        BY <1>4, <3>1, <3>2, Zenon
    <2>5. QED
      BY <2>2, <2>3, <2>4
  <1>8. CASE status \notin 128 .. 143 /\ status \notin 144 .. 159 /\ status \notin 176 .. 191
    <2>1. TypeOf(d2) = "Other"
      BY <1>1, <1>2, <1>8
    <2>2. StandsFor(status, d1, d2) = <<>>
      BY <1>8 DEF StandsFor
    <2>3. Routed(m) = <<>>
      BY <2>1 DEF Routed
    <2>4. QED
      BY <1>4, <2>2, <2>3
  <1>9. QED
    BY <1>5, <1>6, <1>7, <1>8

LEMMA TwoBytesRead ==
  ASSUME NEW p \in Packets, NEW i \in 1 .. Len(p), bytes = BytesOf(Rest(p, i)),
         Size(p, i) = 2
  PROVE  /\ bytes[1] = FirstByte(p, i) /\ bytes[2] = LastByte(p, i)
         /\ SubSeq(bytes, 3, Len(bytes)) = After(p, i) /\ Len(bytes) # 1
  <1> DEFINE x == p[i].bytes
             rest == BytesOf(Rest(p, i + 1))
  <1>1. /\ x \in Seq(0 .. 255) /\ rest \in Seq(0 .. 255) /\ bytes = x \o rest
        /\ Len(bytes) = Len(x) + Len(rest)
    BY ReadingPiece, ZenonT(60)
  <1>2. Len(x) = 2
    BY Zenon DEF Size
  <1> HIDE DEF x, rest
  <1>3. Len(rest) \in Nat
    BY <1>1
  <1>4. \A k \in 1 .. Len(x) + Len(rest) :
          (x \o rest)[k] = IF k <= Len(x) THEN x[k] ELSE rest[k - Len(x)]
    BY <1>1, ConcatProperties, ZenonT(60)
  <1>5. bytes[1] = x[1] /\ bytes[2] = x[2] /\ Len(bytes) # 1
    BY <1>1, <1>2, <1>3, <1>4
  <1>6. SubSeq(bytes, Len(x) + 1, Len(bytes)) = rest
    BY <1>1, RestAfter
  <1>7. SubSeq(bytes, 3, Len(bytes)) = rest
    BY <1>2, <1>6
  <1>8. QED
    BY <1>2, <1>5, <1>7, Zenon DEF x, rest, FirstByte, LastByte, After

LEMMA TwoByteFlows ==
  ASSUME FewMessages, KeyTypes, NEW p \in Packets, NEW i \in 1 .. Len(p), Reading(p, i),
         TwoDataBytes
  PROVE  KeyFlow'
  <1> DEFINE b == Head(bytes)
             first == FirstByte(p, i)
             last == LastByte(p, i)
             m == [type |-> TypeOf(bytes[2]), d1 |-> bytes[1], d2 |-> bytes[2]]
  <1>1. /\ bytes = BytesOf(Rest(p, i)) /\ status = StatusAt(p, i)
        /\ status \in {0} \cup 128 .. 239
    BY Zenon DEF Reading, KeyTypes
  <1>2. b = first /\ (i = Len(p) => After(p, i) = <<>>)
    BY <1>1, FirstRead, Zenon
  <1>3. /\ status # 0 /\ status \div 16 \notin {12, 13} /\ b \in 0 .. 127
        /\ Len(bytes) > 1 /\ out' = Emitted(m)
        /\ status' = status /\ bytes' = SubSeq(bytes, 3, Len(bytes))
        /\ played' = played /\ posted' = posted
    BY Zenon DEF TwoDataBytes, At
  <1>4. IsMessage(p, i)
    <2>1. IsData(first)
      BY <1>2, <1>3, Zenon DEF IsData
    <2>2. IsMessage(p, i) \/ (Size(p, i) = 1 /\ i = Len(p))
      BY <1>1, <1>3, <2>1, DataPiece, Zenon
    <2>3. ASSUME Size(p, i) = 1, i = Len(p) PROVE FALSE
      <3>1. Len(bytes) = Len(p[i].bytes) + Len(BytesOf(Rest(p, i + 1)))
        BY <1>1, ReadingPiece, ZenonT(60)
      <3>2. Len(bytes) = 1
        <4>1. After(p, i) = <<>>
          BY <1>2, <2>3, Zenon
        <4>2. Len(bytes) = 1 + Len(<<>>)
          BY <2>3, <3>1, <4>1, Zenon DEF Size, After
        <4>3. QED
          BY <4>2
      <3>3. QED
        BY <1>3, <3>2
    <2>4. QED
      BY <2>2, <2>3, Zenon
  <1>5. /\ Size(p, i) = 2 /\ first \in 0 .. 127 /\ last \in 0 .. 127
        /\ p[i].means = StandsFor(status, first, last)
    <2>1. /\ Size(p, i) = IF status \in 192 .. 223 THEN 1 ELSE 2
          /\ p[i].means = StandsFor(status, first, last)
      BY <1>1, <1>4, MessagePiece
    <2>2. status \notin 192 .. 223
      <3>1. status \in {0} \cup 128 .. 239 /\ status # 0 /\ status \div 16 \notin {12, 13}
        BY <1>1, <1>3, Zenon
      <3>2. QED
        BY <3>1, TwoByteStatus
    <2>3. IsData(first) /\ IsData(last)
      BY <1>4, MessagePiece, Zenon
    <2>4. QED
      BY <2>1, <2>2, <2>3, Zenon DEF IsData
  <1>6. /\ bytes[1] = first /\ bytes[2] = last
        /\ SubSeq(bytes, 3, Len(bytes)) = After(p, i)
    BY <1>1, <1>5, TwoBytesRead, Zenon
  <1>7. m \in Messages /\ p[i].means = Routed(m)
    <2>1. m = [type |-> TypeOf(last), d1 |-> first, d2 |-> last]
      BY <1>6, Zenon
    <2> HIDE DEF m, first, last
    <2>2. LET n == [type |-> TypeOf(last), d1 |-> first, d2 |-> last]
          IN  n \in Messages /\ StandsFor(status, first, last) = Routed(n)
      BY <1>1, <1>3, <1>5, TwoBytesRouted, Zenon
    <2>3. QED
      BY <1>5, <2>1, <2>2, Zenon
  <1> HIDE DEF m
  <1>8. out' = Append(out, m)
    BY <1>3, <1>4, RoomForOne, Zenon
  <1>9. status' = StatusAt(p, i + 1)
    <2>1. StatusAt(p, i + 1) = StatusAt(p, i)
      BY <1>1, <1>3, DataKeepsStatus, Zenon
    <2>2. QED
      BY <1>1, <1>3, <2>1, Zenon
  <1>10. bytes' = BytesOf(Rest(p, i + 1))
    BY <1>3, <1>6, Zenon DEF After
  <1>11. QED
    BY <1>3, <1>4, <1>7, <1>8, <1>9, <1>10, PieceDone, Zenon

LEMMA BrokenOffFlows ==
  ASSUME KeyTypes, NEW p \in Packets, NEW i \in 1 .. Len(p), Reading(p, i), Incomplete
  PROVE  KeyFlow'
  <1> DEFINE b == Head(bytes)
             first == FirstByte(p, i)
  <1>1. /\ bytes = BytesOf(Rest(p, i)) /\ status = StatusAt(p, i)
        /\ status \in {0} \cup 128 .. 239
    BY Zenon DEF Reading, KeyTypes
  <1>2. b = first /\ (i = Len(p) => After(p, i) = <<>>)
    BY <1>1, FirstRead, Zenon
  <1>3. /\ status # 0 /\ status \div 16 \notin {12, 13} /\ b \in 0 .. 127
        /\ Len(bytes) = 1 /\ out' = out /\ status' = status /\ bytes' = <<>>
        /\ played' = played /\ posted' = posted
    BY Zenon DEF Incomplete, At
  <1>4. ~ IsMessage(p, i)
    <2>1. status \notin 192 .. 223
      <3>1. status \in {0} \cup 128 .. 239 /\ status # 0 /\ status \div 16 \notin {12, 13}
        BY <1>1, <1>3, Zenon
      <3>2. QED
        BY <3>1, TwoByteStatus
    <2>2. IsMessage(p, i) => Size(p, i) = IF status \in 192 .. 223 THEN 1 ELSE 2
      BY <1>1, MessagePiece
    <2>3. IsMessage(p, i) => Size(p, i) = 2
      BY <2>1, <2>2, Zenon
    <2>4. Size(p, i) = 2 => Len(bytes) # 1
      BY <1>1, TwoBytesRead, Zenon
    <2>5. QED
      BY <1>3, <2>3, <2>4, Zenon
  <1>5. p[i].means = <<>> /\ i = Len(p)
    <2>1. IsData(first)
      BY <1>2, <1>3, Zenon DEF IsData
    <2>2. QED
      BY <1>1, <1>3, <1>4, <2>1, DataPiece, Zenon
  <1>6. bytes' = BytesOf(Rest(p, i + 1))
    BY <1>2, <1>3, <1>5, Zenon DEF After
  <1>7. status' = StatusAt(p, i + 1)
    <2>1. StatusAt(p, i + 1) = StatusAt(p, i)
      BY <1>1, <1>3, DataKeepsStatus, Zenon
    <2>2. QED
      BY <1>1, <1>3, <2>1, Zenon
  <1>8. QED
    BY <1>3, <1>5, <1>6, <1>7, PieceDone, Zenon
(***************************************************************************)
(* Part 7: every step keeps the flow of events and the types.              *)
(***************************************************************************)
LEMMA PacketIsItsPieces ==
  ASSUME NEW p \in Packets
  PROVE  /\ p \in Seq(Pieces) /\ Len(p) \in Nat
         /\ BytesOf(p) \in Seq(0 .. 255) /\ MeaningOf(p) \in Seq(ControlEvents)
         /\ p # <<>> => 1 \in 1 .. Len(p) /\ Rest(p, 1) = p /\ BytesOf(p) # <<>>
         /\ p = <<>> => BytesOf(p) = <<>> /\ MeaningOf(p) = <<>>
         /\ StatusAt(p, 1) = 0 /\ Cardinality(MessagesIn(p, 0)) = 0
  <1>1. p \in Seq(Pieces) /\ Len(p) \in Nat
    <2>1. p \in Seq(Pieces)
      BY PieceFacts, Zenon
    <2>2. QED
      BY <2>1
  <1>2. p = <<>> => BytesOf(p) = <<>> /\ MeaningOf(p) = <<>>
    BY NoPiece, Zenon
  <1>3. ASSUME p # <<>> PROVE 1 \in 1 .. Len(p) /\ Rest(p, 1) = p /\ BytesOf(p) # <<>>
    <2>1. 1 \in 1 .. Len(p)
      BY <1>1, <1>3
    <2>2. Rest(p, 1) = p
      BY <1>1, SubSeqFull DEF Rest
    <2>3. BytesOf(Rest(p, 1)) # <<>>
      <3> DEFINE x == p[1].bytes
                 r == BytesOf(Rest(p, 1 + 1))
      <3>1. /\ x \in Seq(0 .. 255) /\ Len(x) \in Nat \ {0} /\ r \in Seq(0 .. 255)
            /\ BytesOf(Rest(p, 1)) = x \o r
        BY <2>1, PieceHasBytes, RestOfPacket, ZenonT(60)
      <3> HIDE DEF x, r
      <3>2. x \o r # <<>>
        BY <3>1
      <3>3. QED
        BY <3>1, <3>2, Zenon
    <2>4. QED
      BY <2>1, <2>2, <2>3, Zenon
  <1>4. BytesOf(p) \in Seq(0 .. 255) /\ MeaningOf(p) \in Seq(ControlEvents)
    <2>1. CASE p = <<>>
      <3>1. <<>> \in Seq(0 .. 255) /\ <<>> \in Seq(ControlEvents)
        OBVIOUS
      <3>2. QED
        BY <1>2, <2>1, <3>1, Zenon
    <2>2. CASE p # <<>>
      BY <1>1, <2>2, FirstPiece, Zenon
    <2>3. QED
      BY <2>1, <2>2
  <1>5. StatusAt(p, 1) = 0
    BY DEF StatusAt
  <1>6. Cardinality(MessagesIn(p, 0)) = 0
    <2>1. MessagesIn(p, 0) = {}
      BY DEF MessagesIn
    <2>2. QED
      BY <2>1, FS_EmptySet, Zenon
  <1>7. QED
    BY <1>1, <1>2, <1>3, <1>4, <1>5, <1>6, Zenon

LEMMA ReceiveFlows ==
  ASSUME KeyTypes, KeyFlow, Receive
  PROVE  KeyFlow'
  <1> DEFINE E == Seq(ControlEvents)
  <1>1. PICK p \in Packets : bytes' = BytesOf(p) /\ played' = played \o MeaningOf(p)
    BY Zenon DEF Receive
  <1>2. bytes = <<>> /\ out = <<>> /\ out' = <<>> /\ posted' = posted /\ status' = 0
    BY Zenon DEF Receive
  <1>3. posted \in E /\ MeaningOf(p) \in E
    BY PacketIsItsPieces, Zenon DEF KeyTypes
  <1>4. RoutesOf(<<>>) = <<>> /\ posted \o <<>> = posted
    BY <1>3, NoPiece, ConcatEmptySeq, Zenon
  <1>5. played = posted
    BY <1>2, <1>4, Zenon DEF KeyFlow
  <1>6. played' = (posted' \o RoutesOf(out')) \o MeaningOf(p)
    BY <1>1, <1>2, <1>4, <1>5, Zenon
  <1>7. CASE p = <<>>
    <2>1. bytes' = <<>> /\ MeaningOf(p) = <<>>
      BY <1>1, <1>7, PacketIsItsPieces, Zenon
    <2>2. played' = posted' \o RoutesOf(out')
      BY <1>2, <1>3, <1>4, <1>6, <2>1, Zenon
    <2>3. QED
      BY <2>1, <2>2, Zenon DEF KeyFlow, RoutesOf
  <1>8. CASE p # <<>>
    <2>1. /\ 1 \in 1 .. Len(p) /\ Rest(p, 1) = p /\ bytes' # <<>>
          /\ StatusAt(p, 1) = 0 /\ Cardinality(MessagesIn(p, 0)) = 0
      BY <1>1, <1>8, PacketIsItsPieces, Zenon
    <2>2. Len(out') = 0 /\ 1 - 1 = 0 /\ 0 <= 0
      BY <1>2
    <2>3. Len(out') <= Cardinality(MessagesIn(p, 1 - 1))
      BY <2>1, <2>2, Zenon
    <2>4. Reading(p, 1)'
      BY <1>1, <1>2, <1>6, <2>1, <2>3, Zenon DEF Reading, RoutesOf
    <2>5. QED
      BY <2>1, <2>4, Zenon DEF KeyFlow
  <1>9. QED
    BY <1>7, <1>8

LEMMA RouteFlows ==
  ASSUME KeyTypes, KeyFlow, Route
  PROVE  KeyFlow'
  <1> DEFINE r == Routed(Head(out))
             o == RoutesOf(Tail(out))
             E == Seq(ControlEvents)
  <1>1. /\ bytes = <<>> /\ bytes' = <<>> /\ out # <<>> /\ out' = Tail(out)
        /\ posted' = posted \o r /\ played' = played
    BY Zenon DEF Route
  <1>2. out \in Seq(Messages) /\ posted \in E
    BY Zenon DEF KeyTypes
  <1>3. r \in E
    <2>1. Head(out) \in Messages
      BY <1>1, <1>2
    <2>2. QED
      BY <2>1, RoutedType, Zenon
  <1>4. o \in E /\ RoutesOf(out) = r \o o
    BY <1>1, <1>2, RoutesOfMessages, Zenon
  <1>5. played = posted \o (r \o o)
    BY <1>1, <1>4, Zenon DEF KeyFlow
  <1>6. posted \o (r \o o) = (posted \o r) \o o
    <2> HIDE DEF r, o
    <2>1. QED
      BY <1>2, <1>3, <1>4
  <1>7. played' = posted' \o RoutesOf(out')
    BY <1>1, <1>5, <1>6, Zenon
  <1>8. QED
    BY <1>1, <1>7, Zenon DEF KeyFlow, RoutesOf

LEMMA KeyFlowHolds ==
  ASSUME FewMessages, KeyTypes, KeyFlow, [KeyNext]_keyVars
  PROVE  KeyFlow'
  <1>1. CASE Receive
    BY <1>1, ReceiveFlows, Zenon
  <1>2. CASE Route
    BY <1>2, RouteFlows, Zenon
  <1>3. CASE Parse
    <2>1. bytes # <<>>
      BY <1>3, Zenon DEF Parse, Realtime, SysEx, SystemCommon, StatusByte, StrayData,
           OneDataByte, TwoDataBytes, Incomplete, At
    <2>2. PICK p \in Packets : \E i \in 1 .. Len(p) : Reading(p, i)
      BY <2>1, Zenon DEF KeyFlow
    <2>3. PICK i \in 1 .. Len(p) : Reading(p, i)
      BY <2>2, Zenon
    <2>4. CASE Realtime \/ SystemCommon \/ StatusByte \/ StrayData
      BY <2>3, <2>4, AsideByte, Zenon
    <2>5. CASE SysEx
      BY <2>3, <2>5, SysExFlows, Zenon
    <2>6. CASE OneDataByte
      BY <2>3, <2>6, OneByteFlows, Zenon
    <2>7. CASE TwoDataBytes
      BY <2>3, <2>7, TwoByteFlows, Zenon
    <2>8. CASE Incomplete
      BY <2>3, <2>8, BrokenOffFlows, Zenon
    <2>9. QED
      BY <1>3, <2>4, <2>5, <2>6, <2>7, <2>8, Zenon DEF Parse
  <1>4. CASE Sound \/ UNCHANGED keyVars
    <2>1. UNCHANGED <<bytes, status, out, posted, played>>
      BY <1>4, Zenon DEF Sound, keyVars
    <2>2. QED
      BY <2>1, Zenon DEF KeyFlow, Reading, RoutesOf
  <1>5. QED
    BY <1>1, <1>2, <1>3, <1>4, Zenon DEF KeyNext
LEMMA EmittedType ==
  ASSUME out \in Seq(Messages), NEW m \in Messages
  PROVE  Emitted(m) \in Seq(Messages)
  BY DEF Emitted

LEMMA PartsOfSeq ==
  ASSUME NEW S, NEW s \in Seq(S), s # <<>>
  PROVE  /\ Tail(s) \in Seq(S) /\ s[1] \in S /\ Head(s) = s[1] /\ <<>> \in Seq(S)
         /\ Len(s) > 1 => s[2] \in S
         /\ \A k \in Nat : SubSeq(s, k + 1, Len(s)) \in Seq(S)
  <1>1. Len(s) \in Nat \ {0} /\ \A j \in 1 .. Len(s) : s[j] \in S
    OBVIOUS
  <1>2. \A k \in Nat : SubSeq(s, k + 1, Len(s)) \in Seq(S)
    <2> SUFFICES ASSUME NEW k \in Nat PROVE SubSeq(s, k + 1, Len(s)) \in Seq(S)
      OBVIOUS
    <2>1. \A j \in k + 1 .. Len(s) : s[j] \in S
      BY <1>1
    <2>2. QED
      BY <1>1, <2>1, SubSeqProperties
  <1>3. QED
    BY <1>1, <1>2

LEMMA ParseTypes ==
  ASSUME KeyTypes, Parse
  PROVE  KeyTypes'
  <1>1. /\ bytes \in Seq(0 .. 255) /\ bytes # <<>> /\ status \in {0} \cup 128 .. 239
        /\ out \in Seq(Messages) /\ played' = played /\ posted' = posted
    BY Zenon DEF KeyTypes, Parse, Realtime, SysEx, SystemCommon, StatusByte, StrayData,
         OneDataByte, TwoDataBytes, Incomplete, At
  <1>2. /\ Tail(bytes) \in Seq(0 .. 255) /\ Head(bytes) \in 0 .. 255
        /\ <<>> \in Seq(0 .. 255) /\ Head(bytes) = bytes[1]
        /\ Len(bytes) > 1 => bytes[2] \in 0 .. 255
    <2> DEFINE B == 0 .. 255
    <2> HIDE DEF B
    <2>1. bytes \in Seq(B) /\ bytes # <<>>
      BY <1>1 DEF B
    <2>2. /\ Tail(bytes) \in Seq(B) /\ Head(bytes) \in B /\ <<>> \in Seq(B)
          /\ Head(bytes) = bytes[1] /\ (Len(bytes) > 1 => bytes[2] \in B)
      BY <2>1, PartsOfSeq
    <2>3. QED
      BY <2>2 DEF B
  <1>3. \A k \in Nat : SubSeq(bytes, k + 1, Len(bytes)) \in Seq(0 .. 255)
    BY <1>1, PartsOfSeq, Zenon
  <1>4. CASE Realtime \/ SystemCommon \/ StatusByte \/ StrayData
    <2>1. /\ bytes' = Tail(bytes) /\ out' = out
          /\ status' \in {status, 0} \/ (status' = Head(bytes) /\ Head(bytes) \in 128 .. 239)
      BY <1>4, Zenon DEF Realtime, SystemCommon, StatusByte, StrayData, At
    <2>2. status' \in {0} \cup 128 .. 239
      <3>1. status' \in {status, 0} \/ status' \in 128 .. 239
        BY <2>1, Zenon
      <3>2. QED
        BY <1>1, <3>1
    <2>3. QED
      BY <1>1, <1>2, <2>1, <2>2, Zenon DEF KeyTypes
  <1>5. CASE SysEx
    <2> DEFINE end == SelectInSeq(bytes, LAMBDA b : b = 247)
    <2>1. /\ bytes' = (IF end = 0 THEN <<>> ELSE SubSeq(bytes, end + 1, Len(bytes)))
          /\ out' = out /\ status' = 0
      BY <1>5, Zenon DEF SysEx
    <2>2. end \in Nat
      <3> DEFINE I == {k \in 1 .. Len(bytes) : bytes[k] = 247}
      <3>1. end = IF I # {} THEN Min(I) ELSE 0
        BY DEF SelectInSeq
      <3>2. I \in SUBSET Nat
        OBVIOUS
      <3> HIDE DEF end, I
      <3>3. I # {} => Min(I) \in I
        <4>1. ASSUME I # {} PROVE \E x \in I : \A y \in I : x <= y
          BY <3>2, <4>1, MinIsLeast
        <4>2. QED
          BY <4>1 DEF Min
      <3>4. QED
        BY <3>1, <3>2, <3>3
    <2>3. bytes' \in Seq(0 .. 255)
      <3> HIDE DEF end
      <3>1. QED
        BY <1>2, <1>3, <2>1, <2>2
    <2>4. status' \in {0} \cup 128 .. 239
      BY <2>1
    <2>5. QED
      BY <1>1, <2>1, <2>3, <2>4, Zenon DEF KeyTypes
  <1>6. CASE OneDataByte
    <2> DEFINE m == [type |-> "Other", d1 |-> Head(bytes), d2 |-> 0]
    <2>1. bytes' = Tail(bytes) /\ out' = Emitted(m) /\ status' = status /\ Head(bytes) \in 0 .. 127
      BY <1>6, Zenon DEF OneDataByte, At
    <2>2. m \in Messages
      BY <2>1 DEF Messages
    <2> HIDE DEF m
    <2>3. Emitted(m) \in Seq(Messages)
      BY <1>1, <2>2, EmittedType, Zenon
    <2>4. QED
      BY <1>1, <1>2, <2>1, <2>3, Zenon DEF KeyTypes
  <1>7. CASE TwoDataBytes
    <2> DEFINE m == [type |-> TypeOf(bytes[2]), d1 |-> bytes[1], d2 |-> bytes[2]]
    <2>1. /\ bytes' = SubSeq(bytes, 3, Len(bytes)) /\ out' = Emitted(m) /\ status' = status
          /\ Head(bytes) \in 0 .. 127 /\ Len(bytes) > 1
      BY <1>7, Zenon DEF TwoDataBytes, At
    <2>2. bytes[1] \in 0 .. 127 /\ bytes[2] \in 0 .. 255
      <3>1. Len(bytes) > 1 => bytes[2] \in 0 .. 255
        BY <1>2, Zenon
      <3>2. bytes[2] \in 0 .. 255
        BY <2>1, <3>1
      <3>3. Head(bytes) = bytes[1]
        BY <1>2, Zenon
      <3>4. bytes[1] \in 0 .. 127
        BY <2>1, <3>3
      <3>5. QED
        BY <3>2, <3>4, Zenon
    <2>3. TypeOf(bytes[2]) \in {"NoteOn", "NoteOff", "ControlChange", "Other"}
      BY DEF TypeOf
    <2>4. m \in Messages
      BY <2>2, <2>3 DEF Messages
    <2> HIDE DEF m
    <2>5. Emitted(m) \in Seq(Messages)
      BY <1>1, <2>4, EmittedType, Zenon
    <2>6. SubSeq(bytes, 3, Len(bytes)) \in Seq(0 .. 255)
      <3>1. 2 \in Nat /\ 2 + 1 = 3
        OBVIOUS
      <3>2. QED
        BY <1>3, <3>1
    <2>7. QED
      BY <1>1, <2>1, <2>5, <2>6, Zenon DEF KeyTypes
  <1>8. CASE Incomplete
    <2>1. bytes' = <<>> /\ out' = out /\ status' = status
      BY <1>8, Zenon DEF Incomplete
    <2>2. QED
      BY <1>1, <1>2, <2>1, Zenon DEF KeyTypes
  <1>9. QED
    BY <1>4, <1>5, <1>6, <1>7, <1>8, Zenon DEF Parse

LEMMA KeyTypesHold ==
  ASSUME KeyTypes, [KeyNext]_keyVars
  PROVE  KeyTypes'
  <1> DEFINE E == Seq(ControlEvents)
  <1>1. CASE Receive
    <2>1. PICK p \in Packets : bytes' = BytesOf(p) /\ played' = played \o MeaningOf(p)
      BY <1>1, Zenon DEF Receive
    <2>2. out' = out /\ posted' = posted /\ status' = 0
      BY <1>1, Zenon DEF Receive
    <2>3. BytesOf(p) \in Seq(0 .. 255) /\ MeaningOf(p) \in E
      BY PacketIsItsPieces, Zenon
    <2>4. played' \in E
      <3>1. played \in E
        BY Zenon DEF KeyTypes
      <3>2. QED
        BY <2>1, <2>3, <3>1, ConcatProperties, Zenon
    <2>5. status' \in {0} \cup 128 .. 239
      BY <2>2
    <2>6. QED
      BY <2>1, <2>2, <2>3, <2>4, <2>5, Zenon DEF KeyTypes
  <1>2. CASE Route
    <2>1. /\ out # <<>> /\ out' = Tail(out) /\ posted' = posted \o Routed(Head(out))
          /\ UNCHANGED <<bytes, status, played>>
      BY <1>2, Zenon DEF Route
    <2>2. out \in Seq(Messages) /\ posted \in E
      BY Zenon DEF KeyTypes
    <2>3. Tail(out) \in Seq(Messages) /\ Head(out) \in Messages
      BY <2>1, <2>2
    <2>4. Routed(Head(out)) \in E
      BY <2>3, RoutedType, Zenon
    <2>5. posted' \in E
      BY <2>1, <2>2, <2>4, ConcatProperties, Zenon
    <2>6. QED
      BY <2>1, <2>3, <2>5, Zenon DEF KeyTypes
  <1>3. CASE Parse
    BY <1>3, ParseTypes, Zenon
  <1>4. CASE Sound \/ UNCHANGED keyVars
    <2>1. UNCHANGED <<bytes, status, out, posted, played>>
      BY <1>4, Zenon DEF Sound, keyVars
    <2>2. QED
      BY <2>1, Zenon DEF KeyTypes
  <1>5. QED
    BY <1>1, <1>2, <1>3, <1>4, Zenon DEF KeyNext

LEMMA KeyTypesInit ==
  ASSUME KeyInit
  PROVE  KeyTypes /\ KeyFlow /\ AccompanimentFitsChord
  <1>1. KeyTypes
    BY DEF KeyInit, KeyTypes
  <1>2. KeyFlow
    <2>1. bytes = <<>> /\ out = <<>> /\ posted = <<>> /\ played = <<>>
      BY DEF KeyInit
    <2>2. RoutesOf(<<>>) = <<>>
      BY NoPiece
    <2>3. played = posted \o RoutesOf(out)
      BY <2>1, <2>2
    <2>4. QED
      BY <2>1, <2>3, Zenon DEF KeyFlow
  <1>3. AccompanimentFitsChord
    BY Zenon DEF KeyInit, AccompanimentFitsChord
  <1>4. QED
    BY <1>1, <1>2, <1>3

(***************************************************************************)
(* What reaches the adapter is what was played (midi_input_parser.cpp:5-61, *)
(* midi_input_router.h:27-57), for packets of no more messages than the     *)
(* caller's array holds: the parser drops those beyond it.                  *)
(***************************************************************************)
THEOREM KeysArriveAsPlayed ==
  FewMessages => (KeySpec => []EventsAreTheMessages)
  <1> SUFFICES ASSUME FewMessages PROVE KeySpec => []EventsAreTheMessages
    OBVIOUS
  <1> DEFINE IInv == KeyTypes /\ KeyFlow
  <1>1. KeyInit => IInv
    BY KeyTypesInit, Zenon
  <1>2. IInv /\ [KeyNext]_keyVars => IInv'
    BY KeyTypesHold, KeyFlowHolds, Zenon
  <1>3. IInv => EventsAreTheMessages
    <2> SUFFICES ASSUME KeyTypes, KeyFlow, bytes = <<>>, out = <<>> PROVE posted = played
      BY Zenon DEF EventsAreTheMessages
    <2>1. played = posted \o RoutesOf(<<>>)
      BY Zenon DEF KeyFlow
    <2>2. RoutesOf(<<>>) = <<>>
      BY NoPiece, Zenon
    <2>3. posted \o <<>> = posted
      BY ConcatEmptySeq, Zenon DEF KeyTypes
    <2>4. QED
      BY <2>1, <2>2, <2>3, Zenon
  <1> HIDE DEF IInv
  <1>4. QED
    BY <1>1, <1>2, <1>3, PTL DEF KeySpec

(***************************************************************************)
(* Whatever keys are held, an accompaniment note fits the chord detected    *)
(* (engine/music/ntt.cpp:86-134, engine/articulation/renderer.cpp:12-50).   *)
(***************************************************************************)
THEOREM AccompanimentAlwaysFits ==
  KeySpec => []AccompanimentFitsChord
  <1> DEFINE IInv == KeyTypes /\ AccompanimentFitsChord
  <1>1. KeyInit => IInv
    BY KeyTypesInit, Zenon
  <1>2. IInv /\ [KeyNext]_keyVars => IInv'
    <2> SUFFICES ASSUME KeyTypes, AccompanimentFitsChord, [KeyNext]_keyVars
                 PROVE  AccompanimentFitsChord'
      BY KeyTypesHold, Zenon
    <2>1. CASE Receive
      <3>1. heard' = Silence
        BY <2>1, Zenon DEF Receive
      <3>2. QED
        BY <3>1, Zenon DEF AccompanimentFitsChord, Silence
    <2>2. CASE Sound
      BY <2>2, SoundFits, Zenon
    <2>3. CASE Parse \/ Route \/ UNCHANGED keyVars
      <3>1. heard' = heard
        BY <2>3, Zenon DEF Parse, Realtime, SysEx, SystemCommon, StatusByte, StrayData,
             OneDataByte, TwoDataBytes, Incomplete, At, Route, keyVars
      <3>2. QED
        BY <3>1, ZenonT(60) DEF AccompanimentFitsChord
    <2>4. QED
      BY <2>1, <2>2, <2>3, Zenon DEF KeyNext
  <1>3. QED
    BY <1>1, <1>2, PTL DEF KeySpec
=============================================================================
