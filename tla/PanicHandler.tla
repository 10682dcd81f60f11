----------------------------- MODULE PanicHandler -----------------------------
(***************************************************************************)
(* PanicHandler (src/engine/midi/panic.{h,cpp}): the bit set of the notes  *)
(* the engine believes are sounding, and the count kept beside it.  The    *)
(* loops that send the note-offs and the all-sound-offs are StylePlayer's  *)
(* steps, one event each.                                                  *)
(***************************************************************************)
EXTENDS Integers, FiniteSets

VARIABLES
  active,          \* channel_notes_low_ / channel_notes_high_
  noteCount        \* active_note_count_

panicVars == <<active, noteCount>>

HandlerInit == active = {} /\ noteCount = 0

(***************************************************************************)
(* noteOn() counts even a note whose bit is already set; noteOff() counts  *)
(* only a bit it clears.                                                   *)
(***************************************************************************)
MarkOn(n) ==
  /\ active' = active \cup {n}
  /\ noteCount' = noteCount + 1

\* Mutated: the bit is not cleared.
MarkOffKeepsBit(n) ==
  /\ UNCHANGED active
  /\ noteCount' = IF n \in active THEN noteCount - 1 ELSE noteCount

MarkOff(n) ==
  /\ active' = active \ {n}
  /\ noteCount' = IF n \in active THEN noteCount - 1 ELSE noteCount

(***************************************************************************)
(* flushActiveNotes() takes the bits one at a time and zeroes the count at *)
(* the end; panic() zeroes both.                                           *)
(***************************************************************************)
TakeBit(n) == active' = active \ {n} /\ UNCHANGED noteCount

ResetCount == noteCount' = 0 /\ UNCHANGED active

ClearBits == active' = {} /\ noteCount' = 0
=============================================================================
