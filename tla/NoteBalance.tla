----------------------------- MODULE NoteBalance -----------------------------
(***************************************************************************)
(* NoteBalance (src/engine/midi/note_balance.{h,cpp}): the repository's    *)
(* own observer of the delivered event stream, which it uses to diagnose   *)
(* stuck notes and orphan note-offs.                                       *)
(***************************************************************************)
EXTENDS MidiScheduler

VARIABLES
  balance,         \* active_: outstanding note-ons of each note
  orphaned         \* orphan_off_ > 0: a note-off came with no note-on before

balanceVars == <<balance, orphaned>>

BalanceInit == balance = [n \in Notes |-> 0] /\ orphaned = FALSE

(***************************************************************************)
(* observe(): a channel's all-sound-off clears its notes, a note-on counts *)
(* up, a note-off counts down or is an orphan.                             *)
(***************************************************************************)
CountAfter(ev, n) ==
  IF ~Addresses(ev, n) THEN balance[n]
  ELSE CASE ev.kind = "on"  -> balance[n] + 1
         [] ev.kind = "off" -> IF balance[n] > 0 THEN balance[n] - 1 ELSE 0
         [] ev.kind = "cc"  -> 0

Observe(ev) ==
  /\ balance' = [n \in Notes |-> CountAfter(ev, n)]
  /\ orphaned' = (orphaned \/ (ev.kind = "off" /\ balance[ev.key] = 0))

BalanceTypeOK == balance \in [Notes -> Nat] /\ orphaned \in BOOLEAN
=============================================================================
