--------------------------- MODULE SectionSequencer ---------------------------
(***************************************************************************)
(* SectionSequencer (src/engine/arranger/section_sequencer.{h,cpp}): which *)
(* section of the style plays, which one is queued, and when the queued    *)
(* one takes over.  The operations are actions on the sequencer's own      *)
(* variables; StylePlayer conjoins them into its own actions.              *)
(*                                                                         *)
(* A section table is a function from 0 .. n-1 to section definitions, as  *)
(* the code's array; EmptyTable is the table of no section.                *)
(***************************************************************************)
EXTENDS Integers

CONSTANTS
  SectionTables,   \* the section tables of the styles that may be loaded
  QueueArgs        \* the integers a caller may pass to queueSection

Kinds == {"intro", "main", "fill", "break", "ending"}

States == {"Stopped", "PlayingIntro", "PlayingMain", "PlayingFill",
           "PlayingEnding", "Panic"}

None == -1

EmptyTable == [i \in {} |-> None]

(***************************************************************************)
(* A loaded style has at least one section, numbered from 0.               *)
(***************************************************************************)
ASSUME TablesAssumption ==
  \A t \in SectionTables :
    /\ 0 \in DOMAIN t
    /\ \A i \in DOMAIN t : i \in Nat /\ 0 .. i \subseteq DOMAIN t /\ t[i].kind \in Kinds

ASSUME QueueArgsAssumption == QueueArgs \subseteq Int

VARIABLES
  sections,        \* sections_ and section_count_
  state,           \* state_
  current,         \* current_section_
  queued,          \* queued_section_
  lastBarStart     \* last_bar_start_

seqVars == <<sections, state, current, queued, lastBarStart>>

SeqInit ==
  /\ sections = EmptyTable
  /\ state = "Stopped"
  /\ current = None
  /\ queued = None
  /\ lastBarStart = 0

SetSections(table) ==
  /\ sections' = table
  /\ UNCHANGED <<state, current, queued, lastBarStart>>

(***************************************************************************)
(* queueSection stores the index unchecked; the four queue...() operations *)
(* store the first section of their kind, and do nothing without one.      *)
(***************************************************************************)
QueueSection(index) ==
  /\ queued' = index
  /\ UNCHANGED <<sections, state, current, lastBarStart>>

IndicesOf(kind) == {i \in DOMAIN sections : sections[i].kind = kind}

QueueKind(kind) ==
  \/ IndicesOf(kind) = {} /\ UNCHANGED seqVars
  \/ \E i \in IndicesOf(kind) : /\ \A j \in IndicesOf(kind) : i <= j
                               /\ QueueSection(i)

QueueIntro  == QueueKind("intro")
QueueFill   == QueueKind("fill")
QueueBreak  == QueueKind("break")
QueueEnding == QueueKind("ending")

(***************************************************************************)
(* advance(): the first section starts at once, any later one at a bar     *)
(* line the sequencer has not seen yet.  A Break leaves the state as it    *)
(* was: activateSection has no branch for it.                              *)
(***************************************************************************)
StateOf(kind) ==
  CASE kind = "intro"  -> "PlayingIntro"
    [] kind = "main"   -> "PlayingMain"
    [] kind = "fill"   -> "PlayingFill"
    [] kind = "ending" -> "PlayingEnding"
    [] OTHER           -> state

QueuedIsValid == queued \in DOMAIN sections

\* Mutated: only a tick on the bar line itself counts.
CrossesBarExactly(tick, barSize) == tick > lastBarStart /\ tick % barSize = 0

CrossesBar(tick, barSize) == tick \div barSize > lastBarStart \div barSize

Advancing(barSize) == sections # EmptyTable /\ barSize > 0

Switches(tick, barSize) ==
  /\ Advancing(barSize)
  /\ QueuedIsValid
  /\ current < 0 \/ CrossesBar(tick, barSize)

ActivateQueued ==
  /\ current' = queued
  /\ queued' = None
  /\ state' = StateOf(sections[queued].kind)

Advance(tick, barSize) ==
  /\ IF Switches(tick, barSize) THEN ActivateQueued
                                ELSE UNCHANGED <<current, queued, state>>
  /\ lastBarStart' =
       IF \/ Switches(tick, barSize)
          \/ Advancing(barSize) /\ CrossesBar(tick, barSize)
       THEN (tick \div barSize) * barSize
       ELSE lastBarStart
  /\ UNCHANGED sections

SequencerPanic ==
  /\ state' = "Panic"
  /\ current' = None
  /\ queued' = None
  /\ UNCHANGED <<sections, lastBarStart>>

SeqTypeOK ==
  /\ sections \in SectionTables \cup {EmptyTable}
  /\ state \in States
  /\ current \in Int
  /\ queued \in Int
  /\ lastBarStart \in Nat
=============================================================================
