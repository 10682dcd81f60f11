---------------------------- MODULE SessionStore -----------------------------
(***************************************************************************)
(* What survives the program: SnapshotManager (src/session/                *)
(* snapshot_manager.cpp) captures and restores the state of an             *)
(* EngineSession, SessionPersistence (src/session/session_persistence.cpp) *)
(* writes it, with what the app adds, to a file and reads it back.         *)
(*                                                                         *)
(* A file is the sequence of its fields, a number the sequence of its      *)
(* digits, and a name a sequence of quotes, backslashes and of the words   *)
(* between them: a write that is cut short ends in a number that has lost  *)
(* digits, or in a field without a value.  The reader looks for a key in   *)
(* quotes anywhere in the file, so a name may be taken for one.            *)
(***************************************************************************)
EXTENDS Integers, Sequences, SequencesExt, RealtimeStateMachine

CONSTANTS
  Settings,        \* what the app's setters are called with
  StyleTempo,      \* tempo_bpm of the style, set by every start
  Apps,            \* what the app adds: [scan, groove, layout, theme]
  Cuts,            \* how many characters' worth of a file a broken write leaves
  Styles,          \* the names a style may have
  Words            \* what names are made of, other than quotes and backslashes

Quote == "\""

Backslash == "\\"

NoText == <<>>

\* The types of the setters' arguments and of the fields, and the themes there
\* are (kThemeCount, src/ui/theme/theme_manager.h): the last number of a file,
\* which isValid() does not look at, has one digit.
ASSUME StoreAssumption ==
  /\ Settings \subseteq [variation : 0 .. 255, tempo : Nat, split : 0 .. 255, bass : BOOLEAN]
  /\ StyleTempo \in Nat
  /\ Apps \subseteq [scan : 0 .. 255, groove : 0 .. 255, layout : 0 .. 255, theme : 0 .. 2]
  /\ Cuts \subseteq [fields : Nat, digits : Nat]
  /\ Quote \notin Words /\ Backslash \notin Words

VARIABLES
  up,              \* the program runs
  engine,          \* [variation, tempo, split, bass, sync] of the session
  file,            \* the file's fields
  given,           \* history: the session last given to save()
  fresh            \* history: the engine is as the launch left it

storeVars == <<up, engine, file, given, fresh>>

Booted == [variation |-> 0, tempo |-> 120, split |-> 60, bass |-> FALSE, sync |-> "Idle"]

Defaults == [version |-> 1, style |-> NoText, variation |-> 0, tempo |-> 120, split |-> 60, bass |-> FALSE,
             armed |-> FALSE, scan |-> 0, groove |-> 0, output |-> NoText,
             layout |-> 0, theme |-> 0]

Refused == [Defaults EXCEPT !.version = 0]
-----------------------------------------------------------------------------
(***************************************************************************)
(* isValid() of a snapshot and of the file's superset of it: the version   *)
(* and the ranges; the theme may be any byte.                              *)
(***************************************************************************)
SnapshotValid(s) ==
  /\ s.version = 1
  /\ s.variation \in 0 .. 3
  /\ s.tempo \in 20 .. 400
  /\ s.split \in 0 .. 127
  /\ s.scan \in 0 .. 3

Valid(s) ==
  /\ SnapshotValid(s)
  /\ s.groove \in 0 .. 4
  /\ s.layout \in 0 .. 1

(***************************************************************************)
(* serialize(): one field after the other; esc() puts a backslash before   *)
(* the quotes and the backslashes of a name.                               *)
(***************************************************************************)
Digits(n) ==
  IF n < 10 THEN <<n>>
  ELSE IF n < 100 THEN <<n \div 10, n % 10>>
  ELSE <<n \div 100, (n \div 10) % 10, n % 10>>

Bit(b) == IF b THEN 1 ELSE 0

EscOne(c) == IF c \in {Quote, Backslash} THEN <<Backslash, c>> ELSE <<c>>

Esc(name) == FlattenSeq([i \in DOMAIN name |-> EscOne(name[i])])

Number(key, n) == [key |-> key, digits |-> Digits(n), text |-> NoText]

String(key, name) == [key |-> key, digits |-> <<>>, text |-> Esc(name)]

Serialize(s) ==
  << Number("version", s.version), String("style_name", s.style),
     Number("variation", s.variation), Number("tempo_bpm", s.tempo),
     Number("split_point", s.split), Number("manual_bass", Bit(s.bass)),
     Number("sync_armed", Bit(s.armed)), Number("chord_scan_mode", s.scan),
     Number("groove_profile", s.groove), String("midi_output_name", s.output),
     Number("ui_layout", s.layout), Number("theme", s.theme) >>

(***************************************************************************)
(* find() of a key in quotes: the first field that has the key, or a name  *)
(* that ends in it behind a quote.  The value is taken after the next      *)
(* colon: of the field itself, or of the one behind the name.              *)
(***************************************************************************)
Spells(name, key) ==
  LET n == Len(name)
  IN  n > 0 /\ name[n] = key /\ (n = 1 \/ name[n - 1] = Quote)

Hits(text, key) == {i \in DOMAIN text : text[i].key = key \/ Spells(text[i].text, key)}

\* The field with the value, or 0.
FieldOf(text, key) ==
  LET hits == Hits(text, key)
      i == Min(hits)
      v == IF text[i].key = key THEN i ELSE i + 1
  IN  IF hits = {} \/ v \notin DOMAIN text THEN 0 ELSE v

(***************************************************************************)
(* readInt(): the digits there, if there are any.  The number is cast to   *)
(* the width of its field.                                                 *)
(***************************************************************************)
DigitsOf(text, key) ==
  LET v == FieldOf(text, key)
  IN  IF v = 0 THEN <<>> ELSE text[v].digits

HasInt(text, key) == DigitsOf(text, key) # <<>>

\* No number of a file has more than three digits.
Value(d) ==
  IF d = <<>> THEN 0
  ELSE IF Len(d) = 1 THEN d[1]
  ELSE IF Len(d) = 2 THEN 10 * d[1] + d[2]
  ELSE 100 * d[1] + 10 * d[2] + d[3]

ReadInt(text, key) == Value(DigitsOf(text, key))

ReadByte(text, key) == ReadInt(text, key) % 256

(***************************************************************************)
(* readStr(): what is between the next two quotes.  What esc() wrote is    *)
(* not undone, and a quote ends the name whatever is before it.  Behind a  *)
(* number the next quotes are those of the next field's key.               *)
(***************************************************************************)
StringKeys == {"style_name", "midi_output_name"}

UpToQuote(name) ==
  IF \E i \in DOMAIN name : name[i] = Quote
  THEN SubSeq(name, 1, (CHOOSE i \in DOMAIN name :
                          name[i] = Quote /\ \A j \in DOMAIN name : j < i => name[j] # Quote) - 1)
  ELSE name

ReadStr(text, key) ==
  LET v == FieldOf(text, key)
  IN  IF v = 0 THEN NoText
      ELSE IF text[v].key \in StringKeys THEN UpToQuote(text[v].text)
      ELSE IF v + 1 \in DOMAIN text THEN <<text[v + 1].key>>
      ELSE NoText

SnapshotKeys ==
  {"version", "variation", "tempo_bpm", "split_point", "manual_bass", "sync_armed",
   "chord_scan_mode"}

\* Mutated: the fields a snapshot does not have may be missing.
OnlySnapshotKeys == SnapshotKeys

Required == SnapshotKeys \cup {"groove_profile", "ui_layout", "theme"}

Parsed(text) ==
  [version |-> ReadInt(text, "version") % 65536,
   style |-> ReadStr(text, "style_name"),
   variation |-> ReadByte(text, "variation"),
   tempo |-> ReadInt(text, "tempo_bpm"),
   split |-> ReadByte(text, "split_point"),
   bass |-> ReadByte(text, "manual_bass") # 0,
   armed |-> ReadByte(text, "sync_armed") # 0,
   scan |-> ReadByte(text, "chord_scan_mode"),
   groove |-> ReadByte(text, "groove_profile"),
   output |-> ReadStr(text, "midi_output_name"),
   layout |-> ReadByte(text, "ui_layout"),
   theme |-> ReadByte(text, "theme")]

Deserialize(text) ==
  LET s == Parsed(text)
  IN  IF (\A key \in Required : HasInt(text, key)) /\ Valid(s) THEN s ELSE Refused

(***************************************************************************)
(* What is left of a file of which only part was written: the fields       *)
(* before the cut, and of the next one its first digits.                   *)
(***************************************************************************)
CutShort(text, cut) ==
  Append(SubSeq(text, 1, cut.fields),
         [text[cut.fields + 1] EXCEPT !.digits = SubSeq(@, 1, cut.digits), !.text = NoText])

Torn(text) ==
  {<<>>} \cup
  {CutShort(text, c) : c \in {d \in Cuts : /\ d.fields < Len(text)
                                          /\ d.digits <= Len(text[d.fields + 1].digits)}}
-----------------------------------------------------------------------------
(***************************************************************************)
(* capture() and restore().  An armed snapshot arms; one that is not armed *)
(* does not disarm.                                                        *)
(***************************************************************************)
Captured(e) ==
  [variation |-> e.variation, tempo |-> e.tempo, split |-> e.split, bass |-> e.bass,
   armed |-> e.sync = "Armed"]

CoreOf(s) ==
  [variation |-> s.variation, tempo |-> s.tempo, split |-> s.split, bass |-> s.bass,
   armed |-> s.armed]

Session(core, app, style, name) ==
  [version |-> 1, style |-> style, variation |-> core.variation, tempo |-> core.tempo,
   split |-> core.split, bass |-> core.bass, armed |-> core.armed, scan |-> app.scan,
   groove |-> app.groove, output |-> name, layout |-> app.layout, theme |-> app.theme]

\* Mutated: the variation waits for a bar line, as one the player asks for does.
RestoreQueued(s, e) ==
  [e EXCEPT !.tempo = s.tempo, !.split = s.split, !.bass = s.bass,
            !.sync = IF s.armed THEN After(@, "Arm") ELSE @]

Restore(s, e) ==
  IF ~ SnapshotValid(s) THEN e
  ELSE [e EXCEPT !.tempo = s.tempo, !.split = s.split, !.bass = s.bass,
                 !.variation = s.variation,
                 !.sync = IF s.armed THEN After(@, "Arm") ELSE @]
-----------------------------------------------------------------------------
StoreInit ==
  /\ up = TRUE
  /\ engine = Booted
  /\ file = <<>>
  /\ given = Refused
  /\ fresh = TRUE

(***************************************************************************)
(* The performer plays: what the snapshot covers changes.                  *)
(***************************************************************************)
Played(e) == up /\ engine' = e /\ fresh' = FALSE /\ UNCHANGED <<up, file, given>>

\* The setters of the clock, the variation manager and the split router.
Set ==
  \E x \in Settings :
    Played([engine EXCEPT !.variation = x.variation, !.tempo = x.tempo,
                          !.split = x.split, !.bass = x.bass])

Arm == Played([engine EXCEPT !.sync = After(@, "Arm")])

Start == Played([engine EXCEPT !.sync = After(@, "Start"), !.tempo = StyleTempo])

Stop == Played([engine EXCEPT !.sync = After(After(@, "Stop"), "Stopped")])

(***************************************************************************)
(* save(): an invalid session is refused before the file is opened.        *)
(* Opening the file empties it.  The write may fail, which is noticed only *)
(* if it fails before save() returns, or the program may end in it.        *)
(***************************************************************************)
Save(name) ==
  /\ up
  /\ \E app \in Apps, style \in Styles :
       LET s == Session(Captured(engine), app, style, name)
       IN  /\ Valid(s)
           /\ given' = s
           /\ \/ file' = Serialize(s) /\ up' = TRUE
              \/ file' \in Torn(Serialize(s)) /\ up' \in BOOLEAN
  /\ fresh' = FALSE
  /\ UNCHANGED engine

Quit == up /\ up' = FALSE /\ UNCHANGED <<engine, file, given, fresh>>

(***************************************************************************)
(* The next launch boots a session, loads the file and restores what it    *)
(* holds; a file that is refused leaves the defaults.                      *)
(***************************************************************************)
Launch ==
  /\ ~ up /\ up' = TRUE
  /\ engine' = Restore(Deserialize(file), Booted)
  /\ fresh' = TRUE
  /\ UNCHANGED <<file, given>>

StoreNext(name) ==
  \/ Set \/ Arm \/ Start \/ Stop
  \/ Save(name) \/ Quit
-----------------------------------------------------------------------------
(***************************************************************************)
(* What load() accepts is what save() was given, wherever a write was cut  *)
(* short: a corrupt or missing file yields false                           *)
(* (session_persistence.h:11-12).  A name comes back if it has no quote    *)
(* and no backslash; the other fields come back whatever the names are,    *)
(* but for a name that is taken for a key.                                 *)
(***************************************************************************)
Plain(name) == name \in Seq(Words)

TakenForKey(s) ==
  LET style == Esc(s.style)
      output == Esc(s.output)
  IN  \E key \in Required \cup StringKeys : Spells(style, key) \/ Spells(output, key)

ComesBack(s, read) ==
  /\ \A field \in DOMAIN s \ {"style", "output"} : read[field] = s[field]
  /\ Plain(s.style) => read.style = s.style
  /\ Plain(s.output) => read.output = s.output

FileIsWholeOrRefused ==
  LET read == Deserialize(file)
  IN  read = Refused \/ TakenForKey(given) \/ ComesBack(given, read)

\* Of every name and every session this does not hold.
NamesComeBack == Deserialize(file) \in {Refused, given}

(***************************************************************************)
(* After a launch the session is the one that was saved, or a fresh one    *)
(* when the file is refused: capture() gives back what restore() was       *)
(* given, but for a name that is taken for a key.                          *)
(***************************************************************************)
SessionComesBack ==
  up /\ fresh =>
    \/ TakenForKey(given)
    \/ Captured(engine) = IF Deserialize(file) = Refused THEN Captured(Booted) ELSE CoreOf(given)
=============================================================================
