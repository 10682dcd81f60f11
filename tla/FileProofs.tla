------------------------------ MODULE FileProofs ------------------------------
(***************************************************************************)
(* Theorems about what comes back from a file.  DesktopSession, for any    *)
(* device lists, settings, themes and places at which a write may break    *)
(* off: the output manager's state is the output's, and what a launch      *)
(* finds in the file is the session that was saved, but for some names, or *)
(* nothing.  UasfFile, for any style that fits the format, any limits of   *)
(* the format and any place at which the file breaks off: the reader gives *)
(* the style's sections, tracks and events back or refuses the file.       *)
(***************************************************************************)
EXTENDS DesktopSession, UasfFile, SequenceLemmas

(***************************************************************************)
(* Part 1: the output manager.  While devices_ is CoreMIDI's list, an      *)
(* index means the same to the manager and to the provider; a search that  *)
(* no selection has overtaken goes by the name that is live, and until one *)
(* is stored that has been overtaken, CoreMidiOut wants what is live.      *)
(***************************************************************************)
Told == upToDate /\ ~ undone

ManagerInvariant ==
  /\ present \in Lists
  /\ upToDate => devices = present
  /\ Told => wanted = live
  /\ Told /\ ~ overtaken /\ search # "idle" => sought = live
  /\ StatusIsTrue

LEMMA ResolveKeeps == present \in Lists /\ Resolve => ManagerInvariant'
  <1> SUFFICES ASSUME present \in Lists, Resolve
               PROVE  ManagerInvariant'
    OBVIOUS
  <1> USE DEF Resolve, ProviderSelect, Connection, ManagerInvariant, Told, StatusIsTrue,
              StatusShown, Has
  <1>0. search' # "idle" => overtaken'
    OBVIOUS
  <1>1. CASE selectedName = NoName
    BY <1>0, <1>1
  <1>2. CASE selectedName # NoName /\ ~ Has(present, selectedName)
    BY <1>0, <1>2 DEF IndexOfName
  <1>3. CASE selectedName # NoName /\ Has(present, selectedName)
    <2> DEFINE p == Place(present, selectedName)
    <2>1. p \in DOMAIN present /\ present[p] = selectedName
      BY <1>3 DEF Place
    <2>2. p \in Nat \ {0}
      BY <2>1, ListsAssumption
    <2>3. selectedIndex' = p - 1 /\ selectedIndex' # -1 /\ selectedIndex' + 1 = p
      BY <1>3, <2>2 DEF IndexOfName
    <2>4. live' = selectedName /\ wanted' = selectedName
      BY <2>1, <2>3
    <2>5. QED
      BY <1>0, <1>3, <2>1, <2>3, <2>4
  <1>4. QED
    BY <1>1, <1>2, <1>3

LEMMA SelectDeviceKeeps == ManagerInvariant /\ SelectDevice => ManagerInvariant'
  <1> SUFFICES ASSUME ManagerInvariant, SelectDevice
               PROVE  ManagerInvariant'
    OBVIOUS
  <1> USE DEF ManagerInvariant, Told
  <1>1. CASE ~ upToDate
    BY <1>1 DEF SelectDevice, StatusIsTrue
  <1>2. CASE upToDate
    <2>1. PICK i \in DOMAIN present :
            /\ selectedName' = present[i] /\ selectedIndex' = i - 1
            /\ ProviderSelect(i - 1)
            /\ status' = Connection
            /\ UNCHANGED <<present, devices, upToDate>>
      BY <1>2 DEF SelectDevice
    <2>2. i \in Nat \ {0} /\ present[i] # NoName
      BY ListsAssumption
    <2>3. (i - 1) + 1 = i /\ i - 1 # -1
      BY <2>2
    <2>4. live' = present[i] /\ wanted' = present[i]
      BY <2>1, <2>3 DEF ProviderSelect
    <2>5. status' = "Connected"
      BY <2>1, <2>2, <2>4 DEF Connection
    <2>6. search' # "idle" => overtaken'
      BY <2>1 DEF ProviderSelect
    <2>7. QED
      BY <1>2, <2>1, <2>4, <2>5, <2>6 DEF StatusIsTrue, StatusShown, Has
  <1>3. QED
    BY <1>1, <1>2

\* A search that no selection has overtaken finds the device that is live.
LEMMA ScanKeeps == ManagerInvariant /\ Scan => ManagerInvariant'
  <1> SUFFICES ASSUME ManagerInvariant, Scan
               PROVE  ManagerInvariant'
    OBVIOUS
  <1>1. /\ present' = present /\ live' = live /\ wanted' = wanted /\ overtaken' = overtaken
        /\ undone' = undone /\ devices' = devices /\ selectedName' = selectedName
        /\ selectedIndex' = selectedIndex /\ status' = status /\ upToDate' = upToDate
        /\ search # "idle" /\ sought' = IF Has(present, sought) THEN sought ELSE NoName
    BY DEF Scan, managerVars
  <1>2. StatusIsTrue'
    BY <1>1 DEF ManagerInvariant, StatusIsTrue, StatusShown, Has
  <1>3. ASSUME Told, ~ overtaken PROVE sought' = live
    <2>1. sought = live /\ StatusShown
      BY <1>1, <1>3 DEF ManagerInvariant, Told, StatusIsTrue
    <2>2. live = NoName \/ Has(present, live)
      BY <2>1 DEF StatusShown
    <2>3. QED
      BY <1>1, <2>1, <2>2
  <1>4. QED
    BY <1>1, <1>2, <1>3 DEF ManagerInvariant, Told

LEMMA StoreFoundKeeps == ManagerInvariant /\ StoreFound => ManagerInvariant'
  <1> SUFFICES ASSUME ManagerInvariant, StoreFound
               PROVE  ManagerInvariant'
    OBVIOUS
  <1>1. /\ present' = present /\ live' = sought /\ wanted' = wanted
        /\ devices' = devices /\ selectedName' = selectedName
        /\ status' = status /\ upToDate' = upToDate
        /\ search # "idle" /\ search' = "idle"
        /\ undone' = (undone \/ (overtaken /\ sought # live))
    BY DEF StoreFound, managerVars
  <1>2. CASE Told'
    <2>1. Told /\ (overtaken => sought = live)
      BY <1>1, <1>2 DEF Told
    <2>2. live' = live
      BY <1>1, <2>1 DEF ManagerInvariant
    <2>3. StatusIsTrue'
      BY <1>1, <2>1, <2>2 DEF ManagerInvariant, Told, StatusIsTrue, StatusShown, Has
    <2>4. QED
      BY <1>1, <2>1, <2>2, <2>3 DEF ManagerInvariant, Told
  <1>3. CASE ~ Told'
    BY <1>1, <1>3 DEF ManagerInvariant, Told, StatusIsTrue
  <1>4. QED
    BY <1>2, <1>3

LEMMA ManagerStep == ManagerInvariant /\ [Next]_<<storeVars, outVars>> => ManagerInvariant'
  <1> SUFFICES ASSUME ManagerInvariant, [Next]_<<storeVars, outVars>>
               PROVE  ManagerInvariant'
    OBVIOUS
  <1> USE DEF ManagerInvariant, Told
  <1>1. CASE UNCHANGED outVars
    BY <1>1 DEF outVars, searchVars, managerVars, StatusIsTrue, StatusShown, Has
  <1>2. CASE AppStart
    BY <1>2 DEF AppStart, StatusIsTrue, StatusShown
  <1>3. CASE Refresh
    BY <1>3, ResolveKeeps DEF Refresh
  <1>4. CASE SelectNone
    BY <1>4 DEF SelectNone, ProviderSelect, StatusIsTrue, StatusShown
  <1>5. CASE SelectDevice
    BY <1>5, SelectDeviceKeeps
  <1>6. CASE DevicesChange
    BY <1>6 DEF DevicesChange, StatusIsTrue
  <1>7. CASE LookUp
    BY <1>7 DEF LookUp, managerVars, StatusIsTrue, StatusShown, Has
  <1>8. CASE Scan
    BY <1>8, ScanKeeps
  <1>9. CASE StoreFound
    BY <1>9, StoreFoundKeeps
  <1>10. QED
    BY <1>1, <1>2, <1>3, <1>4, <1>5, <1>6, <1>7, <1>8, <1>9 DEF Next, OutNext

(***************************************************************************)
(* For any lists of named devices, in any order of selections, losses and  *)
(* returns, and any search at work meanwhile: once the manager             *)
(* (midi_output_manager.cpp) has been told of the last change, and unless  *)
(* a search has undone the last selection, the state it shows is the state *)
(* of the output.                                                          *)
(***************************************************************************)
THEOREM ManagerShowsOutput == Spec => []StatusIsTrue
  <1>1. Init => ManagerInvariant
    BY DEF Init, OutInit, ManagerInvariant, Told, StatusIsTrue
  <1>2. ManagerInvariant => StatusIsTrue
    BY DEF ManagerInvariant
  <1>3. QED
    BY <1>1, <1>2, ManagerStep, PTL DEF Spec

(***************************************************************************)
(* Part 2: the file.  A session that save() accepts, the fields it writes  *)
(* of it, and what becomes of its names.                                   *)
(***************************************************************************)
IsSession(s) ==
  /\ s = Session(CoreOf(s), [scan |-> s.scan, groove |-> s.groove, layout |-> s.layout,
                             theme |-> s.theme], s.style, s.output)
  /\ s.variation \in 0 .. 3 /\ s.tempo \in 20 .. 400 /\ s.split \in 0 .. 127
  /\ s.bass \in BOOLEAN /\ s.armed \in BOOLEAN
  /\ s.scan \in 0 .. 3 /\ s.groove \in 0 .. 4 /\ s.layout \in 0 .. 1
  /\ s.theme \in 0 .. 2

LEMMA DigitsGiveValue ==
  ASSUME NEW n \in 0 .. 999
  PROVE  Digits(n) # <<>> /\ Value(Digits(n)) = n
  <1>1. CASE n < 10
    BY <1>1 DEF Digits, Value
  <1>2. CASE n >= 10 /\ n < 100
    <2>1. 10 * (n \div 10) + (n % 10) = n
      BY <1>2
    <2>2. Digits(n) = <<n \div 10, n % 10>>
      BY <1>2 DEF Digits
    <2>3. QED
      BY <2>1, <2>2 DEF Value
  <1>3. CASE n >= 100
    <2>1. 100 * (n \div 100) + 10 * ((n \div 10) % 10) + (n % 10) = n
      BY <1>3
    <2>2. Digits(n) = <<n \div 100, (n \div 10) % 10, n % 10>>
      BY <1>3 DEF Digits
    <2>3. QED
      BY <2>1, <2>2 DEF Value
  <1>4. QED
    BY <1>1, <1>2, <1>3

\* No text of a file is taken for a key of the app.
NoneSpells(text, key) == \A j \in DOMAIN text : ~ Spells(text[j].text, key)

LEMMA FieldFound ==
  ASSUME NEW text, NEW key, NEW i \in DOMAIN text, i # 0, i \in Nat, text[i].key = key,
         \A j \in DOMAIN text : text[j].key = key => j = i,
         NoneSpells(text, key)
  PROVE  FieldOf(text, key) = i
  <1>1. Hits(text, key) = {i}
    BY DEF Hits, NoneSpells
  <1>2. Min({i}) = i
    BY DEF Min
  <1>3. QED
    BY <1>1, <1>2, Zenon DEF FieldOf

LEMMA FieldMissing ==
  ASSUME NEW text, NEW key, \A j \in DOMAIN text : text[j].key # key,
         NoneSpells(text, key)
  PROVE  ~ HasInt(text, key)
  <1>1. Hits(text, key) = {}
    BY DEF Hits, NoneSpells
  <1>2. FieldOf(text, key) = 0
    BY <1>1, Zenon DEF FieldOf
  <1>3. QED
    BY <1>2, Zenon DEF HasInt, DigitsOf

LEMMA ReadsNumber ==
  ASSUME NEW text, NEW key, NEW i, NEW n, i \in DOMAIN text, i # 0, i \in Nat, n \in 0 .. 999,
         text[i] = Number(key, n),
         \A j \in DOMAIN text : text[j].key = key => j = i,
         NoneSpells(text, key)
  PROVE  HasInt(text, key) /\ ReadInt(text, key) = n
  <1>1. FieldOf(text, key) = i
    <2>1. text[i].key = key
      BY DEF Number
    <2>2. QED
      BY <2>1, FieldFound
  <1>2. text[i].digits = Digits(n) /\ Digits(n) # <<>>
    <2>1. text[i].digits = Digits(n)
      BY DEF Number
    <2>2. Digits(n) # <<>>
      BY DigitsGiveValue, ZenonT(40)
    <2>3. QED
      BY <2>1, <2>2
  <1>3. DigitsOf(text, key) = Digits(n)
    BY <1>1, <1>2, Zenon DEF DigitsOf
  <1>4. QED
    BY <1>2, <1>3, DigitsGiveValue, ZenonT(40) DEF HasInt, ReadInt

(***************************************************************************)
(* A name comes back as what esc() made of it, up to the first quote; one  *)
(* of words only is left alone by both.                                    *)
(***************************************************************************)
LEMMA SinglesFlatten ==
  ASSUME NEW T, NEW t \in Seq(T)
  PROVE  FlattenSeq([i \in DOMAIN t |-> <<t[i]>>]) = t
  <1> DEFINE s == [i \in DOMAIN t |-> <<t[i]>>]
             n == Len(t)
  <1>1. n \in Nat /\ DOMAIN t = 1 .. n /\ \A i \in 1 .. n : t[i] \in T
    OBVIOUS
  <1>2. Len(s) = n /\ \A i \in 1 .. n : s[i] = <<t[i]>>
    BY <1>1
  <1> HIDE DEF s
  <1>3. CASE n = 0
    <2>1. s = <<>> /\ t = <<>>
      BY <1>1, <1>3 DEF s
    <2>2. QED
      BY <2>1 DEF FlattenSeq, s
  <1>4. CASE n # 0
    <2>1. PICK f : /\ FlattenSeq(s) = f[n] /\ f[1] = s[1]
                   /\ \A i \in 1 .. n - 1 : f[i + 1] = f[i] \o s[i + 1]
      <3>1. Len(s) \in Nat \ {0} /\ Len(s) = n
        BY <1>1, <1>2, <1>4
      <3> HIDE DEF n
      <3>2. QED
        BY <3>1, FlattenIs, Zenon
    <2> DEFINE First(i) == [j \in 1 .. i |-> t[j]]
               Fails == {i \in 1 .. n : f[i] # First(i)}
    <2>2. Fails = {}
      <3> SUFFICES ASSUME Fails # {} PROVE FALSE
        OBVIOUS
      <3>1. PICK m \in Fails : \A k \in Fails : m <= k
        <4>1. Fails \in SUBSET Nat
          BY <1>1
        <4>2. QED
          BY <4>1, LeastExists, Zenon
      <3>2. m \in 1 .. n /\ f[m] # First(m)
        BY <3>1
      <3>3. m # 1
        <4>1. First(1) = <<t[1]>>
          OBVIOUS
        <4>2. f[1] = <<t[1]>>
          BY <1>1, <1>2, <1>4, <2>1
        <4>3. QED
          BY <3>2, <4>1, <4>2
      <3>4. /\ m - 1 \in 1 .. n /\ m - 1 \in 1 .. n - 1 /\ m - 1 + 1 = m /\ ~ (m <= m - 1)
        BY <1>1, <3>2, <3>3
      <3>5. f[m - 1] = First(m - 1)
        BY <3>1, <3>4
      <3>6. f[m] = First(m - 1) \o <<t[m]>>
        <4> DEFINE k == m - 1
        <4>1. k \in 1 .. n - 1 /\ k + 1 = m /\ f[k] = First(k)
          BY <3>4, <3>5
        <4> HIDE DEF k, First, n
        <4>2. f[m] = f[k] \o s[m] /\ s[m] = <<t[m]>>
          BY <1>2, <2>1, <3>2, <4>1
        <4>3. QED
          BY <4>1, <4>2, Zenon DEF k
      <3>7. First(m - 1) \o <<t[m]>> = First(m)
        <4>1. First(m - 1) \in Seq(T) /\ Len(First(m - 1)) = m - 1
          BY <1>1, <3>4
        <4>2. \A j \in 1 .. m : j \in 1 .. m - 1 \/ j = m
          BY <3>4
        <4>3. t[m] \in T
          BY <1>1, <3>2
        <4>4. QED
          BY <3>4, <4>1, <4>2, <4>3
      <3>8. QED
        BY <3>2, <3>6, <3>7
    <2>3. f[n] = First(n)
      BY <1>1, <1>4, <2>2
    <2>4. First(n) = t
      BY <1>1
    <2>5. QED
      BY <2>1, <2>3, <2>4 DEF s
  <1>5. QED
    BY <1>3, <1>4

LEMMA PlainComesBack ==
  ASSUME NEW name, Plain(name)
  PROVE  UpToQuote(Esc(name)) = name
  <1>1. name \in Seq(Words) /\ \A i \in DOMAIN name : name[i] \in Words
    BY DEF Plain
  <1>2. \A i \in DOMAIN name : name[i] \notin {Quote, Backslash}
    BY <1>1, StoreAssumption
  <1>3. \A i \in DOMAIN name : EscOne(name[i]) = <<name[i]>>
    BY <1>2, Zenon DEF EscOne
  <1>4. [i \in DOMAIN name |-> EscOne(name[i])] = [i \in DOMAIN name |-> <<name[i]>>]
    BY <1>3, Zenon
  <1>5. Esc(name) = name
    BY <1>1, <1>4, SinglesFlatten DEF Esc
  <1>6. QED
    BY <1>2, <1>5, Zenon DEF UpToQuote

AsRead(s) ==
  [version |-> 1, style |-> UpToQuote(Esc(s.style)), variation |-> s.variation,
   tempo |-> s.tempo, split |-> s.split, bass |-> s.bass, armed |-> s.armed,
   scan |-> s.scan, groove |-> s.groove, output |-> UpToQuote(Esc(s.output)),
   layout |-> s.layout, theme |-> s.theme]

LEMMA SessionFields ==
  ASSUME NEW s, IsSession(s)
  PROVE  s = [version |-> 1, style |-> s.style, variation |-> s.variation,
              tempo |-> s.tempo, split |-> s.split, bass |-> s.bass, armed |-> s.armed,
              scan |-> s.scan, groove |-> s.groove, output |-> s.output,
              layout |-> s.layout, theme |-> s.theme]
  <1> DEFINE app == [scan |-> s.scan, groove |-> s.groove, layout |-> s.layout,
                     theme |-> s.theme]
  <1>1. s = Session(CoreOf(s), app, s.style, s.output)
    BY DEF IsSession
  <1>2. /\ CoreOf(s).variation = s.variation /\ CoreOf(s).tempo = s.tempo
        /\ CoreOf(s).split = s.split /\ CoreOf(s).bass = s.bass /\ CoreOf(s).armed = s.armed
    BY Zenon DEF CoreOf
  <1>3. /\ app.scan = s.scan /\ app.groove = s.groove /\ app.layout = s.layout
        /\ app.theme = s.theme
    BY Zenon
  <1> HIDE DEF app
  <1>4. QED
    BY <1>1, <1>2, <1>3, Zenon DEF Session

LEMMA ReadComesBack == ASSUME NEW s, IsSession(s) PROVE ComesBack(s, AsRead(s))
  <1> DEFINE a == UpToQuote(Esc(s.style))
             b == UpToQuote(Esc(s.output))
             r == AsRead(s)
  <1>1. r = [version |-> 1, style |-> a, variation |-> s.variation,
             tempo |-> s.tempo, split |-> s.split, bass |-> s.bass, armed |-> s.armed,
             scan |-> s.scan, groove |-> s.groove, output |-> b,
             layout |-> s.layout, theme |-> s.theme]
    BY Zenon DEF AsRead
  <1>2. (Plain(s.style) => a = s.style) /\ (Plain(s.output) => b = s.output)
    BY PlainComesBack, Zenon
  <1> HIDE DEF a, b, r
  <1>3. DOMAIN s = {"version", "style", "variation", "tempo", "split", "bass", "armed",
                    "scan", "groove", "output", "layout", "theme"}
    BY SessionFields
  <1>4. /\ r.version = s.version /\ r.variation = s.variation /\ r.tempo = s.tempo
        /\ r.split = s.split /\ r.bass = s.bass /\ r.armed = s.armed /\ r.scan = s.scan
        /\ r.groove = s.groove /\ r.layout = s.layout /\ r.theme = s.theme
        /\ r.style = a /\ r.output = b
    <2>1. s.version = 1
      BY SessionFields
    <2>2. QED
      BY <1>1, <2>1
  <1>5. \A field \in DOMAIN s \ {"style", "output"} : r[field] = s[field]
    BY <1>3, <1>4, Zenon
  <1>6. QED
    BY <1>2, <1>4, <1>5, Zenon DEF ComesBack, r

KeyAt ==
  <<"version", "style_name", "variation", "tempo_bpm", "split_point", "manual_bass",
    "sync_armed", "chord_scan_mode", "groove_profile", "midi_output_name", "ui_layout",
    "theme">>

NumberAt(s) ==
  <<s.version, 0, s.variation, s.tempo, s.split, Bit(s.bass), Bit(s.armed), s.scan, s.groove,
    0, s.layout, s.theme>>

NameFields == {2, 10}

NameAt(s, i) == IF i = 2 THEN s.style ELSE s.output

NumberFields == (1 .. 12) \ NameFields

FieldAt(s, i) ==
  IF i \in NameFields THEN String(KeyAt[i], NameAt(s, i)) ELSE Number(KeyAt[i], NumberAt(s)[i])

LEMMA SerializedFields ==
  ASSUME NEW s
  PROVE  /\ Serialize(s) \in Seq({FieldAt(s, i) : i \in 1 .. 12})
         /\ Len(Serialize(s)) = 12 /\ DOMAIN Serialize(s) = 1 .. 12
         /\ \A i \in 1 .. 12 : Serialize(s)[i] = FieldAt(s, i)
  <1> DEFINE t == Serialize(s)
             S == {FieldAt(s, i) : i \in 1 .. 12}
  <1>1. Len(t) = 12 /\ DOMAIN t = 1 .. 12 /\ \A i \in 1 .. 12 : t[i] = FieldAt(s, i)
    BY SMTT(30) DEF Serialize, FieldAt, NameFields, NameAt, KeyAt, NumberAt
  <1>2. \A i \in 1 .. 12 : t[i] \in S
    BY <1>1
  <1> HIDE DEF S
  <1>3. t \in Seq(S)
    BY <1>2 DEF Serialize
  <1>4. QED
    BY <1>1, <1>3 DEF S

LEMMA KeysDiffer == \A i, j \in 1 .. 12 : KeyAt[i] = KeyAt[j] => i = j
  BY DEF KeyAt

LEMMA FieldKey == ASSUME NEW s, NEW i \in 1 .. 12 PROVE FieldAt(s, i).key = KeyAt[i]
  BY DEF FieldAt, String, Number

LEMMA NothingSpells == ASSUME NEW key PROVE ~ Spells(NoText, key)
  BY DEF Spells, NoText

\* Unless one of its names is taken for a key, only a field's own key is found.
LEMMA FieldSpellsNothing ==
  ASSUME NEW s, ~ TakenForKey(s), NEW i \in 1 .. 12, NEW key \in Required \cup StringKeys
  PROVE  ~ Spells(FieldAt(s, i).text, key)
  <1>1. ~ Spells(Esc(s.style), key) /\ ~ Spells(Esc(s.output), key)
    BY Zenon DEF TakenForKey
  <1>2. CASE i \in NameFields
    <2>1. FieldAt(s, i).text = Esc(NameAt(s, i))
      BY <1>2 DEF FieldAt, String
    <2>2. QED
      BY <1>1, <2>1, Zenon DEF NameAt
  <1>3. CASE i \notin NameFields
    <2>1. FieldAt(s, i).text = NoText
      BY <1>3 DEF FieldAt, Number
    <2>2. QED
      BY <2>1, NothingSpells, Zenon
  <1>4. QED
    BY <1>2, <1>3

LEMMA KeysUsed ==
  /\ Required = {KeyAt[i] : i \in NumberFields}
  /\ Required \cup StringKeys = {KeyAt[i] : i \in 1 .. 12}
  BY SMTT(30) DEF Required, SnapshotKeys, StringKeys, KeyAt, NumberFields, NameFields

LEMMA SessionNumbers ==
  ASSUME NEW s, IsSession(s)
  PROVE  s.version = 1 /\ \A i \in 1 .. 12 : NumberAt(s)[i] \in 0 .. 999
  <1>1. s.version = 1
    BY DEF IsSession, Session
  <1>2. Bit(s.bass) \in 0 .. 1 /\ Bit(s.armed) \in 0 .. 1
    BY DEF Bit
  <1>3. QED
    BY <1>1, <1>2 DEF IsSession, NumberAt

LEMMA SessionRanges ==
  ASSUME NEW s, IsSession(s)
  PROVE  /\ s.version = 1
         /\ s.variation \in 0 .. 3 /\ s.tempo \in 20 .. 400 /\ s.split \in 0 .. 127
         /\ s.scan \in 0 .. 3 /\ s.groove \in 0 .. 4 /\ s.layout \in 0 .. 1
         /\ s.theme \in 0 .. 2
  BY SessionNumbers, ZenonT(40) DEF IsSession

(***************************************************************************)
(* Every field of a serialized session is found by its name.               *)
(***************************************************************************)
LEMMA ReadsSerialized ==
  ASSUME NEW s, IsSession(s), ~ TakenForKey(s)
  PROVE  /\ \A i \in NumberFields : /\ HasInt(Serialize(s), KeyAt[i])
                                    /\ ReadInt(Serialize(s), KeyAt[i]) = NumberAt(s)[i]
         /\ ReadStr(Serialize(s), "style_name") = UpToQuote(Esc(s.style))
         /\ ReadStr(Serialize(s), "midi_output_name") = UpToQuote(Esc(s.output))
  <1> DEFINE t == Serialize(s)
  <1>1. DOMAIN t = 1 .. 12 /\ \A i \in 1 .. 12 : t[i] = FieldAt(s, i) /\ t[i].key = KeyAt[i]
    <2>1. DOMAIN t = 1 .. 12 /\ \A i \in 1 .. 12 : t[i] = FieldAt(s, i)
      BY SerializedFields, Zenon
    <2> HIDE DEF t
    <2>2. QED
      BY <2>1, FieldKey
  <1> HIDE DEF t
  <1>2. \A i \in 1 .. 12 : NoneSpells(t, KeyAt[i])
    BY <1>1, KeysUsed, FieldSpellsNothing DEF NoneSpells
  <1>3. \A i \in 1 .. 12 : \A j \in DOMAIN t : t[j].key = KeyAt[i] => j = i
    BY <1>1, KeysDiffer
  <1>4. ASSUME NEW i \in NumberFields
        PROVE  HasInt(t, KeyAt[i]) /\ ReadInt(t, KeyAt[i]) = NumberAt(s)[i]
    <2> DEFINE key == KeyAt[i]
               n == NumberAt(s)[i]
    <2>1. i \in 1 .. 12 /\ i \notin NameFields
      BY DEF NumberFields
    <2>2. i \in DOMAIN t /\ i # 0 /\ i \in Nat /\ n \in 0 .. 999
      <3>1. n \in 0 .. 999
        BY <2>1, SessionNumbers
      <3> HIDE DEF n
      <3>2. QED
        BY <1>1, <2>1, <3>1
    <2>3. t[i] = Number(key, n)
      BY <1>1, <2>1 DEF FieldAt
    <2>4. (\A j \in DOMAIN t : t[j].key = key => j = i) /\ NoneSpells(t, key)
      BY <1>2, <1>3, <2>1
    <2> HIDE DEF key, n
    <2>5. HasInt(t, key) /\ ReadInt(t, key) = n
      BY <2>2, <2>3, <2>4, ReadsNumber
    <2>6. QED
      BY <2>5 DEF key, n
  <1>5. ASSUME NEW i \in NameFields
        PROVE  ReadStr(t, KeyAt[i]) = UpToQuote(Esc(NameAt(s, i)))
    <2>1. i \in 1 .. 12 /\ i # 0 /\ i \in Nat
      BY DEF NameFields
    <2>2. FieldOf(t, KeyAt[i]) = i
      BY <1>1, <1>2, <1>3, <2>1, FieldFound
    <2>3. t[i].key = KeyAt[i] /\ t[i].text = Esc(NameAt(s, i))
      BY <1>1, <2>1 DEF FieldAt, String
    <2>4. KeyAt[i] \in StringKeys
      BY DEF KeyAt, StringKeys, NameFields
    <2>5. QED
      BY <2>1, <2>2, <2>3, <2>4, Zenon DEF ReadStr
  <1>6. /\ 2 \in NameFields /\ KeyAt[2] = "style_name" /\ NameAt(s, 2) = s.style
        /\ 10 \in NameFields /\ KeyAt[10] = "midi_output_name" /\ NameAt(s, 10) = s.output
    BY DEF KeyAt, NameFields, NameAt
  <1>7. /\ ReadStr(t, "style_name") = UpToQuote(Esc(s.style))
        /\ ReadStr(t, "midi_output_name") = UpToQuote(Esc(s.output))
    BY <1>5, <1>6
  <1>8. QED
    BY <1>4, <1>7 DEF t

(***************************************************************************)
(* What was written whole is read back, field by field.                    *)
(***************************************************************************)
LEMMA WholeFileIsRead ==
  ASSUME NEW s, IsSession(s), ~ TakenForKey(s)
  PROVE  Deserialize(Serialize(s)) = AsRead(s)
  <1> DEFINE t == Serialize(s)
             r == AsRead(s)
  <1>1. Parsed(t) = r
    <2>k. /\ KeyAt[1] = "version" /\ KeyAt[3] = "variation" /\ KeyAt[4] = "tempo_bpm"
          /\ KeyAt[5] = "split_point" /\ KeyAt[6] = "manual_bass" /\ KeyAt[7] = "sync_armed"
          /\ KeyAt[8] = "chord_scan_mode" /\ KeyAt[9] = "groove_profile"
          /\ KeyAt[11] = "ui_layout" /\ KeyAt[12] = "theme"
      BY DEF KeyAt
    <2>r. /\ ReadInt(t, "version") = s.version /\ ReadInt(t, "variation") = s.variation
          /\ ReadInt(t, "tempo_bpm") = s.tempo /\ ReadInt(t, "split_point") = s.split
          /\ ReadInt(t, "manual_bass") = Bit(s.bass) /\ ReadInt(t, "sync_armed") = Bit(s.armed)
          /\ ReadInt(t, "chord_scan_mode") = s.scan /\ ReadInt(t, "groove_profile") = s.groove
          /\ ReadInt(t, "ui_layout") = s.layout /\ ReadInt(t, "theme") = s.theme
      <3> DEFINE n == NumberAt(s)
      <3>1. /\ n[1] = s.version /\ n[3] = s.variation /\ n[4] = s.tempo /\ n[5] = s.split
            /\ n[6] = Bit(s.bass) /\ n[7] = Bit(s.armed) /\ n[8] = s.scan /\ n[9] = s.groove
            /\ n[11] = s.layout /\ n[12] = s.theme
        BY DEF NumberAt
      <3>2. \A i \in NumberFields : ReadInt(t, KeyAt[i]) = n[i]
        BY ReadsSerialized
      <3>3. \A i \in {1, 3, 4, 5, 6, 7, 8, 9, 11, 12} : i \in NumberFields
        BY DEF NumberFields, NameFields
      <3> HIDE DEF n, t
      <3>4. QED
        BY <2>k, <3>1, <3>2, <3>3
    <2>1. /\ ReadInt(t, "version") % 65536 = 1
          /\ ReadByte(t, "variation") = s.variation
          /\ ReadInt(t, "tempo_bpm") = s.tempo
          /\ ReadByte(t, "split_point") = s.split
          /\ ReadByte(t, "chord_scan_mode") = s.scan
          /\ ReadByte(t, "groove_profile") = s.groove
          /\ ReadByte(t, "ui_layout") = s.layout
          /\ ReadByte(t, "theme") = s.theme
      <3>2. (\A n \in 0 .. 255 : n % 256 = n) /\ 1 % 65536 = 1
        OBVIOUS
      <3>3. ReadInt(t, "version") % 65536 = 1
        BY <2>r, <3>2, SessionRanges
      <3> HIDE DEF t
      <3>4. /\ ReadByte(t, "variation") = s.variation
            /\ ReadByte(t, "split_point") = s.split
            /\ ReadByte(t, "chord_scan_mode") = s.scan
            /\ ReadByte(t, "groove_profile") = s.groove
            /\ ReadByte(t, "ui_layout") = s.layout
            /\ ReadByte(t, "theme") = s.theme
        BY <2>r, <3>2, SessionRanges DEF ReadByte
      <3>5. QED
        BY <2>r, <3>3, <3>4
    <2>2. /\ (ReadByte(t, "manual_bass") # 0) = s.bass
          /\ (ReadByte(t, "sync_armed") # 0) = s.armed
      <3>1. s.bass \in BOOLEAN /\ s.armed \in BOOLEAN
        BY DEF IsSession, Session
      <3>2. /\ ReadByte(t, "manual_bass") = Bit(s.bass) % 256
            /\ ReadByte(t, "sync_armed") = Bit(s.armed) % 256
        BY <2>r, Zenon DEF ReadByte
      <3>3. \A b \in BOOLEAN : (Bit(b) % 256 # 0) = b
        <4> SUFFICES ASSUME NEW b \in BOOLEAN PROVE (Bit(b) % 256 # 0) = b
          OBVIOUS
        <4>1. 1 % 256 # 0 /\ 0 % 256 = 0
          OBVIOUS
        <4>2. CASE b = TRUE
          BY <4>1, <4>2, Zenon DEF Bit
        <4>3. CASE b = FALSE
          BY <4>1, <4>3, Zenon DEF Bit
        <4>4. QED
          BY <4>2, <4>3, Zenon
      <3>4. QED
        BY <3>1, <3>2, <3>3, ZenonT(40)
    <2> DEFINE bass == ReadByte(t, "manual_bass") # 0
               armed == ReadByte(t, "sync_armed") # 0
               version == ReadInt(t, "version") % 65536
               a == UpToQuote(Esc(s.style))
               b == UpToQuote(Esc(s.output))
    <2>3. Parsed(t) =
            [version |-> version, style |-> ReadStr(t, "style_name"),
             variation |-> ReadByte(t, "variation"),
             tempo |-> ReadInt(t, "tempo_bpm"), split |-> ReadByte(t, "split_point"),
             bass |-> bass, armed |-> armed, scan |-> ReadByte(t, "chord_scan_mode"),
             groove |-> ReadByte(t, "groove_profile"),
             output |-> ReadStr(t, "midi_output_name"),
             layout |-> ReadByte(t, "ui_layout"), theme |-> ReadByte(t, "theme")]
      BY DEF Parsed
    <2>v. version = 1
      BY <2>1
    <2>b. bass = s.bass
      BY <2>2
    <2>4. armed = s.armed
      BY <2>2
    <2>5. ReadStr(t, "style_name") = a /\ ReadStr(t, "midi_output_name") = b
      BY ReadsSerialized, Zenon
    <2>6. r = [version |-> 1, style |-> a, variation |-> s.variation,
               tempo |-> s.tempo, split |-> s.split, bass |-> s.bass, armed |-> s.armed,
               scan |-> s.scan, groove |-> s.groove, output |-> b,
               layout |-> s.layout, theme |-> s.theme]
      BY Zenon DEF AsRead
    <2> HIDE DEF bass, armed, version, a, b, t, r
    <2>n. /\ ReadByte(t, "variation") = s.variation
          /\ ReadInt(t, "tempo_bpm") = s.tempo /\ ReadByte(t, "split_point") = s.split
          /\ ReadByte(t, "chord_scan_mode") = s.scan
          /\ ReadByte(t, "groove_profile") = s.groove
          /\ ReadByte(t, "ui_layout") = s.layout /\ ReadByte(t, "theme") = s.theme
      BY <2>1
    <2>7. Parsed(t) =
            [version |-> 1, style |-> a, variation |-> s.variation,
             tempo |-> s.tempo, split |-> s.split, bass |-> s.bass, armed |-> s.armed,
             scan |-> s.scan, groove |-> s.groove, output |-> b,
             layout |-> s.layout, theme |-> s.theme]
      BY <2>n, <2>3, <2>v, <2>b, <2>4, <2>5, ZenonT(40)
    <2>8. QED
      BY <2>6, <2>7, Zenon
  <1>2. Valid(r)
    <2>1. /\ r.version = 1 /\ r.variation = s.variation /\ r.tempo = s.tempo
          /\ r.split = s.split /\ r.scan = s.scan /\ r.groove = s.groove
          /\ r.layout = s.layout
      BY DEF AsRead
    <2> HIDE DEF r
    <2>2. QED
      BY <2>1, SessionRanges DEF Valid, SnapshotValid
  <1>3. \A key \in Required : HasInt(t, key)
    BY ReadsSerialized, KeysUsed
  <1> HIDE DEF t, r
  <1>4. Deserialize(t) = r
    BY <1>1, <1>2, <1>3, Zenon DEF Deserialize
  <1>5. QED
    BY <1>4 DEF t, r

(***************************************************************************)
(* What was cut short is refused for want of the theme, the last field,    *)
(* unless only what follows its one digit is missing.                      *)
(***************************************************************************)
LEMMA NoThemeRefused ==
  ASSUME NEW text, ~ HasInt(text, "theme")
  PROVE  Deserialize(text) = Refused
  BY Zenon DEF Deserialize, Required

LEMMA EmptyRefused == Deserialize(<<>>) = Refused
  <1>1. NoneSpells(<<>>, "theme") /\ \A j \in DOMAIN <<>> : <<>>[j].key # "theme"
    BY DEF NoneSpells
  <1>2. QED
    BY <1>1, FieldMissing, NoThemeRefused, Zenon

CutField(field, c) == [field EXCEPT !.digits = SubSeq(@, 1, c.digits), !.text = NoText]

FirstFields(s, k, e, u) ==
  /\ DOMAIN u = 1 .. k + 1 /\ Len(u) = k + 1
  /\ u \in Seq({FieldAt(s, i) : i \in 1 .. 12} \cup {e})
  /\ \A i \in 1 .. k : u[i] = FieldAt(s, i)
  /\ u[k + 1] = e
  /\ \A i \in 1 .. k + 1 : u[i].key = KeyAt[i]

LEMMA CutFields ==
  ASSUME NEW s, NEW c, c \in [fields : Nat, digits : Nat], c.fields < 12,
         NEW k, k = c.fields,
         NEW e, e = CutField(Serialize(s)[k + 1], c),
         NEW u, u = CutShort(Serialize(s), c)
  PROVE  FirstFields(s, k, e, u) /\ e.text = NoText
  <1> DEFINE t == Serialize(s)
             S == {FieldAt(s, i) : i \in 1 .. 12} \cup {e}
             p == SubSeq(t, 1, k)
  <1>1. k \in 0 .. 11 /\ k + 1 \in 1 .. 12
    OBVIOUS
  <1>2. \A i \in 1 .. 12 : t[i] = FieldAt(s, i) /\ t[i] \in S
    BY SerializedFields
  <1>3. u = Append(p, e) /\ e \in S
    BY DEF CutShort, CutField
  <1>4. e.key = KeyAt[k + 1] /\ e.text = NoText
    <2>1. t[k + 1] = FieldAt(s, k + 1)
      BY <1>1, <1>2
    <2>2. e.key = FieldAt(s, k + 1).key /\ e.text = NoText
      BY <2>1 DEF FieldAt, Number, String, CutField
    <2>3. QED
      BY <1>1, <2>2, FieldKey
  <1> HIDE DEF t, S
  <1>5. p \in Seq(S) /\ Len(p) = k /\ \A i \in 1 .. k : p[i] = t[i]
    <2>1. \A i \in 1 .. k : t[i] \in S
      BY <1>1, <1>2
    <2>2. /\ p \in Seq(S) /\ Len(p) = IF 1 <= k THEN k - 1 + 1 ELSE 0
          /\ \A i \in 1 .. k - 1 + 1 : p[i] = t[1 + i - 1]
      BY <1>1, <2>1, SubSeqProperties
    <2> HIDE DEF p
    <2>3. QED
      BY <1>1, <2>2
  <1> HIDE DEF p
  <1>6. /\ u \in Seq(S) /\ Len(u) = k + 1 /\ DOMAIN u = 1 .. k + 1
        /\ \A i \in 1 .. k : u[i] = p[i]
        /\ u[k + 1] = e
    <2>1. /\ u \in Seq(S) /\ Len(u) = Len(p) + 1 /\ \A i \in 1 .. Len(p) : u[i] = p[i]
          /\ u[Len(p) + 1] = e
      BY <1>3, <1>5, AppendProperties
    <2>2. DOMAIN u = 1 .. Len(u)
      BY <2>1, LenProperties
    <2>3. QED
      BY <1>5, <2>1, <2>2
  <1>7. \A i \in 1 .. k : u[i] = FieldAt(s, i)
    BY <1>1, <1>2, <1>5, <1>6, SMTT(30)
  <1>8. \A i \in 1 .. k + 1 : u[i].key = KeyAt[i]
    <2> SUFFICES ASSUME NEW i \in 1 .. k + 1
                 PROVE  u[i].key = KeyAt[i]
      OBVIOUS
    <2>1. CASE i = k + 1
      BY <1>4, <1>6, <2>1
    <2>2. CASE i # k + 1
      <3>1. i \in 1 .. k /\ i \in 1 .. 12
        BY <1>1, <2>2
      <3>2. u[i] = FieldAt(s, i)
        BY <1>7, <3>1
      <3>3. QED
        BY <3>1, <3>2, FieldKey
    <2>3. QED
      BY <2>1, <2>2
  <1>9. QED
    BY <1>4, <1>6, <1>7, <1>8 DEF t, S, FirstFields

LEMMA TornFileIsRead ==
  ASSUME NEW s, IsSession(s), ~ TakenForKey(s), NEW f \in Torn(Serialize(s))
  PROVE  Deserialize(f) \in {Refused, AsRead(s)}
  <1> DEFINE t == Serialize(s)
  <1>1. CASE f = <<>>
    BY <1>1, EmptyRefused, Zenon
  <1>2. CASE f # <<>>
    <2>1. PICK c \in [fields : Nat, digits : Nat] :
             /\ c.fields < 12 /\ c.digits <= Len(t[c.fields + 1].digits)
             /\ f = CutShort(t, c)
      BY <1>2, SerializedFields, StoreAssumption, Zenon DEF Torn
    <2> DEFINE k == c.fields
               e == CutField(t[k + 1], c)
               S == {FieldAt(s, i) : i \in 1 .. 12} \cup {e}
    <2>2. /\ DOMAIN f = 1 .. k + 1 /\ Len(f) = k + 1 /\ f \in Seq(S)
          /\ \A i \in 1 .. k : f[i] = FieldAt(s, i)
          /\ f[k + 1] = e /\ e.text = NoText
          /\ \A i \in 1 .. k + 1 : f[i].key = KeyAt[i]
      <3>1. k = c.fields /\ e = CutField(Serialize(s)[k + 1], c)
        OBVIOUS
      <3>2. c.fields < 12 /\ f = CutShort(Serialize(s), c)
        BY <2>1
      <3> HIDE DEF k, e
      <3>3. FirstFields(s, k, e, f) /\ e.text = NoText
        BY <3>1, <3>2, CutFields, Zenon
      <3>4. QED
        BY <3>3 DEF FirstFields
    <2>3. KeyAt[12] = "theme"
      BY DEF KeyAt
    <2>t. /\ t \in Seq(S) /\ Len(t) = 12 /\ \A i \in 1 .. 12 : t[i] = FieldAt(s, i)
      <3>1. t \in Seq({FieldAt(s, i) : i \in 1 .. 12})
        BY SerializedFields, Zenon
      <3>2. \A A, B : Seq(A) \subseteq Seq(A \cup B)
        OBVIOUS
      <3>3. QED
        BY <3>1, <3>2, SerializedFields, Zenon
    <2>k. k \in 0 .. 11
      BY <2>1, SMTT(30)
    <2>e. k = 11 => e = CutField(t[12], c)
      OBVIOUS
    <2>l. k = 11 => c.digits <= Len(t[12].digits)
      BY <2>1
    <2> HIDE DEF t, k, e, S
    <2>n. NoneSpells(f, "theme")
      <3>1. "theme" \in Required \cup StringKeys
        BY DEF Required
      <3>2. \A i \in 1 .. k : ~ Spells(f[i].text, "theme")
        <4> SUFFICES ASSUME NEW i \in 1 .. k PROVE ~ Spells(f[i].text, "theme")
          OBVIOUS
        <4>1. i \in 1 .. 12 /\ f[i] = FieldAt(s, i)
          BY <2>k, <2>2
        <4>2. QED
          BY <3>1, <4>1, FieldSpellsNothing, Zenon
      <3>3. ~ Spells(f[k + 1].text, "theme")
        BY <2>2, NothingSpells
      <3>4. \A i \in DOMAIN f : i \in 1 .. k \/ i = k + 1
        BY <2>2, <2>k
      <3>5. QED
        BY <3>2, <3>3, <3>4, Zenon DEF NoneSpells
    <2>4. CASE k < 11
      <3>1. \A i \in DOMAIN f : f[i].key # "theme"
        BY <2>k, <2>2, <2>3, <2>4, KeysDiffer, SMTT(30)
      <3>2. QED
        BY <2>n, <3>1, FieldMissing, NoThemeRefused, Zenon
    <2>5. CASE k = 11
      <3>1. t[12] = [key |-> "theme", digits |-> <<s.theme>>, text |-> NoText]
        <4>1. t[12] = Number("theme", s.theme)
          BY <2>3, <2>t DEF FieldAt, NumberAt, NameFields
        <4>2. Digits(s.theme) = <<s.theme>>
          BY DEF Digits, IsSession
        <4>3. QED
          BY <4>1, <4>2 DEF Number
      <3>2. f[12] = [key |-> "theme", digits |-> SubSeq(<<s.theme>>, 1, c.digits),
                     text |-> NoText]
        <4>1. f[12] = e
          BY <2>2, <2>5
        <4>2. f[12] = CutField([key |-> "theme", digits |-> <<s.theme>>, text |-> NoText], c)
          BY <2>5, <2>e, <3>1, <4>1
        <4>3. QED
          BY <4>2 DEF CutField
      <3>3. c.digits \in 0 .. 1
        <4>1. t[12].digits = <<s.theme>>
          BY <3>1
        <4>2. Len(<<s.theme>>) = 1
          OBVIOUS
        <4>3. c.digits <= 1
          BY <2>5, <2>l, <4>1, <4>2
        <4>4. c.digits \in Nat
          OBVIOUS
        <4>5. QED
          BY <4>3, <4>4
      <3>4. CASE c.digits = 0
        <4>1. f[12].digits = <<>>
          BY <3>2, <3>4, SubSeqEmpty
        <4>2. 12 \in DOMAIN f /\ f[12].key = "theme"
          BY <2>2, <2>5, <3>2
        <4>3. \A j \in DOMAIN f : f[j].key = "theme" => j = 12
          BY <2>2, <2>3, <2>5, KeysDiffer
        <4>4. FieldOf(f, "theme") = 12
          BY <2>n, <4>2, <4>3, FieldFound
        <4>5. ~ HasInt(f, "theme")
          BY <4>1, <4>4 DEF HasInt, DigitsOf
        <4>6. QED
          BY <4>5, NoThemeRefused
      <3>5. CASE c.digits = 1
        <4>1. SubSeq(<<s.theme>>, 1, 1) = <<s.theme>>
          <5>1. <<s.theme>> \in Seq({s.theme}) /\ Len(<<s.theme>>) = 1
            OBVIOUS
          <5>2. QED
            BY <5>1, SubSeqFull
        <4>2. f[12] = t[12]
          BY <3>1, <3>2, <3>5, <4>1
        <4>3. \A i \in 1 .. 12 : f[i] = t[i]
          BY <2>2, <2>5, <2>t, <4>2
        <4>4. f \in Seq(S) /\ t \in Seq(S) /\ Len(f) = 12 /\ Len(t) = 12
          BY <2>2, <2>5, <2>t
        <4>5. f = t
          BY <4>3, <4>4, SeqEqual
        <4>6. QED
          BY <4>5, WholeFileIsRead, Zenon DEF t
      <3>6. QED
        BY <3>3, <3>4, <3>5
    <2>6. QED
      BY <2>k, <2>4, <2>5
  <1>3. QED
    BY <1>1, <1>2

(***************************************************************************)
(* Part 3: saves and launches.                                             *)
(***************************************************************************)
EngineStates ==
  [variation : 0 .. 255, tempo : Nat, split : 0 .. 255, bass : BOOLEAN,
   sync : PerformerStates]

FileInvariant ==
  \/ file = <<>> /\ given = Refused
  \/ IsSession(given) /\ file \in {Serialize(given)} \cup Torn(Serialize(given))

StoreInvariant == engine \in EngineStates /\ FileInvariant /\ SessionComesBack

LEMMA FileIsRead ==
  ASSUME FileInvariant, ~ TakenForKey(given), Deserialize(file) # Refused
  PROVE  IsSession(given) /\ Deserialize(file) = AsRead(given)
  <1>1. CASE file = <<>> /\ given = Refused
    BY <1>1, EmptyRefused, Zenon
  <1>2. CASE IsSession(given) /\ file \in {Serialize(given)} \cup Torn(Serialize(given))
    BY <1>2, WholeFileIsRead, TornFileIsRead
  <1>3. QED
    BY <1>1, <1>2 DEF FileInvariant

LEMMA SavedIsSession ==
  ASSUME engine \in EngineStates, NEW app \in Apps, NEW title, NEW name,
         Valid(Session(Captured(engine), app, title, name))
  PROVE  IsSession(Session(Captured(engine), app, title, name))
  <1>1. app \in [scan : 0 .. 255, groove : 0 .. 255, layout : 0 .. 255, theme : 0 .. 2]
    BY StoreAssumption
  <1> DEFINE s == Session(Captured(engine), app, title, name)
  <1>2. /\ s.version = 1 /\ s.variation = engine.variation /\ s.tempo = engine.tempo
        /\ s.split = engine.split /\ s.bass = engine.bass /\ s.armed = (engine.sync = "Armed")
        /\ s.scan = app.scan /\ s.groove = app.groove /\ s.style = title /\ s.output = name
        /\ s.layout = app.layout /\ s.theme = app.theme
    BY SMTT(30) DEF Session, Captured
  <1>3. s = Session(CoreOf(s), [scan |-> s.scan, groove |-> s.groove, layout |-> s.layout,
                               theme |-> s.theme], s.style, s.output)
    BY DEF Session, Captured, CoreOf
  <1>4. Valid(s)
    OBVIOUS
  <1> HIDE DEF s
  <1>5. /\ s.variation \in 0 .. 3 /\ s.tempo \in 20 .. 400 /\ s.split \in 0 .. 127
        /\ s.scan \in 0 .. 3 /\ s.groove \in 0 .. 4 /\ s.layout \in 0 .. 1 /\ s.theme \in 0 .. 2
    BY <1>1, <1>2, <1>4, SMTT(30) DEF Valid, SnapshotValid
  <1>6. s.bass \in BOOLEAN /\ s.armed \in BOOLEAN
    BY <1>2 DEF EngineStates
  <1>7. IsSession(s)
    BY <1>3, <1>5, <1>6 DEF IsSession
  <1>8. QED
    BY <1>7 DEF s

LEMMA AfterType == \A s \in PerformerStates : \A input : After(s, input) \in PerformerStates
  BY DEF After, PerformerStates

(***************************************************************************)
(* restore(): what any file leaves is an engine, and a session that came   *)
(* back leaves what capture() took.                                        *)
(***************************************************************************)
LEMMA ArmedWhenAsked == After("Idle", "Arm") = "Armed"
  BY DEF After, Moves, ToIdle

LEMMA RestoredEngine ==
  ASSUME NEW s, SnapshotValid(s)
  PROVE  Restore(s, Booted) =
           [variation |-> s.variation, tempo |-> s.tempo, split |-> s.split, bass |-> s.bass,
            sync |-> IF s.armed THEN "Armed" ELSE "Idle"]
  BY ArmedWhenAsked DEF Restore, Booted

LEMMA RestoredIsEngine == \A f : Restore(Deserialize(f), Booted) \in EngineStates
  <1> SUFFICES ASSUME NEW f PROVE Restore(Deserialize(f), Booted) \in EngineStates
    OBVIOUS
  <1> DEFINE s == Deserialize(f)
  <1>1. CASE ~ SnapshotValid(s)
    <2>1. Restore(s, Booted) = Booted
      BY <1>1, Zenon DEF Restore
    <2>2. Booted \in EngineStates
      BY DEF Booted, EngineStates, PerformerStates
    <2>3. QED
      BY <2>1, <2>2
  <1>2. CASE SnapshotValid(s)
    <2>1. s # Refused
      BY <1>2 DEF SnapshotValid, Refused, Defaults
    <2>2. s = Parsed(f)
      BY <2>1, Zenon DEF Deserialize
    <2>3. s.bass \in BOOLEAN
      <3>1. s.bass = (ReadByte(f, "manual_bass") # 0)
        BY <2>2 DEF Parsed
      <3>2. QED
        BY <3>1
    <2> HIDE DEF s
    <2>4. s.variation \in 0 .. 255 /\ s.tempo \in Nat /\ s.split \in 0 .. 255
      BY <1>2 DEF SnapshotValid
    <2>5. (IF s.armed THEN "Armed" ELSE "Idle") \in PerformerStates
      BY DEF PerformerStates
    <2>6. QED
      BY <1>2, <2>3, <2>4, <2>5, RestoredEngine DEF EngineStates, s
  <1>3. QED
    BY <1>1, <1>2

LEMMA RestoredIsCaptured ==
  ASSUME NEW s, IsSession(s)
  PROVE  Captured(Restore(AsRead(s), Booted)) = CoreOf(s) /\ AsRead(s) # Refused
  <1> DEFINE r == AsRead(s)
  <1>1. /\ r.version = 1 /\ r.variation = s.variation /\ r.tempo = s.tempo
        /\ r.split = s.split /\ r.bass = s.bass /\ r.armed = s.armed /\ r.scan = s.scan
    BY DEF AsRead
  <1> HIDE DEF r
  <1>2. SnapshotValid(r) /\ r # Refused
    BY <1>1, SessionRanges DEF SnapshotValid, Refused, Defaults
  <1>3. Restore(r, Booted) =
          [variation |-> s.variation, tempo |-> s.tempo, split |-> s.split, bass |-> s.bass,
           sync |-> IF s.armed THEN "Armed" ELSE "Idle"]
    BY <1>1, <1>2, RestoredEngine
  <1>4. (IF s.armed THEN "Armed" ELSE "Idle") = "Armed" <=> s.armed
    OBVIOUS
  <1>5. QED
    BY <1>2, <1>3, <1>4 DEF Captured, CoreOf, IsSession, r

LEMMA RefusedIsBooted == Restore(Refused, Booted) = Booted
  BY DEF Restore, Refused, Defaults, SnapshotValid

LEMMA StoreStep == StoreInvariant /\ [Next]_<<storeVars, outVars>> => StoreInvariant'
  <1> SUFFICES ASSUME StoreInvariant, [Next]_<<storeVars, outVars>>
               PROVE  StoreInvariant'
    OBVIOUS
  <1> USE DEF StoreInvariant
  <1>1. CASE UNCHANGED storeVars
    BY <1>1 DEF storeVars, FileInvariant, SessionComesBack
  <1>2. ASSUME NEW e \in EngineStates, Played(e)
        PROVE  StoreInvariant'
    BY <1>2 DEF Played, FileInvariant, SessionComesBack
  <1>3. CASE Set
    <2>1. PICK x \in Settings :
             Played([engine EXCEPT !.variation = x.variation, !.tempo = x.tempo,
                                   !.split = x.split, !.bass = x.bass])
      BY <1>3 DEF Set
    <2>2. x \in [variation : 0 .. 255, tempo : Nat, split : 0 .. 255, bass : BOOLEAN]
      BY StoreAssumption
    <2>3. QED
      BY <1>2, <2>1, <2>2 DEF EngineStates
  <1>4. CASE Arm
    BY <1>2, <1>4, AfterType DEF Arm, EngineStates
  <1>5. CASE Start
    <2>1. After(engine.sync, "Start") \in PerformerStates
      BY AfterType DEF EngineStates
    <2>2. StyleTempo \in Nat
      BY StoreAssumption
    <2>3. [engine EXCEPT !.sync = After(@, "Start"), !.tempo = StyleTempo] \in EngineStates
      BY <2>1, <2>2 DEF EngineStates
    <2>4. QED
      BY <1>2, <1>5, <2>3 DEF Start
  <1>6. CASE Stop
    BY <1>2, <1>6, AfterType DEF Stop, EngineStates
  <1>7. CASE Save(selectedName)
    <2>1. PICK app \in Apps, title \in Styles :
             LET s == Session(Captured(engine), app, title, selectedName)
             IN  /\ Valid(s)
                 /\ given' = s
                 /\ file' \in {Serialize(s)} \cup Torn(Serialize(s))
      BY <1>7 DEF Save
    <2>2. IsSession(given')
      BY <2>1, SavedIsSession
    <2>3. fresh' = FALSE /\ engine' = engine
      BY <1>7 DEF Save
    <2>4. QED
      BY <2>1, <2>2, <2>3 DEF FileInvariant, SessionComesBack
  <1>8. CASE Quit
    BY <1>8 DEF Quit, FileInvariant, SessionComesBack
  <1>9. CASE Launch
    <2>1. engine' = Restore(Deserialize(file), Booted) /\ file' = file /\ given' = given
      BY <1>9 DEF Launch
    <2>2. engine' \in EngineStates /\ FileInvariant'
      BY <2>1, RestoredIsEngine DEF FileInvariant
    <2>3. CASE TakenForKey(given)
      <3>1. TakenForKey(given)'
        BY <2>1, <2>3
      <3>2. QED
        BY <2>2, <3>1, Zenon DEF SessionComesBack
    <2>4. CASE Deserialize(file) = Refused
      <3>1. engine' = Booted
        BY <2>1, <2>4, RefusedIsBooted
      <3>2. Deserialize(file)' = Refused
        BY <2>1, <2>4
      <3>3. SessionComesBack'
        BY <3>1, <3>2 DEF SessionComesBack
      <3>4. QED
        BY <2>2, <3>3
    <2>5. CASE ~ TakenForKey(given) /\ Deserialize(file) # Refused
      <3>1. IsSession(given) /\ Deserialize(file) = AsRead(given)
        BY <2>5, FileIsRead
      <3>2. Captured(engine') = CoreOf(given')
        BY <2>1, <3>1, RestoredIsCaptured
      <3>3. Deserialize(file)' # Refused
        BY <2>1, <2>5
      <3>4. SessionComesBack'
        BY <3>2, <3>3, Zenon DEF SessionComesBack
      <3>5. QED
        BY <2>2, <3>4
    <2>6. QED
      BY <2>3, <2>4, <2>5
  <1>10. QED
    BY <1>1, <1>3, <1>4, <1>5, <1>6, <1>7, <1>8, <1>9 DEF Next, StoreNext

LEMMA StoreCorrect == Spec => []StoreInvariant
  <1>1. Init => StoreInvariant
    <2> SUFFICES ASSUME Init
                 PROVE  StoreInvariant
      OBVIOUS
    <2>1. engine \in EngineStates /\ FileInvariant
      BY DEF Init, StoreInit, EngineStates, FileInvariant, Booted, PerformerStates
    <2>2. Deserialize(file) = Refused
      BY EmptyRefused, Zenon DEF Init, StoreInit
    <2>3. QED
      BY <2>1, <2>2 DEF Init, StoreInit, StoreInvariant, SessionComesBack
  <1>2. QED
    BY <1>1, StoreStep, PTL DEF Spec

(***************************************************************************)
(* Wherever a write of session_persistence.cpp breaks off, load() refuses, *)
(* or gives back every number save() was given and every name that has     *)
(* neither a quote nor a backslash: for all names of which none is taken   *)
(* for a key.                                                              *)
(***************************************************************************)
THEOREM FileIsWhole == Spec => []FileIsWholeOrRefused
  <1>1. StoreInvariant => FileIsWholeOrRefused
    BY FileIsRead, ReadComesBack, Zenon DEF StoreInvariant, FileIsWholeOrRefused
  <1>2. QED
    BY <1>1, StoreCorrect, PTL

(***************************************************************************)
(* A launch brings back the session that was saved, for any settings and   *)
(* any names of which none is taken for a key, or leaves a fresh one if    *)
(* the file is refused.                                                    *)
(***************************************************************************)
THEOREM SavedSessionReturns == Spec => []SessionComesBack
  <1>1. StoreInvariant => SessionComesBack
    BY DEF StoreInvariant
  <1>2. QED
    BY <1>1, StoreCorrect, PTL

(***************************************************************************)
(* Part 4: the parts of a UASF file, and what serialize() writes of a      *)
(* style that fits the format.                                             *)
(***************************************************************************)
EventPart ==
  [kind : {"event"}, delta : Nat, type : Nibble, channel : Nibble, d1 : Byte, d2 : Byte]
TrackPart ==
  [kind : {"track"}, channel : Byte, role : STRING, drum : BOOLEAN, named : BOOLEAN,
   events : Nat]
NamePart == [kind |-> "name"]
SectionPart ==
  [kind : {"section"}, type : STRING, bars : Nat, resolution : Nat, tracks : Nat]
FilePart == [kind : {"file"}, sections : Nat]
Parts == EventPart \cup TrackPart \cup {NamePart} \cup SectionPart \cup FilePart

TrackHeader(t) ==
  [kind |-> "track", channel |-> t.channel, role |-> t.role, drum |-> t.drum,
   named |-> t.named, events |-> Len(t.events)]
SectionHeader(s) ==
  [kind |-> "section", type |-> s.type, bars |-> s.bars, resolution |-> s.resolution,
   tracks |-> Len(s.tracks)]
FileHeader(st) == [kind |-> "file", sections |-> Len(st.sections)]

LEMMA PartsRegroup ==
  \A a, b, c \in Seq(Parts) : (a \o b) \o c = a \o (b \o c)
  BY ConcatAssociative

NameOf(named) == IF named THEN <<NamePart>> ELSE <<>>
TracksOf(s) == [i \in 1..Len(s.tracks) |-> TrackParts(s.tracks[i])]
SectionsOf(st) == [i \in 1..Len(st.sections) |-> SectionParts(st.sections[i])]

\* What is written of a sequence of sequences after the first n.
From(q, n) == FlattenSeq(SubSeq(q, n + 1, Len(q)))
EventsFrom(t, n) == SubSeq(EventParts(t.events), n + 1, Len(t.events))

LEMMA MinOfTwo ==
  ASSUME NEW a \in Nat, NEW b \in Nat
  PROVE  Min({a, b}) = IF a <= b THEN a ELSE b
  <1>1. {a, b} \in SUBSET Nat /\ {a, b} # {}
    OBVIOUS
  <1>2. Min({a, b}) \in {a, b} /\ \A n \in {a, b} : Min({a, b}) <= n
    BY <1>1, MinIsLeast, Zenon
  <1>3. QED
    BY <1>2

LEMMA FromStep ==
  ASSUME NEW T, NEW q \in Seq(Seq(T)), NEW n \in 0 .. Len(q)
  PROVE  /\ From(q, n) \in Seq(T)
         /\ n = Len(q) => From(q, n) = <<>>
         /\ n < Len(q) => From(q, n) = q[n + 1] \o From(q, n + 1)
  <1> DEFINE r == SubSeq(q, n + 1, Len(q))
  <1>1. CASE n = Len(q)
    <2>1. r = <<>>
      BY <1>1
    <2>2. From(q, n) = <<>>
      BY <2>1 DEF From, FlattenSeq
    <2>3. <<>> \in Seq(T)
      OBVIOUS
    <2>4. ~ (n < Len(q))
      BY <1>1
    <2>5. QED
      BY <2>2, <2>3, <2>4, Zenon
  <1>2. CASE n < Len(q)
    <2>1. n \in Nat /\ Len(q) \in Nat /\ n + 1 \in 1 .. Len(q) /\ Len(q) \in n + 1 .. Len(q)
          /\ n + 1 + 1 = n + 2 /\ n # Len(q)
      BY <1>2
    <2>2. r \in Seq(Seq(T)) /\ r # <<>> /\ r[1] = q[n + 1]
      <3>1. \A i \in n + 1 .. Len(q) : q[i] \in Seq(T)
        BY <2>1
      <3>2. r \in Seq(Seq(T)) /\ Len(r) = Len(q) - (n + 1) + 1 /\ Len(r) \in Nat \ {0}
        BY <2>1, <3>1, SubSeqProperties, SMTT(30)
      <3>3. r[1] = q[n + 1]
        BY <2>1
      <3>4. r # <<>>
        <4>1. Len(<<>>) = 0 /\ Len(r) # 0
          BY <3>2, EmptySeq
        <4>2. QED
          BY <4>1, Zenon
      <3>5. QED
        BY <3>2, <3>3, <3>4, Zenon
    <2>3. Tail(r) = SubSeq(q, n + 1 + 1, Len(q))
      BY <2>1, HeadTailOfSubSeq, Zenon
    <2> HIDE DEF r
    <2>4. /\ FlattenSeq(r) \in Seq(T)
          /\ FlattenSeq(r) = r[1] \o FlattenSeq(Tail(r))
      BY <2>2, FlattenFirst, Zenon
    <2>5. From(q, n) = FlattenSeq(r) /\ From(q, n + 1) = FlattenSeq(Tail(r))
      BY <2>3, Zenon DEF From, r
    <2>6. QED
      BY <2>1, <2>2, <2>4, <2>5, Zenon
  <1>3. n = Len(q) \/ n < Len(q)
    OBVIOUS
  <1>4. QED
    BY <1>1, <1>2, <1>3, Zenon

LEMMA EventsWritten ==
  ASSUME NEW t \in TrackDefs
  PROVE  /\ EventParts(t.events) \in Seq(Parts)
         /\ Len(EventParts(t.events)) = Len(t.events) /\ Len(t.events) \in Nat
         /\ Len(t.events) <= MaxEvents /\ t.events \in Seq(EventDefs)
         /\ \A i \in 1 .. Len(t.events) :
              LET p == EventParts(t.events)[i]
                  e == t.events[i]
              IN  /\ p \in EventPart
                  /\ p.type = e.type /\ p.channel = e.channel /\ p.d1 = e.d1 /\ p.d2 = e.d2
                  /\ p.delta = Delta(e.tick, IF i = 1 THEN 0 ELSE t.events[i - 1].tick)
  <1>1. t.events \in Seq(EventDefs) /\ Len(t.events) <= MaxEvents /\ Len(t.events) \in Nat
    BY DEF TrackDefs
  <1> DEFINE es == t.events
             P(i) == [kind |-> "event",
                      delta |-> Delta(es[i].tick, IF i = 1 THEN 0 ELSE es[i - 1].tick),
                      type |-> es[i].type, channel |-> es[i].channel,
                      d1 |-> es[i].d1, d2 |-> es[i].d2]
  <1>2. \A i \in 1 .. Len(es) : es[i] \in EventDefs
    BY <1>1
  <1>3. MaxDelta \in Nat
    BY LimitsAssumption
  <1>4. \A a, b \in Nat : Delta(a, b) \in Nat
    <2> SUFFICES ASSUME NEW a \in Nat, NEW b \in Nat PROVE Delta(a, b) \in Nat
      OBVIOUS
    <2>1. CASE a < b
      BY <1>3, <2>1 DEF Delta
    <2>2. CASE ~ (a < b)
      <3>1. a - b \in Nat
        BY <2>2
      <3>2. Min({a - b, MaxDelta}) \in Nat
        BY <1>3, <3>1, MinOfTwo
      <3>3. QED
        BY <2>2, <3>2 DEF Delta
    <2>3. QED
      BY <2>1, <2>2
  <1>5. \A i \in 1 .. Len(es) : P(i) \in EventPart
    <2> SUFFICES ASSUME NEW i \in 1 .. Len(es) PROVE P(i) \in EventPart
      OBVIOUS
    <2> DEFINE last == IF i = 1 THEN 0 ELSE es[i - 1].tick
    <2>1. es[i] \in EventDefs
      BY <1>2
    <2>2. es[i].tick \in Nat
      BY <1>3, <2>1 DEF EventDefs
    <2>3. last \in Nat
      <3>1. CASE i = 1
        BY <3>1
      <3>2. CASE i # 1
        <4>1. i - 1 \in 1 .. Len(es)
          BY <1>1, <3>2
        <4>2. es[i - 1] \in EventDefs
          BY <1>2, <4>1
        <4>3. QED
          BY <1>3, <3>2, <4>2 DEF EventDefs
      <3>3. QED
        BY <3>1, <3>2
    <2> HIDE DEF last
    <2>4. Delta(es[i].tick, last) \in Nat
      BY <1>4, <2>2, <2>3
    <2>5. P(i) = [kind |-> "event", delta |-> Delta(es[i].tick, last),
                  type |-> es[i].type, channel |-> es[i].channel,
                  d1 |-> es[i].d1, d2 |-> es[i].d2]
      BY Zenon DEF last
    <2>6. QED
      BY <2>1, <2>4, <2>5 DEF EventDefs, EventPart
  <1> HIDE DEF P
  <1>6. EventParts(es) = [i \in 1 .. Len(es) |-> P(i)]
    BY DEF EventParts, P
  <1>7. /\ EventParts(es) \in Seq(Parts) /\ Len(EventParts(es)) = Len(es)
        /\ \A i \in 1 .. Len(es) : EventParts(es)[i] = P(i)
    <2>1. \A i \in 1 .. Len(es) : P(i) \in Parts
      BY <1>5 DEF Parts
    <2> HIDE DEF es
    <2>2. QED
      BY <1>1, <1>6, <2>1 DEF es
  <1>8. \A i \in 1 .. Len(es) :
           /\ P(i).type = es[i].type /\ P(i).channel = es[i].channel
           /\ P(i).d1 = es[i].d1 /\ P(i).d2 = es[i].d2
           /\ P(i).delta = Delta(es[i].tick, IF i = 1 THEN 0 ELSE es[i - 1].tick)
    BY DEF P
  <1>9. QED
    BY <1>1, <1>5, <1>7, <1>8, ZenonT(40)

LEMMA TrackWritten ==
  ASSUME NEW t \in TrackDefs
  PROVE  /\ TrackParts(t) = <<TrackHeader(t)>> \o NameOf(t.named) \o EventParts(t.events)
         /\ TrackHeader(t) \in TrackPart
         /\ NameOf(t.named) \in Seq(Parts)
         /\ TrackParts(t) \in Seq(Parts)
  <1>1. MaxEvents \in Nat /\ Len(t.events) \in Nat /\ Len(t.events) <= MaxEvents
    BY EventsWritten, LimitsAssumption
  <1>2. Min({Len(t.events), MaxEvents}) = Len(t.events)
    BY <1>1, MinOfTwo
  <1>3. TrackParts(t) = <<TrackHeader(t)>> \o NameOf(t.named) \o EventParts(t.events)
    BY <1>2, Zenon DEF TrackParts, TrackHeader, NameOf, NamePart
  <1>4. TrackHeader(t) \in TrackPart
    BY <1>1 DEF TrackHeader, TrackPart, TrackDefs
  <1>5. NameOf(t.named) \in Seq(Parts)
    <2>1. NamePart \in Parts
      BY DEF Parts
    <2>2. QED
      BY <2>1 DEF NameOf
  <1>6. <<TrackHeader(t)>> \in Seq(Parts)
    <2>1. TrackHeader(t) \in Parts
      BY <1>4 DEF Parts
    <2>2. QED
      BY <2>1
  <1>7. <<TrackHeader(t)>> \o NameOf(t.named) \o EventParts(t.events) \in Seq(Parts)
    <2>1. EventParts(t.events) \in Seq(Parts)
      BY EventsWritten
    <2>2. QED
      BY <1>5, <1>6, <2>1, ConcatProperties, Zenon
  <1>8. QED
    BY <1>3, <1>4, <1>5, <1>7, Zenon

LEMMA SectionWritten ==
  ASSUME NEW s \in SectionDefs
  PROVE  /\ SectionParts(s) = <<SectionHeader(s)>> \o From(TracksOf(s), 0)
         /\ SectionHeader(s) \in SectionPart
         /\ s.tracks \in Seq(TrackDefs) /\ Len(s.tracks) \in Nat
         /\ \A k \in 1 .. Len(s.tracks) : s.tracks[k] \in TrackDefs
         /\ TracksOf(s) \in Seq(Seq(Parts)) /\ Len(TracksOf(s)) = Len(s.tracks)
         /\ SectionParts(s) \in Seq(Parts)
  <1>0. /\ s.type \in STRING /\ s.bars \in Nat /\ s.resolution \in Nat
        /\ s.tracks \in Seq(TrackDefs) /\ Len(s.tracks) <= MaxTracks
    <2>1. Word \subseteq Nat
      BY DEF Word
    <2>2. QED
      BY <2>1 DEF SectionDefs
  <1>1. /\ s.tracks \in Seq(TrackDefs) /\ Len(s.tracks) \in Nat
        /\ Len(s.tracks) <= MaxTracks /\ MaxTracks \in Nat
    BY <1>0, LimitsAssumption
  <1>2. \A k \in 1 .. Len(s.tracks) : s.tracks[k] \in TrackDefs
    BY <1>1
  <1>3. Min({Len(s.tracks), MaxTracks}) = Len(s.tracks)
    BY <1>1, MinOfTwo
  <1>4. \A k \in 1 .. Len(s.tracks) : TrackParts(s.tracks[k]) \in Seq(Parts)
    BY <1>2, TrackWritten
  <1>5. TracksOf(s) \in Seq(Seq(Parts)) /\ Len(TracksOf(s)) = Len(s.tracks)
    BY <1>1, <1>4 DEF TracksOf
  <1>6. SubSeq(TracksOf(s), 0 + 1, Len(TracksOf(s))) = TracksOf(s)
    <2>1. 0 + 1 = 1
      OBVIOUS
    <2>2. QED
      BY <1>5, <2>1, SubSeqFull, Zenon
  <1>7. SectionParts(s) = <<SectionHeader(s)>> \o From(TracksOf(s), 0)
    BY <1>3, <1>6, Zenon DEF SectionParts, SectionHeader, From, TracksOf
  <1>8. SectionHeader(s) \in SectionPart
    BY <1>0, <1>1 DEF SectionHeader, SectionPart
  <1>9. SectionParts(s) \in Seq(Parts)
    <2>1. 0 \in 0 .. Len(TracksOf(s))
      BY <1>1, <1>5
    <2>2. From(TracksOf(s), 0) \in Seq(Parts)
      BY <1>5, <2>1, FromStep, Zenon
    <2>3. SectionHeader(s) \in Parts
      BY <1>8 DEF Parts
    <2>4. <<SectionHeader(s)>> \in Seq(Parts)
      BY <2>3
    <2>5. QED
      BY <1>7, <2>2, <2>4, ConcatProperties, Zenon
  <1>10. QED
    BY <1>1, <1>2, <1>5, <1>7, <1>8, <1>9, Zenon

LEMMA StyleWritten ==
  ASSUME NEW st \in Storable
  PROVE  /\ Serialized(st) = <<FileHeader(st)>> \o From(SectionsOf(st), 0)
         /\ FileHeader(st) \in FilePart
         /\ st.sections \in Seq(SectionDefs) /\ Len(st.sections) \in Nat
         /\ \A i \in 1 .. Len(st.sections) : st.sections[i] \in SectionDefs
         /\ SectionsOf(st) \in Seq(Seq(Parts)) /\ Len(SectionsOf(st)) = Len(st.sections)
         /\ From(SectionsOf(st), 0) \in Seq(Parts)
         /\ Serialized(st) \in Seq(Parts)
  <1>1. /\ st.sections \in Seq(SectionDefs) /\ Len(st.sections) \in Nat
        /\ Len(st.sections) <= MaxSections /\ MaxSections \in Nat
    BY LimitsAssumption DEF Storable
  <1>2. \A i \in 1 .. Len(st.sections) : st.sections[i] \in SectionDefs
    BY <1>1
  <1>3. Min({Len(st.sections), MaxSections}) = Len(st.sections)
    BY <1>1, MinOfTwo
  <1>4. \A i \in 1 .. Len(st.sections) : SectionParts(st.sections[i]) \in Seq(Parts)
    BY <1>2, SectionWritten
  <1>5. SectionsOf(st) \in Seq(Seq(Parts)) /\ Len(SectionsOf(st)) = Len(st.sections)
    BY <1>1, <1>4 DEF SectionsOf
  <1>6. SubSeq(SectionsOf(st), 0 + 1, Len(SectionsOf(st))) = SectionsOf(st)
    <2>1. 0 + 1 = 1
      OBVIOUS
    <2>2. QED
      BY <1>5, <2>1, SubSeqFull, Zenon
  <1>7. Serialized(st) = <<FileHeader(st)>> \o From(SectionsOf(st), 0)
    BY <1>3, <1>6, Zenon DEF Serialized, FileHeader, From, SectionsOf
  <1>8. FileHeader(st) \in FilePart
    BY <1>1 DEF FileHeader, FilePart
  <1>9. Serialized(st) \in Seq(Parts) /\ From(SectionsOf(st), 0) \in Seq(Parts)
    <2>1. 0 \in 0 .. Len(SectionsOf(st))
      BY <1>1, <1>5
    <2>2. From(SectionsOf(st), 0) \in Seq(Parts)
      BY <1>5, <2>1, FromStep, Zenon
    <2>3. FileHeader(st) \in Parts
      BY <1>8 DEF Parts
    <2>4. <<FileHeader(st)>> \in Seq(Parts)
      BY <2>3
    <2>5. QED
      BY <1>7, <2>2, <2>4, ConcatProperties, Zenon
  <1>10. QED
    BY <1>1, <1>2, <1>5, <1>7, <1>8, <1>9, Zenon

(***************************************************************************)
(* Part 5: sequences.  The rest of a prefix, and a first member taken off. *)
(***************************************************************************)
Lost(st, d) == SubSeq(Serialized(st), Len(d) + 1, Len(Serialized(st)))

LEMMA PrefixAndRest ==
  ASSUME NEW T, NEW f \in Seq(T), NEW d \in Prefixes(f)
  PROVE  LET l == SubSeq(f, Len(d) + 1, Len(f))
         IN  /\ d \in Seq(T) /\ l \in Seq(T) /\ d \o l = f
             /\ d = f <=> l = <<>>
  <1>1. PICK n \in 0 .. Len(f) : d = SubSeq(f, 1, n)
    BY DEF Prefixes
  <1>2. Len(f) \in Nat /\ n \in Nat /\ n <= Len(f)
    OBVIOUS
  <1>3. d \in Seq(T) /\ Len(d) = n
    BY <1>1, <1>2
  <1> DEFINE l == SubSeq(f, n + 1, Len(f))
  <1>4. l \in Seq(T) /\ Len(l) = Len(f) - n
    <2>1. \A i \in n + 1 .. Len(f) : f[i] \in T
      BY <1>2
    <2>2. /\ l \in Seq(T)
          /\ Len(l) = IF n + 1 <= Len(f) THEN Len(f) - (n + 1) + 1 ELSE 0
      BY <1>2, <2>1, SubSeqProperties
    <2>3. QED
      BY <1>2, <2>2
  <1>5. d \o l = f
    <2>1. 1 \in 1 .. Len(f) + 1 /\ n \in 1 - 1 .. Len(f) /\ Len(f) \in n .. Len(f)
      BY <1>2
    <2>2. SubSeq(f, 1, n) \o SubSeq(f, n + 1, Len(f)) = SubSeq(f, 1, Len(f))
      BY <2>1, ConcatAdjacentSubSeq, Zenon
    <2>3. SubSeq(f, 1, Len(f)) = f
      BY SubSeqFull, Zenon
    <2>4. QED
      BY <1>1, <2>2, <2>3, Zenon
  <1> HIDE DEF l
  <1>6. d = f <=> l = <<>>
    <2>1. ASSUME d = f PROVE l = <<>>
      BY <1>3, <1>4, <2>1
    <2>2. ASSUME l = <<>> PROVE d = f
      BY <1>3, <1>5, <2>2, ConcatEmptySeq, Zenon
    <2>3. QED
      BY <2>1, <2>2, Zenon
  <1>7. QED
    BY <1>3, <1>4, <1>5, <1>6, Zenon DEF l

\* There is more of r, and with l behind it x is the first and m the rest.
StartsWith(r, l, x, m) == r # <<>> /\ r \o l = <<x>> \o m

LEMMA FirstOff ==
  ASSUME NEW T, NEW r \in Seq(T), NEW l \in Seq(T), NEW x \in T, NEW m \in Seq(T),
         StartsWith(r, l, x, m)
  PROVE  Head(r) = x /\ Tail(r) \in Seq(T) /\ Tail(r) \o l = m
  <1>0. r # <<>> /\ r \o l = <<x>> \o m
    BY DEF StartsWith
  <1>1. /\ Head(r) = r[1] /\ Tail(r) \in Seq(T) /\ Len(r) \in Nat \ {0}
        /\ Len(Tail(r)) = Len(r) - 1
        /\ \A i \in 1 .. Len(r) - 1 : Tail(r)[i] = r[i + 1]
    BY <1>0
  <1> DEFINE u == Tail(r)
  <1>2. /\ Len(r \o l) = Len(r) + Len(l)
        /\ \A i \in 1 .. Len(r) + Len(l) :
             (r \o l)[i] = IF i <= Len(r) THEN r[i] ELSE l[i - Len(r)]
    BY ConcatProperties
  <1>3. <<x>> \in Seq(T) /\ Len(<<x>>) = 1 /\ <<x>>[1] = x
    OBVIOUS
  <1>4. /\ Len(<<x>> \o m) = 1 + Len(m)
        /\ \A i \in 1 .. 1 + Len(m) :
             (<<x>> \o m)[i] = IF i <= 1 THEN <<x>>[i] ELSE m[i - 1]
    BY <1>3, ConcatProperties
  <1> HIDE DEF u
  <1>5. u \in Seq(T) /\ Len(u) = Len(r) - 1 /\ \A i \in 1 .. Len(r) - 1 : u[i] = r[i + 1]
    BY <1>1 DEF u
  <1>6. /\ u \o l \in Seq(T) /\ Len(u \o l) = Len(u) + Len(l)
        /\ \A i \in 1 .. Len(u) + Len(l) :
             (u \o l)[i] = IF i <= Len(u) THEN u[i] ELSE l[i - Len(u)]
    BY <1>5, ConcatProperties
  <1> DEFINE y == r \o l
             z == <<x>> \o m
             v == u \o l
  <1>7. y = z
    BY <1>0
  <1> HIDE DEF y, z, v
  <1>8. Len(l) \in Nat /\ Len(m) \in Nat /\ Len(y) = Len(r) + Len(l) /\ Len(z) = 1 + Len(m)
    BY <1>2, <1>4 DEF y, z
  <1>9. Head(r) = x
    <2>1. 1 \in 1 .. Len(r) + Len(l) /\ 1 <= Len(r) /\ 1 \in 1 .. 1 + Len(m)
      BY <1>1, <1>8
    <2>2. y[1] = r[1] /\ z[1] = x
      BY <1>2, <1>3, <1>4, <2>1 DEF y, z
    <2>3. QED
      BY <1>1, <1>7, <2>2
  <1>10. v \in Seq(T) /\ Len(v) = Len(m)
    <2>1. v \in Seq(T) /\ Len(v) = Len(u) + Len(l)
      BY <1>6, Zenon DEF v
    <2>2. Len(r) + Len(l) = 1 + Len(m)
      BY <1>7, <1>8, Zenon
    <2>3. Len(u) = Len(r) - 1 /\ Len(r) \in Nat /\ Len(l) \in Nat /\ Len(m) \in Nat
      BY <1>1, <1>5, <1>8, Zenon
    <2>4. QED
      BY <2>1, <2>2, <2>3
  <1>11. \A i \in 1 .. Len(v) : v[i] = m[i]
    <2> SUFFICES ASSUME NEW i \in 1 .. Len(v) PROVE v[i] = m[i]
      OBVIOUS
    <2>1. /\ i + 1 \in 1 .. Len(r) + Len(l) /\ i + 1 \in 1 .. 1 + Len(m)
          /\ i \in 1 .. Len(u) + Len(l) /\ i + 1 - 1 = i /\ ~ (i + 1 <= 1)
          /\ i + 1 - Len(r) = i - Len(u) /\ (i + 1 <= Len(r) <=> i <= Len(u))
          /\ i <= Len(u) => i \in 1 .. Len(r) - 1
      BY <1>1, <1>5, <1>7, <1>8, <1>10
    <2>2. z[i + 1] = m[i]
      BY <1>4, <2>1 DEF z
    <2>3. y[i + 1] = v[i]
      <3>1. y[i + 1] = IF i <= Len(u) THEN r[i + 1] ELSE l[i - Len(u)]
        BY <1>2, <2>1, SMTT(30) DEF y
      <3>2. v[i] = IF i <= Len(u) THEN u[i] ELSE l[i - Len(u)]
        BY <1>6, <2>1 DEF v
      <3>3. i <= Len(u) => u[i] = r[i + 1]
        BY <1>5, <2>1
      <3>4. QED
        BY <3>1, <3>2, <3>3, Zenon
    <2>4. QED
      BY <1>7, <2>2, <2>3, Zenon
  <1>12. v = m
    BY <1>10, <1>11, SeqEqual
  <1>13. QED
    BY <1>1, <1>9, <1>12 DEF u, v

(***************************************************************************)
(* Part 6: what has been read, compared with what was saved.  "done" says  *)
(* that nothing of it is still to be read.                                 *)
(***************************************************************************)
ReadEvents == [tick : Nat, type : Nibble, channel : Nibble, d1 : Byte, d2 : Byte]
ReadTracks ==
  [channel : Byte, role : STRING, drum : BOOLEAN, named : BOOLEAN, events : Seq(ReadEvents)]
ReadSections ==
  [type : STRING, bars : Nat, resolution : Nat, tracks : Seq(ReadTracks)]

EventMatches(m, e, timed) ==
  /\ m.type = e.type /\ m.channel = e.channel /\ m.d1 = e.d1 /\ m.d2 = e.d2
  /\ timed => m.tick = e.tick

TrackMatches(m, t, done) ==
  /\ m.channel = t.channel /\ m.role = t.role /\ m.drum = t.drum /\ m.named = t.named
  /\ Len(m.events) <= Len(t.events)
  /\ done => Len(m.events) = Len(t.events)
  /\ \A j \in 1 .. Len(m.events) : EventMatches(m.events[j], t.events[j], Steady(t))

SectionMatches(m, s, done) ==
  /\ m.type = s.type /\ m.bars = s.bars /\ m.resolution = s.resolution
  /\ Len(m.tracks) <= Len(s.tracks)
  /\ done => Len(m.tracks) = Len(s.tracks)
  /\ \A k \in 1 .. Len(m.tracks) :
       TrackMatches(m.tracks[k], s.tracks[k], done \/ k < Len(m.tracks))

StyleMatches(ld, st, done) ==
  /\ ld \in Seq(ReadSections)
  /\ Len(ld) <= Len(st.sections)
  /\ done => Len(ld) = Len(st.sections)
  /\ \A i \in 1 .. Len(ld) :
       SectionMatches(ld[i], st.sections[i], done \/ i < Len(ld))

(***************************************************************************)
(* Part 7: where the reader is, and what remains to be read from there.    *)
(***************************************************************************)
TracksRead(ld) == IF ld = <<>> THEN 0 ELSE Len(ld[Len(ld)].tracks)
EventsRead(ld) ==
  IF TracksRead(ld) = 0 THEN 0 ELSE Len(ld[Len(ld)].tracks[TracksRead(ld)].events)

ThisSection(st, ld) == st.sections[Len(ld)]
ThisTrack(st, ld) == ThisSection(st, ld).tracks[TracksRead(ld)]

RestOfTracks(st, ld) ==
  IF ld = <<>> THEN <<>> ELSE From(TracksOf(ThisSection(st, ld)), TracksRead(ld))
RestOfEvents(st, ld) ==
  IF TracksRead(ld) = 0 THEN <<>> ELSE EventsFrom(ThisTrack(st, ld), EventsRead(ld))

Remaining(st, ld, named) ==
  NameOf(named)
    \o (RestOfEvents(st, ld) \o (RestOfTracks(st, ld) \o From(SectionsOf(st), Len(ld))))

Counters == [sections : Nat, tracks : Nat, events : Nat, name : BOOLEAN, clock : Nat]

Counts(st, ld, td) ==
  /\ td \in Counters
  /\ td.sections = Len(st.sections) - Len(ld)
  /\ td.tracks = IF ld = <<>> THEN 0 ELSE Len(ThisSection(st, ld).tracks) - TracksRead(ld)
  /\ td.events = IF TracksRead(ld) = 0 THEN 0
                 ELSE Len(ThisTrack(st, ld).events) - EventsRead(ld)
  /\ TracksRead(ld) # 0 =>
       /\ EventsRead(ld) = 0 => td.clock = 0
       /\ EventsRead(ld) # 0 /\ Steady(ThisTrack(st, ld)) =>
            td.clock = ThisTrack(st, ld).events[EventsRead(ld)].tick

LEMMA CursorFacts ==
  ASSUME NEW st \in Storable, NEW ld, StyleMatches(ld, st, FALSE)
  PROVE  /\ Len(ld) \in 0 .. Len(st.sections) /\ Len(st.sections) \in Nat
         /\ From(SectionsOf(st), Len(ld)) \in Seq(Parts)
         /\ ld # <<>> =>
              /\ Len(ld) \in 1 .. Len(st.sections) /\ Len(ld) \in 1 .. Len(ld)
              /\ ld[Len(ld)] \in ReadSections
              /\ ThisSection(st, ld) \in SectionDefs
              /\ SectionMatches(ld[Len(ld)], ThisSection(st, ld), FALSE)
              /\ TracksRead(ld) \in 0 .. Len(ThisSection(st, ld).tracks)
              /\ Len(ThisSection(st, ld).tracks) \in Nat
         /\ TracksRead(ld) # 0 =>
              /\ ld # <<>> /\ TracksRead(ld) \in 1 .. TracksRead(ld)
              /\ TracksRead(ld) \in 1 .. Len(ThisSection(st, ld).tracks)
              /\ ld[Len(ld)].tracks[TracksRead(ld)] \in ReadTracks
              /\ ThisTrack(st, ld) \in TrackDefs
              /\ TrackMatches(ld[Len(ld)].tracks[TracksRead(ld)], ThisTrack(st, ld), FALSE)
              /\ EventsRead(ld) \in 0 .. Len(ThisTrack(st, ld).events)
              /\ Len(ThisTrack(st, ld).events) \in Nat
         /\ RestOfTracks(st, ld) \in Seq(Parts) /\ RestOfEvents(st, ld) \in Seq(Parts)
         /\ TracksRead(ld) \in Nat /\ EventsRead(ld) \in Nat
  <1> DEFINE n == Len(ld)
             k == TracksRead(ld)
             s == ThisSection(st, ld)
             t == ThisTrack(st, ld)
             m == ld[n].tracks[k]
  <1>1. /\ st.sections \in Seq(SectionDefs) /\ Len(st.sections) \in Nat
        /\ \A i \in 1 .. Len(st.sections) : st.sections[i] \in SectionDefs
        /\ SectionsOf(st) \in Seq(Seq(Parts)) /\ Len(SectionsOf(st)) = Len(st.sections)
    BY StyleWritten
  <1>2. ld \in Seq(ReadSections) /\ n <= Len(st.sections) /\ n \in Nat
    BY DEF StyleMatches
  <1>3. n \in 0 .. Len(st.sections) /\ From(SectionsOf(st), n) \in Seq(Parts)
    <2>1. n \in 0 .. Len(st.sections)
      BY <1>1, <1>2
    <2>2. QED
      BY <1>1, <2>1, FromStep, Zenon
  <1>4. ASSUME ld # <<>>
        PROVE  /\ n \in 1 .. Len(st.sections) /\ n \in 1 .. n
               /\ ld[n] \in ReadSections /\ s \in SectionDefs
               /\ SectionMatches(ld[n], s, FALSE)
               /\ k \in 0 .. Len(s.tracks) /\ k = Len(ld[n].tracks) /\ Len(s.tracks) \in Nat
               /\ ld[n].tracks \in Seq(ReadTracks)
    <2>1. n \in 1 .. Len(st.sections) /\ n \in 1 .. n /\ ~ (n < n)
      BY <1>1, <1>2, <1>4
    <2>2. ld[n] \in ReadSections
      BY <1>2, <2>1
    <2>3. s \in SectionDefs /\ SectionMatches(ld[n], s, FALSE)
      BY <1>1, <2>1, Zenon DEF StyleMatches, ThisSection
    <2>4. Len(s.tracks) \in Nat
      BY <2>3, SectionWritten
    <2>5. ld[n].tracks \in Seq(ReadTracks)
      BY <2>2 DEF ReadSections
    <2>6. k = Len(ld[n].tracks)
      BY <1>4, Zenon DEF TracksRead
    <2>7. Len(ld[n].tracks) <= Len(s.tracks)
      BY <2>3, Zenon DEF SectionMatches
    <2>8. k \in 0 .. Len(s.tracks)
      BY <2>4, <2>5, <2>6, <2>7
    <2>9. QED
      BY <2>1, <2>2, <2>3, <2>4, <2>5, <2>6, <2>8
  <1>5. ASSUME k # 0
        PROVE  /\ ld # <<>> /\ k \in 1 .. k /\ k \in 1 .. Len(s.tracks)
               /\ m \in ReadTracks /\ t \in TrackDefs
               /\ TrackMatches(m, t, FALSE)
               /\ EventsRead(ld) \in 0 .. Len(t.events) /\ Len(t.events) \in Nat
    <2>1. ld # <<>>
      BY <1>5, Zenon DEF TracksRead
    <2>2. k \in 1 .. k /\ k \in 1 .. Len(s.tracks) /\ k \in 1 .. Len(ld[n].tracks)
      BY <1>4, <1>5, <2>1
    <2>3. m \in ReadTracks
      BY <1>4, <2>1, <2>2
    <2>4. t \in TrackDefs
      BY <1>4, <2>1, <2>2, SectionWritten, Zenon DEF ThisTrack
    <2>5. TrackMatches(m, t, FALSE)
      <3>1. ~ (k < Len(ld[n].tracks))
        BY <1>4, <2>1
      <3>2. QED
        BY <1>4, <2>1, <2>2, <3>1, Zenon DEF SectionMatches, ThisTrack
    <2>6. Len(t.events) \in Nat
      BY <2>4, EventsWritten
    <2>7. EventsRead(ld) = Len(m.events)
      BY <1>5, Zenon DEF EventsRead
    <2>8. EventsRead(ld) \in 0 .. Len(t.events)
      <3>1. Len(m.events) \in Nat
        BY <2>3 DEF ReadTracks
      <3>2. Len(m.events) <= Len(t.events)
        BY <2>5, Zenon DEF TrackMatches
      <3>3. QED
        BY <2>6, <2>7, <3>1, <3>2
    <2>9. QED
      BY <2>1, <2>2, <2>3, <2>4, <2>5, <2>6, <2>8
  <1>6. RestOfTracks(st, ld) \in Seq(Parts)
    <2>1. CASE ld = <<>>
      <3>1. RestOfTracks(st, ld) = <<>>
        BY <2>1, Zenon DEF RestOfTracks
      <3>2. QED
        BY <3>1
    <2>2. CASE ld # <<>>
      <3>1. RestOfTracks(st, ld) = From(TracksOf(s), k)
        BY <2>2, Zenon DEF RestOfTracks
      <3>2. TracksOf(s) \in Seq(Seq(Parts)) /\ Len(TracksOf(s)) = Len(s.tracks)
        BY <1>4, <2>2, SectionWritten, Zenon
      <3>3. k \in 0 .. Len(TracksOf(s))
        BY <1>4, <2>2, <3>2
      <3>4. QED
        BY <3>1, <3>2, <3>3, FromStep, Zenon
    <2>3. QED
      BY <2>1, <2>2, Zenon
  <1>7. RestOfEvents(st, ld) \in Seq(Parts)
    <2>1. CASE k = 0
      <3>1. RestOfEvents(st, ld) = <<>>
        BY <2>1, Zenon DEF RestOfEvents
      <3>2. QED
        BY <3>1
    <2>2. CASE k # 0
      <3> DEFINE ps == EventParts(t.events)
                 e == EventsRead(ld)
      <3>1. RestOfEvents(st, ld) = SubSeq(ps, e + 1, Len(t.events))
        BY <2>2, Zenon DEF RestOfEvents, EventsFrom
      <3>2. ps \in Seq(Parts) /\ Len(ps) = Len(t.events)
        BY <1>5, <2>2, EventsWritten, Zenon
      <3>3. e \in 0 .. Len(t.events) /\ Len(t.events) \in Nat
        BY <1>5, <2>2
      <3> HIDE DEF ps, e
      <3>4. \A i \in e + 1 .. Len(t.events) : ps[i] \in Parts
        BY <3>2, <3>3
      <3>5. QED
        BY <3>1, <3>3, <3>4, SubSeqProperties
    <2>3. QED
      BY <2>1, <2>2, Zenon
  <1>8. k \in Nat /\ EventsRead(ld) \in Nat
    <2>1. k \in Nat
      <3>1. CASE ld = <<>>
        BY <3>1 DEF TracksRead
      <3>2. CASE ld # <<>>
        BY <1>4, <3>2
      <3>3. QED
        BY <3>1, <3>2
    <2>2. EventsRead(ld) \in Nat
      <3>1. CASE k = 0
        BY <3>1 DEF EventsRead
      <3>2. CASE k # 0
        BY <1>5, <3>2
      <3>3. QED
        BY <3>1, <3>2
    <2>3. QED
      BY <2>1, <2>2
  <1> HIDE DEF n, k, s, t, m
  <1>9. QED
    BY <1>1, <1>3, <1>4, <1>5, <1>6, <1>7, <1>8, Zenon DEF n, k, s, t, m

LEMMA EventsDone ==
  ASSUME NEW st \in Storable, NEW ld, StyleMatches(ld, st, FALSE),
         NEW td, Counts(st, ld, td), td.events = 0
  PROVE  /\ RestOfEvents(st, ld) = <<>>
         /\ TracksRead(ld) # 0 =>
              TrackMatches(ld[Len(ld)].tracks[TracksRead(ld)], ThisTrack(st, ld), TRUE)
  <1> DEFINE t == ThisTrack(st, ld)
             m == ld[Len(ld)].tracks[TracksRead(ld)]
  <1>1. CASE TracksRead(ld) = 0
    BY <1>1, Zenon DEF RestOfEvents
  <1>2. CASE TracksRead(ld) # 0
    <2>1. TrackMatches(m, t, FALSE) /\ EventsRead(ld) \in Nat /\ Len(t.events) \in Nat
      BY <1>2, CursorFacts, Zenon
    <2>2. 0 = Len(t.events) - EventsRead(ld)
      BY <1>2, Zenon DEF Counts
    <2> HIDE DEF t, m
    <2>3. EventsRead(ld) = Len(t.events)
      BY <2>1, <2>2
    <2>4. EventsRead(ld) = Len(m.events)
      BY <1>2, Zenon DEF EventsRead, m
    <2>5. TrackMatches(m, t, TRUE)
      BY <2>1, <2>3, <2>4, Zenon DEF TrackMatches
    <2>6. RestOfEvents(st, ld) = <<>>
      <3>1. RestOfEvents(st, ld) = SubSeq(EventParts(t.events), Len(t.events) + 1, Len(t.events))
        BY <1>2, <2>3, Zenon DEF RestOfEvents, EventsFrom, t
      <3>2. Len(t.events) + 1 \in Int /\ Len(t.events) \in Int /\ Len(t.events) < Len(t.events) + 1
        BY <2>1
      <3>3. QED
        BY <3>1, <3>2, SubSeqEmpty, Zenon
    <2>7. QED
      BY <2>5, <2>6, Zenon DEF t, m
  <1>3. QED
    BY <1>1, <1>2, Zenon

LEMMA SectionIsDone ==
  ASSUME NEW st \in Storable, NEW ld, StyleMatches(ld, st, FALSE),
         NEW td, Counts(st, ld, td), td.events = 0, td.tracks = 0
  PROVE  /\ RestOfTracks(st, ld) = <<>>
         /\ \A i \in 1 .. Len(ld) : SectionMatches(ld[i], st.sections[i], TRUE)
  <1> DEFINE s == ThisSection(st, ld)
             m == ld[Len(ld)]
             k == TracksRead(ld)
  <1>1. CASE ld = <<>>
    <2>1. Len(ld) = 0
      BY <1>1
    <2>2. \A i \in 1 .. 0 : FALSE
      OBVIOUS
    <2>3. QED
      BY <1>1, <2>1, <2>2, Zenon DEF RestOfTracks
  <1>2. CASE ld # <<>>
    <2>1. /\ SectionMatches(m, s, FALSE) /\ k \in Nat /\ Len(s.tracks) \in Nat
          /\ Len(ld) \in 1 .. Len(ld) /\ Len(ld) \in Nat /\ s \in SectionDefs
      <3>1. Len(ld) \in 0 .. Len(st.sections) /\ Len(st.sections) \in Nat
        BY CursorFacts, Zenon
      <3>2. Len(ld) \in Nat
        BY <3>1
      <3>3. QED
        BY <1>2, <3>2, CursorFacts, Zenon
    <2>2. 0 = Len(s.tracks) - k /\ k = Len(m.tracks)
      BY <1>2, Zenon DEF Counts, TracksRead
    <2>3. k # 0 => TrackMatches(m.tracks[k], s.tracks[k], TRUE)
      BY EventsDone, Zenon DEF ThisTrack
    <2> HIDE DEF s, m, k
    <2>4. Len(s.tracks) = Len(m.tracks) /\ k = Len(s.tracks)
      BY <2>1, <2>2
    <2>5. \A j \in 1 .. Len(m.tracks) : TrackMatches(m.tracks[j], s.tracks[j], TRUE)
      <3> SUFFICES ASSUME NEW j \in 1 .. Len(m.tracks)
                   PROVE  TrackMatches(m.tracks[j], s.tracks[j], TRUE)
        OBVIOUS
      <3>1. CASE j = k
        <4>1. k # 0
          BY <3>1
        <4>2. QED
          BY <2>3, <3>1, <4>1
      <3>2. CASE j # k
        <4>1. j < Len(m.tracks)
          BY <2>1, <2>2, <3>2
        <4>2. TrackMatches(m.tracks[j], s.tracks[j], FALSE \/ j < Len(m.tracks))
          BY <2>1, Zenon DEF SectionMatches
        <4>3. (FALSE \/ j < Len(m.tracks)) = TRUE
          BY <4>1
        <4>4. QED
          BY <4>2, <4>3, Zenon
      <3>3. QED
        BY <3>1, <3>2
    <2>6. SectionMatches(m, s, TRUE)
      <3>1. \A j \in 1 .. Len(m.tracks) :
              TrackMatches(m.tracks[j], s.tracks[j], TRUE \/ j < Len(m.tracks))
        <4>1. \A j \in 1 .. Len(m.tracks) : (TRUE \/ j < Len(m.tracks)) = TRUE
          OBVIOUS
        <4>2. QED
          BY <2>5, <4>1, Zenon
      <3>2. QED
        BY <2>1, <2>4, <3>1, Zenon DEF SectionMatches
    <2>7. RestOfTracks(st, ld) = <<>>
      <3>1. RestOfTracks(st, ld) = From(TracksOf(s), k)
        BY <1>2, Zenon DEF RestOfTracks, s, k
      <3>2. TracksOf(s) \in Seq(Seq(Parts)) /\ Len(TracksOf(s)) = Len(s.tracks)
        BY <2>1, SectionWritten, Zenon
      <3>3. k \in 0 .. Len(TracksOf(s)) /\ k = Len(TracksOf(s))
        BY <2>1, <2>4, <3>2
      <3>4. QED
        BY <3>1, <3>2, <3>3, FromStep, Zenon
    <2>8. \A i \in 1 .. Len(ld) : SectionMatches(ld[i], st.sections[i], TRUE)
      <3> SUFFICES ASSUME NEW i \in 1 .. Len(ld)
                   PROVE  SectionMatches(ld[i], st.sections[i], TRUE)
        OBVIOUS
      <3>1. CASE i = Len(ld)
        BY <2>6, <3>1, Zenon DEF m, s, ThisSection
      <3>2. CASE i # Len(ld)
        <4>1. i < Len(ld)
          BY <2>1, <3>2
        <4>2. SectionMatches(ld[i], st.sections[i], FALSE \/ i < Len(ld))
          BY Zenon DEF StyleMatches
        <4>3. (FALSE \/ i < Len(ld)) = TRUE
          BY <4>1
        <4>4. QED
          BY <4>2, <4>3, Zenon
      <3>3. QED
        BY <3>1, <3>2
    <2>9. QED
      BY <2>7, <2>8
  <1>3. QED
    BY <1>1, <1>2, Zenon

(***************************************************************************)
(* Part 8: a part is read.  A section header, a track header, a name or an *)
(* event is the first of what remains, and the rest remains when it has    *)
(* been read.                                                              *)
(***************************************************************************)
SectionRead(h) ==
  [type |-> h.type, bars |-> h.bars, resolution |-> h.resolution, tracks |-> <<>>]

LEMMA SectionHeaderRead ==
  ASSUME NEW st \in Storable, NEW ld, StyleMatches(ld, st, FALSE),
         NEW td, Counts(st, ld, td),
         td.events = 0, td.tracks = 0, ~ td.name, td.sections > 0,
         NEW h, h = SectionHeader(st.sections[Len(ld) + 1]),
         NEW ld2, ld2 = Append(ld, SectionRead(h)),
         NEW td2, td2 = [td EXCEPT !.sections = @ - 1, !.tracks = h.tracks]
  PROVE  /\ h \in Parts /\ Remaining(st, ld2, td2.name) \in Seq(Parts)
         /\ Remaining(st, ld, td.name) = <<h>> \o Remaining(st, ld2, td2.name)
         /\ StyleMatches(ld2, st, FALSE) /\ Counts(st, ld2, td2)
  <1> DEFINE n == Len(ld)
             s == st.sections[n + 1]
             q == SectionsOf(st)
  <1>1. /\ td \in Counters /\ n \in Nat /\ Len(st.sections) \in Nat
        /\ td.sections = Len(st.sections) - n
        /\ ld \in Seq(ReadSections)
    <2>1. Len(ld) \in 0 .. Len(st.sections) /\ Len(st.sections) \in Nat
      BY CursorFacts, Zenon
    <2>2. QED
      BY <2>1 DEF Counts, StyleMatches
  <1>2. n + 1 \in 1 .. Len(st.sections) /\ n < Len(st.sections) /\ n \in 0 .. Len(st.sections)
        /\ n + 1 \in 0 .. Len(st.sections)
    BY <1>1
  <1>3. /\ s \in SectionDefs /\ q \in Seq(Seq(Parts)) /\ Len(q) = Len(st.sections)
        /\ q[n + 1] = SectionParts(s)
    BY <1>2, StyleWritten, Zenon DEF SectionsOf
  <1>4. /\ SectionParts(s) = <<h>> \o From(TracksOf(s), 0)
        /\ h \in SectionPart
        /\ TracksOf(s) \in Seq(Seq(Parts)) /\ Len(TracksOf(s)) = Len(s.tracks)
        /\ Len(s.tracks) \in Nat
    BY <1>3, SectionWritten, Zenon
  <1>5. /\ h \in Parts /\ h.type = s.type /\ h.bars = s.bars /\ h.resolution = s.resolution
        /\ h.tracks = Len(s.tracks) /\ h.type \in STRING /\ h.bars \in Nat /\ h.resolution \in Nat
    <2>1. /\ h.type = s.type /\ h.bars = s.bars /\ h.resolution = s.resolution
          /\ h.tracks = Len(s.tracks)
      BY DEF SectionHeader
    <2>2. h.type \in STRING /\ h.bars \in Nat /\ h.resolution \in Nat
      BY <1>4 DEF SectionPart
    <2>3. h \in Parts
      BY <1>4, Zenon DEF Parts
    <2>4. QED
      BY <2>1, <2>2, <2>3
  <1> DEFINE x == SectionRead(h)
  <1>6. x \in ReadSections
    BY <1>5 DEF SectionRead, ReadSections
  <1>7. x.type = s.type /\ x.bars = s.bars /\ x.resolution = s.resolution /\ Len(x.tracks) = 0
        /\ x.tracks = <<>>
    BY <1>5 DEF SectionRead
  <1> HIDE DEF x
  <1>8. /\ ld2 \in Seq(ReadSections) /\ ld2 # <<>> /\ Len(ld2) = n + 1 /\ ld2[n + 1] = x
        /\ \A i \in 1 .. n : ld2[i] = ld[i]
    <2>1. ld2 = Append(ld, x)
      BY DEF x
    <2>2. QED
      BY <1>1, <1>6, <2>1, AppendProperties
  <1> HIDE DEF n, s, q
  <1>9. TracksRead(ld2) = 0 /\ EventsRead(ld2) = 0 /\ ThisSection(st, ld2) = s
    <2>1. TracksRead(ld2) = 0
      BY <1>7, <1>8, Zenon DEF TracksRead
    <2>2. EventsRead(ld2) = 0
      BY <2>1, Zenon DEF EventsRead
    <2>3. ThisSection(st, ld2) = s
      BY <1>8, Zenon DEF ThisSection, s, n
    <2>4. QED
      BY <2>1, <2>2, <2>3
  <1>10. SectionMatches(x, s, FALSE)
    <2>1. \A k \in 1 .. 0 : FALSE
      OBVIOUS
    <2>2. 0 <= Len(s.tracks)
      BY <1>4
    <2>3. QED
      BY <1>7, <2>1, <2>2, Zenon DEF SectionMatches
  <1>11. StyleMatches(ld2, st, FALSE)
    <2>1. Len(ld2) <= Len(st.sections)
      BY <1>2, <1>8
    <2>2. \A i \in 1 .. Len(ld2) : SectionMatches(ld2[i], st.sections[i], FALSE \/ i < Len(ld2))
      <3> SUFFICES ASSUME NEW i \in 1 .. Len(ld2)
                   PROVE  SectionMatches(ld2[i], st.sections[i], FALSE \/ i < Len(ld2))
        OBVIOUS
      <3>1. CASE i = n + 1
        <4>1. (FALSE \/ i < Len(ld2)) = FALSE
          BY <1>1, <1>8, <3>1 DEF n
        <4>2. QED
          BY <1>8, <1>10, <3>1, <4>1, Zenon DEF s
      <3>2. CASE i # n + 1
        <4>1. (FALSE \/ i < Len(ld2)) = TRUE /\ i \in 1 .. n
          BY <1>1, <1>8, <3>2 DEF n
        <4>2. SectionMatches(ld[i], st.sections[i], TRUE)
          BY <4>1, SectionIsDone, Zenon DEF n
        <4>3. QED
          BY <1>8, <4>1, <4>2, Zenon
      <3>3. QED
        BY <3>1, <3>2
    <2>3. QED
      BY <1>8, <2>1, <2>2, Zenon DEF StyleMatches
  <1>12. Counts(st, ld2, td2)
    <2>1. /\ td2 \in Counters /\ td2.sections = td.sections - 1 /\ td2.tracks = Len(s.tracks)
          /\ td2.events = 0 /\ td2.name = td.name
      <3>1. td.sections - 1 \in Nat /\ h.tracks \in Nat
        BY <1>1, <1>4, <1>5 DEF Counters
      <3>2. QED
        BY <1>1, <1>5, <3>1 DEF Counters
    <2>2. td2.sections = Len(st.sections) - Len(ld2)
      BY <1>1, <1>8, <2>1 DEF n
    <2>3. td2.tracks = Len(ThisSection(st, ld2).tracks) - TracksRead(ld2)
      BY <1>4, <1>9, <2>1
    <2>4. QED
      BY <1>8, <1>9, <2>1, <2>2, <2>3, Zenon DEF Counts
  <1>13. td2.name = FALSE /\ td.name = FALSE
    BY <1>1 DEF Counters
  <1> DEFINE a == From(TracksOf(s), 0)
             b == From(q, n + 1)
  <1>14. a \in Seq(Parts) /\ b \in Seq(Parts) /\ From(q, n) = (<<h>> \o a) \o b
    <2>1. 0 \in 0 .. Len(TracksOf(s)) /\ n \in 0 .. Len(q) /\ n + 1 \in 0 .. Len(q) /\ n < Len(q)
      BY <1>1, <1>2, <1>3, <1>4 DEF n
    <2>2. a \in Seq(Parts) /\ b \in Seq(Parts)
      BY <1>3, <1>4, <2>1, FromStep, Zenon
    <2>3. From(q, n) = q[n + 1] \o b
      BY <1>3, <2>1, FromStep, Zenon
    <2>4. QED
      BY <1>3, <1>4, <2>2, <2>3, Zenon
  <1>15. RestOfEvents(st, ld2) = <<>> /\ RestOfTracks(st, ld2) = a
    BY <1>8, <1>9, Zenon DEF RestOfEvents, RestOfTracks
  <1>16. RestOfEvents(st, ld) = <<>> /\ RestOfTracks(st, ld) = <<>>
    BY EventsDone, SectionIsDone, Zenon
  <1>17. From(SectionsOf(st), Len(ld2)) = b /\ From(SectionsOf(st), Len(ld)) = From(q, n)
    BY <1>8, Zenon DEF q, n
  <1> HIDE DEF a, b
  <1>18. /\ a \o b \in Seq(Parts) /\ <<>> \o (a \o b) = a \o b
         /\ <<>> \o (<<>> \o (a \o b)) = a \o b
    <2>1. a \o b \in Seq(Parts)
      BY <1>14, ConcatProperties, Zenon
    <2>2. QED
      BY <2>1, ConcatEmptySeq, Zenon
  <1>19. Remaining(st, ld2, td2.name) = a \o b
    BY <1>13, <1>15, <1>17, <1>18, Zenon DEF Remaining, NameOf
  <1>20. <<h>> \in Seq(Parts)
    BY <1>5
  <1>21. (<<h>> \o a) \o b = <<h>> \o (a \o b)
    <2> DEFINE c == <<h>>
    <2>1. c \in Seq(Parts)
      BY <1>20
    <2> HIDE DEF c
    <2>2. (c \o a) \o b = c \o (a \o b)
      <3>1. \A a1, a2, a3 \in Seq(Parts) : (a1 \o a2) \o a3 = a1 \o (a2 \o a3)
        BY PartsRegroup, Zenon
      <3>2. QED
        BY <1>14, <2>1, <3>1, Zenon
    <2>3. QED
      BY <2>2 DEF c
  <1>22. Remaining(st, ld, td.name) = <<h>> \o (a \o b)
    <2> DEFINE r == <<h>> \o (a \o b)
    <2>1. r \in Seq(Parts)
      BY <1>18, <1>20, ConcatProperties, Zenon
    <2>2. Remaining(st, ld, td.name) = <<>> \o (<<>> \o (<<>> \o r))
      BY <1>13, <1>14, <1>16, <1>17, <1>21, Zenon DEF Remaining, NameOf
    <2> HIDE DEF r
    <2>3. <<>> \o r = r
      BY <2>1, ConcatEmptySeq, Zenon
    <2>4. QED
      BY <2>2, <2>3, Zenon DEF r
  <1>23. QED
    BY <1>5, <1>11, <1>12, <1>18, <1>19, <1>22, Zenon

\* The tracks of the section that is read become w.
WithTracks(ld, w) == [ld EXCEPT ![Len(ld)].tracks = w]

LEMMA TracksReplaced ==
  ASSUME NEW ld \in Seq(ReadSections), ld # <<>>, NEW w \in Seq(ReadTracks)
  PROVE  /\ WithTracks(ld, w) \in Seq(ReadSections) /\ Len(WithTracks(ld, w)) = Len(ld)
         /\ WithTracks(ld, w) # <<>>
         /\ \A i \in 1 .. Len(ld) : i # Len(ld) => WithTracks(ld, w)[i] = ld[i]
         /\ WithTracks(ld, w)[Len(ld)].type = ld[Len(ld)].type
         /\ WithTracks(ld, w)[Len(ld)].bars = ld[Len(ld)].bars
         /\ WithTracks(ld, w)[Len(ld)].resolution = ld[Len(ld)].resolution
         /\ WithTracks(ld, w)[Len(ld)].tracks = w
  <1> DEFINE n == Len(ld)
             m == ld[n]
             x == [m EXCEPT !.tracks = w]
             ld2 == WithTracks(ld, w)
  <1>1. n \in 1 .. Len(ld) /\ m \in ReadSections
    OBVIOUS
  <1>2. x \in ReadSections
    BY <1>1 DEF ReadSections
  <1>3. x.type = m.type /\ x.bars = m.bars /\ x.resolution = m.resolution /\ x.tracks = w
    BY <1>1 DEF ReadSections
  <1>4. ld2 = [ld EXCEPT ![n] = x]
    BY DEF WithTracks
  <1> HIDE DEF x, m, n, ld2
  <1>5. /\ ld2 \in Seq(ReadSections) /\ Len(ld2) = Len(ld)
        /\ \A j \in 1 .. Len(ld) : ld2[j] = IF j = n THEN x ELSE ld[j]
    BY <1>1, <1>2, <1>4, ExceptSeq
  <1>6. ld2 # <<>>
    BY <1>5
  <1>7. ld2[n] = x
    BY <1>1, <1>5
  <1>8. QED
    BY <1>3, <1>5, <1>6, <1>7, Zenon DEF n, m, ld2

TracksMatch(w, s) ==
  /\ Len(w) <= Len(s.tracks)
  /\ \A k \in 1 .. Len(w) : TrackMatches(w[k], s.tracks[k], FALSE)
  /\ \A k \in 1 .. Len(w) : k < Len(w) => TrackMatches(w[k], s.tracks[k], TRUE)

LEMMA LastStillMatches ==
  ASSUME NEW st \in Storable, NEW ld, StyleMatches(ld, st, FALSE), ld # <<>>,
         NEW w \in Seq(ReadTracks), TracksMatch(w, ThisSection(st, ld))
  PROVE  /\ StyleMatches(WithTracks(ld, w), st, FALSE)
         /\ WithTracks(ld, w) # <<>> /\ Len(WithTracks(ld, w)) = Len(ld)
         /\ WithTracks(ld, w)[Len(ld)].tracks = w
         /\ ThisSection(st, WithTracks(ld, w)) = ThisSection(st, ld)
         /\ TracksRead(WithTracks(ld, w)) = Len(w)
  <1> DEFINE s == ThisSection(st, ld)
             ld2 == WithTracks(ld, w)
  <1> DEFINE n == Len(ld)
  <1>1. ld \in Seq(ReadSections)
    BY Zenon DEF StyleMatches
  <1>2. /\ ld2 \in Seq(ReadSections) /\ Len(ld2) = n /\ ld2 # <<>>
        /\ \A i \in 1 .. n : i # n => ld2[i] = ld[i]
        /\ ld2[n].type = ld[n].type /\ ld2[n].bars = ld[n].bars
        /\ ld2[n].resolution = ld[n].resolution /\ ld2[n].tracks = w
    BY <1>1, TracksReplaced, Zenon
  <1>3. SectionMatches(ld[n], s, FALSE)
    BY CursorFacts, Zenon
  <1>4. SectionMatches(ld2[n], s, FALSE)
    <2>1. \A k \in 1 .. Len(w) : TrackMatches(w[k], s.tracks[k], FALSE \/ k < Len(w))
      <3>1. \A k \in 1 .. Len(w) : k < Len(w) => (FALSE \/ k < Len(w)) = TRUE
        OBVIOUS
      <3>2. \A k \in 1 .. Len(w) : ~ (k < Len(w)) => (FALSE \/ k < Len(w)) = FALSE
        OBVIOUS
      <3>3. QED
        BY <3>1, <3>2, Zenon DEF TracksMatch
    <2>2. Len(w) <= Len(s.tracks)
      BY Zenon DEF TracksMatch
    <2> HIDE DEF s, ld2
    <2>3. QED
      BY <1>2, <1>3, <2>1, <2>2, Zenon DEF SectionMatches
  <1> HIDE DEF ld2
  <1>5. \A i \in 1 .. n : SectionMatches(ld2[i], st.sections[i], FALSE \/ i < n)
    <2> SUFFICES ASSUME NEW i \in 1 .. n
                 PROVE  SectionMatches(ld2[i], st.sections[i], FALSE \/ i < n)
      OBVIOUS
    <2>1. CASE i = n
      <3>1. (FALSE \/ i < n) = FALSE
        BY <1>1, <2>1
      <3>2. QED
        BY <1>4, <2>1, <3>1, Zenon DEF ThisSection
    <2>2. CASE i # n
      BY <1>2, <2>2, Zenon DEF StyleMatches
    <2>3. QED
      BY <2>1, <2>2
  <1>6. StyleMatches(ld2, st, FALSE)
    BY <1>2, <1>5, Zenon DEF StyleMatches
  <1>7. QED
    BY <1>2, <1>6, Zenon DEF ThisSection, TracksRead, ld2

TrackRead(h) ==
  [channel |-> h.channel, role |-> h.role, drum |-> h.drum, named |-> h.named, events |-> <<>>]

\* The counters after a track's header and after an event.
AfterHeader(td, h, td2) ==
  /\ td \in Counters /\ td.tracks - 1 \in Nat
  /\ h.events \in Nat /\ h.named \in BOOLEAN
  /\ td2 = [td EXCEPT !.tracks = @ - 1, !.events = h.events, !.name = h.named, !.clock = 0]

AfterEvent(td, p, td2) ==
  /\ td \in Counters /\ td.events - 1 \in Nat /\ p.delta \in Nat
  /\ td2 = [td EXCEPT !.events = @ - 1, !.clock = @ + p.delta]

CountedTrack(td, h, td2) ==
  /\ td2 \in Counters /\ td2.sections = td.sections /\ td2.tracks = td.tracks - 1
  /\ td2.events = h.events /\ td2.name = h.named /\ td2.clock = 0

CountedEvent(td, p, td2) ==
  /\ td2 \in Counters /\ td2.sections = td.sections /\ td2.tracks = td.tracks
  /\ td2.events = td.events - 1 /\ td2.name = td.name /\ td2.clock = td.clock + p.delta

LEMMA HeaderCounted ==
  ASSUME NEW td, NEW h, NEW td2, AfterHeader(td, h, td2)
  PROVE  CountedTrack(td, h, td2)
  <1> DEFINE tracks == td.tracks - 1
             events == h.events
             named == h.named
  <1>1. td \in Counters /\ tracks \in Nat /\ events \in Nat /\ named \in BOOLEAN
    BY Zenon DEF AfterHeader
  <1>2. td2 = [td EXCEPT !.tracks = tracks, !.events = events, !.name = named, !.clock = 0]
    BY Zenon DEF AfterHeader
  <1> HIDE DEF tracks, events, named
  <1>3. td = [sections |-> td.sections, tracks |-> td.tracks, events |-> td.events,
              name |-> td.name, clock |-> td.clock] /\ td.sections \in Nat
    BY <1>1 DEF Counters
  <1>4. td2 = [sections |-> td.sections, tracks |-> tracks, events |-> events,
               name |-> named, clock |-> 0]
    BY <1>2, <1>3
  <1>5. /\ td2 \in Counters /\ td2.sections = td.sections /\ td2.tracks = tracks
        /\ td2.events = events /\ td2.name = named /\ td2.clock = 0
    <2>1. td2.sections = td.sections /\ td2.tracks = tracks
      BY <1>4, Zenon
    <2>2. td2.events = events /\ td2.name = named /\ td2.clock = 0
      BY <1>4, Zenon
    <2>3. td.sections \in Nat
      BY <1>3
    <2>4. td2 \in Counters
      BY <1>1, <1>4, <2>3, Zenon DEF Counters
    <2>5. QED
      BY <2>1, <2>2, <2>4
  <1>6. QED
    BY <1>5, Zenon DEF CountedTrack, tracks, events, named

LEMMA EventCounted ==
  ASSUME NEW td, NEW p, NEW td2, AfterEvent(td, p, td2)
  PROVE  CountedEvent(td, p, td2)
  <1> DEFINE events == td.events - 1
             clock == td.clock + p.delta
  <1>1. td \in Counters /\ events \in Nat /\ p.delta \in Nat
    BY Zenon DEF AfterEvent
  <1>2. td2 = [td EXCEPT !.events = events, !.clock = clock]
    BY Zenon DEF AfterEvent
  <1>3. clock \in Nat
    BY <1>1 DEF Counters
  <1> HIDE DEF events, clock
  <1>4. /\ td = [sections |-> td.sections, tracks |-> td.tracks, events |-> td.events,
                 name |-> td.name, clock |-> td.clock]
        /\ td.sections \in Nat /\ td.tracks \in Nat
    BY <1>1 DEF Counters
  <1>5. td.name \in BOOLEAN
    BY <1>1 DEF Counters
  <1>6. td2 = [sections |-> td.sections, tracks |-> td.tracks, events |-> events,
               name |-> td.name, clock |-> clock]
    BY <1>2, <1>4
  <1>7. /\ td2 \in Counters /\ td2.sections = td.sections /\ td2.tracks = td.tracks
        /\ td2.events = events /\ td2.name = td.name /\ td2.clock = clock
    <2>1. td2.sections = td.sections /\ td2.tracks = td.tracks
      BY <1>6, Zenon
    <2>2. td2.events = events /\ td2.name = td.name /\ td2.clock = clock
      BY <1>6, Zenon
    <2>3. td2 \in Counters
      BY <1>1, <1>3, <1>4, <1>5, <1>6, Zenon DEF Counters
    <2>4. QED
      BY <2>1, <2>2, <2>3
  <1>8. QED
    BY <1>7, Zenon DEF CountedEvent, events, clock

LEMMA TrackHeaderRead ==
  ASSUME NEW st \in Storable, NEW ld, StyleMatches(ld, st, FALSE),
         NEW td, Counts(st, ld, td),
         td.events = 0, ~ td.name, td.tracks > 0,
         NEW h, h = TrackHeader(ThisSection(st, ld).tracks[TracksRead(ld) + 1]),
         NEW ld2, ld2 = [ld EXCEPT ![Len(ld)].tracks = Append(@, TrackRead(h))],
         NEW td2, td2 = [td EXCEPT !.tracks = @ - 1, !.events = h.events,
                                   !.name = h.named, !.clock = 0]
  PROVE  /\ h \in Parts /\ Remaining(st, ld2, td2.name) \in Seq(Parts)
         /\ Remaining(st, ld, td.name) = <<h>> \o Remaining(st, ld2, td2.name)
         /\ StyleMatches(ld2, st, FALSE) /\ Counts(st, ld2, td2)
  <1> DEFINE n == Len(ld)
             k == TracksRead(ld)
             s == ThisSection(st, ld)
             t == s.tracks[k + 1]
             q == TracksOf(s)
             x == TrackRead(h)
             ts == ld[n].tracks
             w == Append(ts, x)
  <1>1. ld # <<>>
    <2>1. td.tracks # 0
      OBVIOUS
    <2>2. QED
      BY <2>1, Zenon DEF Counts
  <1>2. /\ n \in 1 .. n /\ ld[n] \in ReadSections /\ s \in SectionDefs
        /\ SectionMatches(ld[n], s, FALSE) /\ k \in 0 .. Len(s.tracks) /\ Len(s.tracks) \in Nat
        /\ k \in Nat /\ td \in Counters /\ td.tracks = Len(s.tracks) - k /\ k = Len(ts)
        /\ ld \in Seq(ReadSections)
    <2>1. /\ td \in Counters /\ td.tracks = Len(s.tracks) - k /\ k = Len(ts)
          /\ ld \in Seq(ReadSections)
      BY <1>1, Zenon DEF Counts, TracksRead, StyleMatches
    <2>2. k \in Nat
      BY CursorFacts, Zenon
    <2>3. QED
      BY <1>1, <2>1, <2>2, CursorFacts, Zenon
  <1>3. /\ k + 1 \in 1 .. Len(s.tracks) /\ k < Len(s.tracks) /\ k + 1 \in 0 .. Len(s.tracks)
        /\ k + 1 <= Len(s.tracks)
    <2>1. Len(s.tracks) - k > 0 /\ k \in Nat /\ Len(s.tracks) \in Nat
      BY <1>2
    <2> HIDE DEF k, s
    <2>2. QED
      BY <2>1
  <1>4. /\ t \in TrackDefs /\ q \in Seq(Seq(Parts)) /\ Len(q) = Len(s.tracks)
        /\ q[k + 1] = TrackParts(t)
    BY <1>2, <1>3, SectionWritten, Zenon DEF TracksOf
  <1>5. /\ TrackParts(t) = <<h>> \o NameOf(t.named) \o EventParts(t.events)
        /\ h \in TrackPart /\ h = TrackHeader(t)
        /\ NameOf(t.named) \in Seq(Parts) /\ EventParts(t.events) \in Seq(Parts)
        /\ Len(EventParts(t.events)) = Len(t.events) /\ Len(t.events) \in Nat
    BY <1>4, TrackWritten, EventsWritten, Zenon
  <1> HIDE DEF n, k, s, t, q
  <1>6. /\ h.channel = t.channel /\ h.role = t.role /\ h.drum = t.drum /\ h.named = t.named
        /\ h.events = Len(t.events)
    BY <1>5, SMTT(30) DEF TrackHeader
  <1>7. /\ h \in Parts /\ x \in ReadTracks /\ x.events = <<>>
        /\ x.channel = t.channel /\ x.role = t.role /\ x.drum = t.drum /\ x.named = t.named
        /\ h.named \in BOOLEAN /\ h.events \in Nat
    <2>1. h \in Parts
      BY <1>5, Zenon DEF Parts
    <2>2. x \in ReadTracks
      BY <1>5 DEF TrackPart, ReadTracks, TrackRead
    <2>3. /\ x.events = <<>> /\ x.channel = t.channel /\ x.role = t.role /\ x.drum = t.drum
          /\ x.named = t.named
      BY <1>6 DEF TrackRead
    <2>4. h.named \in BOOLEAN /\ h.events \in Nat
      BY <1>5 DEF TrackPart
    <2>5. QED
      BY <2>1, <2>2, <2>3, <2>4
  <1>8. TrackMatches(x, t, FALSE)
    <2>1. \A j \in 1 .. 0 : FALSE
      OBVIOUS
    <2>2. Len(x.events) = 0 /\ 0 <= Len(t.events)
      BY <1>5, <1>7
    <2>3. QED
      BY <1>7, <2>1, <2>2, Zenon DEF TrackMatches
  <1>9. ts \in Seq(ReadTracks)
    BY <1>2 DEF ReadSections
  <1> HIDE DEF x, ts
  <1>10. /\ w \in Seq(ReadTracks) /\ Len(w) = k + 1 /\ w[k + 1] = x
         /\ \A j \in 1 .. k : w[j] = ts[j]
    BY <1>2, <1>7, <1>9, AppendProperties
  <1>11. ld2 = WithTracks(ld, w)
    BY Zenon DEF x, ts, n, WithTracks
  <1> HIDE DEF w
  <1>12. /\ \A j \in 1 .. Len(w) : TrackMatches(w[j], s.tracks[j], FALSE)
         /\ \A j \in 1 .. Len(w) : j < Len(w) => TrackMatches(w[j], s.tracks[j], TRUE)
    <2>1. ASSUME NEW j \in 1 .. k
          PROVE  TrackMatches(w[j], s.tracks[j], TRUE) /\ TrackMatches(w[j], s.tracks[j], FALSE)
      <3>1. TrackMatches(ts[j], s.tracks[j], TRUE)
        <4>1. CASE j = k
          <5>1. k # 0
            BY <4>1
          <5>2. QED
            BY <4>1, <5>1, EventsDone, Zenon DEF ts, s, k, n, ThisTrack
        <4>2. CASE j # k
          <5>1. (FALSE \/ j < Len(ts)) = TRUE /\ j \in 1 .. Len(ts)
            BY <1>2, <4>2
          <5>2. TrackMatches(ts[j], s.tracks[j], FALSE \/ j < Len(ts))
            BY <1>2, <5>1, Zenon DEF SectionMatches, ts
          <5>3. QED
            BY <5>1, <5>2, Zenon
        <4>3. QED
          BY <4>1, <4>2
      <3>2. TrackMatches(ts[j], s.tracks[j], FALSE)
        BY <3>1, Zenon DEF TrackMatches
      <3>3. w[j] = ts[j]
        BY <1>10
      <3>4. QED
        BY <3>1, <3>2, <3>3, Zenon
    <2>2. TrackMatches(w[k + 1], s.tracks[k + 1], FALSE)
      BY <1>8, <1>10, Zenon DEF t
    <2>3. \A j \in 1 .. Len(w) : j \in 1 .. k \/ (j = k + 1 /\ ~ (j < Len(w)))
      BY <1>2, <1>10
    <2>4. QED
      BY <2>1, <2>2, <2>3, Zenon
  <1>13. /\ StyleMatches(ld2, st, FALSE)
         /\ ld2 # <<>> /\ Len(ld2) = n /\ ld2[Len(ld2)].tracks = w
         /\ ThisSection(st, ld2) = s /\ TracksRead(ld2) = k + 1
    <2>1. Len(w) <= Len(s.tracks)
      BY <1>3, <1>10
    <2>2. TracksMatch(w, ThisSection(st, ld))
      BY <1>12, <2>1, Zenon DEF TracksMatch, s
    <2>3. w \in Seq(ReadTracks)
      BY <1>10
    <2>4. /\ StyleMatches(WithTracks(ld, w), st, FALSE)
          /\ WithTracks(ld, w) # <<>> /\ Len(WithTracks(ld, w)) = Len(ld)
          /\ WithTracks(ld, w)[Len(ld)].tracks = w
          /\ ThisSection(st, WithTracks(ld, w)) = ThisSection(st, ld)
          /\ TracksRead(WithTracks(ld, w)) = Len(w)
      BY <1>1, <2>2, <2>3, LastStillMatches, ZenonT(40)
    <2>5. QED
      BY <1>10, <1>11, <2>4, Zenon DEF s, n
  <1>14. k + 1 # 0 /\ TracksRead(ld2) # 0
    BY <1>2, <1>13
  <1>15. EventsRead(ld2) = 0 /\ ThisTrack(st, ld2) = t
    <2>1. EventsRead(ld2) = Len(x.events)
      BY <1>10, <1>13, <1>14, Zenon DEF EventsRead
    <2>2. Len(x.events) = 0
      BY <1>7
    <2>3. ThisTrack(st, ld2) = t
      BY <1>13, Zenon DEF ThisTrack, t
    <2>4. QED
      BY <2>1, <2>2, <2>3
  <1>16. Counts(st, ld2, td2)
    <2>1. /\ td2 \in Counters /\ td2.sections = td.sections /\ td2.tracks = td.tracks - 1
          /\ td2.events = h.events /\ td2.name = h.named /\ td2.clock = 0
      <3>1. td.tracks - 1 \in Nat /\ td \in Counters
        BY <1>2 DEF Counters
      <3>2. AfterHeader(td, h, td2)
        BY <1>7, <3>1, Zenon DEF AfterHeader
      <3>3. CountedTrack(td, h, td2)
        BY <3>2, HeaderCounted, Zenon
      <3>4. QED
        BY <3>3, Zenon DEF CountedTrack
    <2>2. td2.sections = Len(st.sections) - Len(ld2)
      BY <1>13, <2>1, Zenon DEF Counts, n
    <2>3. td2.tracks = Len(ThisSection(st, ld2).tracks) - TracksRead(ld2)
      BY <1>2, <1>13, <2>1
    <2>4. td2.events = Len(ThisTrack(st, ld2).events) - EventsRead(ld2)
      BY <1>5, <1>6, <1>15, <2>1
    <2>5. QED
      BY <1>13, <1>14, <1>15, <2>1, <2>2, <2>3, <2>4, Zenon DEF Counts
  <1> DEFINE N == NameOf(t.named)
             E == EventParts(t.events)
             R == From(q, k + 1)
             S == From(SectionsOf(st), n)
  <1>17. /\ R \in Seq(Parts) /\ S \in Seq(Parts)
         /\ From(q, k) = ((<<h>> \o N) \o E) \o R
    <2>1. k \in 0 .. Len(q) /\ k + 1 \in 0 .. Len(q) /\ k < Len(q)
      BY <1>2, <1>3, <1>4
    <2>2. R \in Seq(Parts) /\ From(q, k) = q[k + 1] \o R
      BY <1>4, <2>1, FromStep, Zenon
    <2>3. S \in Seq(Parts)
      BY CursorFacts, Zenon DEF n
    <2>4. QED
      BY <1>4, <1>5, <2>2, <2>3, Zenon
  <1>18. RestOfEvents(st, ld2) = E /\ RestOfTracks(st, ld2) = R
    <2>1. RestOfEvents(st, ld2) = SubSeq(E, 0 + 1, Len(E))
      BY <1>5, <1>14, <1>15, Zenon DEF RestOfEvents, EventsFrom
    <2>2. SubSeq(E, 1, Len(E)) = E /\ 0 + 1 = 1
      BY <1>5, SubSeqFull
    <2>3. RestOfEvents(st, ld2) = E
      BY <2>1, <2>2, Zenon
    <2>4. RestOfTracks(st, ld2) = R
      BY <1>13, Zenon DEF RestOfTracks, q
    <2>5. QED
      BY <2>3, <2>4
  <1>19. RestOfEvents(st, ld) = <<>> /\ RestOfTracks(st, ld) = From(q, k)
    BY <1>1, EventsDone, Zenon DEF RestOfTracks, q, s, k
  <1>20. td.name = FALSE /\ td2.name = t.named
    BY <1>2, <1>6, <1>7 DEF Counters
  <1>21. Remaining(st, ld2, td2.name) = N \o (E \o (R \o S))
    BY <1>13, <1>18, <1>20, Zenon DEF Remaining
  <1>22. Remaining(st, ld, td.name) = <<>> \o (<<>> \o (From(q, k) \o S))
    BY <1>19, <1>20, Zenon DEF Remaining, NameOf, n
  <1> DEFINE H == <<h>>
  <1>23. H \in Seq(Parts) /\ N \in Seq(Parts) /\ E \in Seq(Parts)
    BY <1>5, <1>7
  <1>24. From(q, k) \o S \in Seq(Parts) /\ From(q, k) = ((H \o N) \o E) \o R
    <2>1. From(q, k) \in Seq(Parts)
      <3>1. k \in 0 .. Len(q)
        BY <1>2, <1>4
      <3>2. QED
        BY <1>4, <3>1, FromStep, Zenon
    <2>2. QED
      BY <1>17, <2>1, ConcatProperties, Zenon
  <1> HIDE DEF N, E, R, S, H
  <1>25. Remaining(st, ld, td.name) = (((H \o N) \o E) \o R) \o S
    BY <1>22, <1>24, ConcatEmptySeq, Zenon
  <1>26. /\ N \o (E \o (R \o S)) \in Seq(Parts)
         /\ (((H \o N) \o E) \o R) \o S = H \o (N \o (E \o (R \o S)))
    <2>1. /\ H \in Seq(Parts) /\ N \in Seq(Parts) /\ E \in Seq(Parts) /\ R \in Seq(Parts)
          /\ S \in Seq(Parts)
      BY <1>17, <1>23, Zenon
    <2>2. N \o (E \o (R \o S)) \in Seq(Parts)
      BY <2>1, ConcatProperties, Zenon
    <2>3. \A a, b, c \in Seq(Parts) : (a \o b) \o c = a \o (b \o c)
      BY PartsRegroup, Zenon
    <2> DEFINE RS == R \o S
               ERS == E \o RS
               HN == H \o N
               HNE == HN \o E
    <2>4. RS \in Seq(Parts) /\ ERS \in Seq(Parts) /\ HN \in Seq(Parts) /\ HNE \in Seq(Parts)
      <3>1. RS \in Seq(Parts) /\ HN \in Seq(Parts)
        BY <2>1, ConcatProperties, Zenon
      <3> HIDE DEF RS, HN
      <3>2. QED
        BY <2>1, <3>1, ConcatProperties, Zenon
    <2>5. (HNE \o R) \o S = HNE \o RS
      <3>1. HNE \in Seq(Parts)
        BY <2>4
      <3> HIDE DEF HNE
      <3>2. QED
        BY <2>1, <2>3, <3>1, ZenonT(40)
    <2>6. HNE \o RS = HN \o ERS
      <3>1. HN \in Seq(Parts) /\ E \in Seq(Parts) /\ RS \in Seq(Parts)
        BY <2>1, <2>4
      <3> HIDE DEF HN, RS
      <3>2. QED
        BY <2>3, <3>1, Zenon
    <2>7. HN \o ERS = H \o (N \o ERS)
      <3>1. H \in Seq(Parts) /\ N \in Seq(Parts) /\ ERS \in Seq(Parts)
        BY <2>1, <2>4
      <3> HIDE DEF ERS
      <3>2. QED
        BY <2>3, <3>1, Zenon
    <2>8. QED
      BY <2>2, <2>5, <2>6, <2>7, Zenon
  <1>27. QED
    BY <1>7, <1>13, <1>16, <1>21, <1>25, <1>26, Zenon DEF H

LEMMA NameRead ==
  ASSUME NEW st \in Storable, NEW ld, StyleMatches(ld, st, FALSE),
         NEW td, Counts(st, ld, td), td.name,
         NEW td2, td2 = [td EXCEPT !.name = FALSE]
  PROVE  /\ NamePart \in Parts /\ Remaining(st, ld, td2.name) \in Seq(Parts)
         /\ Remaining(st, ld, td.name) = <<NamePart>> \o Remaining(st, ld, td2.name)
         /\ Counts(st, ld, td2)
  <1>1. td \in Counters /\ td.name = TRUE
    BY DEF Counts, Counters
  <1>2. /\ td2 \in Counters /\ td2.name = FALSE /\ td2.sections = td.sections
        /\ td2.tracks = td.tracks /\ td2.events = td.events /\ td2.clock = td.clock
    BY <1>1 DEF Counters
  <1>3. Counts(st, ld, td2)
    BY <1>2, Zenon DEF Counts
  <1> DEFINE r == RestOfEvents(st, ld) \o (RestOfTracks(st, ld) \o From(SectionsOf(st), Len(ld)))
  <1>4. r \in Seq(Parts)
    <2>1. /\ RestOfEvents(st, ld) \in Seq(Parts) /\ RestOfTracks(st, ld) \in Seq(Parts)
          /\ From(SectionsOf(st), Len(ld)) \in Seq(Parts)
      BY CursorFacts, Zenon
    <2>2. RestOfTracks(st, ld) \o From(SectionsOf(st), Len(ld)) \in Seq(Parts)
      BY <2>1, ConcatProperties, Zenon
    <2>3. QED
      BY <2>1, <2>2, ConcatProperties, Zenon
  <1>5. Remaining(st, ld, td.name) = <<NamePart>> \o r /\ Remaining(st, ld, td2.name) = <<>> \o r
    BY <1>1, <1>2, Zenon DEF Remaining, NameOf
  <1> HIDE DEF r
  <1>6. <<>> \o r = r
    BY <1>4, ConcatEmptySeq, Zenon
  <1>7. NamePart \in Parts
    BY Zenon DEF Parts
  <1>8. QED
    BY <1>3, <1>4, <1>5, <1>6, <1>7, Zenon

EventRead(p, clock) ==
  [tick |-> clock + p.delta, type |-> p.type, channel |-> p.channel, d1 |-> p.d1, d2 |-> p.d2]

TickBefore(t, i) == IF i = 1 THEN 0 ELSE t.events[i - 1].tick

LEMMA TickOfTheLast ==
  ASSUME NEW t, NEW e \in Nat, e # 0
  PROVE  TickBefore(t, e + 1) = t.events[e].tick
  <1>1. e + 1 # 1 /\ e + 1 - 1 = e
    OBVIOUS
  <1>2. QED
    BY <1>1 DEF TickBefore

\* The delta that is written leads from one tick to the next.
LEMMA DeltaLeadsOn ==
  ASSUME NEW t \in TrackDefs, Steady(t), NEW i \in 1 .. Len(t.events)
  PROVE  TickBefore(t, i) + Delta(t.events[i].tick, TickBefore(t, i)) = t.events[i].tick
  <1> DEFINE tick == t.events[i].tick
             last == TickBefore(t, i)
  <1>1. /\ t.events \in Seq(EventDefs) /\ Len(t.events) \in Nat /\ MaxDelta \in Nat
        /\ \A j \in 1 .. Len(t.events) : t.events[j].tick \in Nat /\ t.events[j].tick <= MaxDelta
    <2>1. t.events \in Seq(EventDefs) /\ Len(t.events) \in Nat /\ MaxDelta \in Nat
      BY EventsWritten, LimitsAssumption
    <2>2. \A j \in 1 .. Len(t.events) : t.events[j] \in EventDefs
      BY <2>1
    <2>3. QED
      BY <2>1, <2>2 DEF EventDefs
  <1>2. tick \in Nat /\ tick <= MaxDelta
    BY <1>1
  <1>3. last \in Nat /\ last <= tick
    <2>1. CASE i = 1
      BY <1>2, <2>1 DEF TickBefore
    <2>2. CASE i # 1
      <3>1. i - 1 \in 1 .. Len(t.events) /\ i \in 2 .. Len(t.events)
        BY <1>1, <2>2
      <3>2. t.events[i - 1].tick <= t.events[i].tick
        BY <3>1, Zenon DEF Steady
      <3>3. QED
        BY <1>1, <2>2, <3>1, <3>2 DEF TickBefore
    <2>3. QED
      BY <2>1, <2>2
  <1> HIDE DEF tick, last
  <1>4. Delta(tick, last) = tick - last
    <2>1. tick - last \in Nat /\ tick - last <= MaxDelta /\ ~ (tick < last)
      BY <1>1, <1>2, <1>3
    <2>2. Min({tick - last, MaxDelta}) = tick - last
      BY <1>1, <2>1, MinOfTwo
    <2>3. QED
      BY <2>1, <2>2, Zenon DEF Delta
  <1>5. last + Delta(tick, last) = tick
    BY <1>2, <1>3, <1>4
  <1>6. QED
    BY <1>5 DEF tick, last

LEMMA NextEventRead ==
  ASSUME NEW st \in Storable, NEW ld, StyleMatches(ld, st, FALSE),
         NEW td, Counts(st, ld, td), td.events > 0, ~ td.name,
         NEW p, p = EventParts(ThisTrack(st, ld).events)[EventsRead(ld) + 1],
         NEW ld2, ld2 = [ld EXCEPT ![Len(ld)].tracks[TracksRead(ld)].events =
                           Append(@, EventRead(p, td.clock))],
         NEW td2, td2 = [td EXCEPT !.events = @ - 1, !.clock = @ + p.delta]
  PROVE  /\ p \in Parts /\ Remaining(st, ld2, td2.name) \in Seq(Parts)
         /\ Remaining(st, ld, td.name) = <<p>> \o Remaining(st, ld2, td2.name)
         /\ StyleMatches(ld2, st, FALSE) /\ Counts(st, ld2, td2)
  <1> DEFINE n == Len(ld)
             k == TracksRead(ld)
             s == ThisSection(st, ld)
             t == ThisTrack(st, ld)
             e == EventsRead(ld)
             ps == EventParts(t.events)
             y == EventRead(p, td.clock)
             ts == ld[n].tracks
             m == ts[k]
             x == [m EXCEPT !.events = Append(m.events, y)]
             w == [ts EXCEPT ![k] = x]
  <1>1. k # 0
    <2>1. td.events # 0
      OBVIOUS
    <2>2. QED
      BY <2>1, Zenon DEF Counts
  <1>2. /\ td \in Counters /\ td.events = Len(t.events) - e
        /\ e = 0 => td.clock = 0
        /\ e # 0 /\ Steady(t) => td.clock = t.events[e].tick
        /\ ld \in Seq(ReadSections)
    BY <1>1, Zenon DEF Counts, StyleMatches
  <1>3. /\ ld # <<>> /\ k \in 1 .. k /\ k \in 1 .. Len(s.tracks) /\ m \in ReadTracks
        /\ t \in TrackDefs /\ TrackMatches(m, t, FALSE)
        /\ e \in 0 .. Len(t.events) /\ Len(t.events) \in Nat /\ k \in Nat
    BY <1>1, CursorFacts, Zenon
  <1>4. /\ n \in 1 .. n /\ ld[n] \in ReadSections /\ s \in SectionDefs
        /\ SectionMatches(ld[n], s, FALSE) /\ Len(s.tracks) \in Nat
    BY <1>3, CursorFacts, Zenon
  <1>5. k = Len(ts) /\ e = Len(m.events)
    BY <1>1, <1>3, Zenon DEF TracksRead, EventsRead
  <1> HIDE DEF n, k, s, t, e, ps, m, ts, y
  <1>6. /\ e + 1 \in 1 .. Len(t.events) /\ e \in Nat /\ e < Len(t.events)
        /\ td.clock \in Nat /\ td.events \in Nat
    <2>1. td.clock \in Nat /\ td.events \in Nat
      BY <1>2 DEF Counters
    <2>2. Len(t.events) - e > 0 /\ e \in Nat
      BY <1>2, <1>3
    <2>3. QED
      BY <1>3, <2>1, <2>2
  <1>7. /\ ps \in Seq(Parts) /\ Len(ps) = Len(t.events) /\ p = ps[e + 1]
        /\ p \in EventPart
        /\ p.type = t.events[e + 1].type /\ p.channel = t.events[e + 1].channel
        /\ p.d1 = t.events[e + 1].d1 /\ p.d2 = t.events[e + 1].d2
        /\ p.delta = Delta(t.events[e + 1].tick, TickBefore(t, e + 1))
    <2>1. p = ps[e + 1]
      BY Zenon DEF ps, t, e
    <2> DEFINE i == e + 1
    <2>2. i \in 1 .. Len(t.events)
      BY <1>6
    <2> HIDE DEF i
    <2>3. /\ ps \in Seq(Parts) /\ Len(ps) = Len(t.events)
          /\ ps[i] \in EventPart
          /\ ps[i].type = t.events[i].type /\ ps[i].channel = t.events[i].channel
          /\ ps[i].d1 = t.events[i].d1 /\ ps[i].d2 = t.events[i].d2
          /\ ps[i].delta = Delta(t.events[i].tick, TickBefore(t, i))
      BY <1>3, <2>2, EventsWritten, Zenon DEF ps, TickBefore
    <2>4. QED
      BY <2>1, <2>3, Zenon DEF i
  <1>8. p \in Parts /\ p.delta \in Nat
    BY <1>7 DEF Parts, EventPart
  <1>9. /\ y \in ReadEvents /\ y.type = p.type /\ y.channel = p.channel
        /\ y.d1 = p.d1 /\ y.d2 = p.d2 /\ y.tick = td.clock + p.delta
    <2>1. td.clock + p.delta \in Nat
      BY <1>6, <1>8
    <2>2. QED
      BY <1>7, <2>1 DEF y, EventRead, EventPart, ReadEvents
  <1>10. ASSUME Steady(t) PROVE y.tick = t.events[e + 1].tick
    <2> DEFINE last == TickBefore(t, e + 1)
    <2>1. td.clock = last
      <3>1. CASE e = 0
        BY <1>2, <3>1 DEF TickBefore
      <3>2. CASE e # 0
        <4>1. last = t.events[e].tick
          BY <1>6, <3>2, TickOfTheLast, Zenon
        <4>2. QED
          BY <1>2, <1>10, <3>2, <4>1, Zenon
      <3>3. QED
        BY <3>1, <3>2
    <2>2. last + Delta(t.events[e + 1].tick, last) = t.events[e + 1].tick
      BY <1>3, <1>6, <1>10, DeltaLeadsOn, Zenon
    <2>3. p.delta = Delta(t.events[e + 1].tick, last)
      BY <1>7, Zenon
    <2> HIDE DEF last
    <2>4. QED
      BY <1>9, <2>1, <2>2, <2>3
  <1>11. EventMatches(y, t.events[e + 1], Steady(t))
    BY <1>7, <1>9, <1>10, Zenon DEF EventMatches
  <1> DEFINE es == Append(m.events, y)
  <1>12. m.events \in Seq(ReadEvents)
    BY <1>3 DEF ReadTracks
  <1>13. /\ es \in Seq(ReadEvents) /\ Len(es) = e + 1 /\ es[e + 1] = y
         /\ \A j \in 1 .. e : es[j] = m.events[j]
    BY <1>5, <1>9, <1>12, AppendProperties
  <1> HIDE DEF es
  <1>14. /\ x \in ReadTracks /\ x.events = es /\ x.channel = m.channel /\ x.role = m.role
         /\ x.drum = m.drum /\ x.named = m.named
    BY <1>3, <1>13 DEF ReadTracks, es
  <1> HIDE DEF x
  <1>15. TrackMatches(x, t, FALSE)
    <2>1. \A j \in 1 .. Len(es) : EventMatches(es[j], t.events[j], Steady(t))
      <3> SUFFICES ASSUME NEW j \in 1 .. Len(es)
                   PROVE  EventMatches(es[j], t.events[j], Steady(t))
        OBVIOUS
      <3>1. CASE j = e + 1
        BY <1>11, <1>13, <3>1, Zenon
      <3>2. CASE j # e + 1
        <4>1. j \in 1 .. e /\ j \in 1 .. Len(m.events)
          BY <1>5, <1>6, <1>13, <3>2
        <4>2. EventMatches(m.events[j], t.events[j], Steady(t))
          BY <1>3, <4>1, Zenon DEF TrackMatches
        <4>3. QED
          BY <1>13, <4>1, <4>2, Zenon
      <3>3. QED
        BY <3>1, <3>2
    <2>2. Len(es) <= Len(t.events)
      BY <1>6, <1>13
    <2>3. QED
      BY <1>3, <1>14, <2>1, <2>2, Zenon DEF TrackMatches
  <1>16. ts \in Seq(ReadTracks) /\ k \in 1 .. Len(ts)
    <2>1. ts \in Seq(ReadTracks)
      BY <1>4 DEF ReadSections, ts
    <2>2. QED
      BY <1>3, <1>5, <2>1
  <1>17. /\ w \in Seq(ReadTracks) /\ Len(w) = k /\ w[k] = x
         /\ \A j \in 1 .. k : j # k => w[j] = ts[j]
    <2>1. /\ w \in Seq(ReadTracks) /\ Len(w) = Len(ts)
          /\ \A j \in 1 .. Len(ts) : w[j] = IF j = k THEN x ELSE ts[j]
      BY <1>14, <1>16, ExceptSeq
    <2> HIDE DEF w
    <2>2. QED
      BY <1>5, <1>16, <2>1
  <1>18. ld2 = WithTracks(ld, w)
    BY Zenon DEF WithTracks, x, es, y, m, ts, k, n
  <1> HIDE DEF w
  <1>19. TracksMatch(w, ThisSection(st, ld))
    <2>1. Len(w) <= Len(s.tracks)
      BY <1>3, <1>4, <1>17
    <2>2. ASSUME NEW j \in 1 .. Len(w)
          PROVE  /\ TrackMatches(w[j], s.tracks[j], FALSE)
                 /\ j < Len(w) => TrackMatches(w[j], s.tracks[j], TRUE)
      <3>1. CASE j = k
        <4>1. ~ (j < Len(w))
          BY <1>3, <1>17, <3>1
        <4>2. s.tracks[k] = t
          BY Zenon DEF s, t, k, ThisTrack
        <4>3. QED
          BY <1>15, <1>17, <3>1, <4>1, <4>2, Zenon
      <3>2. CASE j # k
        <4>1. /\ (FALSE \/ j < Len(ts)) = TRUE /\ j \in 1 .. Len(ts) /\ j \in 1 .. k
          BY <1>3, <1>5, <1>17, <3>2
        <4>2. TrackMatches(ts[j], s.tracks[j], FALSE \/ j < Len(ts))
          BY <1>4, <4>1, Zenon DEF SectionMatches, ts
        <4>3. TrackMatches(ts[j], s.tracks[j], TRUE)
          BY <4>1, <4>2, Zenon
        <4>4. TrackMatches(ts[j], s.tracks[j], FALSE)
          BY <4>3, Zenon DEF TrackMatches
        <4>5. QED
          BY <1>17, <3>2, <4>1, <4>3, <4>4, Zenon
      <3>3. QED
        BY <3>1, <3>2
    <2>3. QED
      BY <2>1, <2>2, Zenon DEF TracksMatch, s
  <1>20. /\ StyleMatches(ld2, st, FALSE)
         /\ ld2 # <<>> /\ Len(ld2) = n /\ ld2[n].tracks = w
         /\ ThisSection(st, ld2) = s /\ TracksRead(ld2) = k
    <2>1. /\ StyleMatches(WithTracks(ld, w), st, FALSE)
          /\ WithTracks(ld, w) # <<>> /\ Len(WithTracks(ld, w)) = Len(ld)
          /\ WithTracks(ld, w)[Len(ld)].tracks = w
          /\ ThisSection(st, WithTracks(ld, w)) = ThisSection(st, ld)
          /\ TracksRead(WithTracks(ld, w)) = Len(w)
      BY <1>3, <1>17, <1>19, LastStillMatches, ZenonT(40)
    <2>2. QED
      BY <1>17, <1>18, <2>1, Zenon DEF s, n
  <1>21. EventsRead(ld2) = e + 1 /\ ThisTrack(st, ld2) = t
    <2>1. EventsRead(ld2) = Len(x.events)
      BY <1>1, <1>17, <1>20, Zenon DEF EventsRead, k
    <2>2. ThisTrack(st, ld2) = t
      BY <1>20, Zenon DEF ThisTrack, t, s, k
    <2>3. QED
      BY <1>13, <1>14, <2>1, <2>2, Zenon
  <1>22. Counts(st, ld2, td2)
    <2>1. /\ td2 \in Counters /\ td2.sections = td.sections /\ td2.tracks = td.tracks
          /\ td2.events = td.events - 1 /\ td2.name = td.name /\ td2.clock = y.tick
      <3>1. td.events - 1 \in Nat
        BY <1>2, <1>6
      <3>2. AfterEvent(td, p, td2)
        BY <1>2, <1>8, <3>1, Zenon DEF AfterEvent
      <3>3. CountedEvent(td, p, td2)
        BY <3>2, EventCounted, Zenon
      <3>4. QED
        BY <1>9, <3>3, Zenon DEF CountedEvent
    <2>2. td2.sections = Len(st.sections) - Len(ld2)
      BY <1>20, <2>1, Zenon DEF Counts, n
    <2>3. td2.tracks = Len(ThisSection(st, ld2).tracks) - TracksRead(ld2)
      BY <1>3, <1>20, <2>1, Zenon DEF Counts, s, k
    <2>4. td2.events = Len(ThisTrack(st, ld2).events) - EventsRead(ld2)
      BY <1>2, <1>3, <1>6, <1>21, <2>1
    <2>5. EventsRead(ld2) # 0 /\ TracksRead(ld2) # 0
      <3>1. e + 1 # 0
        BY <1>6
      <3>2. QED
        BY <1>1, <1>20, <1>21, <3>1, Zenon DEF k
    <2>6. Steady(ThisTrack(st, ld2)) => td2.clock = ThisTrack(st, ld2).events[EventsRead(ld2)].tick
      BY <1>10, <1>21, <2>1, Zenon
    <2>7. QED
      BY <1>20, <2>1, <2>2, <2>3, <2>4, <2>5, <2>6, Zenon DEF Counts
  <1> DEFINE H == <<p>>
             F == SubSeq(ps, e + 2, Len(ps))
             RS == RestOfTracks(st, ld) \o From(SectionsOf(st), n)
  <1>23. /\ RestOfTracks(st, ld2) = RestOfTracks(st, ld)
         /\ From(SectionsOf(st), Len(ld2)) = From(SectionsOf(st), n)
    BY <1>3, <1>20, Zenon DEF RestOfTracks, s, k
  <1>24. RestOfEvents(st, ld) = H \o F /\ RestOfEvents(st, ld2) = F
    <2>1. RestOfEvents(st, ld) = SubSeq(ps, e + 1, Len(ps))
      BY <1>1, <1>7, Zenon DEF RestOfEvents, EventsFrom, ps, t, e, k
    <2>2. RestOfEvents(st, ld2) = SubSeq(ps, e + 1 + 1, Len(ps))
      BY <1>1, <1>7, <1>20, <1>21, Zenon DEF RestOfEvents, EventsFrom, ps
    <2>3. e + 1 \in 1 .. Len(ps) /\ Len(ps) \in e + 1 .. Len(ps) /\ e + 1 + 1 = e + 2
      BY <1>6, <1>7
    <2>4. SubSeq(ps, e + 1, Len(ps)) = <<ps[e + 1]>> \o SubSeq(ps, e + 1 + 1, Len(ps))
      BY <1>7, <2>3, SubSeqRecursiveFirst, Zenon
    <2>5. QED
      BY <1>7, <2>1, <2>2, <2>3, <2>4, Zenon
  <1>25. H \in Seq(Parts) /\ F \in Seq(Parts) /\ RS \in Seq(Parts)
    <2>1. RestOfTracks(st, ld) \in Seq(Parts) /\ From(SectionsOf(st), n) \in Seq(Parts)
      BY CursorFacts, Zenon DEF n
    <2>2. RS \in Seq(Parts)
      BY <2>1, ConcatProperties, Zenon
    <2>3. F \in Seq(Parts)
      BY <1>20, <1>24, CursorFacts, Zenon
    <2>4. H \in Seq(Parts)
      BY <1>8
    <2>5. QED
      BY <2>2, <2>3, <2>4
  <1>26. td.name = FALSE /\ td2.name = FALSE
    BY <1>2 DEF Counters
  <1> HIDE DEF H, F
  <1>27. /\ Remaining(st, ld, td.name) = <<>> \o ((H \o F) \o RS)
         /\ Remaining(st, ld2, td2.name) = <<>> \o (F \o RS)
    BY <1>23, <1>24, <1>26, Zenon DEF Remaining, NameOf, n
  <1> HIDE DEF RS
  <1>28. F \o RS \in Seq(Parts) /\ H \o F \in Seq(Parts)
    BY <1>25, ConcatProperties, Zenon
  <1>29. (H \o F) \o RS \in Seq(Parts)
    BY <1>25, <1>28, ConcatProperties, Zenon
  <1>30. (H \o F) \o RS = H \o (F \o RS)
    <2>1. \A a, b, c \in Seq(Parts) : (a \o b) \o c = a \o (b \o c)
      BY PartsRegroup, Zenon
    <2>2. QED
      BY <1>25, <2>1, Zenon
  <1>31. /\ <<>> \o ((H \o F) \o RS) = (H \o F) \o RS
         /\ <<>> \o (F \o RS) = F \o RS
    BY <1>28, <1>29, ConcatEmptySeq, Zenon
  <1>32. QED
    BY <1>8, <1>20, <1>22, <1>27, <1>28, <1>30, <1>31, Zenon DEF H

(***************************************************************************)
(* Part 9: the invariant.  What is left of the file, followed by what is   *)
(* lost of it, is what remains to be read of the style.                    *)
(***************************************************************************)
Reading(st, d, r, td, ld) ==
  /\ r \in Seq(Parts)
  /\ StyleMatches(ld, st, FALSE)
  /\ Counts(st, ld, td)
  /\ r \o Lost(st, d) = Remaining(st, ld, td.name)

ReaderInv ==
  /\ style \in Storable
  /\ disk \in Prefixes(Serialized(style))
  /\ whole = (disk = Serialized(style))
  /\ verdict \in {"idle", "reading", "ok", "refused"}
  /\ verdict = "idle" => loaded = <<>>
  /\ verdict = "reading" => ~ TooLarge(disk) /\ Reading(style, disk, rest, todo, loaded)
  /\ verdict = "ok" => whole /\ ~ TooLarge(disk) /\ StyleMatches(loaded, style, TRUE)
  /\ verdict = "refused" => ~ (whole /\ ~ TooLarge(disk))

LEMMA LostFacts ==
  ASSUME NEW st \in Storable, NEW d \in Prefixes(Serialized(st))
  PROVE  /\ d \in Seq(Parts) /\ Lost(st, d) \in Seq(Parts) /\ d \o Lost(st, d) = Serialized(st)
         /\ d = Serialized(st) <=> Lost(st, d) = <<>>
  <1> DEFINE f == Serialized(st)
  <1>1. f \in Seq(Parts)
    BY StyleWritten, Zenon
  <1> HIDE DEF f
  <1>2. d \in Prefixes(f)
    BY DEF f
  <1>3. LET l == SubSeq(f, Len(d) + 1, Len(f))
        IN  d \in Seq(Parts) /\ l \in Seq(Parts) /\ d \o l = f /\ (d = f <=> l = <<>>)
    BY <1>1, <1>2, PrefixAndRest, Zenon
  <1>4. QED
    BY <1>3, Zenon DEF Lost, f

LEMMA FileOpened ==
  ReaderInv /\ OpenFile /\ UNCHANGED <<style, whole>> => ReaderInv'
  <1> SUFFICES ASSUME ReaderInv, OpenFile, UNCHANGED <<style, whole>> PROVE ReaderInv'
    OBVIOUS
  <1> USE DEF ReaderInv
  <1> DEFINE l == Lost(style, disk)
             m == From(SectionsOf(style), 0)
             h == FileHeader(style)
  <1>1. style' = style /\ whole' = whole /\ disk' = disk /\ loaded' = <<>> /\ verdict = "idle"
    BY DEF OpenFile
  <1>2. style \in Storable /\ disk \in Prefixes(Serialized(style))
    OBVIOUS
  <1>3. /\ disk \in Seq(Parts) /\ l \in Seq(Parts) /\ disk \o l = Serialized(style)
        /\ disk = Serialized(style) <=> l = <<>>
    BY <1>2, LostFacts, Zenon
  <1>4. /\ Serialized(style) = <<h>> \o m /\ h \in FilePart /\ h \in Parts /\ m \in Seq(Parts)
        /\ h.kind = "file" /\ h.sections = Len(style.sections) /\ Len(style.sections) \in Nat
    <2>1. /\ Serialized(style) = <<h>> \o m /\ h \in FilePart /\ m \in Seq(Parts)
          /\ Len(style.sections) \in Nat
      BY <1>2, StyleWritten, Zenon
    <2>2. h.kind = "file" /\ h.sections = Len(style.sections)
      BY DEF FileHeader
    <2>3. h \in Parts
      BY <2>1, Zenon DEF Parts
    <2>4. QED
      BY <2>1, <2>2, <2>3
  <1> HIDE DEF l, m, h
  <1>5. CASE TooLarge(disk)
    <2>1. verdict' = "refused" /\ ~ (whole /\ ~ TooLarge(disk))
      BY <1>5, Zenon DEF OpenFile
    <2>2. /\ style' \in Storable /\ disk' \in Prefixes(Serialized(style'))
          /\ whole' = (disk' = Serialized(style')) /\ ~ (whole' /\ ~ TooLarge(disk'))
      BY <1>1, <2>1, Zenon
    <2>3. QED
      BY <2>1, <2>2
  <1>6. CASE disk = <<>>
    <2>1. Serialized(style) # <<>>
      <3>1. Len(<<h>> \o m) = 1 + Len(m) /\ Len(m) \in Nat
        <4>1. <<h>> \in Seq(Parts) /\ Len(<<h>>) = 1
          BY <1>4
        <4>2. QED
          BY <1>4, <4>1, ConcatProperties
      <3>2. Len(<<>>) = 0
        OBVIOUS
      <3>3. Len(Serialized(style)) # 0
        BY <1>4, <3>1
      <3>4. QED
        BY <3>2, <3>3, Zenon
    <2>2. ~ whole
      BY <1>6, <2>1, Zenon
    <2>3. verdict' = "refused" /\ ~ whole'
      BY <1>1, <1>6, <2>2, Zenon DEF OpenFile
    <2>4. /\ style' \in Storable /\ disk' \in Prefixes(Serialized(style'))
          /\ whole' = (disk' = Serialized(style'))
      BY <1>1, Zenon
    <2>5. QED
      BY <2>3, <2>4
  <1>7. CASE ~ TooLarge(disk) /\ disk # <<>>
    <2>1. Head(disk) = h /\ Tail(disk) \in Seq(Parts) /\ Tail(disk) \o l = m
      <3>1. StartsWith(disk, l, h, m)
        BY <1>3, <1>4, <1>7, Zenon DEF StartsWith
      <3>2. QED
        BY <1>3, <1>4, <3>1, FirstOff, Zenon
    <2>2. /\ verdict' = "reading" /\ rest' = Tail(disk)
          /\ todo' = [NothingLeft EXCEPT !.sections = Head(disk).sections]
      <3>1. Head(disk).kind = "file"
        BY <1>4, <2>1, Zenon
      <3>2. QED
        BY <1>7, <3>1, Zenon DEF OpenFile
    <2>3. /\ todo' \in Counters /\ todo'.sections = Len(style.sections) /\ todo'.tracks = 0
          /\ todo'.events = 0 /\ todo'.name = FALSE
      BY <1>4, <2>1, <2>2 DEF NothingLeft, Counters
    <2>4. TracksRead(<<>>) = 0 /\ EventsRead(<<>>) = 0 /\ Len(<<>>) = 0
      BY DEF TracksRead, EventsRead
    <2>5. StyleMatches(<<>>, style, FALSE)
      <3>1. <<>> \in Seq(ReadSections) /\ 0 <= Len(style.sections)
        BY <1>4
      <3>2. \A i \in 1 .. 0 : FALSE
        OBVIOUS
      <3>3. QED
        BY <2>4, <3>1, <3>2, Zenon DEF StyleMatches
    <2>6. Counts(style, <<>>, todo')
      <3>1. todo'.sections = Len(style.sections) - Len(<<>>)
        BY <1>4, <2>3, <2>4
      <3>2. QED
        BY <2>3, <2>4, <3>1, Zenon DEF Counts
    <2>7. Remaining(style, <<>>, todo'.name) = m
      <3>1. Remaining(style, <<>>, todo'.name) = <<>> \o (<<>> \o (<<>> \o m))
        BY <2>3, <2>4, Zenon DEF Remaining, NameOf, RestOfEvents, RestOfTracks, m
      <3>2. <<>> \o m = m
        BY <1>4, ConcatEmptySeq, Zenon
      <3>3. QED
        BY <3>1, <3>2, Zenon
    <2>8. Reading(style, disk, rest', todo', <<>>)
      BY <2>1, <2>2, <2>5, <2>6, <2>7, Zenon DEF Reading, l
    <2>9. Reading(style', disk', rest', todo', loaded')
      BY <1>1, <2>8, Zenon
    <2>10. ReaderInv'
      <3>1. style' \in Storable /\ disk' \in Prefixes(Serialized(style'))
            /\ whole' = (disk' = Serialized(style')) /\ ~ TooLarge(disk')
        BY <1>1, <1>7, Zenon
      <3>2. verdict' = "reading"
        BY <2>2
      <3>3. QED
        BY <2>9, <3>1, <3>2
    <2>11. QED
      BY <2>10
  <1>8. QED
    BY <1>5, <1>6, <1>7

\* x is the first part of what remains; ld2 and td2 are where the reader is after it.
Takes(st, ld, td, x, ld2, td2) ==
  /\ x \in Parts /\ Remaining(st, ld2, td2.name) \in Seq(Parts)
  /\ Remaining(st, ld, td.name) = <<x>> \o Remaining(st, ld2, td2.name)
  /\ StyleMatches(ld2, st, FALSE) /\ Counts(st, ld2, td2)

LEMMA PartTaken ==
  ASSUME NEW st \in Storable, NEW d \in Prefixes(Serialized(st)),
         NEW r, NEW td, NEW ld, Reading(st, d, r, td, ld), r # <<>>,
         NEW x, NEW ld2, NEW td2, Takes(st, ld, td, x, ld2, td2)
  PROVE  Head(r) = x /\ Reading(st, d, Tail(r), td2, ld2)
  <1> DEFINE l == Lost(st, d)
             m == Remaining(st, ld2, td2.name)
  <1>1. l \in Seq(Parts)
    BY LostFacts, Zenon
  <1>2. x \in Parts /\ m \in Seq(Parts) /\ StyleMatches(ld2, st, FALSE) /\ Counts(st, ld2, td2)
    BY Zenon DEF Takes
  <1>3. r \in Seq(Parts) /\ r \o l = <<x>> \o m
    BY Zenon DEF Reading, Takes
  <1> HIDE DEF l, m
  <1>4. StartsWith(r, l, x, m)
    BY <1>3, Zenon DEF StartsWith
  <1>5. Head(r) = x /\ Tail(r) \in Seq(Parts) /\ Tail(r) \o l = m
    BY <1>1, <1>2, <1>3, <1>4, FirstOff, Zenon
  <1>6. QED
    BY <1>2, <1>5, Zenon DEF Reading, l, m

LEMMA NameTaken ==
  ASSUME NEW st \in Storable, NEW ld, StyleMatches(ld, st, FALSE),
         NEW td, Counts(st, ld, td), td.name
  PROVE  Takes(st, ld, td, NamePart, ld, [td EXCEPT !.name = FALSE])
  <1> DEFINE td2 == [td EXCEPT !.name = FALSE]
  <1>1. td.name \in BOOLEAN
    BY DEF Counts, Counters
  <1>2. CASE td.name
    BY <1>1, <1>2, NameRead, Zenon DEF Takes
  <1>3. QED
    BY <1>2

\* As long as a counter is not zero there is a part to come.
LEMMA PartToCome ==
  ASSUME NEW st \in Storable, NEW ld, StyleMatches(ld, st, FALSE),
         NEW td, Counts(st, ld, td),
         ~ (td.sections = 0 /\ td.tracks = 0 /\ td.events = 0 /\ ~ td.name)
  PROVE  \E x, ld2, td2 : Takes(st, ld, td, x, ld2, td2)
  <1>1. /\ td.sections \in Nat /\ td.tracks \in Nat /\ td.events \in Nat
        /\ td.name \in BOOLEAN
    BY DEF Counts, Counters
  <1>2. CASE td.name
    BY <1>2, NameTaken, Zenon
  <1>3. CASE ~ td.name /\ td.events # 0
    <2> DEFINE p == EventParts(ThisTrack(st, ld).events)[EventsRead(ld) + 1]
               ld2 == [ld EXCEPT ![Len(ld)].tracks[TracksRead(ld)].events =
                         Append(@, EventRead(p, td.clock))]
               td2 == [td EXCEPT !.events = @ - 1, !.clock = @ + p.delta]
    <2>1. td.events > 0
      BY <1>1, <1>3
    <2>2. Takes(st, ld, td, p, ld2, td2)
      BY <1>3, <2>1, NextEventRead, Zenon DEF Takes
    <2>3. QED
      BY <2>2, Zenon
  <1>4. CASE ~ td.name /\ td.events = 0 /\ td.tracks # 0
    <2> DEFINE h == TrackHeader(ThisSection(st, ld).tracks[TracksRead(ld) + 1])
               ld2 == [ld EXCEPT ![Len(ld)].tracks = Append(@, TrackRead(h))]
               td2 == [td EXCEPT !.tracks = @ - 1, !.events = h.events,
                                 !.name = h.named, !.clock = 0]
    <2>1. td.tracks > 0
      BY <1>1, <1>4
    <2>2. Takes(st, ld, td, h, ld2, td2)
      BY <1>4, <2>1, TrackHeaderRead, Zenon DEF Takes
    <2>3. QED
      BY <2>2, Zenon
  <1>5. CASE ~ td.name /\ td.events = 0 /\ td.tracks = 0 /\ td.sections # 0
    <2> DEFINE h == SectionHeader(st.sections[Len(ld) + 1])
               ld2 == Append(ld, SectionRead(h))
               td2 == [td EXCEPT !.sections = @ - 1, !.tracks = h.tracks]
    <2>1. td.sections > 0
      BY <1>1, <1>5
    <2>2. Takes(st, ld, td, h, ld2, td2)
      BY <1>5, <2>1, SectionHeaderRead, Zenon DEF Takes
    <2>3. QED
      BY <2>2, Zenon
  <1>6. QED
    BY <1>2, <1>3, <1>4, <1>5

\* A step that takes the next part keeps the invariant.
LEMMA InvKept ==
  ASSUME ReaderInv, verdict = "reading", rest # <<>>,
         NEW x, NEW ld2, NEW td2, Takes(style, loaded, todo, x, ld2, td2),
         rest' = Tail(rest), loaded' = ld2, todo' = td2,
         UNCHANGED <<style, whole, disk, verdict>>
  PROVE  ReaderInv'
  <1>1. style \in Storable /\ disk \in Prefixes(Serialized(style))
        /\ Reading(style, disk, rest, todo, loaded) /\ whole = (disk = Serialized(style))
        /\ ~ TooLarge(disk)
    BY DEF ReaderInv
  <1>2. Reading(style, disk, Tail(rest), td2, ld2)
    BY <1>1, PartTaken, Zenon
  <1>3. /\ style' = style /\ disk' = disk /\ whole' = whole /\ verdict' = "reading"
    OBVIOUS
  <1>4. Reading(style', disk', rest', todo', loaded')
    BY <1>2, <1>3, Zenon
  <1>5. /\ style' \in Storable /\ disk' \in Prefixes(Serialized(style'))
        /\ whole' = (disk' = Serialized(style')) /\ ~ TooLarge(disk')
    BY <1>1, <1>3, Zenon
  <1>6. QED
    BY <1>3, <1>4, <1>5 DEF ReaderInv

LEMMA NextPartFacts ==
  ASSUME ReaderInv, NextPart, UNCHANGED <<style, whole>>
  PROVE  /\ verdict = "reading" /\ rest # <<>> /\ rest' = Tail(rest)
         /\ UNCHANGED <<style, whole, disk, verdict>>
         /\ style \in Storable /\ disk \in Prefixes(Serialized(style))
         /\ StyleMatches(loaded, style, FALSE) /\ Counts(style, loaded, todo)
         /\ Reading(style, disk, rest, todo, loaded)
         /\ \A x, ld2, td2 : Takes(style, loaded, todo, x, ld2, td2) => Head(rest) = x
  <1>1. /\ verdict = "reading" /\ rest # <<>> /\ rest' = Tail(rest)
        /\ UNCHANGED <<style, whole, disk, verdict>>
    BY DEF NextPart
  <1>2. /\ style \in Storable /\ disk \in Prefixes(Serialized(style))
        /\ Reading(style, disk, rest, todo, loaded)
    BY <1>1 DEF ReaderInv
  <1>3. StyleMatches(loaded, style, FALSE) /\ Counts(style, loaded, todo)
    BY <1>2, Zenon DEF Reading
  <1>4. \A x, ld2, td2 : Takes(style, loaded, todo, x, ld2, td2) => Head(rest) = x
    BY <1>1, <1>2, PartTaken, Zenon
  <1>5. QED
    BY <1>1, <1>2, <1>3, <1>4, Zenon

LEMMA SectionHeaderStep ==
  ReaderInv /\ ReadSectionHeader /\ UNCHANGED <<style, whole>> => ReaderInv'
  <1> SUFFICES ASSUME ReaderInv, ReadSectionHeader, UNCHANGED <<style, whole>>
               PROVE  ReaderInv'
    OBVIOUS
  <1> DEFINE h == SectionHeader(style.sections[Len(loaded) + 1])
             ld2 == Append(loaded, SectionRead(h))
             td2 == [todo EXCEPT !.sections = @ - 1, !.tracks = h.tracks]
  <1>1. NextPart /\ todo.events = 0 /\ todo.tracks = 0 /\ ~ todo.name /\ todo.sections > 0
    BY DEF ReadSectionHeader, SectionDone
  <1>2. Takes(style, loaded, todo, h, ld2, td2)
    BY <1>1, NextPartFacts, SectionHeaderRead, Zenon DEF Takes
  <1>3. Head(rest) = h
    BY <1>1, <1>2, NextPartFacts, Zenon
  <1>4. loaded' = ld2 /\ todo' = td2
    BY <1>3, Zenon DEF ReadSectionHeader, SectionRead
  <1> HIDE DEF h, ld2, td2
  <1>5. QED
    BY <1>1, <1>2, <1>4, NextPartFacts, InvKept, Zenon

LEMMA TrackHeaderStep ==
  ReaderInv /\ ReadTrackHeader /\ UNCHANGED <<style, whole>> => ReaderInv'
  <1> SUFFICES ASSUME ReaderInv, ReadTrackHeader, UNCHANGED <<style, whole>>
               PROVE  ReaderInv'
    OBVIOUS
  <1> DEFINE h == TrackHeader(ThisSection(style, loaded).tracks[TracksRead(loaded) + 1])
             ld2 == [loaded EXCEPT ![Len(loaded)].tracks = Append(@, TrackRead(h))]
             td2 == [todo EXCEPT !.tracks = @ - 1, !.events = h.events,
                                 !.name = h.named, !.clock = 0]
  <1>1. NextPart /\ todo.events = 0 /\ ~ todo.name /\ todo.tracks > 0
    BY DEF ReadTrackHeader
  <1>2. Takes(style, loaded, todo, h, ld2, td2)
    BY <1>1, NextPartFacts, TrackHeaderRead, ZenonT(40) DEF Takes
  <1>3. Head(rest) = h
    BY <1>1, <1>2, NextPartFacts, Zenon
  <1>4. loaded' = ld2 /\ todo' = td2
    BY <1>3, Zenon DEF ReadTrackHeader, TrackRead
  <1> HIDE DEF h, ld2, td2
  <1>5. QED
    BY <1>1, <1>2, <1>4, NextPartFacts, InvKept, Zenon

LEMMA NameStep ==
  ReaderInv /\ ReadName /\ UNCHANGED <<style, whole>> => ReaderInv'
  <1> SUFFICES ASSUME ReaderInv, ReadName, UNCHANGED <<style, whole>>
               PROVE  ReaderInv'
    OBVIOUS
  <1> DEFINE td2 == [todo EXCEPT !.name = FALSE]
  <1>1. NextPart /\ todo.name /\ loaded' = loaded /\ todo' = td2
    BY DEF ReadName
  <1>2. Takes(style, loaded, todo, NamePart, loaded, td2)
    <2>1. /\ style \in Storable /\ StyleMatches(loaded, style, FALSE)
          /\ Counts(style, loaded, todo)
      BY <1>1, NextPartFacts, Zenon
    <2>2. QED
      BY <1>1, <2>1, NameTaken, Zenon
  <1> HIDE DEF td2
  <1>3. QED
    BY <1>1, <1>2, NextPartFacts, InvKept, Zenon

LEMMA EventStep ==
  ReaderInv /\ ReadEvent /\ UNCHANGED <<style, whole>> => ReaderInv'
  <1> SUFFICES ASSUME ReaderInv, ReadEvent, UNCHANGED <<style, whole>>
               PROVE  ReaderInv'
    OBVIOUS
  <1> DEFINE p == EventParts(ThisTrack(style, loaded).events)[EventsRead(loaded) + 1]
             ld2 == [loaded EXCEPT ![Len(loaded)].tracks[TracksRead(loaded)].events =
                       Append(@, EventRead(p, todo.clock))]
             td2 == [todo EXCEPT !.events = @ - 1, !.clock = @ + p.delta]
  <1>1. NextPart /\ ~ todo.name /\ todo.events > 0
    BY DEF ReadEvent
  <1>2. Takes(style, loaded, todo, p, ld2, td2)
    BY <1>1, NextPartFacts, NextEventRead, Zenon DEF Takes
  <1>3. Head(rest) = p
    BY <1>1, <1>2, NextPartFacts, Zenon
  <1>4. TracksRead(loaded) = Len(loaded[Len(loaded)].tracks)
    <2>1. Counts(style, loaded, todo) /\ todo.events # 0
      BY <1>1, NextPartFacts
    <2>2. TracksRead(loaded) # 0
      BY <2>1, Zenon DEF Counts
    <2>3. QED
      BY <2>2, Zenon DEF TracksRead
  <1>5. loaded' = ld2 /\ todo' = td2
    BY <1>3, <1>4, Zenon DEF ReadEvent, EventRead
  <1> HIDE DEF p, ld2, td2
  <1>6. QED
    BY <1>1, <1>2, <1>5, NextPartFacts, InvKept, Zenon

\* What is refused breaks off before its end.
LEMMA RefusedIsTorn ==
  ReaderInv /\ Truncated /\ UNCHANGED <<style, whole>> => ReaderInv'
  <1> SUFFICES ASSUME ReaderInv, Truncated, UNCHANGED <<style, whole>> PROVE ReaderInv'
    OBVIOUS
  <1> DEFINE l == Lost(style, disk)
  <1>1. /\ verdict = "reading" /\ verdict' = "refused" /\ rest = <<>>
        /\ style' = style /\ whole' = whole /\ disk' = disk
        /\ ~ (todo.sections = 0 /\ todo.tracks = 0 /\ todo.events = 0 /\ ~ todo.name)
    BY DEF Truncated, AllRead, SectionDone
  <1>2. /\ style \in Storable /\ disk \in Prefixes(Serialized(style))
        /\ Reading(style, disk, rest, todo, loaded) /\ whole = (disk = Serialized(style))
    BY <1>1 DEF ReaderInv
  <1>3. /\ StyleMatches(loaded, style, FALSE) /\ Counts(style, loaded, todo)
        /\ rest \o l = Remaining(style, loaded, todo.name)
    BY <1>2, Zenon DEF Reading
  <1>4. PICK x, ld2, td2 : Takes(style, loaded, todo, x, ld2, td2)
    BY <1>1, <1>2, <1>3, PartToCome, Zenon
  <1> DEFINE m == Remaining(style, ld2, td2.name)
  <1>5. x \in Parts /\ m \in Seq(Parts) /\ <<>> \o l = <<x>> \o m
    BY <1>1, <1>3, <1>4, Zenon DEF Takes
  <1>6. l \in Seq(Parts) /\ (disk = Serialized(style) <=> l = <<>>)
    BY <1>2, LostFacts, Zenon
  <1> HIDE DEF l, m
  <1>7. l # <<>>
    <2>1. <<x>> \in Seq(Parts) /\ Len(<<x>>) = 1
      BY <1>5
    <2>2. Len(<<x>> \o m) = 1 + Len(m) /\ Len(m) \in Nat
      BY <1>5, <2>1, ConcatProperties
    <2>3. <<>> \o l = l
      BY <1>6, ConcatEmptySeq, Zenon
    <2>4. Len(l) # 0
      BY <1>5, <2>2, <2>3
    <2>5. Len(<<>>) = 0
      OBVIOUS
    <2>6. QED
      BY <2>4, <2>5, Zenon
  <1>8. ~ whole
    BY <1>2, <1>6, <1>7, Zenon
  <1>9. /\ style' \in Storable /\ disk' \in Prefixes(Serialized(style'))
        /\ whole' = (disk' = Serialized(style')) /\ ~ whole'
    BY <1>1, <1>2, <1>8, Zenon
  <1>10. QED
    BY <1>1, <1>9 DEF ReaderInv

\* When every counter is zero nothing remains, and nothing was lost.
LEMMA AllIsRead ==
  ASSUME NEW st \in Storable, NEW d \in Prefixes(Serialized(st)),
         NEW r, NEW td, NEW ld, Reading(st, d, r, td, ld),
         td.sections = 0, td.tracks = 0, td.events = 0, ~ td.name
  PROVE  d = Serialized(st) /\ StyleMatches(ld, st, TRUE)
  <1> DEFINE l == Lost(st, d)
             n == Len(ld)
  <1>1. /\ StyleMatches(ld, st, FALSE) /\ Counts(st, ld, td) /\ r \in Seq(Parts)
        /\ r \o l = Remaining(st, ld, td.name)
    BY Zenon DEF Reading
  <1>2. n = Len(st.sections) /\ Len(st.sections) \in Nat
    <2>1. n \in 0 .. Len(st.sections) /\ Len(st.sections) \in Nat
      BY <1>1, CursorFacts, Zenon
    <2>2. 0 = Len(st.sections) - n
      BY <1>1, Zenon DEF Counts
    <2> HIDE DEF n
    <2>3. QED
      BY <2>1, <2>2
  <1>3. /\ RestOfEvents(st, ld) = <<>> /\ RestOfTracks(st, ld) = <<>>
        /\ \A i \in 1 .. Len(ld) : SectionMatches(ld[i], st.sections[i], TRUE)
    BY <1>1, EventsDone, SectionIsDone, Zenon
  <1>4. From(SectionsOf(st), n) = <<>>
    <2>1. SectionsOf(st) \in Seq(Seq(Parts)) /\ Len(SectionsOf(st)) = Len(st.sections)
      BY StyleWritten, Zenon
    <2>2. n \in 0 .. Len(SectionsOf(st)) /\ n = Len(SectionsOf(st))
      BY <1>2, <2>1
    <2>3. QED
      BY <2>1, <2>2, FromStep, Zenon
  <1>5. Remaining(st, ld, td.name) = <<>> \o (<<>> \o (<<>> \o <<>>))
    <2>1. td.name = FALSE
      BY <1>1 DEF Counts, Counters
    <2>2. QED
      BY <1>3, <1>4, <2>1, Zenon DEF Remaining, NameOf, n
  <1>6. l = <<>>
    <2>1. l \in Seq(Parts)
      BY LostFacts, Zenon
    <2> HIDE DEF l
    <2>2. <<>> \o (<<>> \o (<<>> \o <<>>)) = <<>>
      OBVIOUS
    <2>3. Len(r \o l) = Len(r) + Len(l) /\ Len(r) \in Nat /\ Len(l) \in Nat
      BY <1>1, <2>1, ConcatProperties
    <2>4. Len(r \o l) = 0
      BY <1>1, <1>5, <2>2
    <2>5. Len(l) = 0
      BY <2>3, <2>4
    <2>6. QED
      BY <2>1, <2>5
  <1>7. d = Serialized(st)
    BY <1>6, LostFacts, Zenon
  <1>8. StyleMatches(ld, st, TRUE)
    <2>1. \A i \in 1 .. Len(ld) : SectionMatches(ld[i], st.sections[i], TRUE \/ i < Len(ld))
      <3>1. \A i \in 1 .. Len(ld) : (TRUE \/ i < Len(ld)) = TRUE
        OBVIOUS
      <3>2. QED
        BY <1>3, <3>1, Zenon
    <2>2. ld \in Seq(ReadSections) /\ Len(ld) <= Len(st.sections)
      BY <1>1, Zenon DEF StyleMatches
    <2>3. QED
      BY <1>2, <2>1, <2>2, Zenon DEF StyleMatches
  <1>9. QED
    BY <1>7, <1>8, Zenon

LEMMA AcceptStep ==
  ReaderInv /\ Accept /\ UNCHANGED <<style, whole>> => ReaderInv'
  <1> SUFFICES ASSUME ReaderInv, Accept, UNCHANGED <<style, whole>> PROVE ReaderInv'
    OBVIOUS
  <1>1. /\ verdict = "reading" /\ verdict' = "ok"
        /\ style' = style /\ whole' = whole /\ disk' = disk /\ loaded' = loaded
        /\ todo.sections = 0 /\ todo.tracks = 0 /\ todo.events = 0 /\ ~ todo.name
    BY DEF Accept, AllRead, SectionDone
  <1>2. /\ style \in Storable /\ disk \in Prefixes(Serialized(style))
        /\ Reading(style, disk, rest, todo, loaded) /\ whole = (disk = Serialized(style))
        /\ ~ TooLarge(disk)
    BY <1>1 DEF ReaderInv
  <1>3. disk = Serialized(style) /\ StyleMatches(loaded, style, TRUE)
    BY <1>1, <1>2, AllIsRead, Zenon
  <1>4. whole
    BY <1>2, <1>3
  <1>5. /\ style' \in Storable /\ disk' \in Prefixes(Serialized(style'))
        /\ whole' = (disk' = Serialized(style')) /\ whole'
        /\ ~ TooLarge(disk') /\ StyleMatches(loaded', style', TRUE)
    BY <1>1, <1>2, <1>3, <1>4, Zenon
  <1>6. QED
    BY <1>1, <1>5 DEF ReaderInv

(***************************************************************************)
(* Part 10: what the invariant says of a file that was accepted.           *)
(***************************************************************************)
LEMMA TrackComesBack ==
  ASSUME NEW t \in TrackDefs, NEW m \in ReadTracks, TrackMatches(m, t, TRUE)
  PROVE  Untimed(m) = Untimed(t) /\ (Steady(t) => m = t)
  <1>1. /\ m.channel = t.channel /\ m.role = t.role /\ m.drum = t.drum /\ m.named = t.named
        /\ Len(m.events) = Len(t.events)
        /\ \A j \in 1 .. Len(m.events) : EventMatches(m.events[j], t.events[j], Steady(t))
    BY Zenon DEF TrackMatches
  <1>2. m.events \in Seq(ReadEvents) /\ t.events \in Seq(EventDefs)
    BY DEF ReadTracks, TrackDefs
  <1> DEFINE a == m.events
             b == t.events
  <1>3. /\ DOMAIN a = 1 .. Len(a) /\ DOMAIN b = 1 .. Len(a) /\ Len(a) \in Nat
        /\ \A j \in 1 .. Len(a) : a[j] \in ReadEvents /\ b[j] \in EventDefs
    BY <1>1, <1>2
  <1>4. \A j \in 1 .. Len(a) :
           /\ [a[j] EXCEPT !.tick = 0] = [b[j] EXCEPT !.tick = 0]
           /\ Steady(t) => a[j] = b[j]
    <2> SUFFICES ASSUME NEW j \in 1 .. Len(a)
                 PROVE  /\ [a[j] EXCEPT !.tick = 0] = [b[j] EXCEPT !.tick = 0]
                        /\ Steady(t) => a[j] = b[j]
      OBVIOUS
    <2> DEFINE y == a[j]
               e == b[j]
    <2>1. /\ y.type = e.type /\ y.channel = e.channel /\ y.d1 = e.d1 /\ y.d2 = e.d2
          /\ Steady(t) => y.tick = e.tick
      BY <1>1, Zenon DEF EventMatches
    <2>2. y \in ReadEvents /\ e \in EventDefs
      BY <1>3
    <2> HIDE DEF y, e
    <2>3. [y EXCEPT !.tick = 0] = [e EXCEPT !.tick = 0]
      BY <2>1, <2>2 DEF ReadEvents, EventDefs
    <2>4. ASSUME Steady(t) PROVE y = e
      <3>1. y.tick = e.tick
        BY <2>1, <2>4, Zenon
      <3>2. QED
        BY <2>1, <2>2, <3>1 DEF ReadEvents, EventDefs
    <2>5. QED
      BY <2>3, <2>4, Zenon DEF y, e
  <1>5. /\ t.channel \in Byte /\ t.role \in STRING /\ t.drum \in BOOLEAN
        /\ t.named \in BOOLEAN
        /\ t = [channel |-> t.channel, role |-> t.role, drum |-> t.drum,
                named |-> t.named, events |-> b]
    BY DEF TrackDefs
  <1>6. m = [channel |-> m.channel, role |-> m.role, drum |-> m.drum,
             named |-> m.named, events |-> a]
    BY DEF ReadTracks
  <1> DEFINE ua == [j \in DOMAIN a |-> [a[j] EXCEPT !.tick = 0]]
             ub == [j \in DOMAIN b |-> [b[j] EXCEPT !.tick = 0]]
  <1>7. ua = ub
    BY <1>3, <1>4
  <1>8. Untimed(m) = [m EXCEPT !.events = ua] /\ Untimed(t) = [t EXCEPT !.events = ub]
    BY Zenon DEF Untimed
  <1> HIDE DEF ua, ub, a, b
  <1>9. /\ [m EXCEPT !.events = ua] = [channel |-> m.channel, role |-> m.role,
                   drum |-> m.drum, named |-> m.named, events |-> ua]
        /\ [t EXCEPT !.events = ub] = [channel |-> t.channel, role |-> t.role,
                   drum |-> t.drum, named |-> t.named, events |-> ub]
    <2>1. [m EXCEPT !.events = ua] = [channel |-> m.channel, role |-> m.role,
            drum |-> m.drum, named |-> m.named, events |-> ua]
      BY <1>6
    <2>2. [t EXCEPT !.events = ub] = [channel |-> t.channel, role |-> t.role,
            drum |-> t.drum, named |-> t.named, events |-> ub]
      BY <1>5
    <2>3. QED
      BY <2>1, <2>2, Zenon
  <1>10. Untimed(m) = Untimed(t)
    BY <1>1, <1>7, <1>8, <1>9, Zenon
  <1>11. ASSUME Steady(t) PROVE m = t
    <2>1. a = b
      <3>1. Len(a) = Len(b) /\ \A j \in 1 .. Len(a) : a[j] = b[j]
        BY <1>1, <1>4, <1>11, Zenon DEF a, b
      <3>2. a \in Seq(ReadEvents) /\ b \in Seq(EventDefs)
        BY <1>2 DEF a, b
      <3>3. QED
        BY <3>1, <3>2, SeqEqual
    <2>2. QED
      BY <1>1, <1>5, <1>6, <2>1, Zenon
  <1>12. QED
    BY <1>10, <1>11

LEMMA SectionComesBack ==
  ASSUME NEW s \in SectionDefs, NEW m \in ReadSections, SectionMatches(m, s, TRUE)
  PROVE  /\ [m EXCEPT !.tracks = <<>>] = [s EXCEPT !.tracks = <<>>]
         /\ SameTracks(m.tracks, s.tracks)
  <1>1. /\ m.type = s.type /\ m.bars = s.bars /\ m.resolution = s.resolution
        /\ Len(m.tracks) = Len(s.tracks)
        /\ \A k \in 1 .. Len(m.tracks) :
              TrackMatches(m.tracks[k], s.tracks[k], TRUE \/ k < Len(m.tracks))
    BY Zenon DEF SectionMatches
  <1>2. \A k \in 1 .. Len(m.tracks) : TrackMatches(m.tracks[k], s.tracks[k], TRUE)
    <2>1. \A k \in 1 .. Len(m.tracks) : (TRUE \/ k < Len(m.tracks)) = TRUE
      OBVIOUS
    <2>2. QED
      BY <1>1, <2>1, Zenon
  <1>3. [m EXCEPT !.tracks = <<>>] = [s EXCEPT !.tracks = <<>>]
    BY <1>1 DEF ReadSections, SectionDefs
  <1>4. /\ m.tracks \in Seq(ReadTracks) /\ s.tracks \in Seq(TrackDefs)
    BY DEF ReadSections, SectionDefs
  <1>5. /\ DOMAIN m.tracks = 1 .. Len(m.tracks)
        /\ \A k \in 1 .. Len(m.tracks) : m.tracks[k] \in ReadTracks /\ s.tracks[k] \in TrackDefs
    BY <1>1, <1>4
  <1>6. SameTracks(m.tracks, s.tracks)
    BY <1>1, <1>2, <1>5, TrackComesBack, Zenon DEF SameTracks
  <1>7. QED
    BY <1>3, <1>6

LEMMA InvRefuses ==
  ReaderInv => TornFileRefused
  <1> SUFFICES ASSUME ReaderInv, verdict \in {"ok", "refused"}
               PROVE  /\ whole /\ ~ TooLarge(disk) <=> verdict = "ok"
                      /\ verdict = "ok" =>
                          /\ Len(loaded) = Len(style.sections)
                          /\ \A i \in DOMAIN loaded :
                              /\ [loaded[i] EXCEPT !.tracks = <<>>]
                                   = [style.sections[i] EXCEPT !.tracks = <<>>]
                              /\ SameTracks(loaded[i].tracks, style.sections[i].tracks)
    BY Zenon DEF TornFileRefused
  <1>1. whole /\ ~ TooLarge(disk) <=> verdict = "ok"
    BY DEF ReaderInv
  <1>2. ASSUME verdict = "ok"
        PROVE  /\ Len(loaded) = Len(style.sections)
               /\ \A i \in DOMAIN loaded :
                   /\ [loaded[i] EXCEPT !.tracks = <<>>]
                        = [style.sections[i] EXCEPT !.tracks = <<>>]
                   /\ SameTracks(loaded[i].tracks, style.sections[i].tracks)
    <2>1. style \in Storable /\ StyleMatches(loaded, style, TRUE)
      BY <1>2 DEF ReaderInv
    <2>2. /\ loaded \in Seq(ReadSections) /\ Len(loaded) = Len(style.sections)
          /\ \A i \in 1 .. Len(loaded) :
               SectionMatches(loaded[i], style.sections[i], TRUE \/ i < Len(loaded))
      BY <2>1, Zenon DEF StyleMatches
    <2>3. \A i \in 1 .. Len(loaded) : SectionMatches(loaded[i], style.sections[i], TRUE)
      <3>1. \A i \in 1 .. Len(loaded) : (TRUE \/ i < Len(loaded)) = TRUE
        OBVIOUS
      <3>2. QED
        BY <2>2, <3>1, Zenon
    <2>4. \A i \in 1 .. Len(style.sections) : style.sections[i] \in SectionDefs
      BY <2>1, StyleWritten, Zenon
    <2>5. DOMAIN loaded = 1 .. Len(loaded) /\ \A i \in 1 .. Len(loaded) : loaded[i] \in ReadSections
      BY <2>2
    <2>6. QED
      BY <2>2, <2>3, <2>4, <2>5, SectionComesBack, Zenon
  <1>3. QED
    BY <1>1, <1>2

\* A style that fits the format comes back from its file whole, section by section,
\* and a file that breaks off anywhere or is too large is refused: for every style,
\* every length of what is left of the file, and every limit of the format.
THEOREM TornFilesRefused == UasfSpec => []TornFileRefused
  <1>1. SavedInit => ReaderInv
    BY DEF SavedInit, ReaderInv
  <1>2. ReaderInv /\ [UasfNext /\ UNCHANGED <<style, whole>>]_<<style, whole, uasfVars>>
          => ReaderInv'
    <2> SUFFICES ASSUME ReaderInv,
                        [UasfNext /\ UNCHANGED <<style, whole>>]_<<style, whole, uasfVars>>
                 PROVE  ReaderInv'
      OBVIOUS
    <2>1. ASSUME UasfNext, UNCHANGED <<style, whole>> PROVE ReaderInv'
      BY <2>1, FileOpened, SectionHeaderStep, TrackHeaderStep, NameStep, EventStep,
         RefusedIsTorn, AcceptStep, Zenon DEF UasfNext
    <2>2. ASSUME UNCHANGED <<style, whole, uasfVars>> PROVE ReaderInv'
      <3>1. /\ style' = style /\ whole' = whole /\ disk' = disk /\ rest' = rest
            /\ todo' = todo /\ loaded' = loaded /\ verdict' = verdict
        BY <2>2 DEF uasfVars
      <3>2. QED
        BY <3>1, Zenon DEF ReaderInv
    <2>3. QED
      BY <2>1, <2>2, Zenon
  <1>3. QED
    BY <1>1, <1>2, InvRefuses, PTL DEF UasfSpec
===============================================================================
