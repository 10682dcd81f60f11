-------------------------- MODULE MCDesktopSession ---------------------------
(***************************************************************************)
(* Two devices, of which the first comes and goes and has a name that is a *)
(* key of the file; a style with a quote in its name and a tempo that no   *)
(* file may hold; and the app's own settings at the end of their ranges.   *)
(* A write breaks off at once, before the first field a snapshot does not  *)
(* have, or after the digits of the last.                                  *)
(***************************************************************************)
EXTENDS DesktopSession

SomeWords == {"Synth", "Waltz", "Soft", "theme"}

SomeLists == {<<<<"Synth">>>>, <<<<"theme">>, <<"Synth">>>>}

SomeStyles == {<<"Soft", Quote, "Waltz">>}

SomeSettings == {[variation |-> 2, tempo |-> 140, split |-> 48, bass |-> TRUE]}

SomeApps == {[scan |-> 3, groove |-> 4, layout |-> 1, theme |-> 2]}

SomeCuts ==
  {[fields |-> 8, digits |-> 0], [fields |-> 11, digits |-> 1]}

EmptyName == NoText
=============================================================================
