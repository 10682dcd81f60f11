------------------------------ MODULE SmfCapture ------------------------------
(***************************************************************************)
(* loadSmfBytes() (tools/korg_validation/src/midi_capture.cpp): the second  *)
(* reader of Standard MIDI Files in the repository, which the validation    *)
(* tool compares recordings with.  It skips what it does not know by its    *)
(* length and reads variable-length numbers most significant byte first.    *)
(* Here it is the reference for what a track chunk contains.                *)
(***************************************************************************)
LOCAL INSTANCE Integers
LOCAL INSTANCE Sequences
LOCAL INSTANCE SequencesExt
LOCAL INSTANCE FiniteSetsExt

LOCAL Rest(s, n) == SubSeq(s, n + 1, Len(s))

\* At most 5 bytes, up to the first below 128.
LOCAL Digits(s) ==
    LET ends == {i \in 1..Min({5, Len(s)}) : s[i] < 128}
    IN  SubSeq(s, 1, IF ends = {} THEN Min({5, Len(s)}) ELSE Min(ends))

LOCAL Value(s) == FoldLeft(LAMBDA high, b : high * 128 + (b % 128), 0, Digits(s))

\* The messages of a track body s, the clock being at tick and the last status
\* byte being running.
RECURSIVE CapturedFrom(_, _, _)
CapturedFrom(s, tick, running) ==
    LET now  == tick + Value(s)
        rest == Rest(s, Len(Digits(s)))
        \* after the delta: the status byte, or the running status
        status == IF Head(rest) >= 128 THEN Head(rest) ELSE running
        body == IF Head(rest) >= 128 THEN Tail(rest) ELSE rest
        \* a length and as many bytes, both skipped
        Skipped(q) == Rest(q, Len(Digits(q)) + Value(q))
        n == IF status \div 16 \in {12, 13} THEN 1 ELSE 2
        Data(i) == IF i <= n /\ i <= Len(body) THEN body[i] % 128 ELSE 0
    IN  IF s = <<>> \/ rest = <<>> THEN <<>>
        ELSE IF status = 255 /\ body = <<>> THEN <<>>
        ELSE IF status = 255
             THEN CapturedFrom(Skipped(Tail(body)), now, status)
        ELSE IF status \in {240, 247}
             THEN CapturedFrom(Skipped(body), now, status)
        ELSE Cons([tick |-> now, status |-> status,
                   d1 |-> Data(1), d2 |-> Data(2)],
                  CapturedFrom(Rest(body, n), now, status))

\* Nothing without a leading MThd; then every MTrk, one after the other (the
\* tool sorts them by tick afterwards).
Captured(chunks) ==
    IF chunks = <<>> \/ Head(chunks).id # "MThd" THEN <<>>
    ELSE FlattenSeq([i \in 1..Len(chunks) |->
            IF chunks[i].id = "MTrk" THEN CapturedFrom(chunks[i].data, 0, 0)
            ELSE <<>>])
===============================================================================
