----------------------------- MODULE CoreMidiIn -----------------------------
(***************************************************************************)
(* CoreMidiIn (src/engine/midi/coremidi_in.cpp): CoreMIDI's read threads   *)
(* call readProc() with packets while the owner's thread replaces the sink *)
(* the messages go to, selects another source, or disposes of the port.    *)
(* accepting_ and in_flight_ form a Dekker handshake between them.         *)
(*                                                                         *)
(* A store to either of the two stays in its thread's store buffer until a *)
(* Flush step brings it to memory, and a load reads memory: what ARM64 may *)
(* do with them, the read-modify-writes of in_flight_ included.  A         *)
(* seq_cst fence lets its thread go on only when its buffer is empty.      *)
(* Packets, their messages and CoreMIDI itself are external.               *)
(***************************************************************************)
EXTENDS Integers, Sequences, FiniteSets

CONSTANTS
  Readers,         \* CoreMIDI's read threads
  Sinks, NoSink,   \* what setSink() is given, and nullptr
  Sources, NoSource,
  MaxMessages      \* bound: messages of one call's packets

ASSUME InputAssumption ==
  /\ IsFiniteSet(Readers)
  /\ NoSink \notin Sinks
  /\ NoSource \notin Sources
  /\ MaxMessages \in Nat

VARIABLES
  initialized,     \* initialized_, and with it the client and the port
  source,          \* source_: whose packets the port receives
  selected,        \* selected_index_
  sink,            \* sink_
  accepting,       \* accepting_, in memory
  inFlight,        \* in_flight_, in memory
  pending,         \* the owner's store buffer: values for accepting_
  rbuf,            \* each read thread's: what to add to in_flight_
  op,              \* the call the owner is in that needs the read threads out
  owner,           \* where that call is
  newSink,         \* setSink()'s argument
  reader,          \* where each readProc() is
  using,           \* the sink a readProc() has found and calls
  left             \* messages of its packets not yet handed over

ownerVars == <<initialized, source, selected, sink, pending, op, owner, newSink>>
readerVars == <<reader, using, left>>
vars == <<ownerVars, readerVars, accepting, inFlight, rbuf>>

Init ==
  /\ initialized = FALSE /\ source = NoSource /\ selected = NoSource
  /\ sink = NoSink /\ accepting = FALSE /\ inFlight = 0
  /\ pending = <<>> /\ rbuf = [r \in Readers |-> <<>>]
  /\ op = "none" /\ owner = "idle" /\ newSink = NoSink
  /\ reader = [r \in Readers |-> "idle"]
  /\ using = [r \in Readers |-> NoSink]
  /\ left = [r \in Readers |-> 0]
-----------------------------------------------------------------------------
(***************************************************************************)
(* The owner's calls.  initialize() fails only with CoreMIDI, and leaves   *)
(* no trace then.                                                          *)
(***************************************************************************)
Initialize ==
  /\ owner = "idle" /\ ~ initialized
  /\ initialized' = TRUE
  /\ UNCHANGED <<source, selected, sink, pending, op, owner, newSink, readerVars,
                 accepting, inFlight, rbuf>>

(***************************************************************************)
(* selectSource(): the previous source is disconnected first, and stays so *)
(* when the index is out of range or the new one does not connect.         *)
(***************************************************************************)
SelectSource ==
  /\ owner = "idle" /\ initialized
  /\ \/ source' = NoSource /\ selected' = NoSource
     \/ source' = NoSource /\ UNCHANGED selected
     \/ \E s \in Sources : source' = s /\ selected' = s
  /\ UNCHANGED <<initialized, sink, pending, op, owner, newSink, readerVars, accepting,
                 inFlight, rbuf>>

(***************************************************************************)
(* quiesceReadCallback(): close, fence, and wait until nobody is in.       *)
(***************************************************************************)
Close(call) ==
  /\ pending' = Append(pending, FALSE)
  /\ op' = call
  /\ owner' = "fence"

SetSink ==
  /\ owner = "idle"
  /\ newSink' \in Sinks \cup {NoSink}
  /\ Close("setSink")
  /\ UNCHANGED <<initialized, source, selected, sink, readerVars, accepting, inFlight,
                 rbuf>>

\* Mutated: the port is disposed of without waiting.
ShutdownAtOnce ==
  /\ owner = "idle" /\ initialized
  /\ source' = NoSource
  /\ op' = "shutdown" /\ owner' = "out"
  /\ UNCHANGED <<initialized, selected, sink, pending, newSink, readerVars, accepting,
                 inFlight, rbuf>>

Shutdown ==
  /\ owner = "idle" /\ initialized
  /\ source' = NoSource
  /\ Close("shutdown")
  /\ UNCHANGED <<initialized, selected, sink, newSink, readerVars, accepting, inFlight,
                 rbuf>>

OwnerFence ==
  /\ owner = "fence" /\ pending = <<>>
  /\ owner' = "wait"
  /\ UNCHANGED <<initialized, source, selected, sink, pending, op, newSink, readerVars,
                 accepting, inFlight, rbuf>>

QuiesceEnds ==
  /\ owner = "wait" /\ inFlight = 0
  /\ owner' = "out"
  /\ UNCHANGED <<initialized, source, selected, sink, pending, op, newSink, readerVars,
                 accepting, inFlight, rbuf>>

(***************************************************************************)
(* What needed the read threads out: the old sink is destroyed, or the     *)
(* port and the client.                                                    *)
(***************************************************************************)
Swap ==
  /\ owner = "out" /\ op = "setSink"
  /\ sink' = newSink
  /\ pending' = Append(pending, newSink # NoSink)
  /\ newSink' = NoSink
  /\ op' = "none" /\ owner' = "idle"
  /\ UNCHANGED <<initialized, source, selected, readerVars, accepting, inFlight, rbuf>>

Dispose ==
  /\ owner = "out" /\ op = "shutdown"
  /\ initialized' = FALSE
  /\ selected' = NoSource
  /\ op' = "none" /\ owner' = "idle"
  /\ UNCHANGED <<source, sink, pending, newSink, readerVars, accepting, inFlight, rbuf>>

FlushOwner ==
  /\ pending # <<>>
  /\ accepting' = Head(pending)
  /\ pending' = Tail(pending)
  /\ UNCHANGED <<initialized, source, selected, sink, op, owner, newSink, readerVars,
                 inFlight, rbuf>>
-----------------------------------------------------------------------------
(***************************************************************************)
(* readProc(), called by CoreMIDI for a connected source.                  *)
(***************************************************************************)
Goes(r, here, there) == reader[r] = here /\ reader' = [reader EXCEPT ![r] = there]

Adds(r, n) == rbuf' = [rbuf EXCEPT ![r] = Append(@, n)]

PacketsArrive(r) ==
  /\ source # NoSource
  /\ Goes(r, "idle", "called")
  /\ \E n \in 0 .. MaxMessages : left' = [left EXCEPT ![r] = n]
  /\ UNCHANGED <<ownerVars, using, accepting, inFlight, rbuf>>

Enter(r) ==
  /\ Goes(r, "called", "fence")
  /\ Adds(r, 1)
  /\ UNCHANGED <<ownerVars, using, left, accepting, inFlight>>

\* Mutated: no fence between in_flight_ and accepting_.
NoReaderFence(r) ==
  /\ Goes(r, "fence", "check")
  /\ UNCHANGED <<ownerVars, using, left, accepting, inFlight, rbuf>>

ReaderFence(r) ==
  /\ rbuf[r] = <<>>
  /\ Goes(r, "fence", "check")
  /\ UNCHANGED <<ownerVars, using, left, accepting, inFlight, rbuf>>

Admitted == accepting /\ sink # NoSink

Check(r) ==
  /\ IF Admitted
     THEN Goes(r, "check", "sink") /\ using' = [using EXCEPT ![r] = sink]
     ELSE Goes(r, "check", "leave") /\ UNCHANGED using
  /\ UNCHANGED <<ownerVars, left, accepting, inFlight, rbuf>>

Deliver(r) ==
  /\ left[r] > 0
  /\ Goes(r, "sink", "sink")
  /\ left' = [left EXCEPT ![r] = @ - 1]
  /\ UNCHANGED <<ownerVars, using, accepting, inFlight, rbuf>>

(***************************************************************************)
(* The packets are done, or the sink throws and the catch swallows it.     *)
(***************************************************************************)
\* Mutated: a throwing sink skips the decrement.
DoneOrUnwound(r) ==
  /\ \/ left[r] = 0 /\ Goes(r, "sink", "leave")
     \/ left[r] > 0 /\ Goes(r, "sink", "idle")
  /\ left' = [left EXCEPT ![r] = 0]
  /\ using' = [using EXCEPT ![r] = NoSink]
  /\ UNCHANGED <<ownerVars, accepting, inFlight, rbuf>>

DoneOrThrown(r) ==
  /\ Goes(r, "sink", "leave")
  /\ left' = [left EXCEPT ![r] = 0]
  /\ using' = [using EXCEPT ![r] = NoSink]
  /\ UNCHANGED <<ownerVars, accepting, inFlight, rbuf>>

Leave(r) ==
  /\ Goes(r, "leave", "idle")
  /\ Adds(r, -1)
  /\ left' = [left EXCEPT ![r] = 0]
  /\ UNCHANGED <<ownerVars, using, accepting, inFlight>>

FlushReader(r) ==
  /\ rbuf[r] # <<>>
  /\ inFlight' = inFlight + Head(rbuf[r])
  /\ rbuf' = [rbuf EXCEPT ![r] = Tail(@)]
  /\ UNCHANGED <<ownerVars, readerVars, accepting>>
-----------------------------------------------------------------------------
OwnerNext ==
  \/ Initialize \/ SelectSource \/ SetSink \/ Shutdown \/ OwnerFence \/ QuiesceEnds
  \/ Swap \/ Dispose \/ FlushOwner

ReaderNext(r) ==
  \/ PacketsArrive(r) \/ Enter(r) \/ ReaderFence(r) \/ Check(r) \/ Deliver(r)
  \/ DoneOrThrown(r) \/ Leave(r) \/ FlushReader(r)

Next == OwnerNext \/ \E r \in Readers : ReaderNext(r)

Spec == Init /\ [][Next]_vars

(***************************************************************************)
(* Stores reach memory, the owner and a readProc() that runs go on.        *)
(* Nothing makes packets arrive or the owner call.                         *)
(***************************************************************************)
Fairness ==
  /\ WF_vars(FlushOwner) /\ WF_vars(OwnerFence) /\ WF_vars(QuiesceEnds)
  /\ WF_vars(Swap) /\ WF_vars(Dispose)
  /\ \A r \in Readers :
       /\ WF_vars(FlushReader(r)) /\ WF_vars(Enter(r)) /\ WF_vars(ReaderFence(r))
       /\ WF_vars(Check(r)) /\ WF_vars(DoneOrThrown(r)) /\ WF_vars(Leave(r))

FairSpec == Spec /\ Fairness
-----------------------------------------------------------------------------
(***************************************************************************)
(* in_flight_ counts calls: it is never negative and never more than the   *)
(* read threads there are.                                                 *)
(***************************************************************************)
TypeOK ==
  /\ initialized \in BOOLEAN
  /\ source \in Sources \cup {NoSource} /\ selected \in Sources \cup {NoSource}
  /\ sink \in Sinks \cup {NoSink} /\ newSink \in Sinks \cup {NoSink}
  /\ accepting \in BOOLEAN
  /\ inFlight \in 0 .. Cardinality(Readers)
  /\ pending \in Seq(BOOLEAN)
  /\ rbuf \in [Readers -> Seq({1, -1})]
  /\ op \in {"none", "setSink", "shutdown"}
  /\ owner \in {"idle", "fence", "wait", "out"}
  /\ reader \in [Readers -> {"idle", "called", "fence", "check", "sink", "leave"}]
  /\ using \in [Readers -> Sinks \cup {NoSink}]
  /\ left \in [Readers -> 0 .. MaxMessages]

(***************************************************************************)
(* The sink a readProc() is calling is the one installed: it is never      *)
(* replaced, and so destroyed, underneath the call (coremidi_in.h:55-57).  *)
(***************************************************************************)
SinkOutlivesCall == \A r \in Readers : reader[r] = "sink" => using[r] = sink /\ sink # NoSink

(***************************************************************************)
(* Nor are the port and the client disposed of while messages are handed   *)
(* over (coremidi_in.cpp:62-66).                                           *)
(***************************************************************************)
PortOutlivesCall ==
  \A r \in Readers : reader[r] = "sink" /\ op = "shutdown" => owner # "out"

(***************************************************************************)
(* With the source disconnected the wait ends, whatever the sink does: it  *)
(* may throw (coremidi_in.cpp:140-143).  With packets still coming the     *)
(* spin may find one thread or the other inside every time it looks.       *)
(***************************************************************************)
QuiesceReturns == (owner = "wait" /\ source = NoSource) ~> (owner = "idle")
=============================================================================
