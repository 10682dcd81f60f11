---------------------------- MODULE CoreMidiOut -----------------------------
(***************************************************************************)
(* CoreMidiOut (src/engine/midi/coremidi_out.cpp): the engine's thread     *)
(* queues events, a dispatch thread of its own sends them to the selected  *)
(* device, and the owner's thread selects devices, starts and shuts down.  *)
(* Devices come and go; the dispatch thread finds the selected one again   *)
(* by its name.  endpoint_, selected_index_ and the name are shared        *)
(* between the two threads, and every access to one of them is a step.     *)
(*                                                                         *)
(* The queue is what BoundedFifo promises.  Of selected_index_ only the    *)
(* sign is read, so it is a boolean, and the list of devices is a set.     *)
(* CoreMIDI and the devices are external.                                  *)
(***************************************************************************)
EXTENDS Integers, Sequences, FiniteSets

CONSTANTS
  Endpoints, None,  \* CoreMIDI's endpoint refs, and 0
  Names, NoName,    \* display names, and the empty string
  NameOf,           \* the name of each endpoint
  Events,           \* what the engine sends: "on" and "off", for one note
  QueueLimit,       \* events the queue takes
  ProbeEvery,       \* kProbeEvery
  RunLoop           \* whether CoreMIDI's notifications arrive

ASSUME OutputAssumption ==
  /\ None \notin Endpoints
  /\ NoName \notin Names
  /\ NameOf \in [Endpoints -> Names]
  /\ Events \subseteq {"on", "off"}
  /\ QueueLimit \in Nat /\ ProbeEvery \in Nat \ {0}
  /\ RunLoop \in BOOLEAN

VARIABLES
  initialized,      \* initialized_
  port,             \* out_port_ and client_ are valid
  running,          \* running_
  endpoint,         \* endpoint_
  name,             \* selected_name_
  selected,         \* selected_index_ >= 0
  needsResolve,     \* needs_reresolve_
  queue,            \* queue_
  owner,            \* where the owner's call is
  target, old,      \* selectDestination()'s locals ep and old
  dispatch,         \* where the dispatch thread is
  idleTicks,        \* its locals; final: it drains for the last time
  final, want, found, ev, dest,
  present,          \* environment: the devices there are
  notifying,        \* environment: a notification is on its way
  sounding,         \* environment: the devices on which the note sounds
  strays            \* history: events a device got since it was endpoint

shared == <<endpoint, name, selected>>
ownerVars == <<initialized, port, running, owner, target, old>>
dispatchVars == <<dispatch, idleTicks, final, want, found, ev, dest>>
devices == <<present, notifying, sounding>>
outputVars == <<shared, needsResolve, queue, ownerVars, dispatchVars, devices, strays>>

OutputInit ==
  /\ initialized = FALSE /\ port = FALSE /\ running = FALSE
  /\ endpoint = None /\ name = NoName /\ selected = FALSE
  /\ needsResolve = FALSE /\ queue = <<>>
  /\ owner = "idle" /\ target = None /\ old = None
  /\ dispatch = "exited" /\ idleTicks = 0
  /\ final = FALSE /\ want = NoName /\ found = None /\ ev = "off" /\ dest = None
  /\ present \in SUBSET Endpoints /\ notifying = FALSE /\ sounding = {}
  /\ strays = [e \in Endpoints |-> 0]

(***************************************************************************)
(* endpoint_.store(e), with what is remembered of it.                      *)
(***************************************************************************)
StoreEndpoint(e) ==
  /\ endpoint' = e
  /\ strays' = [d \in Endpoints |-> IF d = e THEN 0 ELSE strays[d]]
-----------------------------------------------------------------------------
(***************************************************************************)
(* send(), on the engine's thread.  The hosts stop that thread before they *)
(* shut the output down.                                                   *)
(***************************************************************************)
Open == initialized /\ owner # "join"

Send ==
  /\ Open
  /\ Len(queue) < QueueLimit
  /\ \E e \in Events : queue' = Append(queue, e)
  /\ UNCHANGED <<shared, needsResolve, ownerVars, dispatchVars, devices, strays>>
-----------------------------------------------------------------------------
(***************************************************************************)
(* initialize() selects the first device if there is one, and then starts  *)
(* the dispatch thread.                                                    *)
(***************************************************************************)
BeginSelect(e) ==
  /\ target' = e /\ old' = endpoint
  /\ owner' = "silence"

Initialize ==
  /\ owner = "idle" /\ ~ initialized
  /\ port' = TRUE
  /\ \/ /\ present = {}
        /\ owner' = "spawn"
        /\ UNCHANGED <<target, old>>
     \/ \E e \in present : BeginSelect(e)
  /\ UNCHANGED <<initialized, running, shared, needsResolve, queue, dispatchVars,
                 devices, strays>>

Spawn ==
  /\ owner = "spawn"
  /\ running' = TRUE /\ initialized' = TRUE
  /\ dispatch' = "check" /\ idleTicks' = 0 /\ final' = FALSE
  /\ owner' = "idle"
  /\ UNCHANGED <<port, target, old, shared, needsResolve, queue, want, found, ev,
                 dest, devices, strays>>

(***************************************************************************)
(* selectDestination(): the old device is silenced and then the new one    *)
(* stored; "none" is stored first.  An index without a device changes      *)
(* nothing.  It is also called before initialize().                        *)
(***************************************************************************)
SelectDevice ==
  /\ owner = "idle"
  /\ \E e \in present : BeginSelect(e)
  /\ UNCHANGED <<initialized, port, running, shared, needsResolve, queue,
                 dispatchVars, devices, strays>>

SelectNone ==
  /\ owner = "idle"
  /\ BeginSelect(None)
  /\ StoreEndpoint(None)
  /\ UNCHANGED <<initialized, port, running, name, selected, needsResolve, queue,
                 dispatchVars, devices>>

\* sendAllSoundOff(): 32 packets, of which the last counts.
Silence ==
  /\ owner = "silence"
  /\ sounding' = IF port /\ old # target THEN sounding \ {old} ELSE sounding
  /\ owner' = "name"
  /\ UNCHANGED <<initialized, port, running, target, old, shared, needsResolve,
                 queue, dispatchVars, present, notifying, strays>>

RememberName ==
  /\ owner = "name"
  /\ name' = IF target = None THEN NoName ELSE NameOf[target]
  /\ owner' = "index"
  /\ UNCHANGED <<initialized, port, running, target, old, endpoint, selected,
                 needsResolve, queue, dispatchVars, devices, strays>>

EndSelect ==
  /\ owner' = IF port /\ ~ initialized THEN "spawn" ELSE "idle"
  /\ target' = None /\ old' = None

StoreIndex ==
  /\ owner = "index"
  /\ selected' = (target # None)
  /\ IF target = None
     THEN EndSelect
     ELSE owner' = "endpoint" /\ UNCHANGED <<target, old>>
  /\ UNCHANGED <<initialized, port, running, endpoint, name, needsResolve, queue,
                 dispatchVars, devices, strays>>

StoreTarget ==
  /\ owner = "endpoint"
  /\ StoreEndpoint(target)
  /\ EndSelect
  /\ UNCHANGED <<initialized, port, running, name, selected, needsResolve, queue,
                 dispatchVars, devices>>

(***************************************************************************)
(* shutdown() waits for the dispatch thread, then disposes of the port.    *)
(* The name and the index stay.                                            *)
(***************************************************************************)
\* Mutated: the thread is not told to stop.
KeepsRunning == UNCHANGED running

StopsRunning == running' = FALSE

Shutdown ==
  /\ owner = "idle" /\ initialized
  /\ StopsRunning
  /\ owner' = "join"
  /\ UNCHANGED <<initialized, port, target, old, shared, needsResolve, queue,
                 dispatchVars, devices, strays>>

\* Mutated: the port is disposed of without waiting.
NoJoin == owner = "join"

Joined == owner = "join" /\ dispatch = "exited"

Dispose ==
  /\ Joined
  /\ port' = FALSE /\ initialized' = FALSE
  /\ StoreEndpoint(None)
  /\ notifying' = FALSE
  /\ owner' = "idle"
  /\ UNCHANGED <<running, target, old, name, selected, needsResolve, queue,
                 dispatchVars, present, sounding>>
-----------------------------------------------------------------------------
(***************************************************************************)
(* The dispatch thread.  A round resolves the name if it was told to or,   *)
(* in every kProbeEvery-th round without the selected device, unasked, and *)
(* then empties the queue; after the last round it empties it once more.   *)
(***************************************************************************)
Goes(here, there) == dispatch = here /\ dispatch' = there

\* Mutated: what is queued when the thread is stopped stays there.
NoFinalDrain == "exited"

FinalDrain == "pop"

CheckRunning ==
  /\ dispatch = "check"
  /\ dispatch' = IF running THEN "exchange" ELSE FinalDrain
  /\ final' = ~ running
  /\ UNCHANGED <<idleTicks, want, found, ev, dest, shared, needsResolve, queue,
                 ownerVars, devices, strays>>

ExchangeFlag ==
  /\ dispatch = "exchange"
  /\ dispatch' = IF needsResolve THEN "resolve" ELSE "probe"
  /\ needsResolve' = FALSE
  /\ UNCHANGED <<idleTicks, final, want, found, ev, dest, shared, queue, ownerVars,
                 devices, strays>>

\* Mutated: a lost device is looked for only when a notification comes.
NeverProbe == dispatch' = "pop" /\ UNCHANGED idleTicks

CountAndProbe ==
  IF idleTicks + 1 >= ProbeEvery
  THEN dispatch' = "resolve" /\ idleTicks' = 0
  ELSE dispatch' = "pop" /\ idleTicks' = idleTicks + 1

Probe ==
  /\ dispatch = "probe"
  /\ IF selected /\ endpoint = None
     THEN CountAndProbe
     ELSE dispatch' = "pop" /\ UNCHANGED idleTicks
  /\ UNCHANGED <<final, want, found, ev, dest, shared, needsResolve, queue,
                 ownerVars, devices, strays>>

(***************************************************************************)
(* resolveEndpointByName(): index, name, list, index again, endpoint.      *)
(***************************************************************************)
ResolveIndex ==
  /\ dispatch = "resolve"
  /\ dispatch' = IF selected THEN "want" ELSE "store"
  /\ found' = None
  /\ UNCHANGED <<idleTicks, final, want, ev, dest, shared, needsResolve, queue,
                 ownerVars, devices, strays>>

ReadName ==
  /\ Goes("want", "find")
  /\ want' = name
  /\ UNCHANGED <<idleTicks, final, found, ev, dest, shared, needsResolve, queue,
                 ownerVars, devices, strays>>

Find ==
  /\ dispatch = "find"
  /\ LET matching == {e \in present : NameOf[e] = want}
     IN  IF matching = {}
         THEN found' = None /\ dispatch' = "store"
         ELSE found' \in matching /\ dispatch' = "mark"
  /\ want' = NoName
  /\ UNCHANGED <<idleTicks, final, ev, dest, shared, needsResolve, queue, ownerVars,
                 devices, strays>>

Mark ==
  /\ Goes("mark", "store")
  /\ selected' = TRUE
  /\ UNCHANGED <<idleTicks, final, want, found, ev, dest, endpoint, name,
                 needsResolve, queue, ownerVars, devices, strays>>

StoreFound ==
  /\ Goes("store", "pop")
  /\ StoreEndpoint(found)
  /\ found' = None
  /\ UNCHANGED <<idleTicks, final, want, ev, dest, name, selected, needsResolve,
                 queue, ownerVars, devices>>

(***************************************************************************)
(* The inner loop and dispatchOne(): pop, load the endpoint, send.  The    *)
(* loop that empties the queue for the last time is the same loop.         *)
(***************************************************************************)
Pop ==
  /\ dispatch = "pop" /\ queue # <<>>
  /\ dispatch' = "load"
  /\ ev' = Head(queue) /\ queue' = Tail(queue)
  /\ UNCHANGED <<idleTicks, final, want, found, dest, shared, needsResolve,
                 ownerVars, devices, strays>>

\* Mutated: the endpoint is loaded once and kept while there are events.
KeepDestination == IF dest = None THEN endpoint ELSE dest

Destination == endpoint

LoadEndpoint ==
  /\ dispatch = "load"
  /\ dest' = Destination
  /\ IF dest' = None
     THEN dispatch' = "pop" /\ ev' = "off"
     ELSE dispatch' = "send" /\ UNCHANGED ev
  /\ UNCHANGED <<idleTicks, final, want, found, shared, needsResolve, queue,
                 ownerVars, devices, strays>>

SendPacket ==
  /\ Goes("send", "pop")
  /\ sounding' = IF dest \in present /\ ev = "on" THEN sounding \cup {dest}
                 ELSE sounding \ {dest}
  /\ ev' = "off"
  /\ strays' = IF dest # endpoint THEN [strays EXCEPT ![dest] = @ + 1] ELSE strays
  /\ UNCHANGED <<idleTicks, final, want, found, dest, shared, needsResolve, queue,
                 ownerVars, present, notifying>>

Drained ==
  /\ dispatch = "pop" /\ queue = <<>>
  /\ dispatch' = IF final THEN "exited" ELSE "check"
  /\ dest' = None
  /\ UNCHANGED <<idleTicks, final, want, found, ev, shared, needsResolve, queue,
                 ownerVars, devices, strays>>
-----------------------------------------------------------------------------
(***************************************************************************)
(* Devices appear and disappear, and CoreMIDI calls notifyProc().          *)
(***************************************************************************)
DevicesChange ==
  /\ present' \in (SUBSET Endpoints) \ {present}
  /\ sounding' = sounding \cap present'
  /\ notifying' = (notifying \/ (RunLoop /\ port))
  /\ UNCHANGED <<shared, needsResolve, queue, ownerVars, dispatchVars, strays>>

NotifyProc ==
  /\ notifying
  /\ notifying' = FALSE
  /\ needsResolve' = TRUE
  /\ UNCHANGED <<shared, queue, ownerVars, dispatchVars, present, sounding, strays>>

OwnerStep ==
  \/ Spawn \/ Silence \/ RememberName \/ StoreIndex \/ StoreTarget \/ Dispose

DispatchStep ==
  \/ CheckRunning \/ ExchangeFlag \/ Probe
  \/ ResolveIndex \/ ReadName \/ Find \/ Mark \/ StoreFound
  \/ Pop \/ LoadEndpoint \/ SendPacket \/ Drained

OutputNext ==
  \/ Send
  \/ Initialize \/ SelectDevice \/ SelectNone \/ Shutdown \/ OwnerStep
  \/ DispatchStep
  \/ DevicesChange \/ NotifyProc

OutputSpec == OutputInit /\ [][OutputNext]_outputVars

(***************************************************************************)
(* Both threads go on with what they have begun, and a notification that   *)
(* is on its way arrives.                                                  *)
(***************************************************************************)
OutputFairSpec ==
  /\ OutputSpec
  /\ WF_outputVars(OwnerStep) /\ WF_outputVars(DispatchStep) /\ WF_outputVars(NotifyProc)
-----------------------------------------------------------------------------
(***************************************************************************)
(* The types, and what the threads' places say of their variables.         *)
(***************************************************************************)
OutputTypeOK ==
  /\ initialized \in BOOLEAN /\ port \in BOOLEAN /\ running \in BOOLEAN
  /\ endpoint \in Endpoints \cup {None}
  /\ name \in Names \cup {NoName} /\ selected \in BOOLEAN
  /\ needsResolve \in BOOLEAN
  /\ queue \in Seq(Events) /\ Len(queue) <= QueueLimit
  /\ owner \in {"idle", "silence", "name", "index", "endpoint", "spawn", "join"}
  /\ target \in Endpoints \cup {None} /\ old \in Endpoints \cup {None}
  /\ dispatch \in {"exited", "check", "exchange", "probe", "resolve", "want", "find",
                   "mark", "store", "pop", "load", "send"}
  /\ idleTicks \in 0 .. ProbeEvery - 1 /\ final \in BOOLEAN
  /\ want \in Names \cup {NoName} /\ found \in Endpoints \cup {None}
  /\ ev \in {"on", "off"} /\ dest \in Endpoints \cup {None}
  /\ present \subseteq Endpoints /\ notifying \in BOOLEAN
  /\ sounding \subseteq present
  /\ strays \in [Endpoints -> Nat]
  /\ dispatch # "exited" => initialized
  /\ dispatch = "send" => dest # None

(***************************************************************************)
(* Nothing is sent through a port that is gone (coremidi_out.cpp:290-292). *)
(***************************************************************************)
PortOutlivesSend == dispatch = "send" => port

(***************************************************************************)
(* Stopping the thread never truncates what is queued                      *)
(* (coremidi_out.cpp:290-292): when shutdown() has returned, all of it has *)
(* been sent, and the next session does not begin with old events.         *)
(***************************************************************************)
ShutdownDrains == ~ initialized => queue = <<>>

(***************************************************************************)
(* Whoever changes the endpoint, and whenever: a device gets at most one   *)
(* more event, the one the dispatch thread had in hand.                    *)
(***************************************************************************)
AtMostOneStray == \A e \in Endpoints : strays[e] <= 1

(***************************************************************************)
(* A switch or disconnect never leaves the old device with hanging notes   *)
(* (coremidi_out.cpp:136-138).                                             *)
(***************************************************************************)
NoHangingNotes == initialized /\ owner = "idle" => sounding \subseteq {endpoint}

(***************************************************************************)
(* shutdown() returns.                                                     *)
(***************************************************************************)
ShutdownReturns == owner = "join" ~> owner = "idle"

(***************************************************************************)
(* Once the selected device is there to stay, the output has a device that *)
(* is there, without the owner's help (coremidi_out.h:27-30): after any    *)
(* selections, losses and returns before, provided the dispatch thread     *)
(* keeps up with the engine.                                               *)
(***************************************************************************)
Reachable ==
  /\ owner = "idle" /\ initialized /\ selected
  /\ \E e \in present : NameOf[e] = name

Reconnects ==
  <>[]Reachable /\ <>[][FALSE]_present /\ []<>(dispatch = "check")
    => <>[](endpoint \in present)
=============================================================================
