----------------------------- MODULE Multitouch -----------------------------
(***************************************************************************)
(* VoodooI2CMultitouchInterface between a touch satellite and the engines:  *)
(* the satellite's thread walks over the engines with a report, another     *)
(* walks over them with a change of a property, and meanwhile engines open  *)
(* and close the interface and VoodooInput opens and closes the native      *)
(* engine.  Walks take no lock.                                             *)
(***************************************************************************)
EXTENDS NativeEngine

CONSTANTS
  Engines, Native,
  Score,       \* getScore of each engine
  Scenarios    \* which engines and walks there are, the events of the device, the preferences

Walks == {"report", "property"}

ASSUME EngineAssumption ==
  Native \in Engines /\ None \notin Engines /\ Score \in [Engines -> Nat]

ASSUME ScenarioAssumption ==
  Scenarios \subseteq [engines : SUBSET Engines, walks : SUBSET Walks, events : SUBSET Events,
                       prefs : SUBSET (Preferences \cup {None})]

VARIABLES
  scene,     \* an element of Scenarios
  engines,   \* OSOrderedSet
  begun,     \* how far the native engine's start has come
  client,    \* the instance of VoodooInput that has the native engine open
  walk       \* the two loops over the engines

sceneVars == <<scene, engines, begun, client>>
vars == <<sceneVars, walk, engineVars>>

(* at: off, loop, called (inside an engine), convert, load, deliver (of the native engine's
   messages).  i, count: the loop's; engine: the one called; event: of a report; message, point:
   what the native engine makes of it, and its trackpoint event (none, due, sent); target: whom to
   message.  The rest is history: line, the engines when the walk began; offered, those called so
   far; moved, those that opened or closed since; open, the instances of VoodooInput that were open
   at some time since; torn, whether start reset stylus_check under the conversion; split, whether
   the user's first preferences came between two of its contacts. *)
Off == [at |-> "off", i |-> 1, count |-> 0, engine |-> None, event |-> None, message |-> << >>,
        point |-> "none", target |-> None,
        line |-> << >>, offered |-> << >>, moved |-> {}, open |-> {},
        torn |-> FALSE, split |-> FALSE]

Init ==
  /\ scene \in Scenarios
  /\ \E p \in scene.prefs : EngineInit(p)
  /\ engines = << >> /\ begun = "no" /\ client = None
  /\ walk = [w \in Walks |-> Off]

-----------------------------------------------------------------------------
(* Mutant: -1 where 1 is due. *)
OrderEnginesDown(a, b) ==
  CASE Score[a] > Score[b] -> -1 [] Score[a] < Score[b] -> 1 [] OTHER -> 0

OrderEngines(a, b) ==
  CASE Score[a] > Score[b] -> 1 [] Score[a] < Score[b] -> -1 [] OTHER -> 0

(* OSOrderedSet::setObject puts an engine behind those that outrank or equal it. *)
SetObject(s, e) ==
  LET k == Cardinality({i \in DOMAIN s : OrderEngines(s[i], e) >= 0}) IN InsertAt(s, k + 1, e)

(* The walks under way take note of e; for the sake of the properties. *)
Moved(e) ==
  walk' = [w \in Walks |->
             IF walk[w].at = "off" THEN walk[w] ELSE [walk[w] EXCEPT !.moved = @ \cup {e}]]

(* VoodooI2CMultitouchEngine::start: the interface is opened and the engine registered. *)
OpenInterface(e) ==
  /\ e \in scene.engines /\ e \notin Range(engines)
  /\ engines' = SetObject(engines, e)
  /\ IF e = Native THEN begun = "no" /\ begun' = "open" ELSE UNCHANGED begun
  /\ Moved(e)
  /\ UNCHANGED <<scene, client, engineVars>>

(* Mutant: VoodooInputSupported is set before voodooInputInstance is. *)
ForgetInstanceLate ==
  /\ begun \in {"open", "supported"}
  /\ begun' = IF begun = "open" THEN "supported" ELSE "ready"
  /\ instance' = IF begun = "open" THEN instance ELSE None
  /\ UNCHANGED <<scene, engines, client, walk, stylus, forceVars>>

(* VoodooI2CNativeEngine::start goes on: voodooInputInstance = nullptr ... *)
ForgetInstance ==
  /\ begun = "open" /\ begun' = "reset"
  /\ instance' = None
  /\ UNCHANGED <<scene, engines, client, walk, stylus, forceVars>>

(* ... then VoodooInputSupported, with which matching may begin ... *)
PublishSupport ==
  /\ begun = "reset" /\ begun' = "supported"
  /\ UNCHANGED <<scene, engines, client, walk, engineVars>>

Converting == walk["report"].at = "convert"

(* ... and, at last, stylus_check = 0. *)
ResetStylus ==
  /\ begun = "supported" /\ begun' = "ready"
  /\ stylus' = 0
  /\ walk' = [walk EXCEPT !["report"].torn = @ \/ Converting]
  /\ UNCHANGED <<scene, engines, client, instance, forceVars>>

(* willTerminate *)
CloseInterface(e) ==
  /\ e = Native => begun = "ready"
  /\ \E k \in DOMAIN engines : engines[k] = e /\ engines' = RemoveAt(engines, k)
  /\ begun' = IF e = Native THEN "gone" ELSE begun
  /\ Moved(e)
  /\ UNCHANGED <<scene, client, engineVars>>

(* VoodooInput is matched on an engine that has set VoodooInputSupported, one at a time. *)
OpenEngine(v) ==
  /\ begun \in {"supported", "ready"} /\ client = None
  /\ client' = v /\ HandleOpen(v)
  /\ walk' = [w \in Walks |->
                IF walk[w].at = "off" THEN walk[w] ELSE [walk[w] EXCEPT !.open = @ \cup {v}]]
  /\ UNCHANGED <<scene, engines, begun>>

(* IOService::close calls handleClose if handleIsOpen says so. *)
CloseEngine(v) ==
  /\ client = v /\ client' = None
  /\ IF HandleIsOpen(v) THEN HandleClose(v) ELSE UNCHANGED engineVars
  /\ UNCHANGED <<scene, engines, begun, walk>>

-----------------------------------------------------------------------------
Begin(w, event) ==
  /\ w \in scene.walks /\ walk[w].at = "off"
  /\ walk' = [walk EXCEPT ![w] = [Off EXCEPT !.at = "loop", !.event = event,
                !.count = Len(engines), !.line = engines, !.open = {client} \ {None}]]
  /\ UNCHANGED <<sceneVars, engineVars>>

(* The satellite has a report; somebody sets a property. *)
BeginReport == \E event \in scene.events : Begin("report", event)
BeginProperty == Begin("property", None)

(* handleInterruptReport counts the engines once, setProperty in every turn. *)
Limit(w) == IF w = "report" THEN walk[w].count ELSE Len(engines)

(* Mutant: a turn without an engine does not advance the loop. *)
GetObjectStuck(w) ==
  /\ walk[w].at = "loop" /\ walk[w].i <= Limit(w)
  /\ LET i == walk[w].i IN
     walk' = IF i <= Len(engines)
             THEN [walk EXCEPT ![w].at = "called", ![w].engine = engines[i], ![w].i = i + 1,
                               ![w].offered = Append(@, engines[i])]
             ELSE walk
  /\ UNCHANGED <<sceneVars, engineVars>>

(* getObject; beyond the end of the set it has nothing. *)
GetObject(w) ==
  /\ walk[w].at = "loop" /\ walk[w].i <= Limit(w)
  /\ LET i == walk[w].i IN
     walk' = IF i <= Len(engines)
             THEN [walk EXCEPT ![w].at = "called", ![w].engine = engines[i], ![w].i = i + 1,
                               ![w].offered = Append(@, engines[i])]
             ELSE [walk EXCEPT ![w].i = i + 1]
  /\ UNCHANGED <<sceneVars, engineVars>>

EndLoop(w) ==
  /\ walk[w].at = "loop" /\ walk[w].i > Limit(w)
  /\ walk' = [walk EXCEPT ![w] = Off]
  /\ UNCHANGED <<sceneVars, engineVars>>

(* MultitouchReturnContinue, MultitouchReturnBreak. *)
Continue(w) == walk' = [walk EXCEPT ![w].at = "loop", ![w].engine = None, ![w].target = None]
Break(w) == walk' = [walk EXCEPT ![w] = Off]

Called(w, e) == walk[w].at = "called" /\ walk[w].engine = e

(* Other engines, the base class among them, let the report go on or keep it. *)
OtherReturns(w) ==
  /\ \E e \in Engines \ {Native} : Called(w, e)
  /\ \/ Continue(w)
     \/ w = "report" /\ Break(w)
  /\ UNCHANGED <<sceneVars, engineVars>>

(* No VoodooInput: onPropertyChange does nothing, handleInterruptReport lets the report go on. *)
NobodyToTell(w) ==
  /\ Called(w, Native) /\ instance = None
  /\ Continue(w)
  /\ UNCHANGED <<sceneVars, engineVars>>

(* A device without transducers. *)
NoTransducer ==
  /\ Called("report", Native) /\ instance # None /\ ~HasFirst(walk["report"].event)
  /\ Break("report")
  /\ UNCHANGED <<sceneVars, engineVars>>

(* The report that the native engine makes a message of. *)
Shown == walk["report"].event

BeginConversion ==
  /\ Called("report", Native) /\ instance # None /\ HasFirst(Shown)
  /\ CheckStylus(Shown)
  /\ walk' = [walk EXCEPT !["report"].at = "convert"]
  /\ UNCHANGED sceneVars

(* One turn of the first loop; between two of them, time passes and others run. *)
ConvertContact ==
  LET i == Len(walk["report"].message) + 1 IN
  /\ Converting /\ i <= Shown.count
  /\ Ask(Shown, i)
  /\ walk' = [walk EXCEPT !["report"].message = Append(@, NextSlot(Shown, i))]
  /\ UNCHANGED sceneVars

(* The rest of handleInterruptReport up to the message. *)
FinishConversion ==
  /\ Converting /\ Len(walk["report"].message) = Shown.count
  /\ walk' = [walk EXCEPT !["report"].at = "load", !["report"].message = Thumb(Shown, @),
                          !["report"].point = IF TopButton(Shown) THEN "due" ELSE "none"]
  /\ UNCHANGED <<sceneVars, engineVars>>

NotifyProperty ==
  /\ Called("property", Native) /\ instance # None
  /\ walk' = [walk EXCEPT !["property"].at = "load"]
  /\ UNCHANGED <<sceneVars, engineVars>>

(* messageClient: voodooInputInstance is read once more ... *)
LoadInstance(w) ==
  /\ walk[w].at = "load"
  /\ walk' = [walk EXCEPT ![w].at = "deliver", ![w].target = instance]
  /\ UNCHANGED <<sceneVars, engineVars>>

(* ... and called.  After the message of a report comes its trackpoint event. *)
Deliver(w) ==
  /\ walk[w].at = "deliver"
  /\ CASE w = "property" -> Continue(w)
       [] w = "report" /\ walk[w].point = "due" ->
            walk' = [walk EXCEPT ![w].at = "load", ![w].target = None, ![w].point = "sent"]
       [] OTHER -> Break(w)
  /\ UNCHANGED <<sceneVars, engineVars>>

(* A contact of a report that asks for the preference has been converted, and others may follow. *)
AmidPress == Converting /\ walk["report"].message # << >> /\ Presses(Shown)

(* The contacts of a report are converted within a second. *)
TimePasses ==
  /\ Tick /\ (AmidPress => age' < Second)
  /\ UNCHANGED <<sceneVars, walk>>

UserChanges ==
  /\ \E p \in scene.prefs : ChangePreferences(p)
  /\ walk' = [walk EXCEPT !["report"].split =
                @ \/ (AmidPress /\ age = Second /\ prefs = None /\ prefs' # None)]
  /\ UNCHANGED sceneVars

WalkStep(w) ==
  \/ GetObject(w) \/ EndLoop(w) \/ OtherReturns(w) \/ NobodyToTell(w)
  \/ LoadInstance(w) \/ Deliver(w)
  \/ w = "report" /\ (NoTransducer \/ BeginConversion \/ ConvertContact \/ FinishConversion)
  \/ w = "property" /\ NotifyProperty

Next ==
  \/ \E e \in Engines : OpenInterface(e) \/ CloseInterface(e)
  \/ ForgetInstance \/ PublishSupport \/ ResetStylus
  \/ \E v \in Inputs : OpenEngine(v) \/ CloseEngine(v)
  \/ BeginReport \/ BeginProperty
  \/ \E w \in Walks : WalkStep(w)
  \/ TimePasses \/ UserChanges

Spec == Init /\ [][Next]_vars

(* A walk that has begun goes on: engines and VoodooInput return from what they are called for. *)
FairSpec == Spec /\ \A w \in Walks : WF_vars(WalkStep(w))

-----------------------------------------------------------------------------
SlotType ==
  [finger : {"Undefined", "Finger", "Palm", "Thumb"}, valid : BOOLEAN, y : Nat, button : BOOLEAN,
   pressed : BOOLEAN, from : Nat]

WalkType ==
  [at : {"off", "loop", "called", "convert", "load", "deliver"}, i : Nat \ {0}, count : Nat,
   engine : Engines \cup {None}, event : Events \cup {None}, message : Seq(SlotType),
   point : {"none", "due", "sent"}, target : Inputs \cup {None},
   line : Seq(Engines), offered : Seq(Engines), moved : SUBSET Engines, open : SUBSET Inputs,
   torn : BOOLEAN, split : BOOLEAN]

(* Every variable has its type. *)
TypeOK ==
  /\ EngineTypeOK
  /\ scene \in Scenarios /\ engines \in Seq(scene.engines)
  /\ begun \in {"no", "open", "reset", "supported", "ready", "gone"} /\ client \in Inputs \cup {None}
  /\ walk \in [Walks -> WalkType]

(* An engine that outranks all that came or went during the walk. *)
Settled(w, e) == \A m \in walk[w].moved : Score[e] > Score[m]

(* "Multitouch engines with a higher getScore are given higher priority": the engines are in line   *)
(* by their scores, and, whatever comes and goes meanwhile, a report, or the notice of a property,  *)
(* is offered to those above it in their places in line and once only, until one keeps it           *)
(* (handleInterruptReport, setProperty).                                                            *)
ServedInOrder ==
  \A w \in Walks :
    LET line == walk[w].line offered == walk[w].offered IN
    /\ \A i, j \in DOMAIN line : i < j => Score[line[i]] >= Score[line[j]]
    /\ \A i \in DOMAIN line : Settled(w, line[i]) =>
         /\ \A j \in DOMAIN offered : i = j <=> offered[j] = line[i]
         /\ walk[w].at = "loop" /\ walk[w].i > Limit(w) => i \in DOMAIN offered

(* Whoever is sent a message has had the native engine open since the report or the change came,    *)
(* although voodooInputInstance is read again after it has been tested (messageClient).             *)
DeliveredToOpen ==
  \A w \in Walks : walk[w].target # None => walk[w].target \in walk[w].open

(* The VoodooInput that has the engine open is the one it remembers: the engine's start, which goes *)
(* on after it can be opened, does not forget it, nor does a close leave one behind (start,         *)
(* handleOpen, handleClose).                                                                        *)
InstanceRemembered == instance = client

(* The message is complete. *)
Converted == walk["report"].at \in {"load", "deliver"}

(* A press of the pad under a finger reaches the system one way: as a force click, as the button of *)
(* a contact or as that of a trackpoint, however the preferences change and the cached one ages     *)
(* from contact to contact.  The exception: until there are preferences a call leaves the time      *)
(* stamp alone, so that the first ones, set between two contacts, give one press both ways          *)
(* (handleInterruptReport's force touch emulation, isForceClickEnabled).                            *)
PressReportedOnce ==
  LET message == walk["report"].message
      ways == << \E i \in DOMAIN message : message[i].pressed,
                 \E i \in DOMAIN message : message[i].button,
                 walk["report"].point # "none" >>
      under == \E i \in DOMAIN message : message[i].from = 1
  IN Converted /\ ~walk["report"].split
     /\ under /\ First(Shown).type = "finger" /\ First(Shown).button
     => Cardinality({k \in DOMAIN ways : ways[k]}) = 1

(* At most one contact is the thumb, and no valid contact is below it; a palm may become it.        *)
ThumbIsLowest ==
  LET message == walk["report"].message IN
  \A i \in DOMAIN message : message[i].finger = "Thumb" =>
    \A j \in DOMAIN message \ {i} :
      /\ message[j].finger # "Thumb"
      /\ message[j].valid => message[i].valid /\ message[j].y <= message[i].y

(* Some report of the device begins with a stylus. *)
HasStylus ==
  \E event \in scene.events : HasFirst(event) /\ First(event).type = "stylus"

(* The message has fingers only, each once, in the device's order and without a gap: who is missing *)
(* comes after those for whom there were contacts.  The one exception is a finger in the first      *)
(* place, which a device with a stylus may lose to stylus_check, set by an earlier report and never *)
(* reset.  A conversion under which start resets it is not claimed to be in order.                  *)
SlotsMatchContacts ==
  Converted /\ ~walk["report"].torn =>
    LET message == walk["report"].message
        fingers == {k \in DOMAIN Shown.transducers : Shown.transducers[k].type = "finger"}
        Before(i) == {message[j].from : j \in 1..(i - 1)}
        Lost == IF HasStylus THEN {1} ELSE {}
    IN \A i \in DOMAIN message :
         LET from == message[i].from IN
         /\ from # 0 => from \in fingers /\ from \notin Before(i)
         /\ \A k \in fingers : from = 0 \/ k < from => k \in Before(i) \cup Lost

(* What the preferences ask for, however they are ordered. *)
Says(p, key, value) == <<key, value>> \in Range(p)
Wanted(p) == Says(p, "ForceSuppressed", "false") /\ ~Says(p, "Clicking", "false")
Decisive(p) ==
  \/ \E value \in {"true", "false"} : Says(p, "ForceSuppressed", value)
  \/ Says(p, "Clicking", "false")

(* A contact of a press that comes a second after the last one follows the user's preferences as    *)
(* they are now; only a pad that is pressed again and again keeps to older ones                     *)
(* (isForceClickEnabled).                                                                           *)
FreshAfterPause ==
  [][ LET i == Len(walk["report"].message) + 1 IN
      ConvertContact /\ Asks(Shown, i) /\ age = Second /\ prefs # None /\ Decisive(prefs)
      => force' = Wanted(prefs) /\ walk'["report"].message[i].pressed = Wanted(prefs) ]_vars

(* The loops over the engines end although their bound may change as they run (setProperty's does). *)
WalksEnd == \A w \in Walks : walk[w].at # "off" ~> walk[w].at = "off"
=============================================================================
