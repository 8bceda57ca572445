-------------------------- MODULE MultitouchProofs --------------------------
(***************************************************************************)
(* For any set of engines, instances of VoodooInput, devices and            *)
(* preferences: messages go to who has had the native engine open, and the  *)
(* engine remembers who has (IInv); the variables are typed (Typed); the    *)
(* message says what the fingers do (Contents); a press after a pause       *)
(* follows the preferences; the engines are served by rank while others     *)
(* come and go (InPlace).                                                   *)
(***************************************************************************)
EXTENDS Multitouch, SequenceLemmas

(* The two loops have their fields. *)
Shape ==
  /\ walk = [w \in Walks |-> walk[w]]
  /\ \A w \in Walks : DOMAIN walk[w] = DOMAIN Off

(* Before VoodooInputSupported is set, nobody has the engine open. *)
NobodyBeforeSupport == begun \in {"no", "open", "reset"} => client = None

(* A loop under way has noted who has the engine open; one that is over has nobody to message. *)
OpenNoted ==
  \A w \in Walks :
    /\ client # None /\ walk[w].at # "off" => client \in walk[w].open
    /\ walk[w].at = "off" => walk[w].target = None

IInv == Shape /\ NobodyBeforeSupport /\ InstanceRemembered /\ OpenNoted /\ DeliveredToOpen

LEMMA InitIInv == Init => IInv
BY DEF Init, IInv, Shape, NobodyBeforeSupport, InstanceRemembered, OpenNoted, DeliveredToOpen, Off, Walks,
       EngineInit

(* A loop keeps who was open, and addresses one of those. *)
LEMMA WalkKeeps ==
  ASSUME IInv, NEW w \in Walks, NEW r, DOMAIN r = DOMAIN Off,
         walk' = [walk EXCEPT ![w] = r],
         r.at = "off" => r.target = None,
         r.at # "off" => walk[w].at # "off" /\ r.open = walk[w].open,
         r.target # None => r.at # "off" /\ r.target \in walk[w].open \cup {client},
         UNCHANGED <<begun, client, instance>>
  PROVE  IInv'
BY DEF IInv, Shape, NobodyBeforeSupport, InstanceRemembered, OpenNoted, DeliveredToOpen

(* Engines that come or go, and what becomes of the engine's start, leave the loops alone. *)
LEMMA EnginesStep ==
  ASSUME IInv, NEW e, OpenInterface(e) \/ CloseInterface(e)
  PROVE  IInv'
<1>1. /\ UNCHANGED <<client, instance>>
      /\ begun' \in {"no", "open", "reset"} => begun \in {"no", "open", "reset"}
  BY DEF OpenInterface, CloseInterface, engineVars
<1>2. Moved(e)
  BY DEF OpenInterface, CloseInterface
<1>3. /\ Shape'
      /\ \A w \in Walks : /\ walk'[w].at = walk[w].at /\ walk'[w].target = walk[w].target
                          /\ walk'[w].open = walk[w].open
  BY <1>2 DEF Moved, IInv, Shape, Off
<1> QED
  BY <1>1, <1>3 DEF IInv, NobodyBeforeSupport, InstanceRemembered, OpenNoted, DeliveredToOpen

(* A note on the report's loop that nothing of IInv speaks of. *)
LEMMA NoteKeeps ==
  ASSUME IInv, NEW r, DOMAIN r = DOMAIN Off, walk' = [walk EXCEPT !["report"] = r],
         r.at = walk["report"].at, r.target = walk["report"].target, r.open = walk["report"].open,
         UNCHANGED <<client, instance>>,
         begun' = begun \/ begun' \notin {"no", "open", "reset"}
  PROVE  IInv'
<1>1. "report" \in Walks
  BY DEF Walks
<1> QED
  BY <1>1 DEF IInv, Shape, NobodyBeforeSupport, InstanceRemembered, OpenNoted, DeliveredToOpen

LEMMA StartStep ==
  ASSUME IInv, ForgetInstance \/ PublishSupport \/ ResetStylus
  PROVE  IInv'
<1>1. CASE ForgetInstance \/ PublishSupport
  BY <1>1 DEF IInv, Shape, NobodyBeforeSupport, InstanceRemembered, OpenNoted, DeliveredToOpen,
         ForgetInstance, PublishSupport, engineVars
<1>2. CASE ResetStylus
  <2> DEFINE r == [walk["report"] EXCEPT !.torn = walk["report"].torn \/ Converting]
  <2>1. /\ walk' = [walk EXCEPT !["report"] = r]
        /\ UNCHANGED <<client, instance>> /\ begun' = "ready"
    BY <1>2 DEF ResetStylus, IInv, Shape, Walks
  <2>2. /\ DOMAIN r = DOMAIN Off /\ r.at = walk["report"].at
        /\ r.target = walk["report"].target /\ r.open = walk["report"].open
    BY DEF IInv, Shape, Off, Walks
  <2> HIDE DEF r
  <2> QED
    BY <2>1, <2>2, NoteKeeps
<1> QED
  BY <1>1, <1>2

LEMMA OpenStep ==
  ASSUME IInv, NEW v \in Inputs, OpenEngine(v)
  PROVE  IInv'
<1>1. /\ client' = v /\ instance' = v /\ UNCHANGED begun
      /\ begun \in {"supported", "ready"}
  BY DEF OpenEngine, HandleOpen
<1>2. \A w \in Walks :
        walk'[w] = IF walk[w].at = "off" THEN walk[w] ELSE [walk[w] EXCEPT !.open = @ \cup {v}]
  BY DEF OpenEngine
<1>3. /\ Shape'
      /\ \A w \in Walks : /\ walk'[w].at = walk[w].at /\ walk'[w].target = walk[w].target
                          /\ walk[w].open \subseteq walk'[w].open
                          /\ walk[w].at # "off" => v \in walk'[w].open
  BY <1>2 DEF OpenEngine, IInv, Shape, Off
<1> QED
  BY <1>1, <1>3 DEF IInv, NobodyBeforeSupport, InstanceRemembered, OpenNoted, DeliveredToOpen

LEMMA CloseStep ==
  ASSUME IInv, NEW v \in Inputs, CloseEngine(v)
  PROVE  IInv'
BY InputAssumption DEF CloseEngine, HandleIsOpen, HandleClose, IInv, Shape, NobodyBeforeSupport,
       InstanceRemembered, OpenNoted, DeliveredToOpen

LEMMA BeginStep ==
  ASSUME IInv, NEW w \in Walks, NEW event, Begin(w, event)
  PROVE  IInv'
<1> DEFINE r == [Off EXCEPT !.at = "loop", !.event = event,
                   !.count = Len(engines), !.line = engines, !.open = {client} \ {None}]
<1>1. /\ walk' = [walk EXCEPT ![w] = r]
      /\ UNCHANGED <<begun, client, instance>>
  BY DEF Begin, sceneVars, engineVars
<1>2. /\ DOMAIN r = DOMAIN Off /\ r.at = "loop" /\ r.target = None /\ r.open = {client} \ {None}
  BY DEF Off
<1> HIDE DEF r
<1> QED
  BY <1>1, <1>2 DEF IInv, Shape, NobodyBeforeSupport, InstanceRemembered, OpenNoted, DeliveredToOpen

(* A turn of a loop, and what an engine returns. *)
LEMMA TurnStep ==
  ASSUME IInv, NEW w \in Walks, GetObject(w) \/ EndLoop(w)
  PROVE  IInv'
<1>1. CASE EndLoop(w)
  <2>1. walk' = [walk EXCEPT ![w] = Off] /\ UNCHANGED <<begun, client, instance>>
    BY <1>1 DEF EndLoop, sceneVars, engineVars
  <2>2. Off.at = "off" /\ Off.target = None
    BY DEF Off
  <2> QED
    BY <2>1, <2>2, WalkKeeps
<1>2. CASE GetObject(w) /\ walk[w].i <= Len(engines)
  <2> DEFINE i == walk[w].i
             r == [walk[w] EXCEPT !.at = "called", !.engine = engines[i], !.i = i + 1,
                                  !.offered = Append(@, engines[i])]
  <2>1. walk' = [walk EXCEPT ![w] = r] /\ UNCHANGED <<begun, client, instance>>
    BY <1>2 DEF GetObject, sceneVars, engineVars, IInv, Shape
  <2>2. /\ DOMAIN r = DOMAIN Off
        /\ r.at = "called" /\ r.target = walk[w].target /\ r.open = walk[w].open
    BY DEF IInv, Shape, Off
  <2>3. walk[w].at = "loop" /\ (walk[w].target # None => walk[w].target \in walk[w].open)
    BY <1>2 DEF GetObject, IInv, DeliveredToOpen
  <2> HIDE DEF r
  <2> QED
    BY <2>1, <2>2, <2>3, WalkKeeps
<1>3. CASE GetObject(w) /\ ~(walk[w].i <= Len(engines))
  <2> DEFINE r == [walk[w] EXCEPT !.i = walk[w].i + 1]
  <2>1. walk' = [walk EXCEPT ![w] = r] /\ UNCHANGED <<begun, client, instance>>
    BY <1>3 DEF GetObject, sceneVars, engineVars, IInv, Shape
  <2>2. /\ DOMAIN r = DOMAIN Off
        /\ r.at = walk[w].at /\ r.target = walk[w].target /\ r.open = walk[w].open
    BY DEF IInv, Shape, Off
  <2>3. walk[w].at = "loop" /\ (walk[w].target # None => walk[w].target \in walk[w].open)
    BY <1>3 DEF GetObject, IInv, DeliveredToOpen
  <2> HIDE DEF r
  <2> QED
    BY <2>1, <2>2, <2>3, WalkKeeps
<1> QED
  BY <1>1, <1>2, <1>3

(* MultitouchReturnContinue and MultitouchReturnBreak, from within an engine. *)
LEMMA ReturnStep ==
  ASSUME IInv, NEW w \in Walks, walk[w].at # "off", Continue(w) \/ Break(w),
         UNCHANGED <<begun, client, instance>>
  PROVE  IInv'
<1>1. CASE Continue(w)
  <2> DEFINE r == [walk[w] EXCEPT !.at = "loop", !.engine = None, !.target = None]
  <2>1. walk' = [walk EXCEPT ![w] = r]
    BY <1>1 DEF Continue, IInv, Shape
  <2>2. DOMAIN r = DOMAIN Off /\ r.at = "loop" /\ r.target = None /\ r.open = walk[w].open
    BY DEF IInv, Shape, Off
  <2> HIDE DEF r
  <2> QED
    BY <2>1, <2>2, WalkKeeps
<1>2. CASE Break(w)
  <2>1. walk' = [walk EXCEPT ![w] = Off] /\ Off.at = "off" /\ Off.target = None
    BY <1>2 DEF Break, Off
  <2> QED
    BY <2>1, WalkKeeps
<1> QED
  BY <1>1, <1>2

(* The native engine on its way to a message. *)
LEMMA TowardsMessage ==
  ASSUME IInv, NEW w \in Walks, NEW r, walk' = [walk EXCEPT ![w] = r], DOMAIN r = DOMAIN Off,
         walk[w].at # "off", r.at # "off", r.open = walk[w].open,
         r.target \in {None, walk[w].target, client},
         UNCHANGED <<begun, client, instance>>
  PROVE  IInv'
<1>1. walk[w].target # None => walk[w].target \in walk[w].open
  BY DEF IInv, DeliveredToOpen
<1> QED
  BY <1>1, WalkKeeps

LEMMA NativeStep ==
  ASSUME IInv, NEW w \in Walks,
         \/ (NoTransducer \/ BeginConversion \/ ConvertContact \/ FinishConversion) /\ w = "report"
         \/ NotifyProperty /\ w = "property"
  PROVE  IInv'
<1>1. CASE NoTransducer /\ w = "report"
  <2>1. walk[w].at # "off" /\ Break(w) /\ UNCHANGED <<begun, client, instance>>
    BY <1>1 DEF NoTransducer, Called, sceneVars, engineVars
  <2> QED
    BY <2>1, ReturnStep
<1>2. CASE BeginConversion /\ w = "report"
  <2> DEFINE r == [walk[w] EXCEPT !.at = "convert"]
  <2>1. /\ walk' = [walk EXCEPT ![w] = r]
        /\ walk[w].at # "off" /\ UNCHANGED <<begun, client, instance>>
    BY <1>2 DEF BeginConversion, CheckStylus, Called, sceneVars, IInv, Shape
  <2>2. DOMAIN r = DOMAIN Off /\ r.at = "convert" /\ r.target = walk[w].target /\ r.open = walk[w].open
    BY DEF IInv, Shape, Off
  <2> HIDE DEF r
  <2> QED
    BY <2>1, <2>2, TowardsMessage
<1>3. CASE ConvertContact /\ w = "report"
  <2> DEFINE message == Append(walk[w].message, NextSlot(Shown, Len(walk[w].message) + 1))
             r == [walk[w] EXCEPT !.message = message]
  <2>1. /\ walk' = [walk EXCEPT ![w] = r]
        /\ walk[w].at # "off" /\ UNCHANGED <<begun, client, instance>>
    BY <1>3 DEF ConvertContact, Converting, Ask, sceneVars, IInv, Shape
  <2> HIDE DEF message
  <2>2. DOMAIN r = DOMAIN Off /\ r.at = walk[w].at /\ r.target = walk[w].target /\ r.open = walk[w].open
    BY DEF IInv, Shape, Off
  <2> HIDE DEF r
  <2> QED
    BY <2>1, <2>2, TowardsMessage
<1>4. CASE FinishConversion /\ w = "report"
  <2> DEFINE message == Thumb(Shown, walk[w].message)
             point == IF TopButton(Shown) THEN "due" ELSE "none"
             r == [walk[w] EXCEPT !.at = "load", !.message = message, !.point = point]
  <2>1. /\ walk' = [walk EXCEPT ![w] = r]
        /\ walk[w].at # "off" /\ UNCHANGED <<begun, client, instance>>
    BY <1>4 DEF FinishConversion, Converting, sceneVars, engineVars, IInv, Shape
  <2> HIDE DEF message, point
  <2>2. DOMAIN r = DOMAIN Off /\ r.at = "load" /\ r.target = walk[w].target /\ r.open = walk[w].open
    BY DEF IInv, Shape, Off
  <2> HIDE DEF r
  <2> QED
    BY <2>1, <2>2, TowardsMessage
<1>5. CASE NotifyProperty /\ w = "property"
  <2> DEFINE r == [walk[w] EXCEPT !.at = "load"]
  <2>1. /\ walk' = [walk EXCEPT ![w] = r]
        /\ walk[w].at # "off" /\ UNCHANGED <<begun, client, instance>>
    BY <1>5 DEF NotifyProperty, Called, sceneVars, engineVars, IInv, Shape
  <2>2. DOMAIN r = DOMAIN Off /\ r.at = "load" /\ r.target = walk[w].target /\ r.open = walk[w].open
    BY DEF IInv, Shape, Off
  <2> HIDE DEF r
  <2> QED
    BY <2>1, <2>2, TowardsMessage
<1> QED
  BY <1>1, <1>2, <1>5, <1>3, <1>4

LEMMA MessageStep ==
  ASSUME IInv, NEW w \in Walks, LoadInstance(w) \/ Deliver(w)
  PROVE  IInv'
<1>1. CASE LoadInstance(w)
  <2> DEFINE r == [walk[w] EXCEPT !.at = "deliver", !.target = instance]
  <2>1. /\ walk' = [walk EXCEPT ![w] = r]
        /\ walk[w].at # "off" /\ UNCHANGED <<begun, client, instance>>
    BY <1>1 DEF LoadInstance, sceneVars, engineVars, IInv, Shape
  <2>2. DOMAIN r = DOMAIN Off /\ r.at = "deliver" /\ r.target = client /\ r.open = walk[w].open
    BY DEF IInv, Shape, Off, InstanceRemembered
  <2> HIDE DEF r
  <2> QED
    BY <2>1, <2>2, TowardsMessage
<1>2. CASE Deliver(w) /\ w = "report" /\ walk[w].point = "due"
  <2> DEFINE r == [walk[w] EXCEPT !.at = "load", !.target = None, !.point = "sent"]
  <2>1. /\ walk' = [walk EXCEPT ![w] = r]
        /\ walk[w].at # "off" /\ UNCHANGED <<begun, client, instance>>
    BY <1>2 DEF Deliver, sceneVars, engineVars, IInv, Shape
  <2>2. DOMAIN r = DOMAIN Off /\ r.at = "load" /\ r.target = None /\ r.open = walk[w].open
    BY DEF IInv, Shape, Off
  <2> HIDE DEF r
  <2> QED
    BY <2>1, <2>2, TowardsMessage
<1>3. CASE Deliver(w) /\ ~(w = "report" /\ walk[w].point = "due")
  <2>1. /\ Continue(w) \/ Break(w)
        /\ walk[w].at # "off" /\ UNCHANGED <<begun, client, instance>>
    BY <1>3 DEF Deliver, sceneVars, engineVars
  <2> QED
    BY <2>1, ReturnStep
<1> QED
  BY <1>1, <1>2, <1>3

LEMMA LoopStep ==
  ASSUME IInv, NEW w \in Walks, WalkStep(w)
  PROVE  IInv'
<1>1. CASE OtherReturns(w) \/ NobodyToTell(w)
  <2>1. /\ Continue(w) \/ Break(w)
        /\ walk[w].at # "off" /\ UNCHANGED <<begun, client, instance>>
    BY <1>1 DEF OtherReturns, NobodyToTell, Called, sceneVars, engineVars
  <2> QED
    BY <2>1, ReturnStep
<1> QED
  BY <1>1, TurnStep, NativeStep, MessageStep DEF WalkStep

(* Time, the user, and steps of others. *)
LEMMA ElsewhereStep ==
  ASSUME IInv, TimePasses \/ UserChanges \/ UNCHANGED vars
  PROVE  IInv'
<1>1. CASE TimePasses \/ UNCHANGED vars
  <2>1. UNCHANGED <<begun, client, instance, walk>>
    BY <1>1 DEF TimePasses, Tick, vars, sceneVars, engineVars
  <2> QED
    BY <2>1 DEF IInv, Shape, NobodyBeforeSupport, InstanceRemembered, OpenNoted, DeliveredToOpen
<1>2. CASE UserChanges
  <2> DEFINE split == walk["report"].split \/
                        (AmidPress /\ age = Second /\ prefs = None /\ prefs' # None)
             r == [walk["report"] EXCEPT !.split = split]
  <2>1. walk' = [walk EXCEPT !["report"] = r] /\ UNCHANGED <<begun, client, instance>>
    BY <1>2 DEF UserChanges, ChangePreferences, sceneVars, IInv, Shape, Walks
  <2> HIDE DEF split
  <2>2. /\ DOMAIN r = DOMAIN Off /\ r.at = walk["report"].at
        /\ r.target = walk["report"].target /\ r.open = walk["report"].open
    BY DEF IInv, Shape, Off, Walks
  <2> HIDE DEF r
  <2> QED
    BY <2>1, <2>2, NoteKeeps
<1> QED
  BY <1>1, <1>2

LEMMA Invariance == Spec => []IInv
<1>1. IInv /\ [Next]_vars => IInv'
  <2> SUFFICES ASSUME IInv, [Next]_vars PROVE IInv'
    OBVIOUS
  <2>1. ASSUME BeginReport \/ BeginProperty PROVE IInv'
    <3>1. "report" \in Walks /\ "property" \in Walks
      BY DEF Walks
    <3> QED
      BY <2>1, <3>1, BeginStep DEF BeginReport, BeginProperty
  <2> QED
    BY <2>1, EnginesStep, StartStep, OpenStep, CloseStep, LoopStep, ElsewhereStep DEF Next
<1> QED
  BY <1>1, InitIInv, PTL DEF Spec

(* Whoever the native engine messages has had it open since the report or the change came. *)
THEOREM MessagesReachClients == Spec => []DeliveredToOpen
<1>1. IInv => DeliveredToOpen
  BY DEF IInv
<1> QED
  BY <1>1, Invariance, PTL

(* The native engine always knows who has it open. *)
THEOREM ClientIsRemembered == Spec => []InstanceRemembered
<1>1. IInv => InstanceRemembered
  BY DEF IInv
<1> QED
  BY <1>1, Invariance, PTL
-----------------------------------------------------------------------------
(* isForceClickEnabled: what the loop over the preferences comes to. *)
Keys == {"Clicking", "ForceSuppressed"} \X {"true", "false", "other"}
Reading == [enabled : BOOLEAN, done : BOOLEAN]

LEMMA ReadKeyTyped ==
  ASSUME NEW found \in Reading, NEW key \in Keys
  PROVE  ReadKey(found, key) \in Reading
BY DEF ReadKey, Reading, Keys

(* What is known after the first k keys. *)
Read(p, k, found) ==
  /\ found \in Reading
  /\ found.done <=> \E j \in 1..k : p[j] = <<"Clicking", "false">>
  /\ found.done => ~found.enabled
  /\ ~found.done => /\ \A j \in 1..k : p[j] = <<"ForceSuppressed", "false">> => found.enabled
                    /\ \A j \in 1..k : p[j] = <<"ForceSuppressed", "true">> => ~found.enabled

LEMMA ReadNext ==
  ASSUME NEW p \in Preferences, NEW k \in 1..Len(p), NEW found, Read(p, k - 1, found)
  PROVE  Read(p, k, ReadKey(found, p[k]))
<1> DEFINE key == p[k]
           next == ReadKey(found, key)
<1>1. /\ key \in Keys /\ key = <<key[1], key[2]>>
      /\ \A j \in 1..(k - 1) : j \in DOMAIN p /\ p[j] \in Keys /\ p[j][1] # key[1]
      /\ 1..k = (1..(k - 1)) \cup {k}
  BY DEF Preferences, Keys
<1>2. found \in Reading /\ next \in Reading
  BY <1>1, ReadKeyTyped DEF Read
<1>3. CASE found.done
  <2>1. next = found
    BY <1>3 DEF ReadKey
  <2> QED
    BY <1>1, <1>3, <2>1 DEF Read
<1>4. CASE ~found.done /\ key = <<"Clicking", "false">>
  <2>1. next = [enabled |-> FALSE, done |-> TRUE]
    BY <1>4 DEF ReadKey
  <2> QED
    BY <1>1, <1>2, <1>4, <2>1 DEF Read
<1>5. CASE ~found.done /\ key[1] = "ForceSuppressed" /\ key[2] # "other"
  <2>1. next = [enabled |-> key[2] = "false", done |-> FALSE]
    BY <1>1, <1>5 DEF ReadKey, Keys
  <2>2. \A j \in 1..(k - 1) : p[j] # <<"ForceSuppressed", "false">> /\ p[j] # <<"ForceSuppressed", "true">>
    BY <1>1, <1>5
  <2>3. ~\E j \in 1..k : p[j] = <<"Clicking", "false">>
    BY <1>1, <1>5 DEF Read
  <2>4. ~next.done /\ (next.enabled <=> key[2] = "false")
    <3> DEFINE v == key[2] = "false"
    <3>1. next = [enabled |-> v, done |-> FALSE]
      BY <2>1
    <3> HIDE DEF v, key, next
    <3>2. next.enabled = v /\ next.done = FALSE
      BY <3>1, Zenon
    <3> QED
      BY <3>2 DEF v
  <2>5. key = <<"ForceSuppressed", "false">> => key[2] = "false"
    OBVIOUS
  <2>6. key = <<"ForceSuppressed", "true">> => key[2] # "false"
    OBVIOUS
  <2>7. \A j \in 1..k : j \in 1..(k - 1) \/ p[j] = key
    BY <1>1
  <2> HIDE DEF key, next
  <2>8. /\ \A j \in 1..k : p[j] = <<"ForceSuppressed", "false">> => next.enabled
        /\ \A j \in 1..k : p[j] = <<"ForceSuppressed", "true">> => ~next.enabled
    BY <2>2, <2>4, <2>5, <2>6, <2>7
  <2>9. Read(p, k, next)
    BY <1>2, <2>3, <2>4, <2>8 DEF Read
  <2> QED
    BY <2>9 DEF next, key
<1>6. CASE /\ ~found.done /\ key # <<"Clicking", "false">>
           /\ ~(key[1] = "ForceSuppressed" /\ key[2] # "other")
  <2>1. next = found
    BY <1>6 DEF ReadKey
  <2>2. key # <<"ForceSuppressed", "false">> /\ key # <<"ForceSuppressed", "true">>
    BY <1>6
  <2> QED
    BY <1>1, <1>6, <2>1, <2>2 DEF Read
<1> QED
  BY <1>3, <1>4, <1>5, <1>6

LEMMA ReadAll ==
  ASSUME NEW p \in Preferences, NEW b \in BOOLEAN
  PROVE  Read(p, Len(p), FoldLeft(ReadKey, [enabled |-> b, done |-> FALSE], p))
<1> DEFINE n == Len(p)
           base == [enabled |-> b, done |-> FALSE]
           step == [x \in Reading \X (1..n) |-> ReadKey(x[1], p[x[2]])]
           F(iter) == iter = [s \in SUBSET (1..n) |->
                         IF s = {} THEN base ELSE ReadKey(iter[s \ {Max(s)}], p[Max(s)])]
           it == CHOOSE iter : F(iter)
<1>1. n \in Nat /\ base \in Reading /\ DOMAIN p = 1..n /\ \A i \in 1..n : p[i] \in Keys
  BY DEF Reading, Preferences, Keys
<1>2. FoldLeft(ReadKey, base, p) = it[1..n]
  BY <1>1 DEF FoldLeft, MapThenFoldSet
<1>3. F(it)
  <2>1. step \in [Reading \X (1..n) -> Reading]
    BY <1>1, ReadKeyTyped
  <2>2. PICK g \in [SUBSET (1..n) -> Reading] : Loops(g, n, base, step)
    <3> HIDE DEF n, base, step
    <3> QED
      BY <1>1, <2>1, LoopExists
  <2>3. ASSUME NEW s \in SUBSET (1..n), s # {}
        PROVE  step[<<g[s \ {Max(s)}], Max(s)>>] = ReadKey(g[s \ {Max(s)}], p[Max(s)])
    <3>1. s \in SUBSET Nat /\ \A x \in s : x <= n
      BY <1>1
    <3>2. Max(s) \in 1..n
      BY <1>1, <2>3, <3>1, Greatest
    <3>3. g[s \ {Max(s)}] \in Reading
      OBVIOUS
    <3> QED
      BY <3>2, <3>3
  <2>4. F(g)
    <3> HIDE DEF step, base, n
    <3> QED
      BY <2>2, <2>3 DEF Loops
  <2> HIDE DEF F
  <2> QED
    BY <2>4
<1> HIDE DEF it
<1> DEFINE T == {k \in 0..n : ~Read(p, k, it[1..k])}
<1>4. T = {}
  <2> SUFFICES ASSUME T # {} PROVE FALSE
    OBVIOUS
  <2>1. PICK k \in T : \A j \in T : k <= j
    <3>1. T \in SUBSET Nat
      BY <1>1
    <3> HIDE DEF T
    <3> QED
      BY <3>1, Least
  <2>2. k \in 0..n /\ ~Read(p, k, it[1..k])
    OBVIOUS
  <2>3. k # 0
    <3>1. 1..0 = {} /\ it[{}] = base
      BY <1>3
    <3> QED
      BY <1>1, <2>2, <3>1 DEF Read
  <2>4. Read(p, k - 1, it[1..(k - 1)])
    <3>1. k - 1 \in 0..n /\ ~(k <= k - 1)
      BY <1>1, <2>2, <2>3
    <3> QED
      BY <2>1, <3>1
  <2>5. k \in 1..n
    BY <1>1, <2>2, <2>3
  <2>6. it[1..k] = ReadKey(it[1..(k - 1)], p[k])
    <3>1. 1..k \in SUBSET (1..n) /\ 1..k # {} /\ Max(1..k) = k /\ (1..k) \ {k} = 1..(k - 1)
      BY <1>1, <2>5, LoopTurn
    <3> QED
      BY <1>3, <3>1
  <2> QED
    BY <2>2, <2>4, <2>5, <2>6, ReadNext
<1>5. n \in 0..n
  BY <1>1
<1> HIDE DEF n
<1> QED
  BY <1>2, <1>4, <1>5 DEF n

(* The loop follows the preferences whatever their order. *)
LEMMA ForceClickRead ==
  ASSUME EngineTypeOK
  PROVE  /\ ForceClick \in BOOLEAN
         /\ age = Second /\ prefs # None /\ Decisive(prefs) => (ForceClick <=> Wanted(prefs))
<1>1. CASE age < Second \/ prefs = None
  BY <1>1, ClockAssumption DEF ForceClick, EngineTypeOK
<1>2. CASE ~(age < Second \/ prefs = None)
  <2> DEFINE found == FoldLeft(ReadKey, [enabled |-> force, done |-> FALSE], prefs)
  <2>1. prefs \in Preferences /\ force \in BOOLEAN
    BY <1>2 DEF EngineTypeOK
  <2>2. Read(prefs, Len(prefs), found)
    BY <2>1, ReadAll
  <2>3. ForceClick = found.enabled
    BY <1>2 DEF ForceClick
  <2> HIDE DEF found
  <2>4. DOMAIN prefs = 1..Len(prefs) /\ \A i, j \in DOMAIN prefs : prefs[i][1] = prefs[j][1] => i = j
    BY <2>1 DEF Preferences
  <2>5. \A key, value : Says(prefs, key, value) <=> \E j \in 1..Len(prefs) : prefs[j] = <<key, value>>
    BY <2>4 DEF Says, Range
  <2>6. found.enabled \in BOOLEAN /\ found.done \in BOOLEAN
    BY <2>2 DEF Read, Reading
  <2>7. ASSUME Decisive(prefs) PROVE found.enabled <=> Wanted(prefs)
    <3>1. CASE Says(prefs, "Clicking", "false")
      BY <2>2, <2>5, <3>1 DEF Read, Wanted
    <3>2. CASE ~Says(prefs, "Clicking", "false") /\ Says(prefs, "ForceSuppressed", "false")
      BY <2>2, <2>5, <3>2 DEF Read, Wanted
    <3>3. CASE ~Says(prefs, "Clicking", "false") /\ ~Says(prefs, "ForceSuppressed", "false")
      <4>1. Says(prefs, "ForceSuppressed", "true")
        BY <2>7, <3>3 DEF Decisive
      <4> QED
        BY <2>2, <2>5, <3>3, <4>1 DEF Read, Wanted
    <3> QED
      BY <3>1, <3>2, <3>3
  <2> QED
    BY <2>3, <2>6, <2>7
<1> QED
  BY <1>1, <1>2

-----------------------------------------------------------------------------
(* What becomes of a contact of an event. *)
LEMMA NextSlotTyped ==
  ASSUME NEW event \in Events, NEW i \in Nat \ {0}, EngineTypeOK
  PROVE  /\ NextSlot(event, i) \in SlotType
         /\ IF i + stylus <= Len(event.transducers)
            THEN /\ i + stylus \in 1..Len(event.transducers)
                 /\ event.transducers[i + stylus] \in Transducers
                 /\ NextSlot(event, i) = Slot(event.transducers[i + stylus], i + stylus,
                                              Asks(event, i) /\ ForceClick)
            ELSE NextSlot(event, i) = Empty
<1> DEFINE ts == event.transducers
           k == i + stylus
           t == ts[k]
           forced == Asks(event, i) /\ ForceClick
<1>1. ts \in Seq(Transducers) /\ Len(ts) \in Nat /\ stylus \in {0, 1} /\ k \in Nat \ {0}
  BY DEF Events, EngineTypeOK
<1>2. forced \in BOOLEAN
  OBVIOUS
<1>3. NextSlot(event, i) = IF k <= Len(ts) THEN Slot(t, k, forced) ELSE Empty
  BY DEF NextSlot, Transducer
<1>4. Empty \in SlotType
  BY DEF Empty, SlotType
<1>5. ASSUME k <= Len(ts) PROVE k \in 1..Len(ts) /\ t \in Transducers
  BY <1>1, <1>5
<1> HIDE DEF ts, k, t, forced
<1>6. ASSUME k <= Len(ts) PROVE Slot(t, k, forced) \in SlotType
  BY <1>1, <1>2, <1>5, <1>6 DEF Slot, SlotType, Transducers
<1>7. NextSlot(event, i) \in SlotType
  BY <1>3, <1>4, <1>6
<1> QED
  BY <1>3, <1>5, <1>7 DEF ts, k, t, forced

(* The search for the thumb changes what one contact is taken for. *)
LEMMA ThumbTyped ==
  ASSUME NEW event \in Events, NEW slots \in [1..event.count -> SlotType]
  PROVE  /\ Thumb(event, slots) \in [1..event.count -> SlotType]
         /\ \A i \in 1..event.count :
              /\ Thumb(event, slots)[i].valid = slots[i].valid
              /\ Thumb(event, slots)[i].y = slots[i].y
              /\ Thumb(event, slots)[i].button = slots[i].button
              /\ Thumb(event, slots)[i].pressed = slots[i].pressed
              /\ Thumb(event, slots)[i].from = slots[i].from
<1> DEFINE n == event.count
           th == ThumbIndex(slots)
           found == [i \in DOMAIN slots |->
                       IF i = th THEN [slots[i] EXCEPT !.finger = "Thumb"] ELSE slots[i]]
<1>1. Thumb(event, slots) \in {slots, found}
  BY DEF Thumb
<1>2. \A i \in 1..n : /\ slots[i] \in SlotType
                      /\ [slots[i] EXCEPT !.finger = "Thumb"] \in SlotType
  BY DEF SlotType
<1> HIDE DEF th
<1>3. found \in [1..n -> SlotType]
  BY <1>2
<1>4. \A i \in 1..n : /\ found[i].valid = slots[i].valid /\ found[i].y = slots[i].y
                      /\ found[i].button = slots[i].button /\ found[i].pressed = slots[i].pressed
                      /\ found[i].from = slots[i].from
  <2> SUFFICES ASSUME NEW i \in 1..n
               PROVE  /\ found[i].valid = slots[i].valid /\ found[i].y = slots[i].y
                      /\ found[i].button = slots[i].button /\ found[i].pressed = slots[i].pressed
                      /\ found[i].from = slots[i].from
    OBVIOUS
  <2>1. found[i] = IF i = th THEN [slots[i] EXCEPT !.finger = "Thumb"] ELSE slots[i]
    OBVIOUS
  <2>2. slots[i] \in SlotType
    OBVIOUS
  <2> HIDE DEF found
  <2> QED
    BY <2>1, <2>2 DEF SlotType
<1> HIDE DEF found, n
<1> QED
  BY <1>1, <1>3, <1>4 DEF n

(* stylus_check, and what a call of isForceClickEnabled changes. *)
LEMMA CheckTyped ==
  ASSUME NEW event, EngineTypeOK, CheckStylus(event)
  PROVE  EngineTypeOK'
BY DEF CheckStylus, StylusCheck, forceVars, EngineTypeOK

LEMMA AskTyped ==
  ASSUME NEW event, NEW i, EngineTypeOK, Ask(event, i)
  PROVE  EngineTypeOK'
<1>1. ForceClick \in BOOLEAN
  BY ForceClickRead
<1>2. UNCHANGED <<instance, stylus, prefs>> /\ force' \in {ForceClick, force} /\ age' \in {0, age}
  BY DEF Ask, AskForceClick
<1> QED
  BY <1>1, <1>2, ClockAssumption DEF EngineTypeOK


-----------------------------------------------------------------------------
(* Types.  A report under way is one of the device's. *)
ReportHasEvent == walk["report"].at # "off" => walk["report"].event \in scene.events

Typed == TypeOK /\ ReportHasEvent

(* The parts of a scenario. *)
LEMMA SceneTyped ==
  ASSUME Typed
  PROVE  /\ scene.engines \subseteq Engines /\ scene.events \subseteq Events
         /\ scene.prefs \subseteq Preferences \cup {None}
         /\ engines \in Seq(Engines)
BY ScenarioAssumption DEF Typed, TypeOK

LEMMA OffTyped == Off \in WalkType
BY DEF Off, WalkType

LEMMA InitTyped == Init => Typed
<1> SUFFICES ASSUME Init PROVE Typed
  OBVIOUS
<1>1. EngineTypeOK
  <2>1. PICK p \in scene.prefs : EngineInit(p)
    BY DEF Init
  <2>2. p \in Preferences \cup {None}
    BY ScenarioAssumption DEF Init
  <2>3. instance = None /\ stylus = 0 /\ force = FALSE /\ age = Second /\ prefs = p
    BY <2>1 DEF EngineInit
  <2>4. age \in 0..Second
    BY <2>3, ClockAssumption
  <2>5. prefs = None \/ prefs \in Preferences
    BY <2>2, <2>3
  <2> QED
    BY <2>3, <2>4, <2>5 DEF EngineTypeOK
<1>2. engines \in Seq(scene.engines)
  BY DEF Init
<1> QED
  BY <1>1, <1>2, OffTyped DEF Init, Typed, TypeOK, ReportHasEvent, Off, Walks

(* A loop that goes on as it should. *)
LEMMA WalkTyped ==
  ASSUME Typed, NEW w \in Walks, NEW r \in WalkType, walk' = [walk EXCEPT ![w] = r],
         w = "report" /\ r.at # "off" => r.event \in scene.events,
         UNCHANGED sceneVars, EngineTypeOK'
  PROVE  Typed'
BY DEF Typed, TypeOK, ReportHasEvent, sceneVars, Walks

LEMMA EngineKept ==
  ASSUME EngineTypeOK, UNCHANGED engineVars
  PROVE  EngineTypeOK'
BY DEF EngineTypeOK, engineVars, forceVars

(* Engines open and close. *)
LEMMA LineTyped ==
  ASSUME NEW S \in SUBSET Engines, NEW s \in Seq(S), NEW e \in S
  PROVE  /\ SetObject(s, e) \in Seq(S)
         /\ \A k \in DOMAIN s : RemoveAt(s, k) \in Seq(S)
<1> DEFINE K == {i \in DOMAIN s : OrderEngines(s[i], e) >= 0}
           k == Cardinality(K)
<1>1. IsFiniteSet(1..Len(s)) /\ Cardinality(1..Len(s)) = Len(s)
  BY CardInterval
<1>2. K \subseteq 1..Len(s)
  OBVIOUS
<1> HIDE DEF K
<1>3. k \in Nat /\ k <= Len(s)
  BY <1>1, <1>2, FS_Subset, FS_CardinalityType
<1>4. SetObject(s, e) = InsertAt(s, k + 1, e)
  BY DEF SetObject, K
<1> HIDE DEF k
<1>5. SetObject(s, e) \in Seq(S)
  BY <1>3, <1>4, Inserted
<1> QED
  BY <1>5, Removed

LEMMA FieldTyped ==
  ASSUME NEW old \in WalkType
  PROVE  /\ \A m \in SUBSET Engines :
              LET r == [old EXCEPT !.moved = m]
              IN r \in WalkType /\ r.at = old.at /\ r.event = old.event
         /\ \A o \in SUBSET Inputs :
              LET r == [old EXCEPT !.open = o]
              IN r \in WalkType /\ r.at = old.at /\ r.event = old.event
         /\ \A n \in Nat \ {0} :
              LET r == [old EXCEPT !.i = n]
              IN r \in WalkType /\ r.at = old.at /\ r.event = old.event
BY DEF WalkType

LEMMA EnginesTyped ==
  ASSUME Typed, NEW e \in Engines, OpenInterface(e) \/ CloseInterface(e)
  PROVE  Typed'
<1>1. UNCHANGED <<scene, client, engineVars>> /\ Moved(e)
  BY DEF OpenInterface, CloseInterface
<1>2. begun' \in {"no", "open", "reset", "supported", "ready", "gone"}
  BY DEF OpenInterface, CloseInterface, Typed, TypeOK
<1>3. engines' \in Seq(scene.engines)
  <2>1. scene.engines \in SUBSET Engines /\ engines \in Seq(scene.engines)
    BY SceneTyped DEF Typed, TypeOK
  <2>2. CASE OpenInterface(e)
    BY <2>1, <2>2, LineTyped DEF OpenInterface
  <2>3. CASE CloseInterface(e)
    <3>1. PICK k \in DOMAIN engines : engines' = RemoveAt(engines, k)
      BY <2>3 DEF CloseInterface
    <3> QED
      BY <2>1, <3>1, Removed
  <2> QED
    BY <2>2, <2>3
<1>4. \A w \in Walks :
        /\ walk'[w] \in WalkType
        /\ walk'[w].at = walk[w].at /\ walk'[w].event = walk[w].event
  <2> SUFFICES ASSUME NEW w \in Walks
               PROVE  /\ walk'[w] \in WalkType
                      /\ walk'[w].at = walk[w].at /\ walk'[w].event = walk[w].event
    OBVIOUS
  <2>1. walk[w] \in WalkType
    BY DEF Typed, TypeOK
  <2>2. walk'[w] = IF walk[w].at = "off" THEN walk[w]
                   ELSE [walk[w] EXCEPT !.moved = walk[w].moved \cup {e}]
    BY <1>1 DEF Moved
  <2>3. walk[w].moved \cup {e} \in SUBSET Engines
    BY <2>1 DEF WalkType
  <2> QED
    BY <2>1, <2>2, <2>3, FieldTyped
<1>5. walk' \in [Walks -> WalkType]
  BY <1>1, <1>4 DEF Moved
<1>6. EngineTypeOK'
  BY <1>1, EngineKept DEF Typed, TypeOK
<1> QED
  BY <1>1, <1>2, <1>3, <1>4, <1>5, <1>6 DEF Typed, TypeOK, ReportHasEvent, Walks

LEMMA StartTyped ==
  ASSUME Typed, ForgetInstance \/ PublishSupport \/ ResetStylus
  PROVE  Typed'
<1>1. UNCHANGED <<scene, engines, client>> /\ begun' \in {"reset", "supported", "ready"}
  BY DEF ForgetInstance, PublishSupport, ResetStylus
<1>2. EngineTypeOK'
  BY DEF ForgetInstance, PublishSupport, ResetStylus, engineVars, forceVars, Typed, TypeOK, EngineTypeOK
<1>3. /\ walk' \in [Walks -> WalkType]
      /\ walk'["report"].at = walk["report"].at /\ walk'["report"].event = walk["report"].event
  <2>1. CASE ForgetInstance \/ PublishSupport
    <3>1. walk' = walk
      BY <2>1 DEF ForgetInstance, PublishSupport
    <3> QED
      BY <3>1 DEF Typed, TypeOK
  <2>2. CASE ResetStylus
    <3> DEFINE old == walk["report"]
               note == old.torn \/ Converting
               r == [old EXCEPT !.torn = note]
    <3>1. walk \in [Walks -> WalkType] /\ old \in WalkType /\ "report" \in Walks
      BY DEF Typed, TypeOK, Walks
    <3>2. walk' = [walk EXCEPT !["report"] = r]
      BY <2>2, <3>1 DEF ResetStylus
    <3>3. note \in BOOLEAN
      OBVIOUS
    <3> HIDE DEF old, note
    <3>4. r \in WalkType /\ r.at = old.at /\ r.event = old.event
      BY <3>1, <3>3 DEF WalkType
    <3> HIDE DEF r
    <3> QED
      BY <3>1, <3>2, <3>4 DEF old
  <2> QED
    BY <2>1, <2>2
<1> QED
  BY <1>1, <1>2, <1>3 DEF Typed, TypeOK, ReportHasEvent

LEMMA ClientTyped ==
  ASSUME Typed, NEW v \in Inputs, OpenEngine(v) \/ CloseEngine(v)
  PROVE  Typed'
<1>1. CASE OpenEngine(v)
  <2>1. UNCHANGED <<scene, engines, begun>> /\ client' = v /\ EngineTypeOK'
    BY <1>1 DEF OpenEngine, HandleOpen, forceVars, Typed, TypeOK, EngineTypeOK
  <2>2. \A w \in Walks :
          /\ walk'[w] \in WalkType
          /\ walk'[w].at = walk[w].at /\ walk'[w].event = walk[w].event
    <3> SUFFICES ASSUME NEW w \in Walks
                 PROVE  /\ walk'[w] \in WalkType
                        /\ walk'[w].at = walk[w].at /\ walk'[w].event = walk[w].event
      OBVIOUS
    <3>1. walk[w] \in WalkType
      BY DEF Typed, TypeOK
    <3>2. walk'[w] = IF walk[w].at = "off" THEN walk[w]
                     ELSE [walk[w] EXCEPT !.open = walk[w].open \cup {v}]
      BY <1>1 DEF OpenEngine
    <3>3. walk[w].open \cup {v} \in SUBSET Inputs
      BY <3>1 DEF WalkType
    <3> QED
      BY <3>1, <3>2, <3>3, FieldTyped
  <2>3. walk' \in [Walks -> WalkType]
    BY <1>1, <2>2 DEF OpenEngine
  <2> QED
    BY <2>1, <2>2, <2>3 DEF Typed, TypeOK, ReportHasEvent, Walks
<1>2. CASE CloseEngine(v)
  <2>1. UNCHANGED <<scene, engines, begun, walk>> /\ client' = None
    BY <1>2 DEF CloseEngine
  <2>2. EngineTypeOK'
    <3>1. CASE HandleIsOpen(v)
      BY <1>2, <3>1 DEF CloseEngine, HandleClose, forceVars, Typed, TypeOK, EngineTypeOK
    <3>2. CASE ~HandleIsOpen(v)
      BY <1>2, <3>2, EngineKept DEF CloseEngine, Typed, TypeOK
    <3> QED
      BY <3>1, <3>2
  <2> QED
    BY <2>1, <2>2 DEF Typed, TypeOK, ReportHasEvent
<1> QED
  BY <1>1, <1>2

LEMMA BeginTyped ==
  ASSUME Typed, BeginReport \/ BeginProperty
  PROVE  Typed'
<1>1. PICK w \in Walks, event \in Events \cup {None} :
        Begin(w, event) /\ (w = "report" => event \in scene.events)
  <2>1. CASE BeginReport
    <3>1. PICK event \in scene.events : Begin("report", event)
      BY <2>1 DEF BeginReport
    <3>2. "report" \in Walks /\ event \in Events
      BY SceneTyped DEF Walks
    <3> QED
      BY <3>1, <3>2
  <2>2. CASE BeginProperty
    <3>1. "property" \in Walks /\ "property" # "report"
      BY DEF Walks
    <3> QED
      BY <2>2, <3>1 DEF BeginProperty
  <2> QED
    BY <2>1, <2>2
<1> DEFINE r == [Off EXCEPT !.at = "loop", !.event = event,
                   !.count = Len(engines), !.line = engines, !.open = {client} \ {None}]
<1>2. walk' = [walk EXCEPT ![w] = r] /\ UNCHANGED <<sceneVars, engineVars>>
  BY <1>1 DEF Begin
<1>3. engines \in Seq(Engines) /\ Len(engines) \in Nat /\ {client} \ {None} \subseteq Inputs
  BY SceneTyped DEF Typed, TypeOK
<1>5. r \in WalkType /\ r.event = event
  BY <1>3, OffTyped DEF WalkType
<1> HIDE DEF r
<1>6. EngineTypeOK'
  BY <1>2, EngineKept DEF Typed, TypeOK
<1> QED
  BY <1>1, <1>2, <1>5, <1>6, WalkTyped

(* What the loops do: a turn, what an engine returns, the native engine's way to a message. *)
LEMMA OffStepTyped ==
  ASSUME Typed, NEW w \in Walks, walk' = [walk EXCEPT ![w] = Off],
         UNCHANGED <<sceneVars, engineVars>>
  PROVE  Typed'
<1>1. EngineTypeOK' /\ Off.at = "off"
  BY EngineKept DEF Typed, TypeOK, Off
<1> QED
  BY <1>1, OffTyped, WalkTyped

LEMMA TurnTyped ==
  ASSUME Typed, NEW w \in Walks, GetObject(w)
  PROVE  Typed'
<1> DEFINE old == walk[w]
           i == old.i
           e == engines[i]
           found == [old EXCEPT !.at = "called", !.engine = e, !.i = i + 1, !.offered = Append(old.offered, e)]
           next == [old EXCEPT !.i = i + 1]
<1>1. /\ walk' = IF i <= Len(engines) THEN [walk EXCEPT ![w] = found]
                 ELSE [walk EXCEPT ![w] = next]
      /\ old.at = "loop" /\ UNCHANGED <<sceneVars, engineVars>>
  BY DEF GetObject, Typed, TypeOK
<1>2. old \in WalkType /\ EngineTypeOK' /\ engines \in Seq(Engines)
  BY <1>1, EngineKept, SceneTyped DEF Typed, TypeOK
<1>3. w = "report" => old.event \in scene.events
  BY <1>1 DEF Typed, ReportHasEvent
<1> HIDE DEF old
<1>4. CASE i <= Len(engines)
  <2>1. e \in Engines /\ Append(old.offered, e) \in Seq(Engines) /\ i + 1 \in Nat \ {0}
    BY <1>2, <1>4 DEF WalkType
  <2> HIDE DEF e
  <2>2. found \in WalkType /\ found.event = old.event
    BY <1>2, <2>1 DEF WalkType
  <2> HIDE DEF found
  <2> QED
    BY <1>1, <1>2, <1>3, <1>4, <2>2, WalkTyped
<1>5. CASE ~(i <= Len(engines))
  <2>0. i + 1 \in Nat \ {0}
    BY <1>2 DEF WalkType
  <2>1. next \in WalkType /\ next.event = old.event
    BY <1>2, <2>0, FieldTyped
  <2> HIDE DEF next
  <2> QED
    BY <1>1, <1>2, <1>3, <1>5, <2>1, WalkTyped
<1> QED
  BY <1>4, <1>5

LEMMA ReturnTyped ==
  ASSUME Typed, NEW w \in Walks, walk[w].at # "off", Continue(w) \/ Break(w),
         UNCHANGED <<sceneVars, engineVars>>
  PROVE  Typed'
<1>1. CASE Continue(w)
  <2> DEFINE old == walk[w]
             r == [old EXCEPT !.at = "loop", !.engine = None, !.target = None]
  <2>1. walk' = [walk EXCEPT ![w] = r]
    BY <1>1 DEF Continue, Typed, TypeOK
  <2>2. old \in WalkType /\ EngineTypeOK' /\ (w = "report" => old.event \in scene.events)
    BY EngineKept DEF Typed, TypeOK, ReportHasEvent
  <2> HIDE DEF old
  <2>3. r \in WalkType /\ r.event = old.event
    BY <2>2 DEF WalkType
  <2> HIDE DEF r
  <2> QED
    BY <2>1, <2>2, <2>3, WalkTyped
<1>2. CASE Break(w)
  BY <1>2, OffStepTyped DEF Break
<1> QED
  BY <1>1, <1>2

(* A report and its event while the native engine has it. *)
LEMMA ReportTyped ==
  ASSUME Typed, walk["report"].at # "off"
  PROVE  /\ "report" \in Walks /\ walk \in [Walks -> WalkType] /\ walk["report"] \in WalkType
         /\ Shown = walk["report"].event /\ Shown \in scene.events /\ Shown \in Events
         /\ Shown.count \in Nat /\ EngineTypeOK
         /\ walk["report"].message \in Seq(SlotType)
<1>1. "report" \in Walks /\ walk \in [Walks -> WalkType] /\ EngineTypeOK
  BY DEF Typed, TypeOK, Walks
<1>2. Shown = walk["report"].event /\ Shown \in scene.events /\ Shown \in Events
  BY SceneTyped DEF Shown, Typed, ReportHasEvent
<1>3. Shown.count \in Nat
  BY <1>2, ClockAssumption DEF Events
<1>4. walk["report"] \in WalkType
  BY <1>1
<1>5. walk["report"].message \in Seq(SlotType)
  BY <1>4 DEF WalkType
<1> QED
  BY <1>1, <1>2, <1>3, <1>4, <1>5

LEMMA ConvertTyped ==
  ASSUME Typed, BeginConversion \/ ConvertContact \/ FinishConversion
  PROVE  Typed'
<1> DEFINE old == walk["report"]
<1>0. old.at # "off" /\ UNCHANGED sceneVars
  BY DEF BeginConversion, ConvertContact, FinishConversion, Called, Converting
<1>1. /\ "report" \in Walks /\ walk \in [Walks -> WalkType] /\ old \in WalkType
      /\ Shown = old.event /\ Shown \in scene.events /\ Shown \in Events
      /\ Shown.count \in Nat /\ EngineTypeOK /\ old.message \in Seq(SlotType)
  BY <1>0, ReportTyped
<1>2. CASE BeginConversion
  <2> DEFINE r == [old EXCEPT !.at = "convert"]
  <2>1. walk' = [walk EXCEPT !["report"] = r] /\ EngineTypeOK'
    BY <1>1, <1>2, CheckTyped DEF BeginConversion
  <2> HIDE DEF old
  <2>2. r \in WalkType /\ r.event = old.event
    BY <1>1 DEF WalkType
  <2> HIDE DEF r
  <2> QED
    BY <1>0, <1>1, <2>1, <2>2, WalkTyped
<1>3. CASE ConvertContact
  <2> DEFINE i == Len(old.message) + 1
             slot == NextSlot(Shown, i)
             message == Append(old.message, slot)
             r == [old EXCEPT !.message = message]
  <2>1. i \in Nat \ {0}
    BY <1>1
  <2>2. walk' = [walk EXCEPT !["report"] = r] /\ EngineTypeOK'
    BY <1>1, <1>3, AskTyped DEF ConvertContact
  <2>3. slot \in SlotType
    BY <1>1, <2>1, NextSlotTyped
  <2> HIDE DEF slot
  <2>4. message \in Seq(SlotType)
    BY <1>1, <2>3
  <2> HIDE DEF old, message
  <2>5. r \in WalkType /\ r.event = old.event
    BY <1>1, <2>4 DEF WalkType
  <2> HIDE DEF r
  <2> QED
    BY <1>0, <1>1, <2>2, <2>5, WalkTyped
<1>4. CASE FinishConversion
  <2> DEFINE message == Thumb(Shown, old.message)
             point == IF TopButton(Shown) THEN "due" ELSE "none"
             r == [old EXCEPT !.at = "load", !.message = message, !.point = point]
  <2>1. /\ walk' = [walk EXCEPT !["report"] = r] /\ EngineTypeOK'
        /\ Len(old.message) = Shown.count
    BY <1>1, <1>4, EngineKept DEF FinishConversion
  <2>2. old.message \in [1..Shown.count -> SlotType]
    BY <1>1, <2>1
  <2>3. message \in [1..Shown.count -> SlotType]
    BY <1>1, <2>2, ThumbTyped
  <2> HIDE DEF message
  <2>4. message \in Seq(SlotType)
    BY <1>1, <2>3
  <2>5. point \in {"none", "due"}
    OBVIOUS
  <2> HIDE DEF old, point
  <2>6. r \in WalkType /\ r.event = old.event
    BY <1>1, <2>4, <2>5 DEF WalkType
  <2> HIDE DEF r
  <2> QED
    BY <1>0, <1>1, <2>1, <2>6, WalkTyped
<1> QED
  BY <1>2, <1>3, <1>4

LEMMA TowardsTyped ==
  ASSUME Typed, NEW w \in Walks, (NotifyProperty /\ w = "property") \/ LoadInstance(w) \/ Deliver(w)
  PROVE  Typed'
<1> DEFINE old == walk[w]
           n == [old EXCEPT !.at = "load"]
           l == [old EXCEPT !.at = "deliver", !.target = instance]
           d == [old EXCEPT !.at = "load", !.target = None, !.point = "sent"]
<1>1. UNCHANGED <<sceneVars, engineVars>> /\ old.at # "off"
  BY DEF NotifyProperty, LoadInstance, Deliver, Called
<1>2. /\ old \in WalkType /\ EngineTypeOK' /\ (w = "report" => old.event \in scene.events)
      /\ instance \in Inputs \cup {None}
  BY <1>1, EngineKept DEF Typed, TypeOK, ReportHasEvent, EngineTypeOK
<1>3. \/ walk' = [walk EXCEPT ![w] = n] \/ walk' = [walk EXCEPT ![w] = l]
      \/ walk' = [walk EXCEPT ![w] = d] \/ Continue(w) \/ Break(w)
  <2>1. CASE NotifyProperty /\ w = "property"
    BY <2>1 DEF NotifyProperty, Typed, TypeOK
  <2>2. CASE LoadInstance(w)
    BY <2>2 DEF LoadInstance, Typed, TypeOK
  <2>3. CASE Deliver(w) /\ w = "report" /\ walk[w].point = "due"
    BY <2>3 DEF Deliver, Typed, TypeOK
  <2>4. CASE Deliver(w) /\ ~(w = "report" /\ walk[w].point = "due")
    BY <2>4 DEF Deliver
  <2> QED
    BY <2>1, <2>2, <2>3, <2>4
<1> HIDE DEF old
<1>4. /\ n \in WalkType /\ n.event = old.event
      /\ l \in WalkType /\ l.event = old.event
      /\ d \in WalkType /\ d.event = old.event
  BY <1>2 DEF WalkType
<1> HIDE DEF n, l, d
<1>5. CASE Continue(w) \/ Break(w)
  BY <1>1, <1>5, ReturnTyped DEF old
<1> QED
  BY <1>1, <1>2, <1>3, <1>4, <1>5, WalkTyped

LEMMA LoopTyped ==
  ASSUME Typed, NEW w \in Walks, WalkStep(w)
  PROVE  Typed'
<1>1. CASE OtherReturns(w) \/ NobodyToTell(w)
  <2>1. walk[w].at # "off" /\ (Continue(w) \/ Break(w)) /\ UNCHANGED <<sceneVars, engineVars>>
    BY <1>1 DEF OtherReturns, NobodyToTell, Called
  <2> QED
    BY <2>1, ReturnTyped
<1>2. CASE NoTransducer /\ w = "report"
  <2>1. walk[w].at # "off" /\ Break(w) /\ UNCHANGED <<sceneVars, engineVars>>
    BY <1>2 DEF NoTransducer, Called
  <2> QED
    BY <2>1, ReturnTyped
<1>3. CASE EndLoop(w)
  BY <1>3, OffStepTyped DEF EndLoop
<1> QED
  BY <1>1, <1>2, <1>3, TurnTyped, ConvertTyped, TowardsTyped DEF WalkStep

LEMMA ElsewhereTyped ==
  ASSUME Typed, TimePasses \/ UserChanges \/ UNCHANGED vars
  PROVE  Typed'
<1>1. CASE TimePasses \/ UNCHANGED vars
  <2>1. UNCHANGED <<sceneVars, walk>>
    BY <1>1 DEF TimePasses, vars
  <2>2. EngineTypeOK'
    <3>1. CASE TimePasses
      BY <3>1, ClockAssumption DEF TimePasses, Tick, Typed, TypeOK, EngineTypeOK
    <3>2. CASE UNCHANGED vars
      BY <3>2, EngineKept DEF vars, Typed, TypeOK
    <3> QED
      BY <1>1, <3>1, <3>2
  <2> QED
    BY <2>1, <2>2 DEF Typed, TypeOK, ReportHasEvent, sceneVars
<1>2. CASE UserChanges
  <2> DEFINE old == walk["report"]
             note == old.split \/ (AmidPress /\ age = Second /\ prefs = None /\ prefs' # None)
             r == [old EXCEPT !.split = note]
  <2>1. /\ "report" \in Walks /\ walk \in [Walks -> WalkType] /\ old \in WalkType
        /\ old.at # "off" => old.event \in scene.events
    BY DEF Typed, TypeOK, ReportHasEvent, Walks
  <2>2. walk' = [walk EXCEPT !["report"] = r] /\ UNCHANGED sceneVars
    BY <1>2, <2>1 DEF UserChanges
  <2>3. EngineTypeOK'
    <3>1. PICK p \in scene.prefs : ChangePreferences(p)
      BY <1>2 DEF UserChanges
    <3> QED
      BY <3>1, SceneTyped DEF ChangePreferences, Typed, TypeOK, EngineTypeOK
  <2>4. note \in BOOLEAN
    OBVIOUS
  <2> HIDE DEF old, note
  <2>5. r \in WalkType /\ r.at = old.at /\ r.event = old.event
    BY <2>1, <2>4 DEF WalkType
  <2> HIDE DEF r
  <2> QED
    BY <2>1, <2>2, <2>3, <2>5, WalkTyped
<1> QED
  BY <1>1, <1>2

LEMMA NextTyped == Typed /\ [Next]_vars => Typed'
BY EnginesTyped, StartTyped, ClientTyped, BeginTyped, LoopTyped, ElsewhereTyped DEF Next

LEMMA AlwaysTyped == Spec => []Typed
BY InitTyped, NextTyped, PTL DEF Spec

(* Every variable has its type, whatever the engines, their scores and the reports are. *)
THEOREM TypesHold == Spec => []TypeOK
<1>1. Typed => TypeOK
  BY DEF Typed
<1> QED
  BY <1>1, AlwaysTyped, PTL

-----------------------------------------------------------------------------
(* The contact that is taken for the thumb is valid if any is, and then none is below it. *)
-----------------------------------------------------------------------------
(* The contact that is taken for the thumb is valid if any is, and then none is below it. *)
LEMMA ThumbFound ==
  ASSUME NEW n \in Nat, NEW slots \in [1..n -> SlotType],
         NEW j \in 1..n, slots[j].valid
  PROVE  LET th == ThumbIndex(slots)
         IN th \in 1..n /\ slots[th].valid /\ slots[j].y <= slots[th].y
<1> DEFINE V == {i \in DOMAIN slots : slots[i].valid}
           y == [i \in 1..n |-> slots[i].y]
           th == ThumbIndex(slots)
<1>1. \A i \in 1..n : slots[i].y \in Nat /\ y[i] = slots[i].y
  BY DEF SlotType
<1>2. j \in V /\ V \in SUBSET (1..n) /\ V # {} /\ \A i \in V : y[i] \in Nat
  BY <1>1
<1>3. \E i \in V : \A k \in V : y[k] < y[i] \/ (y[k] = y[i] /\ k <= i)
  <2> HIDE DEF y, V
  <2> QED
    BY <1>2, LastGreatest
<1>4. \E i \in V : \A k \in V : slots[k].y < slots[i].y \/ (slots[k].y = slots[i].y /\ k <= i)
  BY <1>1, <1>3
<1>5. th \in V /\ \A k \in V : slots[k].y < slots[th].y \/ (slots[k].y = slots[th].y /\ k <= th)
  <2>1. th = CHOOSE i \in V : \A k \in V :
                slots[k].y < slots[i].y \/ (slots[k].y = slots[i].y /\ k <= i)
    BY <1>2 DEF ThumbIndex
  <2> HIDE DEF V, th
  <2> QED
    BY <1>4, <2>1
<1> HIDE DEF th
<1>6. th \in 1..n /\ slots[th].valid /\ slots[j].y <= slots[th].y
  BY <1>1, <1>2, <1>5
<1> QED
  BY <1>6 DEF th

LEMMA ThumbLowest ==
  ASSUME NEW event \in Events, NEW slots \in [1..event.count -> SlotType],
         \A i \in 1..event.count : slots[i].finger # "Thumb",
         NEW i \in 1..event.count, NEW j \in 1..event.count \ {i},
         Thumb(event, slots)[i].finger = "Thumb"
  PROVE  /\ Thumb(event, slots)[j].finger # "Thumb"
         /\ Thumb(event, slots)[j].valid =>
              /\ Thumb(event, slots)[i].valid
              /\ Thumb(event, slots)[j].y <= Thumb(event, slots)[i].y
<1> DEFINE n == event.count
           th == ThumbIndex(slots)
           found == [k \in DOMAIN slots |->
                       IF k = th THEN [slots[k] EXCEPT !.finger = "Thumb"] ELSE slots[k]]
           message == Thumb(event, slots)
<1>1. message \in {slots, found}
  BY DEF Thumb
<1>2. /\ message[i].valid = slots[i].valid /\ message[i].y = slots[i].y
      /\ message[j].valid = slots[j].valid /\ message[j].y = slots[j].y
  BY ThumbTyped
<1>3. found[i] = IF i = th THEN [slots[i] EXCEPT !.finger = "Thumb"] ELSE slots[i]
  OBVIOUS
<1>4. found[j] = IF j = th THEN [slots[j] EXCEPT !.finger = "Thumb"] ELSE slots[j]
  OBVIOUS
<1> HIDE DEF found, message, th
<1>5. message = found /\ i = th
  BY <1>1, <1>3 DEF message
<1>6. message[j].finger # "Thumb"
  BY <1>4, <1>5
<1>7. ASSUME slots[j].valid PROVE slots[i].valid /\ slots[j].y <= slots[i].y
  <2>1. n \in Nat
    BY ClockAssumption DEF Events
  <2> HIDE DEF n
  <2>2. slots \in [1..n -> SlotType] /\ j \in 1..n
    BY DEF n
  <2> QED
    BY <1>5, <1>7, <2>1, <2>2, ThumbFound DEF th
<1> QED
  BY <1>2, <1>6, <1>7 DEF message

-----------------------------------------------------------------------------
(* The message as it is made of a report, r being the report's loop.  It has contacts only while the
   native engine is about it, those without a transducer say nothing, and the button of the others
   is their transducer's unless it has become a force click. *)
Making(r) == r.at \in {"convert", "load", "deliver"}

SlotSays(r, i) ==
  LET slot == r.message[i] ts == r.event.transducers IN
  IF slot.from = 0 THEN ~slot.button /\ ~slot.pressed
  ELSE /\ slot.from \in 1..Len(ts)
       /\ slot.button <=> ~ts[slot.from].secondary /\ ts[slot.from].button /\ ~slot.pressed

MessageMade(r) ==
  /\ ~Making(r) => r.message = << >>
  /\ Making(r) => HasFirst(r.event)
  /\ r.at = "convert" => /\ Len(r.message) <= r.event.count
                         /\ \A i \in 1..Len(r.message) : r.message[i].finger # "Thumb"
  /\ r.at \in {"load", "deliver"} => Len(r.message) = r.event.count
  /\ r.at \in {"load", "deliver"} => (r.point # "none" <=> TopButton(r.event))
  /\ \A i \in 1..Len(r.message) : SlotSays(r, i)

(* The contacts are those of the transducers from the first or the second on, as the flag said when
   the conversion began, and says until it ends unless it is reset meanwhile. *)
FromPlace(r, check) ==
  \A i \in 1..Len(r.message) :
    r.message[i].from = IF i + check <= Len(r.event.transducers) THEN i + check ELSE 0

MessageInLine(r, flag, has) ==
  Making(r) /\ ~r.torn =>
    \E check \in {0, 1} : /\ First(r.event).type = "stylus" => check = 1
                          /\ check = 1 => has
                          /\ r.at = "convert" => check = flag
                          /\ FromPlace(r, check)

(* Every contact that asks has the same answer, and the next one will: until the conversion ends
   the engine keeps to it, for it has asked less than a second ago or there is nothing to read. *)
Asked(r) == \E i \in 1..Len(r.message) : r.message[i].from # 0

SameAnswer(r, answer) ==
  \A i \in 1..Len(r.message) :
    r.message[i].from # 0 => (r.message[i].pressed <=> Presses(r.event) /\ answer)

MessageAnswered(r, kept, held) ==
  ~r.split =>
    \E answer \in BOOLEAN :
      /\ SameAnswer(r, answer)
      /\ r.at = "convert" /\ Asked(r) /\ Presses(r.event) => (answer <=> kept) /\ held

Held == age < Second \/ prefs = None

(* The flag has come from a report of the device. *)
StylusSeen == stylus = 1 => HasStylus

Contents ==
  /\ MessageMade(walk["report"])
  /\ MessageInLine(walk["report"], stylus, HasStylus)
  /\ MessageAnswered(walk["report"], force, Held)
  /\ StylusSeen /\ ThumbIsLowest

(* There is no message. *)
LEMMA NoMessage ==
  ASSUME NEW r, ~Making(r), r.message = << >>, NEW flag, NEW has, NEW kept, NEW held
  PROVE  MessageMade(r) /\ MessageInLine(r, flag, has) /\ MessageAnswered(r, kept, held)
<1>1. Len(r.message) = 0 /\ 1..Len(r.message) = {}
  OBVIOUS
<1>2. r.at \notin {"convert", "load", "deliver"}
  BY DEF Making
<1>3. SameAnswer(r, TRUE)
  BY <1>1 DEF SameAnswer
<1> QED
  BY <1>1, <1>2, <1>3 DEF MessageMade, MessageInLine, MessageAnswered, Making

LEMMA Emptied ==
  ASSUME Contents, UNCHANGED scene, stylus' = stylus \/ stylus' = 0,
         ~Making(walk'["report"]), walk'["report"].message = << >>
  PROVE  Contents'
<1>1. ThumbIsLowest'
  BY DEF ThumbIsLowest
<1>2. StylusSeen'
  BY DEF Contents, StylusSeen, HasStylus
<1> DEFINE r == walk["report"]
<1>3. (MessageMade(r) /\ MessageInLine(r, stylus, HasStylus) /\ MessageAnswered(r, force, Held))'
  BY NoMessage
<1> QED
  BY <1>1, <1>2, <1>3 DEF Contents

LEMMA InitContents == Init => Contents
<1> SUFFICES ASSUME Init PROVE Contents
  OBVIOUS
<1>1. walk["report"] = Off /\ ~Making(Off) /\ Off.message = << >> /\ stylus = 0
  BY DEF Init, EngineInit, Making, Off, Walks
<1>2. StylusSeen /\ ThumbIsLowest
  BY <1>1 DEF StylusSeen, ThumbIsLowest
<1> QED
  BY <1>1, <1>2, NoMessage DEF Contents

(* Whatever else happens, the message is what it was. *)
LEMMA ContentsKept ==
  ASSUME Contents, UNCHANGED <<scene, force>>,
         stylus' = stylus \/ (stylus' = 0 /\ (Converting => walk'["report"].torn)),
         walk'["report"].message = walk["report"].message,
         walk'["report"].event = walk["report"].event,
         walk["report"].torn => walk'["report"].torn,
         walk["report"].split => walk'["report"].split,
         Converting' <=> Converting, Converted' <=> Converted,
         Converted => (walk'["report"].point # "none" <=> walk["report"].point # "none"),
         AmidPress /\ Held => Held' \/ walk'["report"].split
  PROVE  Contents'
<1> DEFINE r == walk["report"]
           q == walk'["report"]
           event == r.event
<1>1. /\ q.message = r.message /\ q.event = r.event
      /\ q.at = "convert" <=> r.at = "convert"
      /\ q.at \in {"load", "deliver"} <=> r.at \in {"load", "deliver"}
      /\ q.at \in {"load", "deliver"} => (q.point # "none" <=> r.point # "none")
      /\ r.torn => q.torn
      /\ r.split => q.split
  BY DEF Converting, Converted
<1>2. StylusSeen' /\ HasStylus' = HasStylus
  BY DEF Contents, StylusSeen, HasStylus
<1>3. ThumbIsLowest'
  BY <1>1 DEF Contents, ThumbIsLowest
<1>4. MessageMade(q)
  <2>1. MessageMade(r)
    BY DEF Contents
  <2> HIDE DEF r, q
  <2> QED
    BY <1>1, <2>1 DEF MessageMade, Making, SlotSays
<1>5. MessageInLine(q, stylus', HasStylus)
  <2>1. MessageInLine(r, stylus, HasStylus) /\ (stylus' = stylus \/ (q.at = "convert" => q.torn))
    BY <1>1 DEF Contents, Converting
  <2> HIDE DEF r, q
  <2> QED
    BY <1>1, <2>1 DEF MessageInLine, Making, FromPlace
<1>6. MessageAnswered(q, force, Held')
  <2>1. MessageAnswered(r, force, Held)
    BY DEF Contents
  <2>2. CASE q.split
    <3> HIDE DEF q
    <3> QED
      BY <2>2 DEF MessageAnswered
  <2>3. CASE ~q.split
    <3>1. ~r.split
      BY <1>1, <2>3
    <3> HIDE DEF q
    <3>2. PICK answer \in BOOLEAN :
            /\ SameAnswer(r, answer)
            /\ r.at = "convert" /\ Asked(r) /\ Presses(event) => (answer <=> force) /\ Held
      BY <2>1, <3>1 DEF MessageAnswered
    <3>3. SameAnswer(q, answer)
      BY <1>1, <3>2 DEF SameAnswer
    <3>4. ASSUME q.at = "convert", Asked(q), Presses(q.event) PROVE (answer <=> force) /\ Held'
      <4>1. r.at = "convert" /\ Asked(r) /\ Presses(event)
        BY <1>1, <3>4 DEF Asked
      <4>2. AmidPress
        <5>1. r.message # << >>
          BY <4>1 DEF Asked
        <5> QED
          BY <4>1, <5>1 DEF AmidPress, Converting, Shown
      <4>3. Held'
        BY <2>3, <3>2, <4>1, <4>2 DEF q
      <4> QED
        BY <3>2, <4>1, <4>3
    <3> QED
      BY <3>3, <3>4 DEF MessageAnswered
  <2> QED
    BY <2>2, <2>3
<1>7. (MessageMade(r) /\ MessageInLine(r, stylus, HasStylus) /\ MessageAnswered(r, force, Held))'
  BY <1>2, <1>4, <1>5, <1>6
<1> QED
  BY <1>2, <1>3, <1>7 DEF Contents

LEMMA ContentsSame ==
  ASSUME Contents, UNCHANGED <<scene, stylus, forceVars>>, NEW q, walk'["report"] = q,
         q.at = walk["report"].at \/ (Converted /\ q.at \in {"load", "deliver"}),
         q.message = walk["report"].message, q.event = walk["report"].event,
         q.torn = walk["report"].torn, q.split = walk["report"].split,
         Converted => (q.point # "none" <=> walk["report"].point # "none")
  PROVE  Contents'
<1>1. UNCHANGED force /\ Held' = Held
  BY DEF forceVars, Held
<1>2. (Converting' <=> Converting) /\ (Converted' <=> Converted)
  BY DEF Converting, Converted
<1> QED
  BY <1>1, <1>2, ContentsKept

(* The report's loop is about something else than a message. *)
LEMMA ContentsElsewhere ==
  ASSUME Contents, UNCHANGED <<scene, stylus, forceVars>>, walk'["report"] = walk["report"]
  PROVE  Contents'
BY ContentsSame

LEMMA EnginesContents ==
  ASSUME Typed, Contents, NEW e \in Engines, OpenInterface(e) \/ CloseInterface(e)
  PROVE  Contents'
<1>1. UNCHANGED <<scene, stylus, forceVars>>
  BY DEF OpenInterface, CloseInterface, engineVars
<1> DEFINE old == walk["report"]
           moved == old.moved \cup {e}
           q == IF old.at = "off" THEN old ELSE [old EXCEPT !.moved = moved]
<1>2. old \in WalkType /\ walk'["report"] = q
  BY DEF OpenInterface, CloseInterface, Moved, Typed, TypeOK, Walks
<1> HIDE DEF old, moved
<1>3. /\ q.at = old.at /\ q.message = old.message /\ q.event = old.event
      /\ q.torn = old.torn /\ q.split = old.split /\ q.point = old.point
  BY <1>2 DEF WalkType
<1> HIDE DEF q
<1> QED
  BY <1>1, <1>2, <1>3, ContentsSame DEF old

LEMMA StartContents ==
  ASSUME Typed, Contents, ForgetInstance \/ PublishSupport \/ ResetStylus
  PROVE  Contents'
<1>1. CASE ForgetInstance \/ PublishSupport
  <2>1. UNCHANGED <<scene, stylus, forceVars>> /\ walk'["report"] = walk["report"]
    BY <1>1 DEF ForgetInstance, PublishSupport, engineVars
  <2> QED
    BY <2>1, ContentsElsewhere
<1>2. CASE ResetStylus
  <2> DEFINE old == walk["report"]
             note == old.torn \/ Converting
             q == [old EXCEPT !.torn = note]
  <2>1. /\ stylus' = 0 /\ UNCHANGED <<scene, forceVars>>
        /\ old \in WalkType /\ walk'["report"] = q
    BY <1>2 DEF ResetStylus, Typed, TypeOK, Walks
  <2>2. note \in BOOLEAN
    OBVIOUS
  <2> HIDE DEF old, note
  <2>3. /\ q.at = old.at /\ q.message = old.message /\ q.event = old.event
        /\ q.torn = note /\ q.split = old.split /\ q.point = old.point
    BY <2>1, <2>2 DEF WalkType
  <2> HIDE DEF q
  <2>4. UNCHANGED force /\ Held' = Held
    BY <2>1 DEF forceVars, Held
  <2>5. (Converting' <=> Converting) /\ (Converted' <=> Converted)
    BY <2>1, <2>3 DEF Converting, Converted, old
  <2>6. (old.torn => q.torn) /\ (Converting => q.torn)
    BY <2>3 DEF note
  <2> QED
    BY <2>1, <2>3, <2>4, <2>5, <2>6, ContentsKept DEF old
<1> QED
  BY <1>1, <1>2

LEMMA ClientContents ==
  ASSUME Typed, Contents, NEW v \in Inputs, OpenEngine(v) \/ CloseEngine(v)
  PROVE  Contents'
<1>1. UNCHANGED <<scene, stylus, forceVars>>
  BY DEF OpenEngine, CloseEngine, HandleOpen, HandleClose, engineVars
<1>2. CASE OpenEngine(v)
  <2> DEFINE old == walk["report"]
             open == old.open \cup {v}
             q == IF old.at = "off" THEN old ELSE [old EXCEPT !.open = open]
  <2>1. old \in WalkType /\ walk'["report"] = q
    BY <1>2 DEF OpenEngine, Typed, TypeOK, Walks
  <2> HIDE DEF old, open
  <2>2. /\ q.at = old.at /\ q.message = old.message /\ q.event = old.event
        /\ q.torn = old.torn /\ q.split = old.split /\ q.point = old.point
    BY <2>1 DEF WalkType
  <2> HIDE DEF q
  <2> QED
    BY <1>1, <2>1, <2>2, ContentsSame DEF old
<1>3. CASE CloseEngine(v)
  BY <1>1, <1>3, ContentsElsewhere DEF CloseEngine
<1> QED
  BY <1>2, <1>3

(* A loop without a message goes on without one, or is over. *)
LEMMA LoopContents ==
  ASSUME Typed, Contents, NEW w \in Walks, NEW r, walk' = [walk EXCEPT ![w] = r],
         UNCHANGED <<scene, stylus, forceVars>>,
         w = "report" => ~Making(r) /\ r.message = << >>
  PROVE  Contents'
<1>1. walk'["report"] = IF w = "report" THEN r ELSE walk["report"]
  BY DEF Typed, TypeOK, Walks
<1>2. CASE w = "report"
  BY <1>1, <1>2, Emptied
<1>3. CASE w # "report"
  BY <1>1, <1>3, ContentsElsewhere
<1> QED
  BY <1>2, <1>3

LEMMA BeginContents ==
  ASSUME Typed, Contents, NEW w \in Walks, NEW event, Begin(w, event)
  PROVE  Contents'
<1> DEFINE open == {client} \ {None}
           n == Len(engines)
           r == [Off EXCEPT !.at = "loop", !.event = event, !.count = n, !.line = engines, !.open = open]
<1>1. walk' = [walk EXCEPT ![w] = r] /\ UNCHANGED <<scene, stylus, forceVars>>
  BY DEF Begin, sceneVars, engineVars
<1> HIDE DEF open, n
<1>2. ~Making(r) /\ r.message = << >>
  BY DEF Off, Making
<1> HIDE DEF r
<1> QED
  BY <1>1, <1>2, LoopContents

LEMMA TurnContents ==
  ASSUME Typed, Contents, NEW w \in Walks, GetObject(w) \/ EndLoop(w)
  PROVE  Contents'
<1> DEFINE old == walk[w]
           i == old.i
           e == engines[i]
           offered == Append(old.offered, e)
           found == [old EXCEPT !.at = "called", !.engine = e, !.i = i + 1, !.offered = offered]
           next == [old EXCEPT !.i = i + 1]
<1>1. /\ old.at = "loop" /\ old \in WalkType
      /\ \E r \in {found, next, Off} : walk' = [walk EXCEPT ![w] = r]
      /\ UNCHANGED <<scene, stylus, forceVars>>
  BY DEF GetObject, EndLoop, sceneVars, engineVars, Typed, TypeOK
<1>2. w = "report" => old.message = << >>
  BY <1>1 DEF Contents, MessageMade, Making
<1> HIDE DEF old, e, i, offered
<1>3. /\ next.at = "loop" /\ next.message = old.message
      /\ found.at = "called" /\ found.message = old.message
  BY <1>1 DEF WalkType
<1>4. Off.at = "off" /\ Off.message = << >>
  BY DEF Off
<1> HIDE DEF found, next
<1>5. PICK r \in {found, next, Off} : walk' = [walk EXCEPT ![w] = r]
  BY <1>1
<1>6. w = "report" => ~Making(r) /\ r.message = << >>
  BY <1>2, <1>3, <1>4, <1>5 DEF Making
<1> QED
  BY <1>1, <1>5, <1>6, LoopContents

(* An engine returns: a loop goes on, the report's if it has no message, or is over. *)
LEMMA ReturnContents ==
  ASSUME Typed, Contents, NEW w \in Walks,
         (Continue(w) /\ (w = "report" => ~Making(walk[w]))) \/ Break(w),
         UNCHANGED <<scene, stylus, forceVars>>
  PROVE  Contents'
<1> DEFINE old == walk[w]
           r == [old EXCEPT !.at = "loop", !.engine = None, !.target = None]
<1>1. old \in WalkType
  BY DEF Typed, TypeOK
<1>2. CASE Break(w)
  <2>1. ~Making(Off) /\ Off.message = << >>
    BY DEF Off, Making
  <2> QED
    BY <1>2, <2>1, LoopContents DEF Break
<1>3. CASE Continue(w) /\ (w = "report" => ~Making(walk[w]))
  <2>1. walk' = [walk EXCEPT ![w] = r]
    BY <1>3 DEF Continue
  <2>2. w = "report" => old.message = << >>
    BY <1>3 DEF Contents, MessageMade
  <2> HIDE DEF old
  <2>3. r.at = "loop" /\ r.message = old.message
    BY <1>1 DEF WalkType
  <2>4. w = "report" => ~Making(r) /\ r.message = << >>
    BY <2>2, <2>3 DEF Making
  <2> HIDE DEF r
  <2> QED
    BY <2>1, <2>4, LoopContents
<1> QED
  BY <1>2, <1>3

LEMMA SlotFields ==
  ASSUME NEW t, NEW i, NEW forced \in BOOLEAN
  PROVE  /\ Slot(t, i, forced).pressed <=> forced
         /\ Slot(t, i, forced).button <=> ~t.secondary /\ t.button /\ ~forced
         /\ Slot(t, i, forced).from = i /\ Slot(t, i, forced).finger # "Thumb"
<1> DEFINE v == ~t.secondary /\ t.button /\ ~forced
           finger == IF t.confident THEN "Finger" ELSE "Palm"
           r == Slot(t, i, forced)
<1>1. r = [finger |-> finger, valid |-> t.valid, y |-> t.y,
           button |-> v, pressed |-> forced, from |-> i]
  BY DEF Slot
<1>2. finger # "Thumb"
  OBVIOUS
<1> HIDE DEF v, r, finger
<1>3. r.button = v /\ r.pressed = forced /\ r.from = i /\ r.finger = finger
  BY <1>1, Zenon
<1> QED
  BY <1>2, <1>3 DEF v, r

(* A contact as the conversion of a report appends it. *)
LEMMA NextSlotSays ==
  ASSUME NEW event \in Events, NEW i \in Nat \ {0}, EngineTypeOK
  PROVE  LET slot == NextSlot(event, i) ts == event.transducers k == i + stylus IN
         /\ slot.finger # "Thumb"
         /\ slot.from = IF k <= Len(ts) THEN k ELSE 0
         /\ slot.from = 0 => ~slot.button /\ ~slot.pressed /\ ~Asks(event, i)
         /\ slot.from # 0 => /\ slot.from \in 1..Len(ts)
                             /\ slot.button <=> ~ts[slot.from].secondary /\ ts[slot.from].button /\ ~slot.pressed
                             /\ Asks(event, i) <=> Presses(event)
                             /\ slot.pressed <=> Presses(event) /\ ForceClick
<1> DEFINE slot == NextSlot(event, i)
           ts == event.transducers
           k == i + stylus
           forced == Asks(event, i) /\ ForceClick
<1>1. CASE k <= Len(ts)
  <2>1. k \in 1..Len(ts) /\ slot = Slot(ts[k], k, forced)
    BY <1>1, NextSlotTyped
  <2>2. Asks(event, i) <=> Presses(event)
    BY <1>1 DEF Asks, Transducer
  <2>3. forced \in BOOLEAN
    OBVIOUS
  <2> HIDE DEF slot, ts, k, forced
  <2>4. /\ slot.pressed <=> forced
        /\ slot.button <=> ~ts[k].secondary /\ ts[k].button /\ ~forced
        /\ slot.from = k /\ slot.finger # "Thumb"
    BY <2>1, <2>3, SlotFields
  <2>5. k # 0
    BY <2>1
  <2>6. forced <=> Presses(event) /\ ForceClick
    BY <2>2 DEF forced
  <2> QED
    BY <1>1, <2>1, <2>2, <2>4, <2>5, <2>6 DEF slot, ts, k
<1>2. CASE ~(k <= Len(ts))
  <2>1. slot = Empty
    BY <1>2, NextSlotTyped
  <2>2. ~Asks(event, i)
    BY <1>2 DEF Asks, Transducer
  <2> HIDE DEF slot, ts, k
  <2>3. slot.from = 0 /\ ~slot.button /\ ~slot.pressed /\ slot.finger # "Thumb"
    BY <2>1 DEF Empty
  <2> QED
    BY <1>2, <2>2, <2>3 DEF slot, ts, k
<1> QED
  BY <1>1, <1>2

LEMMA BeginConversionContents ==
  ASSUME Typed, Contents, BeginConversion
  PROVE  Contents'
<1> DEFINE old == walk["report"]
           event == old.event
           q == [old EXCEPT !.at = "convert"]
<1>1. /\ old.at = "called" /\ HasFirst(event) /\ stylus' = StylusCheck(event)
      /\ walk' = [walk EXCEPT !["report"] = q] /\ UNCHANGED <<scene, force>>
  BY DEF BeginConversion, Called, CheckStylus, Shown, sceneVars, forceVars
<1>2. /\ "report" \in Walks /\ walk \in [Walks -> WalkType] /\ old \in WalkType
      /\ event \in scene.events /\ stylus \in {0, 1}
  BY <1>1, ReportTyped DEF EngineTypeOK
<1>3. old.message = << >>
  BY <1>1 DEF Contents, MessageMade, Making
<1>4. walk'["report"] = q
  BY <1>1, <1>2
<1>5. q.at = "convert" /\ q.message = << >> /\ q.event = event
  <2> HIDE DEF old
  <2> QED
    BY <1>2, <1>3 DEF WalkType
<1>6. event.count \in Nat
  BY <1>1, ReportTyped
<1> HIDE DEF q
<1>7. HasStylus' = HasStylus /\ (stylus' = 1 => HasStylus) /\ stylus' \in {0, 1}
      /\ (First(event).type = "stylus" => stylus' = 1)
  BY <1>1, <1>2 DEF HasStylus, StylusCheck, Contents, StylusSeen
<1>8. MessageMade(q)
  BY <1>1, <1>5, <1>6 DEF MessageMade, Making
<1>9. MessageInLine(q, stylus', HasStylus)
  <2>1. FromPlace(q, stylus')
    BY <1>5 DEF FromPlace
  <2> QED
    BY <1>5, <1>7, <2>1 DEF MessageInLine
<1>10. MessageAnswered(q, force', Held')
  <2>1. SameAnswer(q, TRUE) /\ ~Asked(q)
    BY <1>5 DEF SameAnswer, Asked
  <2> QED
    BY <2>1 DEF MessageAnswered
<1>11. ThumbIsLowest'
  BY <1>4, <1>5 DEF ThumbIsLowest
<1>12. (MessageMade(old) /\ MessageInLine(old, stylus, HasStylus) /\ MessageAnswered(old, force, Held))'
  BY <1>4, <1>7, <1>8, <1>9, <1>10
<1> QED
  BY <1>7, <1>11, <1>12 DEF Contents, StylusSeen

LEMMA ConvertContactContents ==
  ASSUME Typed, Contents, ConvertContact
  PROVE  Contents'
<1> DEFINE old == walk["report"]
           event == old.event
           ts == event.transducers
           n == Len(old.message)
           i == n + 1
           slot == NextSlot(event, i)
           message == Append(old.message, slot)
           q == [old EXCEPT !.message = message]
<1>1. /\ old.at = "convert" /\ i <= event.count
      /\ walk' = [walk EXCEPT !["report"] = q] /\ UNCHANGED <<scene, stylus, prefs>>
      /\ AskForceClick(Asks(event, i))
  BY DEF ConvertContact, Converting, Shown, Ask, AskForceClick, sceneVars
<1>2. /\ "report" \in Walks /\ walk \in [Walks -> WalkType] /\ old \in WalkType
      /\ event \in Events /\ EngineTypeOK /\ old.message \in Seq(SlotType)
  BY <1>1, ReportTyped
<1>3. walk'["report"] = q
  BY <1>1, <1>2
<1>4. n \in Nat /\ i \in Nat \ {0}
  BY <1>2
<1>5. /\ slot.finger # "Thumb"
      /\ slot.from = IF i + stylus <= Len(ts) THEN i + stylus ELSE 0
      /\ slot.from = 0 => ~slot.button /\ ~slot.pressed /\ ~Asks(event, i)
      /\ slot.from # 0 => /\ slot.from \in 1..Len(ts)
                          /\ slot.button <=> ~ts[slot.from].secondary /\ ts[slot.from].button /\ ~slot.pressed
                          /\ Asks(event, i) <=> Presses(event)
                          /\ slot.pressed <=> Presses(event) /\ ForceClick
  BY <1>2, <1>4, NextSlotSays
<1>6. slot \in SlotType
  BY <1>2, <1>4, NextSlotTyped
<1>7. /\ Len(message) = i /\ message[i] = slot
      /\ \A j \in 1..n : message[j] = old.message[j]
      /\ \A j \in 1..i : j \in 1..n \/ j = i
  <2> HIDE DEF old, slot
  <2> QED
    BY <1>2, <1>4, <1>6
<1> HIDE DEF slot
<1>8. q.at = "convert" /\ q.message = message /\ q.event = event /\ q.torn = old.torn /\ q.split = old.split
  <2> HIDE DEF old, message
  <2>1. q.at = old.at /\ q.message = message /\ q.event = old.event /\ q.torn = old.torn /\ q.split = old.split
    BY <1>2 DEF WalkType
  <2> QED
    BY <1>1, <2>1 DEF old
<1>9. MessageMade(old) /\ MessageInLine(old, stylus, HasStylus) /\ MessageAnswered(old, force, Held)
  BY DEF Contents
<1> HIDE DEF old, event, message, ts, q, i, n
<1>10. MessageMade(q)
  <2>1. ASSUME NEW j \in 1..i PROVE SlotSays(q, j) /\ q.message[j].finger # "Thumb"
    <3>1. CASE j \in 1..n
      <4>1. SlotSays(old, j) /\ old.message[j].finger # "Thumb"
        BY <1>1, <1>9, <3>1 DEF MessageMade, n
      <4> QED
        BY <1>7, <1>8, <3>1, <4>1 DEF SlotSays, event
    <3>2. CASE j = i
      <4>1. q.message[j] = slot
        BY <1>7, <1>8, <3>2
      <4> QED
        BY <1>5, <1>8, <4>1 DEF SlotSays, ts
    <3> QED
      BY <1>7, <2>1, <3>1, <3>2
  <2>2. HasFirst(event)
    BY <1>1, <1>9 DEF MessageMade, Making, event
  <2> QED
    BY <1>1, <1>7, <1>8, <2>1, <2>2 DEF MessageMade, Making
<1>11. MessageInLine(q, stylus, HasStylus)
  <2> SUFFICES ASSUME ~q.torn PROVE MessageInLine(q, stylus, HasStylus)
    BY DEF MessageInLine
  <2>1. PICK check \in {0, 1} : /\ First(event).type = "stylus" => check = 1
                                /\ check = 1 => HasStylus
                                /\ check = stylus
                                /\ FromPlace(old, check)
    BY <1>1, <1>8, <1>9 DEF MessageInLine, Making, event
  <2>2. FromPlace(q, check)
    <3> SUFFICES ASSUME NEW j \in 1..i
                 PROVE  q.message[j].from = IF j + check <= Len(ts) THEN j + check ELSE 0
      BY <1>7, <1>8 DEF FromPlace, ts
    <3>1. CASE j \in 1..n
      BY <1>7, <1>8, <2>1, <3>1 DEF FromPlace, ts, event, n
    <3>2. CASE j = i
      BY <1>5, <1>7, <1>8, <2>1, <3>2
    <3> QED
      BY <1>7, <3>1, <3>2
  <2> QED
    BY <1>8, <2>1, <2>2 DEF MessageInLine
<1>12. MessageAnswered(q, force', Held')
  <2> SUFFICES ASSUME ~q.split
               PROVE  \E answer \in BOOLEAN :
                        /\ SameAnswer(q, answer)
                        /\ Asked(q) /\ Presses(event) => (answer <=> force') /\ Held'
    BY <1>8 DEF MessageAnswered
  <2>1. PICK answer \in BOOLEAN :
          /\ SameAnswer(old, answer)
          /\ Asked(old) /\ Presses(event) => (answer <=> force) /\ Held
    BY <1>1, <1>8, <1>9 DEF MessageAnswered, event
  <2>2. \A j \in 1..n : q.message[j] = old.message[j] /\ Len(old.message) = n
    BY <1>7, <1>8 DEF n
  <2>3. Len(q.message) = i /\ q.message[i] = slot
    BY <1>7, <1>8
  <2>4. ForceClick \in BOOLEAN
    BY <1>2, ForceClickRead
  <2>5. CASE slot.from = 0 \/ ~Presses(event)
    <3>1. SameAnswer(q, answer)
      <4> SUFFICES ASSUME NEW j \in 1..i, q.message[j].from # 0
                   PROVE  q.message[j].pressed <=> Presses(event) /\ answer
        BY <1>8, <2>3 DEF SameAnswer
      <4>1. CASE j \in 1..n
        BY <2>1, <2>2, <4>1 DEF SameAnswer, event
      <4>2. CASE j = i
        <5>1. slot.from # 0 /\ ~Presses(event) /\ q.message[j] = slot
          BY <2>3, <2>5, <4>2
        <5> QED
          BY <1>5, <5>1
      <4> QED
        BY <1>7, <4>1, <4>2
    <3>2. ~Asks(event, i)
      BY <1>5, <2>5 DEF Asks
    <3>3. force' = force /\ Held' = Held
      BY <1>1, <3>2 DEF AskForceClick, Held
    <3>4. Asked(q) /\ Presses(event) => Asked(old)
      <4> SUFFICES ASSUME Presses(event), NEW j \in 1..i, q.message[j].from # 0 PROVE Asked(old)
        BY <2>3 DEF Asked
      <4>1. j # i
        BY <2>3, <2>5
      <4>2. j \in 1..n
        BY <1>7, <4>1
      <4> QED
        BY <2>2, <4>2 DEF Asked
    <3> QED
      BY <2>1, <3>1, <3>3, <3>4
  <2>6. CASE slot.from # 0 /\ Presses(event)
    <3>1. /\ Asks(event, i) /\ (slot.pressed <=> ForceClick)
          /\ force' = ForceClick /\ Held'
      <4>1. Asks(event, i) /\ (slot.pressed <=> ForceClick)
        BY <1>5, <2>6
      <4>2. /\ force' = ForceClick /\ prefs' = prefs
            /\ age' = IF ~(age >= Second /\ prefs = None) THEN 0 ELSE age
        BY <1>1, <4>1 DEF AskForceClick
      <4>3. Held'
        BY <4>2, ClockAssumption DEF Held
      <4> QED
        BY <4>1, <4>2, <4>3
    <3>2. SameAnswer(q, ForceClick)
      <4> SUFFICES ASSUME NEW j \in 1..i, q.message[j].from # 0
                   PROVE  q.message[j].pressed <=> Presses(event) /\ ForceClick
        BY <1>8, <2>3 DEF SameAnswer
      <4>1. CASE j \in 1..n
        <5>1. Asked(old) /\ (q.message[j].pressed <=> answer)
          BY <2>1, <2>2, <2>6, <4>1 DEF SameAnswer, Asked, event
        <5>2. (answer <=> force) /\ Held
          BY <2>1, <2>6, <5>1
        <5>3. ForceClick = force
          BY <1>2, <5>2, ClockAssumption DEF ForceClick, Held, EngineTypeOK
        <5> QED
          BY <2>6, <5>1, <5>2, <5>3
      <4>2. CASE j = i
        BY <2>3, <2>6, <3>1, <4>2
      <4> QED
        BY <1>7, <4>1, <4>2
    <3> QED
      BY <2>4, <3>1, <3>2
  <2> QED
    BY <2>5, <2>6
<1>13. ThumbIsLowest'
  <2>1. \A j \in DOMAIN q.message : q.message[j].finger # "Thumb"
    <3>1. DOMAIN q.message = 1..Len(q.message)
      BY <1>2, <1>6, <1>8 DEF message
    <3> QED
      BY <1>8, <1>10, <3>1 DEF MessageMade
  <2> QED
    BY <1>3, <2>1 DEF ThumbIsLowest
<1>14. UNCHANGED <<HasStylus, stylus>>
  BY <1>1 DEF HasStylus
<1>15. (MessageMade(walk["report"]) /\ MessageInLine(walk["report"], stylus, HasStylus)
        /\ MessageAnswered(walk["report"], force, Held))'
  BY <1>3, <1>10, <1>11, <1>12, <1>14
<1> QED
  BY <1>13, <1>14, <1>15 DEF Contents, StylusSeen

LEMMA FinishConversionContents ==
  ASSUME Typed, Contents, FinishConversion
  PROVE  Contents'
<1> DEFINE old == walk["report"]
           event == old.event
           slots == old.message
           message == Thumb(event, slots)
           point == IF TopButton(event) THEN "due" ELSE "none"
           q == [old EXCEPT !.at = "load", !.message = message, !.point = point]
<1>1. /\ old.at = "convert" /\ Len(slots) = event.count
      /\ walk' = [walk EXCEPT !["report"] = q] /\ UNCHANGED <<scene, stylus, force>>
  BY DEF FinishConversion, Converting, Shown, sceneVars, engineVars, forceVars
<1>2. /\ "report" \in Walks /\ walk \in [Walks -> WalkType] /\ old \in WalkType
      /\ event \in Events /\ event.count \in Nat /\ slots \in Seq(SlotType)
  BY <1>1, ReportTyped
<1>3. walk'["report"] = q
  BY <1>1, <1>2
<1>4. slots \in [1..event.count -> SlotType]
  BY <1>1, <1>2
<1>5. /\ message \in [1..event.count -> SlotType]
      /\ \A i \in 1..event.count :
           /\ message[i].button = slots[i].button /\ message[i].pressed = slots[i].pressed
           /\ message[i].from = slots[i].from
  BY <1>2, <1>4, ThumbTyped
<1>6. MessageMade(old) /\ MessageInLine(old, stylus, HasStylus) /\ MessageAnswered(old, force, Held)
  BY DEF Contents
<1>7. \A i \in 1..event.count : slots[i].finger # "Thumb"
  BY <1>1, <1>6 DEF MessageMade
<1>8. ThumbIsLowest'
  <2> SUFFICES ASSUME NEW i \in 1..event.count, message[i].finger = "Thumb",
                      NEW j \in 1..event.count \ {i}
               PROVE  /\ message[j].finger # "Thumb"
                      /\ message[j].valid => message[i].valid /\ message[j].y <= message[i].y
    <3>1. walk'["report"].message = message
      <4> HIDE DEF old, message, point
      <4> QED
        BY <1>2, <1>3 DEF WalkType
    <3>2. DOMAIN message = 1..event.count
      BY <1>5
    <3> HIDE DEF message
    <3> QED
      BY <3>1, <3>2 DEF ThumbIsLowest
  <2> HIDE DEF slots
  <2> QED
    BY <1>2, <1>4, <1>7, ThumbLowest
<1>9. Len(message) = event.count
  BY <1>2, <1>5
<1> HIDE DEF message
<1>10. /\ q.at = "load" /\ q.message = message /\ q.event = event /\ q.point = point
       /\ q.torn = old.torn /\ q.split = old.split
  <2> HIDE DEF old, point
  <2>1. /\ q.at = "load" /\ q.message = message /\ q.event = old.event /\ q.point = point
        /\ q.torn = old.torn /\ q.split = old.split
    BY <1>2 DEF WalkType
  <2> QED
    BY <2>1 DEF old
<1>11. point # "none" <=> TopButton(event)
  OBVIOUS
<1> HIDE DEF old, event, slots, q, point
<1>12. MessageMade(q)
  <2>1. HasFirst(event) /\ \A i \in 1..event.count : SlotSays(old, i)
    BY <1>1, <1>6 DEF MessageMade, Making, event, slots
  <2>2. \A i \in 1..event.count : SlotSays(q, i)
    BY <1>5, <1>10, <2>1 DEF SlotSays, event, slots
  <2> QED
    BY <1>9, <1>10, <1>11, <2>1, <2>2 DEF MessageMade, Making
<1>13. MessageInLine(q, stylus, HasStylus)
  <2> SUFFICES ASSUME ~q.torn PROVE MessageInLine(q, stylus, HasStylus)
    BY DEF MessageInLine
  <2>1. PICK check \in {0, 1} : /\ First(event).type = "stylus" => check = 1
                                /\ check = 1 => HasStylus
                                /\ FromPlace(old, check)
    BY <1>1, <1>6, <1>10 DEF MessageInLine, Making, event
  <2>2. FromPlace(q, check)
    BY <1>1, <1>5, <1>9, <1>10, <2>1 DEF FromPlace, event, slots
  <2> QED
    BY <1>10, <2>1, <2>2 DEF MessageInLine
<1>14. MessageAnswered(q, force, Held')
  <2> SUFFICES ASSUME ~q.split PROVE \E answer \in BOOLEAN : SameAnswer(q, answer)
    BY <1>10 DEF MessageAnswered
  <2>1. PICK answer \in BOOLEAN : SameAnswer(old, answer)
    BY <1>6, <1>10 DEF MessageAnswered
  <2>2. SameAnswer(q, answer)
    BY <1>1, <1>5, <1>9, <1>10, <2>1 DEF SameAnswer, event, slots
  <2> QED
    BY <2>2
<1>15. UNCHANGED <<HasStylus, stylus, force>>
  BY <1>1 DEF HasStylus
<1>16. (MessageMade(walk["report"]) /\ MessageInLine(walk["report"], stylus, HasStylus)
        /\ MessageAnswered(walk["report"], force, Held))'
  BY <1>3, <1>12, <1>13, <1>14, <1>15
<1> QED
  BY <1>8, <1>15, <1>16 DEF Contents, StylusSeen

LEMMA TowardsContents ==
  ASSUME Typed, Contents, NEW w \in Walks,
         (NotifyProperty /\ w = "property") \/ LoadInstance(w) \/ Deliver(w)
  PROVE  Contents'
<1> DEFINE old == walk[w]
           l == [old EXCEPT !.at = "deliver", !.target = instance]
           d == [old EXCEPT !.at = "load", !.target = None, !.point = "sent"]
<1>1. UNCHANGED <<scene, stylus, forceVars>>
  BY DEF NotifyProperty, LoadInstance, Deliver, sceneVars, engineVars
<1>2. /\ old \in WalkType /\ walk \in [Walks -> WalkType] /\ "report" \in Walks
  BY DEF Typed, TypeOK, Walks
<1>3. CASE w # "report"
  <2>1. walk'["report"] = walk["report"]
    BY <1>2, <1>3 DEF NotifyProperty, LoadInstance, Deliver, Continue, Break
  <2> QED
    BY <1>1, <2>1, ContentsElsewhere
<1>4. CASE w = "report"
  <2>1. \/ walk'["report"] = l /\ old.at = "load"
        \/ walk'["report"] = d /\ old.at = "deliver" /\ old.point = "due"
        \/ Break(w)
    BY <1>2, <1>4 DEF LoadInstance, Deliver
  <2>2. old = walk["report"] /\ (old.at \in {"load", "deliver"} => Converted)
    BY <1>4 DEF Converted
  <2> HIDE DEF old
  <2>3. /\ l.at = "deliver" /\ l.message = old.message /\ l.event = old.event
        /\ l.point = old.point /\ l.torn = old.torn /\ l.split = old.split
        /\ d.at = "load" /\ d.message = old.message /\ d.event = old.event
        /\ d.point = "sent" /\ d.torn = old.torn /\ d.split = old.split
    BY <1>2 DEF WalkType
  <2> HIDE DEF l, d
  <2>4. CASE walk'["report"] = l /\ old.at = "load"
    BY <1>1, <2>2, <2>3, <2>4, ContentsSame
  <2>5. CASE walk'["report"] = d /\ old.at = "deliver" /\ old.point = "due"
    BY <1>1, <2>2, <2>3, <2>5, ContentsSame
  <2>6. CASE Break(w)
    BY <1>1, <2>6, ReturnContents
  <2> QED
    BY <2>1, <2>4, <2>5, <2>6
<1> QED
  BY <1>3, <1>4

LEMMA WalkContents ==
  ASSUME Typed, Contents, NEW w \in Walks, WalkStep(w)
  PROVE  Contents'
<1>1. CASE OtherReturns(w) \/ NobodyToTell(w) \/ (NoTransducer /\ w = "report")
  <2>1. /\ walk[w].at = "called" /\ UNCHANGED <<scene, stylus, forceVars>>
        /\ Continue(w) \/ Break(w)
    BY <1>1 DEF OtherReturns, NobodyToTell, NoTransducer, Called, sceneVars, engineVars
  <2>2. ~Making(walk[w])
    BY <2>1 DEF Making
  <2> QED
    BY <2>1, <2>2, ReturnContents
<1> QED
  BY <1>1, TurnContents, BeginConversionContents, ConvertContactContents, FinishConversionContents,
     TowardsContents DEF WalkStep

(* Time that passes under a press does not make its answer old, and of the user's preferences only
   the first ever set could: the press is noted as split. *)
LEMMA ElsewhereContents ==
  ASSUME Typed, Contents, TimePasses \/ UserChanges \/ UNCHANGED vars
  PROVE  Contents'
<1>1. CASE UNCHANGED vars
  BY <1>1, ContentsElsewhere DEF vars, sceneVars, engineVars
<1>2. CASE TimePasses
  <2>1. /\ UNCHANGED <<scene, walk, stylus, force, prefs>>
        /\ AmidPress => age' < Second
    BY <1>2 DEF TimePasses, Tick, sceneVars
  <2>2. (Converting' <=> Converting) /\ (Converted' <=> Converted) /\ (AmidPress /\ Held => Held')
    BY <2>1 DEF Converting, Converted, Held
  <2> QED
    BY <2>1, <2>2, ContentsKept
<1>3. CASE UserChanges
  <2> DEFINE old == walk["report"]
             note == old.split \/ (AmidPress /\ age = Second /\ prefs = None /\ prefs' # None)
             q == [old EXCEPT !.split = note]
  <2>1. /\ UNCHANGED <<scene, stylus, force, age>>
        /\ old \in WalkType /\ walk'["report"] = q
    BY <1>3 DEF UserChanges, ChangePreferences, sceneVars, Typed, TypeOK, Walks
  <2>2. note \in BOOLEAN
    OBVIOUS
  <2> HIDE DEF old, note
  <2>3. /\ q.at = old.at /\ q.message = old.message /\ q.event = old.event
        /\ q.torn = old.torn /\ q.split = note /\ q.point = old.point
    BY <2>1, <2>2 DEF WalkType
  <2> HIDE DEF q
  <2>4. (Converting' <=> Converting) /\ (Converted' <=> Converted)
    BY <2>1, <2>3 DEF Converting, Converted, old
  <2>5. old.split => q.split
    BY <2>3 DEF note
  <2>6. ASSUME AmidPress, Held, ~q.split PROVE Held'
    <3>1. ~(age = Second /\ prefs = None /\ prefs' # None)
      BY <2>3, <2>6 DEF note
    <3>2. age < Second \/ age = Second
      BY ClockAssumption DEF Typed, TypeOK, EngineTypeOK
    <3> QED
      BY <2>1, <2>6, <3>1, <3>2 DEF Held
  <2> QED
    BY <2>1, <2>3, <2>4, <2>5, <2>6, ContentsKept DEF old
<1> QED
  BY <1>1, <1>2, <1>3

LEMMA AlwaysContents == Spec => []Contents
<1>1. Typed /\ Contents /\ [Next]_vars => Contents'
  <2> SUFFICES ASSUME Typed, Contents, [Next]_vars PROVE Contents'
    OBVIOUS
  <2>1. ASSUME BeginReport \/ BeginProperty PROVE Contents'
    <3>1. "report" \in Walks /\ "property" \in Walks
      BY DEF Walks
    <3> QED
      BY <2>1, <3>1, BeginContents DEF BeginReport, BeginProperty
  <2> QED
    BY <2>1, EnginesContents, StartContents, ClientContents, WalkContents, ElsewhereContents DEF Next
<1> QED
  BY <1>1, InitContents, AlwaysTyped, PTL DEF Spec

-----------------------------------------------------------------------------
(* What is asked of devices: of the transducers only the first may be a stylus; "the button state
   is saved in the first transducer". *)
FingersFollow ==
  \A s \in Scenarios : \A event \in s.events :
    \A k \in 2..Len(event.transducers) : event.transducers[k].type = "finger"

OneButton ==
  \A s \in Scenarios : \A event \in s.events :
    \A k \in 2..Len(event.transducers) : ~event.transducers[k].button

(* At most one contact is the thumb, and no valid contact is below it. *)
THEOREM ThumbsAreLowest == Spec => []ThumbIsLowest
<1>1. Contents => ThumbIsLowest
  BY DEF Contents
<1> QED
  BY <1>1, AlwaysContents, PTL

(* A report that has been converted, and its message. *)
LEMMA ConvertedTyped ==
  ASSUME Typed, Contents, Converted
  PROVE  LET r == walk["report"] IN
         /\ r.at \in {"load", "deliver"} /\ Shown = r.event /\ Shown \in scene.events
         /\ scene \in Scenarios
         /\ Shown.transducers \in Seq(Transducers) /\ Len(Shown.transducers) \in Nat \ {0}
         /\ DOMAIN r.message = 1..Len(r.message) /\ Len(r.message) \in Nat
         /\ \A i \in 1..Len(r.message) :
              /\ r.message[i].from \in Nat
              /\ r.message[i].button \in BOOLEAN /\ r.message[i].pressed \in BOOLEAN
<1> DEFINE r == walk["report"]
<1>1. r.at \in {"load", "deliver"} /\ r.at # "off"
  BY DEF Converted
<1>2. Shown = r.event /\ Shown \in scene.events /\ Shown \in Events /\ r.message \in Seq(SlotType)
  BY <1>1, ReportTyped
<1>3. Shown.transducers \in Seq(Transducers)
  BY <1>2 DEF Events
<1>4. Len(Shown.transducers) > 0
  BY <1>1, <1>2 DEF Contents, MessageMade, Making, HasFirst
<1>5. scene \in Scenarios
  BY DEF Typed, TypeOK
<1> HIDE DEF r
<1>6. DOMAIN r.message = 1..Len(r.message) /\ Len(r.message) \in Nat
      /\ \A i \in 1..Len(r.message) : r.message[i] \in SlotType
  BY <1>2
<1>7. \A i \in 1..Len(r.message) :
        /\ r.message[i].from \in Nat
        /\ r.message[i].button \in BOOLEAN /\ r.message[i].pressed \in BOOLEAN
  BY <1>6 DEF SlotType
<1>8. Len(Shown.transducers) \in Nat \ {0}
  BY <1>3, <1>4
<1> QED
  BY <1>1, <1>2, <1>3, <1>5, <1>6, <1>7, <1>8 DEF r

(* The fingers of a device whose reports may begin with a stylus reach the message in their order,
   and none but the first can be missing. *)
THEOREM FingersInOrder ==
  ASSUME FingersFollow
  PROVE  Spec => []SlotsMatchContacts
<1>1. ASSUME Typed, Contents PROVE SlotsMatchContacts
  <2> DEFINE r == walk["report"]
             message == r.message
             ts == Shown.transducers
             n == Len(ts)
             fingers == {k \in DOMAIN ts : ts[k].type = "finger"}
             Before(i) == {message[j].from : j \in 1..(i - 1)}
             Lost == IF HasStylus THEN {1} ELSE {}
  <2> SUFFICES ASSUME Converted, ~r.torn, NEW i \in DOMAIN message
               PROVE  LET from == message[i].from IN
                      /\ from # 0 => from \in fingers /\ from \notin Before(i)
                      /\ \A k \in fingers : from = 0 \/ k < from => k \in Before(i) \cup Lost
    BY DEF SlotsMatchContacts
  <2>1. /\ r.at \in {"load", "deliver"} /\ Shown = r.event /\ Shown \in scene.events
        /\ scene \in Scenarios /\ ts \in Seq(Transducers) /\ n \in Nat \ {0}
        /\ DOMAIN message = 1..Len(message) /\ Len(message) \in Nat
    BY <1>1, ConvertedTyped
  <2>2. MessageInLine(r, stylus, HasStylus)
    BY <1>1 DEF Contents
  <2>3. PICK check \in {0, 1} : /\ First(Shown).type = "stylus" => check = 1
                                /\ check = 1 => HasStylus
                                /\ FromPlace(r, check)
    <3> HIDE DEF r
    <3> QED
      BY <2>1, <2>2 DEF MessageInLine, Making
  <2>4. \A k \in 1..n : k > check => ts[k].type = "finger"
    <3>1. \A k \in 2..n : ts[k].type = "finger"
      BY <2>1 DEF FingersFollow
    <3>2. check = 0 => ts[1].type = "finger"
      <4>1. ts[1] \in Transducers
        BY <2>1
      <4>2. ts[1].type \in {"finger", "stylus"}
        BY <4>1 DEF Transducers
      <4> QED
        BY <2>3, <4>2 DEF First
    <3> QED
      BY <2>1, <3>1, <3>2
  <2>5. \A j \in 1..Len(message) : message[j].from = IF j + check <= n THEN j + check ELSE 0
    BY <2>1, <2>3 DEF FromPlace
  <2>6. DOMAIN ts = 1..n
    BY <2>1
  <2>7. i \in 1..Len(message) /\ \A j \in 1..(i - 1) : j \in 1..Len(message)
    BY <2>1
  <2> HIDE DEF ts, n, message, r
  <2> DEFINE from == message[i].from
  <2>8. ASSUME from # 0 PROVE from \in fingers /\ from \notin Before(i)
    <3>1. from = i + check /\ i + check <= n
      BY <2>5, <2>7, <2>8
    <3>2. from \in 1..n /\ from > check
      BY <2>1, <2>7, <3>1
    <3>3. \A j \in 1..(i - 1) : message[j].from # from
      BY <2>1, <2>5, <2>7, <2>8, <3>1
    <3> QED
      BY <2>4, <2>6, <3>2, <3>3
  <2>9. ASSUME NEW k \in fingers, from = 0 \/ k < from PROVE k \in Before(i) \cup Lost
    <3>1. k \in 1..n
      BY <2>6
    <3>2. CASE k > check
      <4>1. k - check \in 1..(i - 1) /\ (k - check) + check = k
        BY <2>1, <2>5, <2>7, <2>9, <3>1, <3>2
      <4>2. message[k - check].from = k
        BY <2>1, <2>5, <2>7, <3>1, <4>1
      <4> QED
        BY <4>1, <4>2
    <3>3. CASE ~(k > check)
      <4>1. check = 1 /\ k = 1
        BY <2>1, <3>1, <3>3
      <4> QED
        BY <2>3, <4>1
    <3> QED
      BY <3>2, <3>3
  <2> QED
    BY <2>8, <2>9
<1> QED
  BY <1>1, AlwaysTyped, AlwaysContents, PTL

LEMMA OneOfThree ==
  ASSUME NEW a \in BOOLEAN, NEW b \in BOOLEAN, NEW c \in BOOLEAN,
         \/ a /\ ~b /\ ~c
         \/ ~a /\ b /\ ~c
         \/ ~a /\ ~b /\ c
  PROVE  Cardinality({k \in DOMAIN <<a, b, c>> : <<a, b, c>>[k]}) = 1
<1> DEFINE ways == <<a, b, c>>
<1>1. DOMAIN ways = {1, 2, 3} /\ ways[1] = a /\ ways[2] = b /\ ways[3] = c
  OBVIOUS
<1> HIDE DEF ways
<1>2. \E k : {j \in DOMAIN ways : ways[j]} = {k}
  <2>1. CASE a /\ ~b /\ ~c
    <3>1. {j \in DOMAIN ways : ways[j]} = {1}
      BY <1>1, <2>1
    <3> QED
      BY <3>1
  <2>2. CASE ~a /\ b /\ ~c
    <3>1. {j \in DOMAIN ways : ways[j]} = {2}
      BY <1>1, <2>2
    <3> QED
      BY <3>1
  <2>3. CASE ~a /\ ~b /\ c
    <3>1. {j \in DOMAIN ways : ways[j]} = {3}
      BY <1>1, <2>3
    <3> QED
      BY <3>1
  <2> QED
    BY <2>1, <2>2, <2>3
<1> QED
  BY <1>2, FS_Singleton DEF ways

(* A press under a finger, on a device with one button, is a force click, a contact's button or a
   trackpoint's. *)
THEOREM PressesReportedOnce ==
  ASSUME OneButton
  PROVE  Spec => []PressReportedOnce
<1>1. ASSUME Typed, Contents PROVE PressReportedOnce
  <2> DEFINE r == walk["report"]
             message == r.message
             ts == Shown.transducers
             first == First(Shown)
             pressed == \E i \in DOMAIN message : message[i].pressed
             button == \E i \in DOMAIN message : message[i].button
             point == r.point # "none"
  <2> SUFFICES ASSUME Converted, ~r.split, first.button,
                      NEW u \in DOMAIN message, message[u].from = 1
               PROVE  Cardinality({k \in DOMAIN <<pressed, button, point>> :
                                     <<pressed, button, point>>[k]}) = 1
    BY DEF PressReportedOnce
  <2>1. /\ r.at \in {"load", "deliver"} /\ Shown = r.event /\ Shown \in scene.events
        /\ scene \in Scenarios /\ ts \in Seq(Transducers) /\ Len(ts) \in Nat \ {0}
        /\ DOMAIN message = 1..Len(message) /\ Len(message) \in Nat
        /\ \A i \in 1..Len(message) : message[i].from \in Nat
    BY <1>1, ConvertedTyped
  <2>2. first.secondary \in BOOLEAN
    <3>1. ts[1] \in Transducers
      BY <2>1
    <3> QED
      BY <3>1 DEF Transducers, First
  <2>3. (point <=> first.secondary) /\ \A i \in 1..Len(message) : SlotSays(r, i)
    BY <1>1, <2>1 DEF Contents, MessageMade, TopButton
  <2>4. PICK answer \in BOOLEAN : SameAnswer(r, answer)
    <3>1. MessageAnswered(r, force, Held)
      BY <1>1 DEF Contents
    <3> HIDE DEF r
    <3> QED
      BY <3>1 DEF MessageAnswered
  <2>5. Presses(Shown) <=> ~first.secondary
    BY DEF Presses, TopButton
  <2>6. \A i \in 1..Len(message) :
          /\ message[i].from # 0 => (message[i].pressed <=> ~first.secondary /\ answer)
          /\ message[i].from = 0 => ~message[i].pressed
    BY <2>1, <2>3, <2>4, <2>5 DEF SameAnswer, SlotSays
  <2>7. \A i \in 1..Len(message) : message[i].from # 1 => ~message[i].button
    <3> SUFFICES ASSUME NEW i \in 1..Len(message), message[i].from # 1 PROVE ~message[i].button
      OBVIOUS
    <3>1. CASE message[i].from = 0
      BY <2>3, <3>1 DEF SlotSays
    <3>2. CASE message[i].from # 0
      <4> DEFINE k == message[i].from
      <4>1. k \in 2..Len(ts) /\ (message[i].button => ts[k].button)
        BY <2>1, <2>3, <3>2 DEF SlotSays
      <4>2. ~ts[k].button
        BY <2>1, <4>1 DEF OneButton
      <4> QED
        BY <4>1, <4>2
    <3> QED
      BY <3>1, <3>2
  <2>8. \A i \in 1..Len(message) :
          message[i].from = 1 => (message[i].button <=> ~first.secondary /\ ~message[i].pressed)
    <3> SUFFICES ASSUME NEW i \in 1..Len(message), message[i].from = 1
                 PROVE  message[i].button <=> ~first.secondary /\ ~message[i].pressed
      OBVIOUS
    <3>1. first = r.event.transducers[1]
      BY <2>1 DEF First
    <3>2. message[i].button <=> ~first.secondary /\ first.button /\ ~message[i].pressed
      <4>1. SlotSays(r, i) /\ message[i].from # 0
        BY <2>3
      <4> HIDE DEF r, first
      <4> QED
        BY <3>1, <4>1, Zenon DEF SlotSays
    <3> QED
      BY <3>2
  <2> HIDE DEF r, message, ts, first
  <2>9. pressed <=> ~first.secondary /\ answer
    BY <2>1, <2>6
  <2>10. button <=> ~first.secondary /\ ~answer
    BY <2>1, <2>6, <2>7, <2>8
  <2> HIDE DEF pressed, button, point
  <2>11. pressed \in BOOLEAN /\ button \in BOOLEAN /\ point \in BOOLEAN
    BY DEF pressed, button, point
  <2>12. \/ pressed /\ ~button /\ ~point
         \/ ~pressed /\ button /\ ~point
         \/ ~pressed /\ ~button /\ point
    BY <2>2, <2>3, <2>9, <2>10
  <2> QED
    BY <2>11, <2>12, OneOfThree
<1> QED
  BY <1>1, AlwaysTyped, AlwaysContents, PTL

(* A contact of a press after a pause follows the user's preferences, in whatever order they are
   read. *)
THEOREM PreferencesAreFresh == Spec => FreshAfterPause
<1>1. ASSUME Typed, ConvertContact, Asks(Shown, Len(walk["report"].message) + 1),
             age = Second, prefs # None, Decisive(prefs)
      PROVE  /\ force' = Wanted(prefs)
             /\ walk'["report"].message[Len(walk["report"].message) + 1].pressed = Wanted(prefs)
  <2> DEFINE old == walk["report"]
             i == Len(old.message) + 1
             slot == NextSlot(Shown, i)
             message == Append(old.message, slot)
  <2>1. /\ "report" \in Walks /\ walk \in [Walks -> WalkType] /\ old \in WalkType
        /\ Shown \in Events /\ EngineTypeOK /\ old.message \in Seq(SlotType)
    BY <1>1, ReportTyped DEF ConvertContact, Converting
  <2>2. ForceClick \in BOOLEAN /\ (ForceClick <=> Wanted(prefs)) /\ Wanted(prefs) \in BOOLEAN
    BY <1>1, <2>1, ForceClickRead DEF Wanted
  <2>3. force' = Wanted(prefs)
    <3>1. force' = ForceClick
      BY <1>1 DEF ConvertContact, Ask, AskForceClick
    <3> QED
      BY <2>2, <3>1
  <2>4. i \in Nat \ {0}
    BY <2>1
  <2>5. /\ slot \in SlotType
        /\ slot.from = 0 => ~Asks(Shown, i)
        /\ slot.from # 0 => /\ Asks(Shown, i) <=> Presses(Shown)
                            /\ slot.pressed <=> Presses(Shown) /\ ForceClick
    BY <2>1, <2>4, NextSlotSays, NextSlotTyped
  <2>6. slot.pressed \in BOOLEAN
    BY <2>5 DEF SlotType
  <2>7. slot.pressed = Wanted(prefs)
    BY <1>1, <2>2, <2>5, <2>6
  <2>8. walk'["report"].message = message
    <3>1. walk' = [walk EXCEPT !["report"] = [old EXCEPT !.message = message]]
      BY <1>1, <2>1 DEF ConvertContact
    <3> HIDE DEF message
    <3> QED
      BY <2>1, <3>1 DEF WalkType
  <2>9. message[i] = slot
    <3> HIDE DEF slot, old
    <3> QED
      BY <2>1, <2>5
  <2> QED
    BY <2>3, <2>7, <2>8, <2>9
<1> QED
  BY <1>1, AlwaysTyped, PTL DEF FreshAfterPause

-----------------------------------------------------------------------------
(* The line of the engines.  It is in order of their scores, and each has one place. *)
Sorted(s) == \A i, j \in DOMAIN s : i < j => Score[s[i]] >= Score[s[j]]
Distinct(s) == \A i, j \in DOMAIN s : s[i] = s[j] => i = j

(* Where r is in its walk along the engines s.  Those that outrank all that came or went are where
   they were in line, and the ones the loop has passed have been called, each in its turn: there
   are as many turns as calls up to there. *)
Above(r, e) == \A m \in r.moved : Score[e] > Score[m]

Placed(w, r, s) ==
  IF r.at = "off" THEN r.line = << >>
  ELSE /\ Sorted(r.line) /\ Distinct(r.line)
       /\ Len(r.offered) < r.i
       /\ w = "report" => r.count = Len(r.line)
       /\ \A i \in DOMAIN r.line : Above(r, r.line[i]) =>
            /\ i \in DOMAIN s /\ s[i] = r.line[i]
            /\ i < r.i => i \in DOMAIN r.offered /\ r.offered[i] = r.line[i]
            /\ \A j \in DOMAIN r.offered : r.offered[j] = r.line[i] => j = i

InPlace == Sorted(engines) /\ Distinct(engines) /\ \A w \in Walks : Placed(w, walk[w], engines)

(* orderEngines and the ordered set put an engine behind those that outrank or equal it. *)
LEMMA SetObjectPlace ==
  ASSUME NEW s \in Seq(Engines), Sorted(s), NEW e \in Engines
  PROVE  \E k \in 1..(Len(s) + 1) :
           /\ SetObject(s, e) = InsertAt(s, k, e)
           /\ \A i \in 1..Len(s) : i < k <=> Score[s[i]] >= Score[e]
<1> DEFINE K == {i \in DOMAIN s : OrderEngines(s[i], e) >= 0}
           n == Len(s)
<1>1. n \in Nat /\ DOMAIN s = 1..n /\ \A i \in 1..n : s[i] \in Engines /\ Score[s[i]] \in Nat
  BY EngineAssumption
<1>2. Score[e] \in Nat
  BY EngineAssumption
<1>3. \A i \in 1..n : OrderEngines(s[i], e) >= 0 <=> Score[s[i]] >= Score[e]
  <2> SUFFICES ASSUME NEW i \in 1..n
               PROVE  OrderEngines(s[i], e) >= 0 <=> Score[s[i]] >= Score[e]
    OBVIOUS
  <2>1. CASE Score[s[i]] > Score[e]
    BY <1>1, <1>2, <2>1 DEF OrderEngines
  <2>2. CASE Score[s[i]] < Score[e]
    <3>1. OrderEngines(s[i], e) = -1
      BY <1>1, <1>2, <2>2 DEF OrderEngines
    <3> QED
      BY <1>1, <1>2, <2>2, <3>1
  <2>3. CASE Score[s[i]] = Score[e]
    <3>1. OrderEngines(s[i], e) = 0
      BY <1>1, <1>2, <2>3 DEF OrderEngines
    <3> QED
      BY <1>1, <1>2, <2>3, <3>1
  <2> QED
    BY <1>1, <1>2, <2>1, <2>2, <2>3
<1>4. SetObject(s, e) = InsertAt(s, Cardinality(K) + 1, e)
  BY DEF SetObject
<1>5. \A i \in 1..n : i \in K <=> Score[s[i]] >= Score[e]
  BY <1>1, <1>3
<1>6. K \in SUBSET (1..n)
  BY <1>1
<1> HIDE DEF K, n
<1>7. \E k \in 0..n : K = 1..k
  <2>1. CASE K = {}
    <3>1. K = 1..0 /\ 0 \in 0..n
      BY <1>1, <2>1
    <3> QED
      BY <3>1
  <2>2. CASE K # {}
    <3> DEFINE m == Max(K)
    <3>1. m \in K /\ \A i \in K : m >= i
      <4>1. K \in SUBSET Nat /\ \A i \in K : i <= n
        BY <1>1, <1>6
      <4> QED
        BY <1>1, <2>2, <4>1, Greatest
    <3> HIDE DEF m
    <3>2. m \in 1..n /\ Score[s[m]] >= Score[e]
      BY <1>5, <1>6, <3>1
    <3>3. ASSUME NEW i \in 1..m PROVE i \in K
      <4>1. i \in 1..n /\ Score[s[i]] >= Score[s[m]]
        BY <1>1, <3>2 DEF Sorted
      <4> QED
        BY <1>1, <1>2, <1>5, <3>2, <4>1
    <3>4. \A i \in K : i \in 1..m
      BY <1>1, <1>6, <3>1, <3>2
    <3>5. K = 1..m
      BY <3>3, <3>4
    <3> QED
      BY <1>1, <3>2, <3>5
  <2> QED
    BY <2>1, <2>2
<1>8. PICK k \in 0..n : K = 1..k
  BY <1>7
<1>9. Cardinality(K) = k
  BY <1>1, <1>8, CardInterval
<1>10. k + 1 \in 1..(n + 1) /\ \A i \in 1..n : i < k + 1 <=> Score[s[i]] >= Score[e]
  BY <1>1, <1>5, <1>8
<1> QED
  BY <1>4, <1>9, <1>10 DEF n

(* The line stays in order when an engine comes ... *)
LEMMA LineInsert ==
  ASSUME NEW s \in Seq(Engines), Sorted(s), Distinct(s), NEW e \in Engines, e \notin Range(s)
  PROVE  /\ Sorted(SetObject(s, e)) /\ Distinct(SetObject(s, e))
         /\ \A i \in DOMAIN s : Score[s[i]] > Score[e] =>
              i \in DOMAIN SetObject(s, e) /\ SetObject(s, e)[i] = s[i]
<1> DEFINE n == Len(s)
           t == SetObject(s, e)
<1>1. PICK k \in 1..(n + 1) :
        /\ t = InsertAt(s, k, e)
        /\ \A i \in 1..n : i < k <=> Score[s[i]] >= Score[e]
  BY SetObjectPlace
<1>2. /\ n \in Nat /\ DOMAIN s = 1..n /\ Score[e] \in Nat
      /\ \A i \in 1..n : s[i] \in Engines /\ Score[s[i]] \in Nat /\ s[i] # e
  BY EngineAssumption DEF Range
<1>3. /\ DOMAIN t = 1..(n + 1)
      /\ \A i \in 1..(k - 1) : t[i] = s[i]
      /\ t[k] = e
      /\ \A i \in (k + 1)..(n + 1) : t[i] = s[i - 1]
  <2>1. InsertAt(s, k, e) \in Seq(Engines) /\ Len(InsertAt(s, k, e)) = n + 1
    BY Inserted
  <2>2. /\ \A i \in 1..(k - 1) : InsertAt(s, k, e)[i] = s[i]
        /\ InsertAt(s, k, e)[k] = e
        /\ \A i \in (k + 1)..(Len(s) + 1) : InsertAt(s, k, e)[i] = s[i - 1]
    BY Inserted
  <2> HIDE DEF t
  <2> QED
    BY <1>1, <2>1, <2>2
<1> HIDE DEF n, t
<1>4. \A i \in 1..(n + 1) : \/ i < k /\ i \in 1..n /\ t[i] = s[i]
                            \/ i = k /\ t[i] = e
                            \/ i > k /\ i - 1 \in 1..n /\ i - 1 >= k /\ t[i] = s[i - 1]
  BY <1>2, <1>3
<1>5. Sorted(t)
  <2> SUFFICES ASSUME NEW i \in 1..(n + 1), NEW j \in 1..(n + 1), i < j
               PROVE  Score[t[i]] >= Score[t[j]]
    BY <1>3 DEF Sorted
  <2>1. \A a, b \in 1..n : a < b => Score[s[a]] >= Score[s[b]]
    BY <1>2 DEF Sorted
  <2>2. CASE i < k /\ j < k
    BY <1>4, <2>1, <2>2
  <2>3. CASE i < k /\ j = k
    BY <1>1, <1>4, <2>3
  <2>4. CASE i < k /\ j > k
    BY <1>2, <1>4, <2>1, <2>4
  <2>5. CASE i = k /\ j > k
    <3>1. j - 1 \in 1..n /\ ~(j - 1 < k) /\ t[i] = e /\ t[j] = s[j - 1]
      BY <1>4, <2>5
    <3>2. ~(Score[s[j - 1]] >= Score[e])
      BY <1>1, <3>1
    <3> QED
      BY <1>2, <3>1, <3>2
  <2>6. CASE i > k /\ j > k
    BY <1>4, <2>1, <2>6
  <2> QED
    BY <2>2, <2>3, <2>4, <2>5, <2>6
<1>6. Distinct(t)
  <2> SUFFICES ASSUME NEW i \in 1..(n + 1), NEW j \in 1..(n + 1), t[i] = t[j]
               PROVE  i = j
    BY <1>3 DEF Distinct
  <2>1. \A a, b \in 1..n : s[a] = s[b] => a = b
    BY <1>2 DEF Distinct
  <2> QED
    BY <1>2, <1>4, <2>1
<1>7. ASSUME NEW i \in DOMAIN s, Score[s[i]] > Score[e]
      PROVE  i \in DOMAIN t /\ t[i] = s[i]
  <2>1. i \in 1..n /\ i < k
    BY <1>1, <1>2, <1>7
  <2> QED
    BY <1>2, <1>3, <2>1
<1> QED
  BY <1>5, <1>6, <1>7 DEF t

(* ... and when one goes, and those that outrank it keep their places. *)
LEMMA LineRemove ==
  ASSUME NEW s \in Seq(Engines), Sorted(s), Distinct(s), NEW k \in DOMAIN s
  PROVE  /\ Sorted(RemoveAt(s, k)) /\ Distinct(RemoveAt(s, k))
         /\ \A i \in DOMAIN s : Score[s[i]] > Score[s[k]] =>
              i \in DOMAIN RemoveAt(s, k) /\ RemoveAt(s, k)[i] = s[i]
<1> DEFINE n == Len(s)
           t == RemoveAt(s, k)
<1>1. /\ n \in Nat /\ DOMAIN s = 1..n /\ k \in 1..n
      /\ \A i \in 1..n : Score[s[i]] \in Nat
  BY EngineAssumption
<1>2. /\ DOMAIN t = 1..(n - 1)
      /\ \A i \in 1..(n - 1) : t[i] = IF i < k THEN s[i] ELSE s[i + 1]
  <2>1. RemoveAt(s, k) \in Seq(Engines) /\ Len(RemoveAt(s, k)) = n - 1
    BY <1>1, Removed
  <2>2. \A i \in 1..(n - 1) : RemoveAt(s, k)[i] = IF i < k THEN s[i] ELSE s[i + 1]
    BY <1>1, Removed
  <2> QED
    BY <2>1, <2>2
<1> HIDE DEF n, t
<1>3. \A i \in 1..(n - 1) : \/ i < k /\ i \in 1..n /\ t[i] = s[i]
                            \/ i >= k /\ i + 1 \in 1..n /\ t[i] = s[i + 1]
  BY <1>1, <1>2
<1>4. Sorted(t)
  <2>1. \A a, b \in 1..n : a < b => Score[s[a]] >= Score[s[b]]
    BY <1>1 DEF Sorted
  <2> SUFFICES ASSUME NEW i \in 1..(n - 1), NEW j \in 1..(n - 1), i < j
               PROVE  Score[t[i]] >= Score[t[j]]
    BY <1>2 DEF Sorted
  <2> QED
    BY <1>1, <1>3, <2>1
<1>5. Distinct(t)
  <2>1. \A a, b \in 1..n : s[a] = s[b] => a = b
    BY <1>1 DEF Distinct
  <2> SUFFICES ASSUME NEW i \in 1..(n - 1), NEW j \in 1..(n - 1), t[i] = t[j]
               PROVE  i = j
    BY <1>2 DEF Distinct
  <2> QED
    BY <1>1, <1>3, <2>1
<1>6. ASSUME NEW i \in DOMAIN s, Score[s[i]] > Score[s[k]]
      PROVE  i \in DOMAIN t /\ t[i] = s[i]
  <2>1. i \in 1..n /\ i # k /\ ~(k < i)
    BY <1>1, <1>6 DEF Sorted
  <2> QED
    BY <1>1, <1>2, <2>1
<1> QED
  BY <1>4, <1>5, <1>6 DEF t

LEMMA PlacedKept ==
  ASSUME NEW w, NEW r, NEW q, NEW s, Placed(w, r, s), r.at # "off", q.at # "off",
         q.line = r.line, q.offered = r.offered, q.i = r.i, q.count = r.count, q.moved = r.moved
  PROVE  Placed(w, q, s)
BY DEF Placed, Above

LEMMA PlacedOff == ASSUME NEW w, NEW s PROVE Placed(w, Off, s)
BY DEF Placed, Off

(* An engine comes or goes: those that outrank it have kept their places. *)
LEMMA PlacedMoved ==
  ASSUME NEW w, NEW r \in WalkType, NEW s, NEW t, NEW e \in Engines, Placed(w, r, s), r.at # "off",
         \A i \in DOMAIN s : Score[s[i]] > Score[e] => i \in DOMAIN t /\ t[i] = s[i]
  PROVE  Placed(w, [r EXCEPT !.moved = r.moved \cup {e}], t)
<1> DEFINE m == r.moved \cup {e}
           q == [r EXCEPT !.moved = m]
<1>1. /\ q.moved = m /\ q.at = r.at /\ q.line = r.line /\ q.offered = r.offered /\ q.i = r.i
      /\ q.count = r.count
  <2> HIDE DEF m
  <2> QED
    BY DEF WalkType
<1> HIDE DEF q
<1>2. \A i \in DOMAIN r.line :
        Above(q, r.line[i]) => Above(r, r.line[i]) /\ Score[r.line[i]] > Score[e]
  BY <1>1 DEF Above
<1>3. Placed(w, q, t)
  BY <1>1, <1>2 DEF Placed
<1> QED
  BY <1>3 DEF q

(* A turn of the loop calls the engine whose turn it is, if that one has kept its place. *)
LEMMA PlacedTurn ==
  ASSUME NEW w, NEW r \in WalkType, NEW s \in Seq(Engines), Distinct(s), Placed(w, r, s), r.at = "loop",
         r.i <= Len(s)
  PROVE  Placed(w, [r EXCEPT !.at = "called", !.engine = s[r.i], !.i = r.i + 1,
                             !.offered = Append(r.offered, s[r.i])], s)
<1> DEFINE n == r.i
           e == s[n]
           o == r.offered
           p == Append(o, e)
           q == [r EXCEPT !.at = "called", !.engine = e, !.i = n + 1, !.offered = p]
           line == r.line
<1>1. /\ n \in 1..Len(s) /\ e \in Engines /\ o \in Seq(Engines) /\ line \in Seq(Engines)
      /\ Len(s) \in Nat /\ Len(o) \in Nat /\ Len(line) \in Nat
  BY DEF WalkType
<1>2. q.at = "called" /\ q.i = n + 1 /\ q.offered = p /\ q.line = line /\ q.moved = r.moved /\ q.count = r.count
  <2> HIDE DEF n, e, p
  <2> QED
    BY DEF WalkType
<1>3. /\ Sorted(line) /\ Distinct(line) /\ Len(o) < n
      /\ w = "report" => r.count = Len(line)
      /\ \A i \in DOMAIN line : Above(r, line[i]) =>
           /\ i \in DOMAIN s /\ s[i] = line[i]
           /\ i < n => i \in DOMAIN o /\ o[i] = line[i]
           /\ \A j \in DOMAIN o : o[j] = line[i] => j = i
  BY DEF Placed
<1>4. /\ Len(p) = Len(o) + 1 /\ DOMAIN p = 1..(Len(o) + 1) /\ p[Len(o) + 1] = e
      /\ \A j \in 1..Len(o) : p[j] = o[j] /\ j \in DOMAIN o
      /\ DOMAIN o = 1..Len(o)
  BY <1>1
<1>5. \A i \in DOMAIN line : Above(q, line[i]) <=> Above(r, line[i])
  BY <1>2 DEF Above
<1> HIDE DEF q, p, o, n, e, line
<1>6. ASSUME NEW i \in DOMAIN line, Above(r, line[i])
      PROVE  /\ i \in DOMAIN s /\ s[i] = line[i]
             /\ i < n + 1 => i \in DOMAIN p /\ p[i] = line[i]
             /\ \A j \in DOMAIN p : p[j] = line[i] => j = i
  <2>1. /\ i \in DOMAIN s /\ s[i] = line[i] /\ i \in Nat \ {0} /\ i <= Len(s)
        /\ i < n => i \in DOMAIN o /\ o[i] = line[i]
        /\ \A j \in DOMAIN o : o[j] = line[i] => j = i
    BY <1>1, <1>3, <1>6
  <2>2. CASE i = n
    <3>1. Len(o) = n - 1
      <4>1. CASE n = 1
        BY <1>1, <1>3, <4>1
      <4>2. CASE n # 1
        <5>1. n - 1 \in DOMAIN line /\ Score[line[n - 1]] >= Score[line[n]]
          BY <1>1, <1>3, <1>6, <2>2, <4>2 DEF Sorted
        <5>2. Score[line[n - 1]] \in Nat /\ Score[line[n]] \in Nat /\ \A m \in r.moved : Score[m] \in Nat
          BY <1>1, <1>6, <2>2, <5>1, EngineAssumption DEF WalkType
        <5>3. Above(r, line[n - 1])
          BY <1>6, <2>2, <5>1, <5>2 DEF Above
        <5>4. n - 1 \in DOMAIN o
          BY <1>1, <1>3, <5>1, <5>3
        <5> QED
          BY <1>1, <1>3, <1>4, <5>4
      <4> QED
        BY <4>1, <4>2
    <3>2. e = line[i]
      BY <2>1, <2>2 DEF e
    <3>3. i \in DOMAIN p /\ p[i] = line[i]
      BY <1>1, <1>4, <2>2, <3>1, <3>2
    <3>4. \A j \in DOMAIN p : p[j] = line[i] => j = i
      BY <1>1, <1>4, <2>1, <2>2, <3>1
    <3> QED
      BY <2>1, <3>3, <3>4
  <2>3. CASE i # n
    <3>1. e # line[i]
      <4>1. n \in DOMAIN s
        BY <1>1
      <4> QED
        BY <2>1, <2>3, <4>1 DEF Distinct, e
    <3>2. \A j \in DOMAIN p : p[j] = line[i] => j = i
      BY <1>1, <1>4, <2>1, <3>1
    <3>3. i < n + 1 => i \in DOMAIN p /\ p[i] = line[i]
      BY <1>1, <1>4, <2>1, <2>3
    <3> QED
      BY <2>1, <3>2, <3>3
  <2> QED
    BY <2>2, <2>3
<1>7. Len(p) < n + 1
  BY <1>1, <1>3, <1>4
<1>8. Placed(w, q, s)
  BY <1>2, <1>3, <1>5, <1>6, <1>7 DEF Placed
<1> QED
  BY <1>8 DEF q, n, e, o, p

(* A turn that finds no engine is not that of one that has kept its place. *)
LEMMA PlacedSkip ==
  ASSUME NEW w, NEW r \in WalkType, NEW s \in Seq(Engines), Placed(w, r, s), r.at = "loop",
         ~(r.i <= Len(s))
  PROVE  Placed(w, [r EXCEPT !.i = r.i + 1], s)
<1> DEFINE n == r.i
           k == n + 1
           q == [r EXCEPT !.i = k]
<1>1. n \in Nat /\ Len(s) \in Nat /\ Len(r.offered) \in Nat /\ DOMAIN s = 1..Len(s)
  BY DEF WalkType
<1>2. q.at = "loop" /\ q.i = k /\ q.offered = r.offered /\ q.line = r.line /\ q.moved = r.moved
      /\ q.count = r.count
  <2> HIDE DEF k
  <2> QED
    BY DEF WalkType
<1>3. \A i \in DOMAIN r.line : Above(q, r.line[i]) <=> Above(r, r.line[i])
  BY <1>2 DEF Above
<1> HIDE DEF q
<1>4. Len(r.offered) < k
  BY <1>1 DEF Placed
<1>5. \A i \in DOMAIN r.line : Above(r, r.line[i]) => (i < k => i < n)
  BY <1>1 DEF Placed
<1>6. Placed(w, q, s)
  BY <1>2, <1>3, <1>4, <1>5 DEF Placed
<1> QED
  BY <1>6 DEF q

(* At its beginning. *)
LEMMA PlacedBegin ==
  ASSUME NEW w, NEW r, NEW s \in Seq(Engines), Sorted(s), Distinct(s),
         r.at = "loop", r.line = s, r.offered = << >>, r.i = 1, r.count = Len(s)
  PROVE  Placed(w, r, s)
<1>1. DOMAIN r.offered = {} /\ Len(r.offered) = 0 /\ \A i \in DOMAIN s : ~(i < r.i)
  OBVIOUS
<1> QED
  BY <1>1 DEF Placed

LEMMA InitInPlace == Init => InPlace
BY DEF Init, InPlace, Sorted, Distinct, Placed, Off, Walks

(* The engines stay, and a loop goes on. *)
LEMMA InPlaceWalk ==
  ASSUME Typed, InPlace, NEW w \in Walks, NEW r, walk' = [walk EXCEPT ![w] = r],
         UNCHANGED engines, Placed(w, r, engines)
  PROVE  InPlace'
<1>1. \A v \in Walks : walk'[v] = IF v = w THEN r ELSE walk[v]
  BY DEF Typed, TypeOK
<1> QED
  BY <1>1 DEF InPlace

LEMMA EnginesInPlace ==
  ASSUME Typed, InPlace, NEW e \in Engines, OpenInterface(e) \/ CloseInterface(e)
  PROVE  InPlace'
<1>1. /\ Sorted(engines') /\ Distinct(engines')
      /\ \A i \in DOMAIN engines : Score[engines[i]] > Score[e] =>
           i \in DOMAIN engines' /\ engines'[i] = engines[i]
  <2>1. Sorted(engines) /\ Distinct(engines) /\ engines \in Seq(Engines)
    BY SceneTyped DEF InPlace
  <2>2. CASE OpenInterface(e)
    <3>1. e \notin Range(engines) /\ engines' = SetObject(engines, e)
      BY <2>2 DEF OpenInterface
    <3> QED
      BY <2>1, <3>1, LineInsert
  <2>3. CASE CloseInterface(e)
    <3>1. PICK k \in DOMAIN engines : engines[k] = e /\ engines' = RemoveAt(engines, k)
      BY <2>3 DEF CloseInterface
    <3> QED
      BY <2>1, <3>1, LineRemove
  <2> QED
    BY <2>2, <2>3
<1>2. ASSUME NEW w \in Walks PROVE Placed(w, walk'[w], engines')
  <2>1. walk[w] \in WalkType /\ Placed(w, walk[w], engines)
    BY DEF Typed, TypeOK, InPlace
  <2>2. walk'[w] = IF walk[w].at = "off" THEN walk[w]
                   ELSE [walk[w] EXCEPT !.moved = walk[w].moved \cup {e}]
    BY DEF OpenInterface, CloseInterface, Moved
  <2>3. CASE walk[w].at = "off"
    BY <2>1, <2>2, <2>3 DEF Placed
  <2>4. CASE walk[w].at # "off"
    <3>1. Placed(w, [walk[w] EXCEPT !.moved = walk[w].moved \cup {e}], engines')
      BY <1>1, <2>1, <2>4, PlacedMoved
    <3> QED
      BY <2>2, <2>4, <3>1
  <2> QED
    BY <2>3, <2>4
<1> QED
  BY <1>1, <1>2 DEF InPlace

(* A note on the report's loop that does not move it. *)
LEMMA NoteInPlace ==
  ASSUME Typed, InPlace, UNCHANGED engines, NEW q, walk' = [walk EXCEPT !["report"] = q],
         q.at = walk["report"].at, q.line = walk["report"].line,
         q.offered = walk["report"].offered, q.i = walk["report"].i,
         q.count = walk["report"].count, q.moved = walk["report"].moved
  PROVE  InPlace'
<1>1. "report" \in Walks
  BY DEF Walks
<1>2. Placed("report", q, engines)
  BY <1>1 DEF InPlace, Placed, Above
<1> QED
  BY <1>1, <1>2, InPlaceWalk

LEMMA StartInPlace ==
  ASSUME Typed, InPlace,
         \/ ForgetInstance \/ PublishSupport \/ ResetStylus
         \/ TimePasses \/ UserChanges \/ UNCHANGED vars
  PROVE  InPlace'
<1> DEFINE old == walk["report"]
<1>1. old \in WalkType /\ walk \in [Walks -> WalkType]
  BY DEF Typed, TypeOK, Walks
<1>2. CASE ForgetInstance \/ PublishSupport \/ TimePasses \/ UNCHANGED vars
  <2>1. UNCHANGED <<engines, walk>>
    BY <1>2 DEF ForgetInstance, PublishSupport, TimePasses, vars, sceneVars
  <2> QED
    BY <2>1 DEF InPlace
<1>3. CASE ResetStylus
  <2> DEFINE note == old.torn \/ Converting
             q == [old EXCEPT !.torn = note]
  <2>1. walk' = [walk EXCEPT !["report"] = q] /\ UNCHANGED engines
    BY <1>1, <1>3 DEF ResetStylus
  <2> HIDE DEF old, note
  <2>2. /\ q.at = old.at /\ q.line = old.line /\ q.offered = old.offered /\ q.i = old.i
        /\ q.count = old.count /\ q.moved = old.moved
    BY <1>1 DEF WalkType
  <2> HIDE DEF q
  <2> QED
    BY <2>1, <2>2, NoteInPlace DEF old
<1>4. CASE UserChanges
  <2> DEFINE note == old.split \/ (AmidPress /\ age = Second /\ prefs = None /\ prefs' # None)
             q == [old EXCEPT !.split = note]
  <2>1. walk' = [walk EXCEPT !["report"] = q] /\ UNCHANGED engines
    BY <1>1, <1>4 DEF UserChanges, sceneVars
  <2> HIDE DEF old, note
  <2>2. /\ q.at = old.at /\ q.line = old.line /\ q.offered = old.offered /\ q.i = old.i
        /\ q.count = old.count /\ q.moved = old.moved
    BY <1>1 DEF WalkType
  <2> HIDE DEF q
  <2> QED
    BY <2>1, <2>2, NoteInPlace DEF old
<1> QED
  BY <1>2, <1>3, <1>4

LEMMA ClientInPlace ==
  ASSUME Typed, InPlace, NEW v \in Inputs, OpenEngine(v) \/ CloseEngine(v)
  PROVE  InPlace'
<1>1. UNCHANGED engines
  BY DEF OpenEngine, CloseEngine
<1>2. CASE OpenEngine(v)
  <2>1. ASSUME NEW w \in Walks PROVE Placed(w, walk'[w], engines)
    <3>1. walk[w] \in WalkType /\ Placed(w, walk[w], engines)
      BY DEF Typed, TypeOK, InPlace
    <3> DEFINE o == walk[w].open \cup {v}
               q == [walk[w] EXCEPT !.open = o]
    <3>2. walk'[w] = IF walk[w].at = "off" THEN walk[w] ELSE q
      BY <1>2 DEF OpenEngine
    <3> HIDE DEF o
    <3>3. /\ q.at = walk[w].at /\ q.line = walk[w].line /\ q.offered = walk[w].offered
          /\ q.i = walk[w].i /\ q.count = walk[w].count /\ q.moved = walk[w].moved
      BY <3>1 DEF WalkType
    <3> HIDE DEF q
    <3> QED
      BY <3>1, <3>2, <3>3, PlacedKept
  <2> QED
    BY <1>1, <2>1 DEF InPlace
<1>3. CASE CloseEngine(v)
  BY <1>1, <1>3 DEF InPlace, CloseEngine
<1> QED
  BY <1>2, <1>3

LEMMA BeginInPlace ==
  ASSUME Typed, InPlace, NEW w \in Walks, NEW event, Begin(w, event)
  PROVE  InPlace'
<1> DEFINE o == {client} \ {None}
           n == Len(engines)
           r == [Off EXCEPT !.at = "loop", !.event = event, !.count = n, !.line = engines, !.open = o]
<1>1. walk' = [walk EXCEPT ![w] = r] /\ UNCHANGED engines
  BY DEF Begin, sceneVars
<1>2. Sorted(engines) /\ Distinct(engines) /\ engines \in Seq(Engines)
  BY SceneTyped DEF InPlace
<1>3. r.at = "loop" /\ r.line = engines /\ r.offered = << >> /\ r.i = 1 /\ r.count = n
  <2> HIDE DEF o, n
  <2> QED
    BY DEF Off
<1> HIDE DEF r
<1>4. Placed(w, r, engines)
  BY <1>2, <1>3, PlacedBegin
<1> QED
  BY <1>1, <1>4, InPlaceWalk

LEMMA LoopInPlace ==
  ASSUME Typed, InPlace, NEW w \in Walks, WalkStep(w)
  PROVE  InPlace'
<1> DEFINE old == walk[w]
<1>1. /\ old \in WalkType /\ walk \in [Walks -> WalkType] /\ engines \in Seq(Engines)
      /\ Distinct(engines) /\ Placed(w, old, engines)
  BY SceneTyped DEF Typed, TypeOK, InPlace
<1>2. UNCHANGED engines
  BY DEF WalkStep, GetObject, EndLoop, OtherReturns, NobodyToTell, LoadInstance, Deliver, NoTransducer,
         BeginConversion, ConvertContact, FinishConversion, NotifyProperty, sceneVars
<1>3. CASE walk' = [walk EXCEPT ![w] = Off]
  BY <1>2, <1>3, InPlaceWalk, PlacedOff
<1>4. CASE GetObject(w)
  <2> DEFINE called == [old EXCEPT !.at = "called", !.engine = engines[old.i], !.i = old.i + 1,
                                   !.offered = Append(old.offered, engines[old.i])]
             skipped == [old EXCEPT !.i = old.i + 1]
  <2>1. /\ old.at = "loop"
        /\ walk' = IF old.i <= Len(engines) THEN [walk EXCEPT ![w] = called]
                   ELSE [walk EXCEPT ![w] = skipped]
    BY <1>1, <1>4 DEF GetObject
  <2>2. CASE old.i <= Len(engines)
    <3>1. Placed(w, called, engines)
      BY <1>1, <2>1, <2>2, PlacedTurn
    <3> HIDE DEF called
    <3> QED
      BY <1>2, <2>1, <2>2, <3>1, InPlaceWalk
  <2>3. CASE ~(old.i <= Len(engines))
    <3>1. Placed(w, skipped, engines)
      BY <1>1, <2>1, <2>3, PlacedSkip
    <3> HIDE DEF skipped
    <3> QED
      BY <1>2, <2>1, <2>3, <3>1, InPlaceWalk
  <2> QED
    BY <2>2, <2>3
<1>5. ASSUME NEW q, walk' = [walk EXCEPT ![w] = q], old.at # "off", q.at # "off",
             q.line = old.line, q.offered = old.offered, q.i = old.i, q.count = old.count,
             q.moved = old.moved
      PROVE  InPlace'
  BY <1>1, <1>2, <1>5, PlacedKept, InPlaceWalk
<1>6. ASSUME Continue(w), old.at # "off" PROVE InPlace'
  <2> DEFINE q == [old EXCEPT !.at = "loop", !.engine = None, !.target = None]
  <2>1. walk' = [walk EXCEPT ![w] = q]
    BY <1>1, <1>6 DEF Continue
  <2>2. /\ q.at = "loop" /\ q.line = old.line /\ q.offered = old.offered /\ q.i = old.i
        /\ q.count = old.count /\ q.moved = old.moved
    <3> HIDE DEF old
    <3> QED
      BY <1>1 DEF WalkType
  <2> HIDE DEF q
  <2> QED
    BY <1>5, <1>6, <2>1, <2>2
<1>7. CASE (BeginConversion \/ ConvertContact \/ FinishConversion) /\ w = "report"
  <2> DEFINE grown == Append(old.message, NextSlot(Shown, Len(old.message) + 1))
             message == Thumb(Shown, old.message)
             point == IF TopButton(Shown) THEN "due" ELSE "none"
             b == [old EXCEPT !.at = "convert"]
             c == [old EXCEPT !.message = grown]
             f == [old EXCEPT !.at = "load", !.message = message, !.point = point]
  <2>1. /\ old.at # "off"
        /\ \/ walk' = [walk EXCEPT ![w] = b] \/ walk' = [walk EXCEPT ![w] = c]
           \/ walk' = [walk EXCEPT ![w] = f]
    BY <1>1, <1>7 DEF BeginConversion, ConvertContact, FinishConversion, Called, Converting
  <2>2. \A q \in {b, c, f} :
          /\ q.at \in {"convert", old.at, "load"} /\ q.line = old.line /\ q.offered = old.offered
          /\ q.i = old.i /\ q.count = old.count /\ q.moved = old.moved
    <3> HIDE DEF old, grown, message, point
    <3> QED
      BY <1>1 DEF WalkType
  <2> HIDE DEF b, c, f
  <2>3. PICK q \in {b, c, f} : walk' = [walk EXCEPT ![w] = q]
    BY <2>1
  <2> QED
    BY <1>5, <2>1, <2>2, <2>3
<1>8. CASE NotifyProperty /\ w = "property"
  <2> DEFINE q == [old EXCEPT !.at = "load"]
  <2>1. walk' = [walk EXCEPT ![w] = q] /\ old.at # "off"
    BY <1>1, <1>8 DEF NotifyProperty, Called
  <2>2. /\ q.at = "load" /\ q.line = old.line /\ q.offered = old.offered /\ q.i = old.i
        /\ q.count = old.count /\ q.moved = old.moved
    <3> HIDE DEF old
    <3> QED
      BY <1>1 DEF WalkType
  <2> HIDE DEF q
  <2> QED
    BY <1>5, <2>1, <2>2
<1>9. CASE LoadInstance(w)
  <2> DEFINE q == [old EXCEPT !.at = "deliver", !.target = instance]
  <2>1. walk' = [walk EXCEPT ![w] = q] /\ old.at # "off"
    BY <1>1, <1>9 DEF LoadInstance
  <2>2. /\ q.at = "deliver" /\ q.line = old.line /\ q.offered = old.offered /\ q.i = old.i
        /\ q.count = old.count /\ q.moved = old.moved
    <3> HIDE DEF old
    <3> QED
      BY <1>1 DEF WalkType
  <2> HIDE DEF q
  <2> QED
    BY <1>5, <2>1, <2>2
<1>10. CASE Deliver(w) /\ w = "report" /\ old.point = "due"
  <2> DEFINE q == [old EXCEPT !.at = "load", !.target = None, !.point = "sent"]
  <2>1. walk' = [walk EXCEPT ![w] = q] /\ old.at # "off"
    BY <1>1, <1>10 DEF Deliver
  <2>2. /\ q.at = "load" /\ q.line = old.line /\ q.offered = old.offered /\ q.i = old.i
        /\ q.count = old.count /\ q.moved = old.moved
    <3> HIDE DEF old
    <3> QED
      BY <1>1 DEF WalkType
  <2> HIDE DEF q
  <2> QED
    BY <1>5, <2>1, <2>2
<1>11. CASE \/ OtherReturns(w) \/ NobodyToTell(w) \/ EndLoop(w) \/ (NoTransducer /\ w = "report")
            \/ (Deliver(w) /\ ~(w = "report" /\ old.point = "due"))
  <2>1. old.at # "off" /\ (Continue(w) \/ walk' = [walk EXCEPT ![w] = Off])
    BY <1>11 DEF OtherReturns, NobodyToTell, EndLoop, NoTransducer, Deliver, Called, Break
  <2> QED
    BY <1>3, <1>6, <2>1
<1> QED
  BY <1>4, <1>7, <1>8, <1>9, <1>10, <1>11 DEF WalkStep

LEMMA AlwaysInPlace == Spec => []InPlace
<1>1. Typed /\ InPlace /\ [Next]_vars => InPlace'
  <2> SUFFICES ASSUME Typed, InPlace, [Next]_vars PROVE InPlace'
    OBVIOUS
  <2>1. ASSUME BeginReport \/ BeginProperty PROVE InPlace'
    <3>1. "report" \in Walks /\ "property" \in Walks
      BY DEF Walks
    <3> QED
      BY <2>1, <3>1, BeginInPlace DEF BeginReport, BeginProperty
  <2> QED
    BY <2>1, EnginesInPlace, StartInPlace, ClientInPlace, LoopInPlace DEF Next
<1> QED
  BY <1>1, InitInPlace, AlwaysTyped, PTL DEF Spec

(* Reports and notices reach the engines above whatever changes in their order, and each once. *)
THEOREM EnginesServedInOrder == Spec => []ServedInOrder
<1>1. ASSUME Typed, InPlace PROVE ServedInOrder
  <2> SUFFICES ASSUME NEW w \in Walks
               PROVE  LET line == walk[w].line offered == walk[w].offered IN
                      /\ \A i, j \in DOMAIN line : i < j => Score[line[i]] >= Score[line[j]]
                      /\ \A i \in DOMAIN line : Settled(w, line[i]) =>
                           /\ \A j \in DOMAIN offered : i = j <=> offered[j] = line[i]
                           /\ walk[w].at = "loop" /\ walk[w].i > Limit(w) => i \in DOMAIN offered
    BY DEF ServedInOrder
  <2> DEFINE r == walk[w]
  <2>1. /\ r \in WalkType /\ Placed(w, r, engines) /\ engines \in Seq(Engines)
        /\ Limit(w) = IF w = "report" THEN r.count ELSE Len(engines)
        /\ \A e : Settled(w, e) <=> Above(r, e)
    BY <1>1, SceneTyped DEF Typed, TypeOK, InPlace, Limit, Settled, Above
  <2> HIDE DEF r
  <2>2. CASE r.at = "off"
    <3>1. r.line = << >> /\ DOMAIN r.line = {}
      BY <2>1, <2>2 DEF Placed
    <3> QED
      BY <3>1 DEF r
  <2>3. CASE r.at # "off"
    <3>1. /\ r.line \in Seq(Engines) /\ r.offered \in Seq(Engines) /\ r.i \in Nat
          /\ Len(r.line) \in Nat /\ Len(r.offered) \in Nat /\ Len(engines) \in Nat
          /\ DOMAIN r.line = 1..Len(r.line) /\ DOMAIN r.offered = 1..Len(r.offered)
          /\ DOMAIN engines = 1..Len(engines)
      BY <2>1 DEF WalkType
    <3>2. Sorted(r.line) /\ Len(r.offered) < r.i /\ (w = "report" => r.count = Len(r.line))
      BY <2>1, <2>3 DEF Placed
    <3>3. ASSUME NEW i \in DOMAIN r.line, Settled(w, r.line[i])
          PROVE  /\ \A j \in DOMAIN r.offered : i = j <=> r.offered[j] = r.line[i]
                 /\ r.i > Limit(w) => i \in DOMAIN r.offered
      <4>1. /\ i \in DOMAIN engines
            /\ i < r.i => i \in DOMAIN r.offered /\ r.offered[i] = r.line[i]
            /\ \A j \in DOMAIN r.offered : r.offered[j] = r.line[i] => j = i
        BY <2>1, <2>3, <3>3 DEF Placed
      <4>2. \A j \in DOMAIN r.offered : j < r.i
        BY <3>1, <3>2
      <4>3. r.i > Limit(w) => i < r.i
        BY <2>1, <3>1, <3>2, <4>1
      <4> QED
        BY <4>1, <4>2, <4>3
    <3> QED
      BY <3>2, <3>3 DEF Sorted, r
  <2> QED
    BY <2>2, <2>3
<1> QED
  BY <1>1, AlwaysTyped, AlwaysInPlace, PTL

=============================================================================
