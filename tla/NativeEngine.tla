---------------------------- MODULE NativeEngine ----------------------------
(***************************************************************************)
(* VoodooI2CNativeEngine: it turns the contacts of a report into a message  *)
(* for VoodooInput, its only client, and emulates force clicks as the       *)
(* user's preferences say.  An event is the number of contacts and the      *)
(* transducers of the device; coordinates other than the vertical one,      *)
(* pressure and identifiers are left out.                                   *)
(***************************************************************************)
EXTENDS Integers, SequencesExt

CONSTANTS
  None,
  Inputs,       \* instances of VoodooInput
  MaxContacts,  \* VOODOO_INPUT_MAX_TRANSDUCERS
  Second        \* one second, in ticks of the clock

ASSUME InputAssumption == None \notin Inputs
ASSUME ClockAssumption == Second \in Nat \ {0} /\ MaxContacts \in Nat

Transducers ==
  [type : {"finger", "stylus"}, valid : BOOLEAN, confident : BOOLEAN, y : Nat,
   button : BOOLEAN, secondary : BOOLEAN]

Events == [count : 0..MaxContacts, transducers : Seq(Transducers)]

(* MultitouchPreferences, a dictionary: its keys, each once, and values in the order in which they
   are iterated. *)
Preferences ==
  {p \in Seq({"Clicking", "ForceSuppressed"} \X {"true", "false", "other"}) :
     \A i, j \in DOMAIN p : p[i][1] = p[j][1] => i = j}

VARIABLES
  instance,  \* voodooInputInstance
  stylus,    \* stylus_check
  force,     \* lastIsForceClickEnabled
  age,       \* time since lastForceClickPropertyUpdateTime, at most Second
  prefs      \* the preferences of the user, None if nobody has set any

forceVars == <<force, age, prefs>>
engineVars == <<instance, stylus, forceVars>>

EngineInit(prefs0) ==
  /\ instance = None /\ stylus = 0
  /\ force = FALSE /\ age = Second /\ prefs = prefs0

-----------------------------------------------------------------------------
(* Mutant: a key that comes after Clicking still counts. *)
ReadKeyOn(found, key) ==
  CASE key = <<"Clicking", "false">> -> [enabled |-> FALSE, done |-> FALSE]
    [] key[1] = "ForceSuppressed" /\ key[2] # "other" ->
         [enabled |-> key[2] = "false", done |-> FALSE]
    [] OTHER -> found

(* One turn of the loop over the preferences. *)
ReadKey(found, key) ==
  CASE found.done -> found
    [] ~found.done /\ key = <<"Clicking", "false">> -> [enabled |-> FALSE, done |-> TRUE]
    [] ~found.done /\ key[1] = "ForceSuppressed" /\ key[2] # "other" ->
         [enabled |-> key[2] = "false", done |-> FALSE]
    [] OTHER -> found

(* isForceClickEnabled: what it returns, and keeps. *)
ForceClick ==
  IF age < Second \/ prefs = None THEN force
  ELSE FoldLeft(ReadKey, [enabled |-> force, done |-> FALSE], prefs).enabled

(* A call renews the time of the last update, unless there is nothing to read: the next call then
   looks for the preferences again. *)
AskForceClick(asked) ==
  /\ force' = IF asked THEN ForceClick ELSE force
  /\ age' = IF asked /\ ~(age >= Second /\ prefs = None) THEN 0 ELSE age
  /\ UNCHANGED prefs

Tick == age < Second /\ age' = age + 1 /\ UNCHANGED <<instance, stylus, force, prefs>>

-----------------------------------------------------------------------------
Empty == [finger |-> "Undefined", valid |-> FALSE, y |-> 0, button |-> FALSE, pressed |-> FALSE,
          from |-> 0]

First(event) == event.transducers[1]
HasFirst(event) == Len(event.transducers) > 0

(* Mutant: stylus_check counts. *)
StylusCheckMore(event) == IF First(event).type = "stylus" THEN stylus + 1 ELSE stylus

StylusCheck(event) == IF First(event).type = "stylus" THEN 1 ELSE stylus

(* Mutant: the stylus is passed on as a contact. *)
TransducerWithStylus(i) == i

(* The transducer of the i-th contact; stylus_check is read anew for each. *)
Transducer(i) == i + stylus

(* A trackpad with two buttons passes the button on as a trackpoint's. *)
TopButton(event) == First(event).secondary

(* Whether a contact that has a transducer asks for the preference. *)
Presses(event) == ~TopButton(event) /\ First(event).button

(* Mutant: a forced contact keeps its button. *)
SlotBoth(t, i, forced) ==
  [finger |-> IF t.confident THEN "Finger" ELSE "Palm", valid |-> t.valid, y |-> t.y,
   button |-> ~t.secondary /\ t.button, pressed |-> forced, from |-> i]

(* What the first loop makes of a transducer; "from" is the transducer it is taken from. *)
Slot(t, i, forced) ==
  [finger |-> IF t.confident THEN "Finger" ELSE "Palm", valid |-> t.valid, y |-> t.y,
   button |-> ~t.secondary /\ t.button /\ ~forced, pressed |-> forced, from |-> i]

(* The i-th turn of that loop: it may have no transducer, and then asks for nothing. *)
Asks(event, i) == Transducer(i) <= Len(event.transducers) /\ Presses(event)

NextSlot(event, i) ==
  LET k == Transducer(i) IN
  IF k <= Len(event.transducers)
  THEN Slot(event.transducers[k], k, Asks(event, i) /\ ForceClick) ELSE Empty

(* The loop takes a later contact at the same height, and the first when none is valid. *)
ThumbIndex(slots) ==
  LET valid == {i \in DOMAIN slots : slots[i].valid} IN
  IF valid = {} THEN 1
  ELSE CHOOSE i \in valid : \A j \in valid :
         slots[j].y < slots[i].y \/ (slots[j].y = slots[i].y /\ j <= i)

(* Mutant: the first contact is the thumb. *)
ThumbFirst(event, slots) ==
  [i \in DOMAIN slots |-> IF i = 1 THEN [slots[i] EXCEPT !.finger = "Thumb"] ELSE slots[i]]

(* The thumb is looked for under four fingers, and under a button. *)
Thumb(event, slots) ==
  IF Cardinality({i \in DOMAIN slots : slots[i].valid}) >= 4 \/ First(event).button
  THEN [i \in DOMAIN slots |->
          IF i = ThumbIndex(slots) THEN [slots[i] EXCEPT !.finger = "Thumb"] ELSE slots[i]]
  ELSE slots

(* handleInterruptReport before its first loop, and one turn of that. *)
CheckStylus(event) ==
  /\ stylus' = StylusCheck(event)
  /\ UNCHANGED <<instance, forceVars>>

Ask(event, i) ==
  /\ AskForceClick(Asks(event, i))
  /\ UNCHANGED <<instance, stylus>>

-----------------------------------------------------------------------------
(* handleOpen, handleClose: VoodooInput. *)
HandleOpen(v) ==
  /\ instance' = v
  /\ UNCHANGED <<stylus, forceVars>>

(* Mutant: a client that has closed is kept. *)
HandleCloseKept(v) == instance = v /\ UNCHANGED engineVars

HandleIsOpen(v) == instance # None /\ v = instance

HandleClose(v) ==
  /\ instance = v /\ instance' = None
  /\ UNCHANGED <<stylus, forceVars>>

ChangePreferences(new) ==
  /\ prefs' = new
  /\ UNCHANGED <<instance, stylus, force, age>>

EngineTypeOK ==
  /\ instance \in Inputs \cup {None} /\ stylus \in {0, 1}
  /\ force \in BOOLEAN /\ age \in 0..Second
  /\ prefs = None \/ prefs \in Preferences
=============================================================================
