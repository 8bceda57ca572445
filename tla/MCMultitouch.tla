---------------------------- MODULE MCMultitouch ----------------------------
(* Instances of Multitouch. *)
EXTENDS Multitouch

CONSTANTS Base, Top   \* VoodooI2CMultitouchEngine itself, and an engine of a satellite

Scores == [e \in Engines |-> IF e = Top THEN 1 ELSE 0]

T(type, valid, confident, y, button, secondary) ==
  [type |-> type, valid |-> valid, confident |-> confident, y |-> y, button |-> button,
   secondary |-> secondary]

Finger(y) == T("finger", TRUE, TRUE, y, FALSE, FALSE)
Palm(y) == T("finger", TRUE, FALSE, y, FALSE, FALSE)
Lifted(y) == T("finger", FALSE, TRUE, y, FALSE, FALSE)
Pressed(t) == [t EXCEPT !.button = TRUE]
TwoButtons(t) == [t EXCEPT !.secondary = TRUE]
Stylus == T("stylus", TRUE, TRUE, 9, FALSE, FALSE)

Event(count, transducers) == [count |-> count, transducers |-> transducers]

(* Several fingers, a press with the thumb lowest or not, a palm, a finger that is lifted, more
   contacts than transducers. *)
TouchPad ==
  { Event(0, << >>), Event(0, <<Finger(1)>>), Event(1, <<Pressed(Finger(1))>>),
    Event(0, <<Pressed(Lifted(1))>>),
    Event(2, <<Pressed(Finger(1)), Finger(2)>>), Event(2, <<Pressed(Finger(2)), Palm(2)>>),
    Event(2, <<Pressed(Lifted(3)), Lifted(1)>>), Event(3, <<Pressed(Finger(2)), Lifted(3)>>),
    Event(4, <<Finger(1), Finger(3), Lifted(4), Finger(2)>>),
    Event(4, <<Finger(1), Finger(3), Finger(0), Finger(2)>>) }

(* A trackpad with two buttons. *)
TrackPoint == { Event(1, <<TwoButtons(Finger(1))>>), Event(1, <<Pressed(TwoButtons(Finger(1)))>>) }

(* A screen with a stylus before its fingers, which its reports leave out when it is away. *)
Screen ==
  { Event(1, <<Stylus, Finger(1)>>), Event(2, <<Pressed(Stylus), Finger(1), Finger(3)>>),
    Event(2, <<Stylus, Finger(1)>>), Event(2, <<Pressed(Finger(1)), Finger(3)>>) }

Settings ==
  { None, << >>, << <<"ForceSuppressed", "false">> >>, << <<"ForceSuppressed", "other">> >>,
    << <<"Clicking", "true">>, <<"ForceSuppressed", "false">> >>,
    << <<"Clicking", "false">>, <<"ForceSuppressed", "false">> >>,
    << <<"ForceSuppressed", "true">>, <<"Clicking", "other">> >>,
    << <<"ForceSuppressed", "false">>, <<"Clicking", "false">> >> }

(* What varies: the device; the preferences; the engines under one walk; and both walks, which meet
   in the native engine only, with preferences that are set for the first time. *)
AllScenarios ==
  LET OneFinger == {Event(1, <<Finger(1)>>)}
      Press == Event(2, <<Pressed(Finger(2)), Palm(2)>>)
      Suppress(v) == << <<"ForceSuppressed", v>> >>
      Scenes(engs, wks, evs, prfs) == [engines : engs, walks : wks, events : evs, prefs : prfs]
  IN Scenes({{Native}}, {{"report"}}, {TouchPad, TrackPoint, Screen}, {{Suppress("false")}, {None}})
     \cup Scenes({{Native}}, {{"report"}}, {{Press} \cup OneFinger}, {Settings})
     \cup Scenes({Engines}, {{w} : w \in Walks}, {OneFinger}, {{None}})
     \cup Scenes({{Native}}, {Walks}, {{Press}}, {{None, Suppress("false")}})
=============================================================================
