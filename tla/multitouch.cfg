SPECIFICATION FairSpec
CONSTANTS
  None = None
  Native = Native
  Base = Base
  Top = Top
  Engines = {Native, Base, Top}
  Inputs = {v1, v2}
  MaxContacts = 4
  Second = 2
  Score <- Scores
  Scenarios <- AllScenarios
INVARIANTS TypeOK ServedInOrder DeliveredToOpen InstanceRemembered PressReportedOnce ThumbIsLowest SlotsMatchContacts
PROPERTIES FreshAfterPause WalksEnd
