SPECIFICATION Spec
CONSTANTS
  None = None
  Torn = Torn
  SampleRows = 1
  Overlong = {}
  Keys <- Two
  KindsOf <- TableAndProcedure
  Texts = {"a", "b"}
  Eols = {"lf"}
  Hiding = {FALSE}
  Rows = {0}
  Triggers = {0}
  Engines = {"sqlserver"}
  Coarse = FALSE
  MaxClock = 2
  Options <- AnyOptions
  Faults = {"model"}
INVARIANTS
  TypeOK
  DroppedLeaveNoFiles
  IndexInv
  RereadsNothingUntouched
PROPERTIES
  OtherRowsStay
  ImplementsIndexing
ACTION_CONSTRAINT
  ChangesMatter
