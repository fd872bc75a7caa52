SPECIFICATION Spec
CONSTANTS
  None = None
  Torn = Torn
  SampleRows = 1
  Overlong = {}
  Keys <- One
  KindsOf <- JustView
  Texts = {"a", "b"}
  Eols = {"lf"}
  Hiding = {FALSE}
  Rows = {0}
  Triggers = {0}
  Engines = {"sqlserver"}
  Coarse = FALSE
  MaxClock = 2
  Options <- FullOnly
  Faults = {"model"}
INVARIANT
  ChangesAreDescribed
ACTION_CONSTRAINT
  ChangesMatter
