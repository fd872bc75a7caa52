SPECIFICATION Spec
CONSTANTS
  None = None
  Torn = Torn
  SampleRows = 1
  Overlong = {}
  Keys <- One
  KindsOf <- JustTable
  Texts = {"a", "b"}
  Eols = {"lf"}
  Hiding = {FALSE}
  Rows = {0, 1, 2}
  Triggers = {0}
  Engines = {"sqlserver", "postgres"}
  Coarse = FALSE
  MaxClock = 2
  Options <- FullOnly
  Faults = {"cache"}
INVARIANT
  AsksOnlyAboutChanges
ACTION_CONSTRAINT
  ChangesMatter
