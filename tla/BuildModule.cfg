SPECIFICATION Spec
CONSTANTS
  None = None
  Torn = Torn
  SampleRows = 1
  Overlong = {}
  Keys <- One
  KindsOf <- JustView
  Texts = {"a", "b"}
  Eols = {"lf", "crlf"}
  Hiding = {TRUE, FALSE}
  Rows = {0}
  Triggers = {0}
  Engines = {"sqlserver"}
  Coarse = FALSE
  MaxClock = 2
  Options <- UnforcedOptions
  Faults = {"model", "cache"}
INVARIANTS
  AsksOnlyAboutChanges
  SignalProves
  StaleOnlyIfReported
  BodyMatchesRow
ACTION_CONSTRAINT
  ChangesMatter
