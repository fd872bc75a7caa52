SPECIFICATION FairSpec
CONSTANTS
  None = None
  Torn = Torn
  SampleRows = 1
  Overlong = {"a"}
  Keys <- Two
  KindsOf <- SynonymAndFunction
  Texts = {"a", "b"}
  Eols = {"lf"}
  Hiding = {FALSE}
  Rows = {0}
  Triggers = {0}
  Engines = {"sqlserver"}
  Coarse = FALSE
  MaxClock = 2
  Options <- FullOrNarrowed
  Faults = {}
PROPERTY
  Converges
