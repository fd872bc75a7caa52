SPECIFICATION Spec
CONSTANTS
  None = None
  Mute = Mute
  Gone = Gone
  Engines = {"sqlserver", "postgres"}
  Loads <- SomeLoads
  KindOf <- Seven
  Rows <- RowsOf
  Columns <- ColumnsOf
  Personal = {"email"}
  Opaque = {"photo"}
  SampleRows = 2
  ModuleBatch = 2
  Limits <- SomeLimits
  Stale <- SomeStale
  Changed <- SomeChanged
INVARIANT
  InterruptStops
