SPECIFICATION Spec
CONSTANTS
  None = None
  Gone = Gone
  old = old
  new = new
  Connections = {"main"}
  Backends = {"local"}
  Profiles = {"dev"}
  Typed <- TypedOf
  Said = {"yes", "nothing"}
  Fallbacks = {"never"}
  Forces = {FALSE}
  Procs = {p1, p2}
SYMMETRY Alike
CONSTRAINT FileAlone
INVARIANTS
  TypeOK
  BindingsStand
  AddedStays
  NoSilentPlaintext
  RemovedForGood
