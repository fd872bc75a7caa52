SPECIFICATION Spec
CONSTANTS
  None = None
  Procs = {p, q}
  Local = {repo}
  Repo = repo
  Databases = {d, e}
  MaxNow = 2
  Names = {a, b}
  Remotes = {r, s}
  Hours = {1}
  Undated = Undated
  Older <- OneOlder
  Enclosed = TRUE
  Installed <- OneRemote
  MaxCommands = 3
CONSTRAINTS PublishedOne OneBroken OlderApart
ACTION_CONSTRAINT EditedBetween
SYMMETRY Symmetric
INVARIANT
  PulledFromItsRemote
