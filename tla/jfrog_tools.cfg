SPECIFICATION Spec
CONSTANTS
  Walks = {a, b}
  Nobody = Nobody
  Dead = Dead
  Servers = {"s", "t"}
  Urls = {"u", "v"}
  NoUrl = "no url"
  Projects = {"p"}
  NoProject = "none"
  MaxDeaths = 1
  Turning = TRUE
  Sessions = {c, d}
  Minimum = 2
  NewestRelease = 3
  MaxTurns = 3
  Policies = {"p1", "p2", "p3", "p4"}
  PAGE_LIMIT = 2
  MAX_PAGES = 2
  MIN_JF_VERSION = 2
  Newest = 3
INVARIANTS
  VerdictWasRight
  OfferedOnce
  CompleteWithoutNote
  InstalledIsPublished
PROPERTIES
  RecordsKept
  AbandonedLockGoes
  ZeroMeansUsable
