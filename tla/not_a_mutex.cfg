SPECIFICATION StateSpec
CONSTANTS
  Walks = {a, b}
  Nobody = Nobody
  Dead = Dead
  Servers = {"s"}
  Urls = {"u"}
  NoUrl = "no url"
  Projects = {"p"}
  NoProject = "none"
  MaxDeaths = 1
INVARIANTS
  MutualExclusion
