SPECIFICATION WalkSpec
CONSTANTS
  Walks = {a, b}
  Full = {a, b}
  Servers = {s, t}
  NoServer = NoServer
  Projects = {"p"}
  NoProject = "none"
  MaxChanges = 1
INVARIANTS
  OneServerPerWalk
PROPERTIES
  AdditiveUnlessRaced
  HintsKept
SYMMETRY Interchangeable
CONSTRAINT WalkAlone
