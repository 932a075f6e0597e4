SPECIFICATION Spec
CONSTANTS
  Servers = {"s", "t"}
  NoServer = "no server"
  Jpds = {"x", "y", "z"}
  NoJpd = "no jpd"
  deriveServerId <- SameId
  origin <- OriginXZ
  Machines <- Environments
  MaxChanges = 1
  MaxFaults = 1
INVARIANTS
  HelperStaysHome
PROPERTIES
  NothingLostWithoutToken
  TokensGone
  AllOrNothing
  VerdictIsMeant
