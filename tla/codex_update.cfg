SPECIFICATION FairSpec
CONSTANTS
  Releases <- MCReleases
  Roles <- Machines
  MaxCrashes = 2
  MaxFaults = 2
INVARIANTS
  TypeOK
  SettledCoherent
  PriorRetained
PROPERTIES
  ActivationIsAtomic
  UncutSettles
