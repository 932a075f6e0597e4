SPECIFICATION Spec
CONSTANTS
  NGates = 2
  EvidenceIds <- MCEvidenceIds2
  Blobs <- MCBlobs
  a = a
  b = b
  Procs <- MCProcs
  NoProc = NoProc
  Optional = {}
  Serialized = FALSE
  LocalOnly = FALSE
  Commands <- StandaloneCommands
  BirthBlob = "v0"
  Profiles <- OneProfile
  BirthProfile = "f0"
  MaxCommits = 1
  MaxCrashes = 1
SYMMETRY HelperSymmetry
INVARIANTS
  BoundEvidenceIsCommitted
  DeliveredOnEvidence
