SPECIFICATION Spec
CONSTANTS
  NGates = 1
  EvidenceIds <- MCEvidenceIds2
  Blobs <- MCBlobs
  a = a
  b = b
  Procs <- MCProcs
  NoProc = NoProc
  Optional = {}
  Serialized = FALSE
  LocalOnly = FALSE
  Commands <- DeliveryCommands
  BirthBlob = "v0"
  Profiles <- OneProfile
  BirthProfile = "f0"
  MaxCommits = 2
  MaxCrashes = 0
SYMMETRY HelperSymmetry
PROPERTIES
  EvidenceRetained
