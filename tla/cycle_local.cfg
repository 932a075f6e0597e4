SPECIFICATION Spec
CONSTANTS
  NGates = 1
  EvidenceIds <- MCEvidenceIds2
  Blobs <- MCBlobs
  a = a
  b = b
  Procs <- MCProcs
  NoProc = NoProc
  Optional = {}
  Serialized = TRUE
  LocalOnly = TRUE
  Commands <- LocalCommands
  BirthBlob = "v0"
  Profiles <- TwoProfiles
  BirthProfile = "f0"
  MaxCommits = 2
  MaxCrashes = 1
SYMMETRY HelperSymmetry
INVARIANTS
  DeliveredExactlyRecorded
  AdoptedIsProfileOnly
