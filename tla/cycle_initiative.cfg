SPECIFICATION Spec
CONSTANTS
  NGates = 2
  EvidenceIds <- MCEvidenceIds2
  Blobs <- MCBlobs
  a = a
  b = b
  Procs <- MCProcs
  NoProc = NoProc
  Optional = {2}
  Serialized = TRUE
  LocalOnly = FALSE
  Commands <- PushCommands
  BirthBlob = "v0"
  Profiles <- OneProfile
  BirthProfile = "f0"
  MaxCommits = 2
  MaxCrashes = 1
SYMMETRY HelperSymmetry
INVARIANTS
  TypeOK
  LedgerInOrder
  LedgerEvidenced
  BoundEvidenceIsCommitted
  DeliveredExactlyRecorded
  DeliveredOnEvidence
PROPERTIES
  EvidenceRetained
  CompletedIsFinal
  FinalizingNeverReopens
  ImplementsContract
