--------------------------- MODULE MCDbsctrCycle ---------------------------
(* Small instances of DbsctrCycle for TLC.                                 *)
EXTENDS DbsctrCycle, TLC

CONSTANTS a, b   \* two helper processes

MCProcs == {a, b}
OneHelper == {a}
MCEvidenceIds1 == {1}
MCEvidenceIds2 == 1..2
MCEvidenceIds3 == 1..3
MCBlobs == {"v0", "v1"}
OneProfile == {"f0"}
TwoProfiles == {"f0", "f1"}

LockCommands == {"record-evidence", "final-push"}
LedgerCommands == {"set-gate", "set-applicability", "approve-exception", "record-evidence"}
SourceCommands == {"record-evidence", "gate-commit", "set-gate"}
DeliveryCommands == {"review", "record-evidence", "gate-commit", "final-push"}
PushCommands == LedgerCommands \cup SourceCommands \cup DeliveryCommands \cup {"update-plan"}
StandaloneCommands == DeliveryCommands \cup {"approve-exception"}
ProfileCommands == DeliveryCommands \cup {"update-plan"}
LocalCommands == (PushCommands \ {"final-push"}) \cup {"complete-local"}

HelperSymmetry == Permutations(MCProcs)
=============================================================================
