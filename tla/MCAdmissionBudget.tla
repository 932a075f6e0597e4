------------------------- MODULE MCAdmissionBudget -------------------------
(* Small instances of AdmissionBudget for TLC: three calls, two of them     *)
(* expensive, one of them with an enrollment that configures less.          *)
EXTENDS AdmissionBudget

CONSTANTS edit, checkpoint, manual

MCCalls == {edit, checkpoint, manual}
MCKind == [c \in MCCalls |-> IF c = edit THEN "cheap" ELSE "expensive"]
MCOwnRunning == [c \in MCCalls |-> IF c = manual THEN 1 ELSE 2]
MCCapacities == {2, 3}
MCOwnExpensive == [c \in MCCalls |-> 1]
=============================================================================
