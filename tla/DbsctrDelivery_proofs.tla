------------------------ MODULE DbsctrDelivery_proofs ------------------------
(***************************************************************************)
(* What is promised to the reader of a Cycle Record when the commands run  *)
(* one at a time, under the initiative's guard: each version saved is the  *)
(* previous one advanced by one operation of CycleContract, and what is    *)
(* delivered is exactly what was recorded, on the evidence recorded.       *)
(***************************************************************************)
EXTENDS DbsctrCommits_proofs

(* CycleContract is instantiated with the constants of DbsctrCycle, so its *)
(* operators on ledgers and records are the same ones: predicates and      *)
(* constants,                                                              *)
LEMMA SameLedgerOperators ==
  /\ Contract!Gate = Gate /\ Contract!Results = Results /\ Contract!NoEvidence = NoEvidence
  /\ Contract!Envelope = Envelope /\ Contract!NoItem = NoItem
  /\ \A e : Contract!Required(e) <=> Required(e)
  /\ \A e : Contract!CommitReady(e) <=> CommitReady(e)
  /\ \A gates, g : Contract!PredecessorsDisposed(gates, g) <=> PredecessorsDisposed(gates, g)
  /\ \A gates, items : Contract!Evidenced(gates, items) <=> Evidenced(gates, items)
  BY DEF Contract!Gate, Gate, Contract!Results, Results, Contract!Ran, Ran,
         Contract!NoEvidence, NoEvidence, Contract!Envelope, Envelope,
         Contract!NoItem, NoItem, Contract!NoPaths, NoPaths, Contract!Required, Required,
         Contract!CommitReady, CommitReady, Contract!PredecessorsDisposed, PredecessorsDisposed,
         Contract!Disposed, Disposed, Contract!Evidenced, Evidenced,
         Contract!EnvelopeMatches, EnvelopeMatches

(* changes of a ledger,                                                    *)
LEMMA SameLedgerChanges ==
  /\ \A gates, g, result, e :
        Contract!ApplyGateResult(gates, g, result, e) = ApplyGateResult(gates, g, result, e)
  /\ \A gates, S : Contract!Tighten(gates, S) = Tighten(gates, S)
  /\ \A gates, g : Contract!Excepted(gates, g) = Excepted(gates, g)
  BY DEF Contract!ApplyGateResult, ApplyGateResult, Contract!WithResult, WithResult,
         Contract!Disposed, Disposed, Contract!Required, Required,
         Contract!InvalidateLater, InvalidateLater, Contract!Reopened, Reopened,
         Contract!Tighten, Tighten, Contract!Tightened, Tightened,
         Contract!Excepted, Excepted, Contract!Gate, Gate, Contract!NoEvidence, NoEvidence

(* and changes of a record.                                                *)
LEMMA SameRecordChanges ==
  /\ \A r, e, envelope : Contract!EvidenceAdded(r, e, envelope) = EvidenceAdded(r, e, envelope)
  /\ \A r, G, commit : Contract!Bound(r, G, commit) = Bound(r, G, commit)
  /\ \A skipped : Contract!Born(skipped) = Born(skipped)
  BY SameLedgerChanges
     DEF Contract!EvidenceAdded, EvidenceAdded, Contract!Bound, Bound, Contract!Born, Born,
         Contract!PlannedGates, PlannedGates, Contract!NoItems, NoItems, Contract!NoItem, NoItem,
         Contract!NoEvidence, NoEvidence, Contract!Gate, Gate, Contract!NoPaths, NoPaths

-----------------------------------------------------------------------------
(* One command at a time                                                   *)

(* How the private copy r of a helper at a step stands to the saved        *)
(* record: the same, or advanced by one operation of the contract.         *)
InStep(step, r, saved) ==
  /\ step = "re_lock" => saved.state = "active"
  /\ step \in {"re_run", "gc_add", "gc_index", "gc_commit", "gc_bind"} =>
       r = saved /\ saved.state = "active"
  /\ step = "up_adopt" => \E S \in SUBSET Gate : /\ Contract!TightenPlan(saved, r, S)
                                                /\ r.commits = saved.commits
  /\ step \in {"fp_lock", "fp_start"} => r = saved /\ saved.state \in {"active", "finalizing"}
  /\ step = "fp_ahead" => /\ r = saved /\ saved.state \in {"active", "finalizing"}
                          /\ Contract!Deliverable(saved)
  /\ step \in {"fp_push", "fp_verify"} => r = saved /\ saved.state = "finalizing"
  /\ step \in {"fp_sync", "unlink"} => r = saved /\ saved.state = "completed"
  /\ step = "save" => Contract!Works(saved, r)
  /\ step \in {"cl_ahead", "cl_head"} => /\ r = saved /\ saved.state \in {"active", "completed"}
                                         /\ Contract!Deliverable(saved)
  /\ step = "cl_save" => Contract!CompleteLocally(saved, r)

(* Only the guard's holder is between two steps, and in step.              *)
OneCommand ==
  /\ \A p \in Procs : guard = p <=> pc[p] # "idle"
  /\ \A p \in Procs : InStep(pc[p], copy[p], rec)

(* The inductive invariant of the serialized system.                       *)
SInv == IInv /\ TruthfulRecords /\ OneCommand

(* An idle helper holds nothing to be in step with.                        *)
LEMMA IdleInStep == \A r, saved : InStep("idle", r, saved)
  BY DEF InStep

(* Nobody but the guard's holder is doing anything.                        *)
LEMMA Alone ==
  ASSUME OneCommand, NEW p \in Procs, pc[p] # "idle" \/ guard = NoProc
  PROVE  \A q \in Procs : q # p => pc[q] = "idle"
  BY ProcsAssumption DEF OneCommand

(* A command starts by taking the free guard,                              *)
LEMMA CommandStarts ==
  ASSUME Serialized, IInv, OneCommand, NEW p \in Procs, guard = NoProc, guard' = p,
         NEW step \in Steps \ {"idle"}, Goto(p, step), InStep(step, copy'[p], rec')
  PROVE  OneCommand'
<1>1. \A q \in Procs : pc'[q] = IF q = p THEN step ELSE "idle"
  BY Alone DEF IInv, TypeOK, Goto
<1> QED
  BY <1>1, IdleInStep DEF OneCommand

(* goes on alone,                                                          *)
LEMMA CommandGoes ==
  ASSUME Serialized, IInv, OneCommand, NEW p \in Procs, pc[p] # "idle", UNCHANGED guard,
         NEW step \in Steps \ {"idle"}, Goto(p, step), InStep(step, copy'[p], rec')
  PROVE  OneCommand'
<1>1. \A q \in Procs : pc'[q] = IF q = p THEN step ELSE "idle"
  BY Alone DEF IInv, TypeOK, Goto
<1>2. guard' = p
  BY DEF OneCommand
<1> QED
  BY <1>1, <1>2, IdleInStep DEF OneCommand

(* and frees the guard when it ends.                                       *)
LEMMA CommandEnds ==
  ASSUME Serialized, IInv, OneCommand, NEW p \in Procs, pc[p] # "idle", Exit(p)
  PROVE  OneCommand'
<1>1. \A q \in Procs : pc'[q] = "idle"
  BY Alone DEF IInv, TypeOK, Exit
<1>2. guard' = NoProc
  BY DEF OneCommand, Exit, Free
<1> QED
  BY <1>1, <1>2, IdleInStep, ProcsAssumption DEF OneCommand

(* A command that prepares one operation of the contract is in step.       *)
LEMMA CommandPrepares ==
  ASSUME Serialized, IInv, OneCommand, NEW p \in Procs, NEW r, Prepare(p, r), guard = NoProc,
         Contract!Works(rec, r)
  PROVE  OneCommand'
<1>1. copy'[p] = r /\ rec' = rec
  BY DEF IInv, TypeOK, Prepare, Hold, record
<1>2. InStep("save", r, rec)
  BY DEF InStep
<1>3. "save" \in Steps \ {"idle"}
  BY DEF Steps
<1> HIDE DEF InStep
<1> QED
  BY <1>1, <1>2, <1>3, CommandStarts DEF Prepare, TakeGuard

-----------------------------------------------------------------------------
(* The commands that load, check and save                                  *)

(* Each of them prepares an operation of the contract.                     *)
LEMMA SetGateSerial ==
  ASSUME Serialized, SInv, NEW p \in Procs, NEW g \in Gate, NEW result \in Results,
         NEW e \in EvidenceIds \cup {NoEvidence}, SetGate(p, g, result, e)
  PROVE  OneCommand'
<1> DEFINE r == [rec EXCEPT !.gates = ApplyGateResult(@, g, result, e)]
<1>1. Contract!SetGate(rec, r, g, result, e)
  BY SameLedgerOperators, SameLedgerChanges DEF SetGate, Admitted, Contract!SetGate, Contract!Active
<1>2. Contract!Works(rec, r)
  BY <1>1, SameLedgerOperators DEF Contract!Works
<1>3. Prepare(p, r) /\ guard = NoProc
  BY DEF SetGate, Admitted
<1> HIDE DEF r
<1> QED
  BY <1>2, <1>3, CommandPrepares DEF SInv

LEMMA SetApplicabilitySerial ==
  ASSUME Serialized, SInv, NEW p \in Procs, NEW g \in Gate, SetApplicability(p, g)
  PROVE  OneCommand'
<1> DEFINE r == [rec EXCEPT !.gates = Tighten(@, {g})]
<1>1. /\ r.profile = rec.profile /\ r.commits = rec.commits
      /\ r = [rec EXCEPT !.gates = Tighten(@, {g}), !.profile = rec.profile,
                         !.commits = rec.commits]
  BY DEF SInv, IInv, TypeOK, Record
<1>2. Contract!TightenPlan(rec, r, {g})
  <2>1. \A h \in {g} : ~Contract!Required(rec.gates[h])
    BY SameLedgerOperators DEF SetApplicability
  <2>2. r = [rec EXCEPT !.gates = Contract!Tighten(@, {g}), !.profile = r.profile,
                        !.commits = r.commits]
    BY <1>1, SameLedgerChanges
  <2> QED
    BY <1>1, <2>1, <2>2 DEF SetApplicability, Admitted, Contract!TightenPlan, Contract!Active
<1>3. Contract!Works(rec, r)
  BY <1>2, SameLedgerOperators DEF Contract!Works
<1>4. Prepare(p, r) /\ guard = NoProc
  BY DEF SetApplicability, Admitted
<1> HIDE DEF r
<1> QED
  BY <1>3, <1>4, CommandPrepares DEF SInv

LEMMA ApproveExceptionSerial ==
  ASSUME Serialized, SInv, NEW p \in Procs, NEW g \in Gate, ApproveException(p, g)
  PROVE  OneCommand'
<1> DEFINE r == [rec EXCEPT !.gates = Excepted(@, g)]
<1>1. Contract!ApproveException(rec, r, g)
  BY SameLedgerOperators, SameLedgerChanges
     DEF ApproveException, Admitted, Contract!ApproveException, Contract!Active
<1>2. Contract!Works(rec, r)
  BY <1>1, SameLedgerOperators DEF Contract!Works
<1>3. Prepare(p, r) /\ guard = NoProc
  BY DEF ApproveException, Admitted
<1> HIDE DEF r
<1> QED
  BY <1>2, <1>3, CommandPrepares DEF SInv

(* update-plan forgets no commit: ids in a record are distinct.            *)
LEMMA AdoptedKeeps ==
  ASSUME TypeOK, NEW r \in Record, Truthful(r, log), Adoptable(r), NEW i \in 1..Len(r.commits)
  PROVE  \E k \in 1..Len(Adopted(r)) : Adopted(r)[k] = r.commits[i]
<1> DEFINE k == r.commits[i].id
           at(j) == CHOOSE m \in 1..Len(r.commits) : r.commits[m].id = j
<1>1. HEAD \in Nat /\ HEAD = Len(log)
  BY HeadProfileType DEF HEAD
<1>2. k \in 1..HEAD /\ Known(r, k)
  BY <1>1 DEF Truthful, ListedIn, Known, CommitIds
<1>3. at(k) \in 1..Len(r.commits) /\ r.commits[at(k)].id = k
  OBVIOUS
<1>4. at(k) = i
  <2> HIDE DEF at
  <2>1. at(k) \in 1..Len(r.commits) /\ i \in 1..Len(r.commits) /\ r.commits[at(k)].id = r.commits[i].id
    BY <1>3
  <2>2. r.commits[i].id \in Nat
    BY <1>1, <1>2
  <2>3. ~(at(k) < i) /\ ~(i < at(k))
    BY <2>1, <2>2 DEF Truthful, ListedIn
  <2>4. Len(r.commits) \in Nat
    BY DEF Record
  <2> QED
    BY <2>1, <2>3, <2>4
<1>5. Len(Adopted(r)) = HEAD
  BY <1>1 DEF Adopted
<1>6. \A j \in 1..HEAD : Known(r, j) => Adopted(r)[j] = r.commits[at(j)]
  BY DEF Adopted
<1> HIDE DEF k, at
<1> QED
  BY <1>2, <1>4, <1>5, <1>6

(* update-plan is TightenPlan: first of the gates and the profile,         *)
LEMMA UpdatePlanSerial ==
  ASSUME Serialized, SInv, NEW p \in Procs, NEW S \in SUBSET Optional, UpdatePlan(p, S)
  PROVE  OneCommand'
<1> DEFINE gates == Tighten(rec.gates, S)
           r == [rec EXCEPT !.gates = gates, !.profile = HeadProfile]
<1>1. rec \in Record
  BY DEF SInv, IInv, TypeOK
<1>2. \A g \in S : ~Contract!Required(rec.gates[g])
  BY SameLedgerOperators DEF UpdatePlan
<1>3. /\ Hold(p, r) /\ Goto(p, "up_adopt") /\ "up_adopt" \in Steps \ {"idle"}
      /\ guard = NoProc /\ rec.state = "active" /\ rec' = rec /\ guard' = p
  BY DEF UpdatePlan, Admitted, TakeGuard, record, Steps
<1>4. gates = Contract!Tighten(rec.gates, S)
  BY SameLedgerChanges
<1> HIDE DEF gates
<1>5. r.profile = HeadProfile /\ r.commits = rec.commits
  BY <1>1 DEF Record
<1>6. r = [rec EXCEPT !.gates = gates, !.profile = r.profile, !.commits = r.commits]
  BY <1>1, <1>5 DEF Record
<1>7. Contract!TightenPlan(rec, r, S)
  BY <1>2, <1>3, <1>4, <1>5, <1>6 DEF Contract!TightenPlan, Contract!Active
<1>8. copy'[p] = r
  BY <1>3 DEF SInv, IInv, TypeOK, Hold
<1> HIDE DEF r
<1>9. S \in SUBSET Gate
  BY OptionalAssumption
<1>10. InStep("up_adopt", copy'[p], rec')
  BY <1>3, <1>5, <1>7, <1>8, <1>9 DEF InStep
<1> QED
  BY <1>3, <1>10, CommandStarts DEF SInv

(* then of the commits too.                                                *)
LEMMA AdoptCommitsSerial ==
  ASSUME Serialized, SInv, NEW p \in Procs, AdoptCommits(p)
  PROVE  OneCommand'
<1> DEFINE old == copy[p]
           commits == Adopted(old)
           r == [old EXCEPT !.commits = commits]
<1>1. /\ pc[p] = "up_adopt" /\ pc[p] # "idle" /\ rec' = rec
      /\ "save" \in Steps \ {"idle"}
  BY DEF AdoptCommits, record, Steps
<1>2. old \in Record /\ rec \in Record /\ Truthful(old, log) /\ TypeOK
  BY DEF SInv, IInv, TypeOK, TruthfulRecords
<1>3. PICK S \in SUBSET Gate : Contract!TightenPlan(rec, old, S) /\ old.commits = rec.commits
  BY <1>1 DEF SInv, OneCommand, InStep
<1>4. CASE Exit(p)
  BY <1>1, <1>4, CommandEnds DEF SInv
<1>5. CASE /\ Adoptable(old)
           /\ Hold(p, r) /\ Goto(p, "save") /\ UNCHANGED <<locks, arg>>
  <2>1. \A i \in 1..Len(rec.commits) : \E k \in 1..Len(commits) : commits[k] = rec.commits[i]
    <3> HIDE DEF old
    <3> QED
      BY <1>2, <1>3, <1>5, AdoptedKeeps
  <2> DEFINE gates == Contract!Tighten(rec.gates, S)
  <2> HIDE DEF gates, commits, old
  <2>2. old = [rec EXCEPT !.gates = gates, !.profile = old.profile, !.commits = old.commits]
    BY <1>3 DEF Contract!TightenPlan, gates
  <2>3. r.commits = commits /\ r.profile = old.profile
    BY <1>2 DEF Record
  <2>4. r = [rec EXCEPT !.gates = gates, !.profile = r.profile, !.commits = r.commits]
    BY <1>2, <2>2, <2>3 DEF Record
  <2> HIDE DEF r
  <2>5. Contract!TightenPlan(rec, r, S)
    BY <1>3, <2>1, <2>3, <2>4 DEF Contract!TightenPlan, gates
  <2>6. Contract!Works(rec, r)
    BY <2>5, SameLedgerOperators DEF Contract!Works
  <2>7. copy'[p] = r
    BY <1>5 DEF SInv, IInv, TypeOK, Hold
  <2>8. InStep("save", copy'[p], rec')
    BY <1>1, <2>6, <2>7 DEF InStep
  <2> QED
    BY <1>1, <1>5, <2>8, CommandGoes DEF SInv, locks
<1> QED
  BY <1>4, <1>5 DEF AdoptCommits

(* review is Review.                                                       *)
LEMMA ReviewArtifactSerial ==
  ASSUME Serialized, SInv, NEW p \in Procs, ReviewArtifact(p)
  PROVE  OneCommand'
<1> DEFINE r == [rec EXCEPT !.reviewed = TRUE]
<1>1. Contract!Works(rec, r)
  BY DEF ReviewArtifact, Admitted, Contract!Works, Contract!Review, Contract!Active
<1>2. Prepare(p, r) /\ guard = NoProc
  BY DEF ReviewArtifact, Admitted
<1> HIDE DEF r
<1> QED
  BY <1>1, <1>2, CommandPrepares DEF SInv

(* The helper dies, or ends without a save.                                *)
LEMMA CrashSerial ==
  ASSUME Serialized, SInv, NEW p \in Procs, Crash(p)
  PROVE  OneCommand'
  BY CommandEnds DEF SInv, Crash

(* The save publishes the operation that was prepared.                     *)
LEMMA SaveSerial ==
  ASSUME Serialized, SInv, NEW p \in Procs, Save(p)
  PROVE  OneCommand' /\ Contract!Next
<1>1. pc[p] # "idle" /\ Exit(p) /\ rec' = copy[p]
  BY DEF Save
<1>2. Contract!Works(rec, copy[p])
  BY DEF Save, SInv, OneCommand, InStep
<1> QED
  BY <1>1, <1>2, CommandEnds DEF SInv, Contract!Next

-----------------------------------------------------------------------------
(* record-evidence                                                         *)

LEMMA EvidenceBeginSerial ==
  ASSUME Serialized, SInv, NEW p \in Procs, NEW g \in Gate, NEW blob,
         EvidenceBegin(p, g, blob)
  PROVE  OneCommand'
<1>1. "re_lock" \in Steps \ {"idle"} /\ rec' = rec
  BY DEF Steps, EvidenceBegin, record
<1>2. InStep("re_lock", copy'[p], rec')
  BY <1>1 DEF InStep, EvidenceBegin
<1> QED
  BY <1>1, <1>2, CommandStarts DEF SInv, EvidenceBegin, Admitted, TakeGuard

(* The lock of record-evidence is free when nobody else is running.        *)
LEMMA EvidenceLoadSerial ==
  ASSUME Serialized, SInv, NEW p \in Procs, EvidenceLoad(p)
  PROVE  OneCommand'
<1>1. "re_run" \in Steps \ {"idle"} /\ rec' = rec /\ pc[p] # "idle"
  BY DEF Steps, EvidenceLoad, record
<1>2. CASE Exit(p)
  BY <1>1, <1>2, CommandEnds DEF SInv
<1>3. CASE rec.state = "active" /\ Hold(p, rec) /\ Goto(p, "re_run") /\ UNCHANGED guard
  <2>1. copy'[p] = rec
    BY <1>3 DEF SInv, IInv, TypeOK, Hold
  <2>2. InStep("re_run", copy'[p], rec')
    BY <1>1, <1>3, <2>1 DEF InStep
  <2> QED
    BY <1>1, <1>3, <2>2, CommandGoes DEF SInv
<1> QED
  BY <1>2, <1>3 DEF EvidenceLoad

(* Nobody has saved since the load: the program's verdict is added to the  *)
(* record that is saved.                                                   *)
LEMMA EvidenceRanSerial ==
  ASSUME Serialized, SInv, NEW p \in Procs, NEW g \in Gate, NEW result \in Ran,
         NEW e \in EvidenceIds, EvidenceRan(p, g, result, e)
  PROVE  OneCommand'
<1> DEFINE envelope == [gate |-> g, result |-> result, head |-> HEAD, blob |-> arg[p].blob,
                        commit |-> 0, ranHead |-> arg[p].head]
           r == EvidenceAdded(rec, e, envelope)
<1>1. "save" \in Steps \ {"idle"} /\ rec' = rec /\ pc[p] = "re_run" /\ pc[p] # "idle"
  BY DEF Steps, EvidenceRan, record
<1>2. copy[p] = rec /\ rec.state = "active"
  BY <1>1 DEF SInv, OneCommand, InStep
<1>3. CASE Exit(p)
  BY <1>1, <1>3, CommandEnds DEF SInv
<1>4. CASE /\ ~(result = "passed" /\ ~PredecessorsDisposed(copy[p].gates, g))
           /\ Hold(p, r) /\ Goto(p, "save") /\ UNCHANGED <<locks, arg>>
  <2>1. envelope \in Envelope
    BY HeadProfileType DEF SInv, IInv, TypeOK, Argument, Envelope
  <2>2. rec \in Record /\ rec.items \in Items /\ rec.items[e] = NoItem
    BY DEF SInv, IInv, TypeOK, GoodRecords, Good, Fresh, EvidenceRan, Record
  <2>3. Required(rec.gates[g])
    BY <1>2 DEF EvidenceRan, SInv, TruthfulRecords, Standing
  <2>4. envelope.gate = g /\ envelope.commit = 0 /\ envelope.result = result
    OBVIOUS
  <2> HIDE DEF envelope
  <2>5. r.items[e] = envelope
    BY <2>2 DEF EvidenceAdded, Record, Items
  <2>6. Contract!RecordEvidence(rec, r, e)
    <3>1. Contract!EvidenceAdded(rec, e, r.items[e]) = r
      BY <2>5, SameRecordChanges
    <3> HIDE DEF r
    <3> QED
      BY <1>2, <1>4, <2>1, <2>2, <2>3, <2>4, <2>5, <3>1, SameLedgerOperators
         DEF Contract!RecordEvidence, Contract!Active
  <2>7. copy'[p] = r
    BY <1>4 DEF SInv, IInv, TypeOK, Hold
  <2> HIDE DEF r
  <2>8. InStep("save", copy'[p], rec')
    BY <1>1, <2>6, <2>7 DEF InStep, Contract!Works
  <2> QED
    BY <1>1, <1>4, <2>8, CommandGoes DEF SInv, locks
<1> QED
  BY <1>2, <1>3, <1>4 DEF EvidenceRan

-----------------------------------------------------------------------------
(* gate-commit                                                             *)

(* Each step of gate-commit goes on with the record it loaded.             *)
LEMMA CommitVerifySerial ==
  ASSUME Serialized, SInv, NEW p \in Procs, NEW G \in SUBSET Gate, CommitVerify(p, G)
  PROVE  OneCommand'
<1>1. "gc_add" \in Steps \ {"idle"} /\ rec' = rec
  BY DEF Steps, CommitVerify, record
<1>2. copy'[p] = rec
  BY DEF SInv, IInv, TypeOK, CommitVerify, Hold
<1>3. InStep("gc_add", copy'[p], rec')
  BY <1>1, <1>2 DEF InStep, CommitVerify, Admitted
<1> QED
  BY <1>1, <1>3, CommandStarts DEF SInv, CommitVerify, Admitted, TakeGuard

LEMMA CommitStageSerial ==
  ASSUME Serialized, SInv, NEW p \in Procs, CommitStage(p)
  PROVE  OneCommand'
<1>1. "gc_index" \in Steps \ {"idle"} /\ rec' = rec /\ pc[p] = "gc_add" /\ pc[p] # "idle"
  BY DEF Steps, CommitStage, record
<1>2. InStep("gc_index", copy[p], rec)
  BY <1>1 DEF SInv, OneCommand, InStep
<1> QED
  BY <1>1, <1>2, CommandGoes DEF SInv, CommitStage, locks

LEMMA CommitCompareSerial ==
  ASSUME Serialized, SInv, NEW p \in Procs, CommitCompare(p)
  PROVE  OneCommand'
<1>1. "gc_commit" \in Steps \ {"idle"} /\ rec' = rec /\ pc[p] = "gc_index" /\ pc[p] # "idle"
  BY DEF Steps, CommitCompare, record
<1>2. InStep("gc_commit", copy[p], rec)
  BY <1>1 DEF SInv, OneCommand, InStep
<1> QED
  BY <1>1, <1>2, CommandGoes, CommandEnds DEF SInv, CommitCompare, locks

LEMMA CommitCreateSerial ==
  ASSUME Serialized, SInv, NEW p \in Procs, CommitCreate(p)
  PROVE  OneCommand'
<1>1. "gc_bind" \in Steps \ {"idle"} /\ rec' = rec /\ pc[p] = "gc_commit" /\ pc[p] # "idle"
  BY DEF Steps, CommitCreate, record
<1>2. InStep("gc_bind", copy[p], rec)
  BY <1>1 DEF SInv, OneCommand, InStep
<1> QED
  BY <1>1, <1>2, CommandGoes, CommandEnds DEF SInv, CommitCreate, locks

(* The commit bound comes after every recorded one.                        *)
LEMMA CommitBindSerial ==
  ASSUME Serialized, SInv, NEW p \in Procs, CommitBind(p)
  PROVE  OneCommand'
<1> DEFINE G == arg[p].gates
           r == Bound(rec, G, HEAD)
<1>1. "save" \in Steps \ {"idle"} /\ rec' = rec /\ pc[p] = "gc_bind" /\ pc[p] # "idle"
  BY DEF Steps, CommitBind, record
<1>2. copy[p] = rec /\ rec.state = "active"
  BY <1>1 DEF SInv, OneCommand, InStep
<1>3. CASE Exit(p)
  BY <1>1, <1>3, CommandEnds DEF SInv
<1>4. CASE Hold(p, r) /\ Goto(p, "save") /\ UNCHANGED <<locks, arg>>
  <2>1. rec \in Record /\ rec.commits \in Seq(CommitEntry) /\ G \in SUBSET Gate /\ HEAD \in Nat
    BY HeadProfileType DEF SInv, IInv, TypeOK, Record, Argument
  <2>2. /\ \A g \in G : CommitReady(rec.gates[g])
        /\ HEAD > 0
        /\ \A i \in 1..Len(rec.commits) : rec.commits[i].id < HEAD
    BY <1>1, <1>2 DEF SInv, TruthfulRecords, Standing, HEAD
  <2>3. r.commits = Append(rec.commits, [id |-> HEAD, gates |-> G])
    BY <2>1 DEF Bound, Record
  <2>4. Contract!LastCommit(r) = HEAD
    <3>1. Len(r.commits) = Len(rec.commits) + 1 /\ Len(rec.commits) \in Nat
      BY <2>1, <2>3
    <3>2. r.commits[Len(r.commits)].id = HEAD /\ r.commits # << >>
      BY <2>1, <2>3, <3>1
    <3> QED
      BY <3>2 DEF Contract!LastCommit
  <2>5. Contract!LastCommit(r) > Contract!LastCommit(rec)
    <3>1. CASE rec.commits = << >>
      BY <2>2, <2>4, <3>1 DEF Contract!LastCommit
    <3>2. CASE rec.commits # << >>
      <4>1. Len(rec.commits) \in 1..Len(rec.commits)
        BY <2>1, <3>2
      <4>2. rec.commits[Len(rec.commits)] \in CommitEntry
        BY <2>1, <4>1
      <4>3. rec.commits[Len(rec.commits)].id \in Nat
        BY <4>2 DEF CommitEntry
      <4>4. rec.commits[Len(rec.commits)].id < HEAD
        BY <2>2, <4>1
      <4> QED
        BY <2>1, <2>4, <3>2, <4>3, <4>4 DEF Contract!LastCommit
    <3> QED
      BY <3>1, <3>2
  <2>6. r = Contract!Bound(rec, G, Contract!LastCommit(r))
    BY <2>4, SameRecordChanges
  <2>7. copy'[p] = r
    BY <1>4 DEF SInv, IInv, TypeOK, Hold
  <2> HIDE DEF r
  <2>8. Contract!Bind(rec, r, G)
    BY <1>2, <2>2, <2>5, <2>6, SameLedgerOperators DEF Contract!Bind, Contract!Active
  <2>9. InStep("save", copy'[p], rec')
    BY <1>1, <2>1, <2>7, <2>8, SameLedgerOperators DEF InStep, Contract!Works
  <2> QED
    BY <1>1, <1>4, <2>9, CommandGoes DEF SInv, locks
<1> QED
  BY <1>2, <1>3, <1>4 DEF CommitBind

-----------------------------------------------------------------------------
(* final-push and complete-local                                           *)

(* What CompletionSource checks is what the contract asks of a delivery.   *)
LEMMA SourceDeliverable ==
  ASSUME SInv, CompletionSource(rec)
  PROVE  Contract!Deliverable(rec)
<1>1. \A g \in Gate : Required(rec.gates[g]) => rec.gates[g].result = "passed" \/ rec.gates[g].exception
  BY DEF CompletionSource, DeliveryReady
<1>2. Evidenced(rec.gates, rec.items) /\ rec.reviewed
  BY DEF CompletionSource, SInv, IInv, GoodRecords, Good, Sound
<1> QED
  BY <1>1, <1>2, SameLedgerOperators DEF Contract!Deliverable

(* Each step of final-push goes on with the record it loaded, or saves an  *)
(* operation of delivery.                                                  *)
LEMMA PushLoadSerial ==
  ASSUME Serialized, SInv, NEW p \in Procs, PushLoad(p)
  PROVE  OneCommand'
<1>1. "fp_lock" \in Steps \ {"idle"} /\ rec' = rec
  BY DEF Steps, PushLoad, record
<1>2. copy'[p] = rec
  BY DEF SInv, IInv, TypeOK, PushLoad, Hold
<1>3. InStep("fp_lock", copy'[p], rec')
  BY <1>1, <1>2 DEF InStep, PushLoad, Admitted, PushStates
<1> QED
  BY <1>1, <1>3, CommandStarts DEF SInv, PushLoad, Admitted, TakeGuard

LEMMA PushLockSerial ==
  ASSUME Serialized, SInv, NEW p \in Procs, PushLock(p)
  PROVE  OneCommand'
<1>1. "fp_start" \in Steps \ {"idle"} /\ rec' = rec /\ pc[p] = "fp_lock" /\ pc[p] # "idle"
  BY DEF Steps, PushLock, record
<1>2. InStep("fp_start", copy[p], rec)
  BY <1>1 DEF SInv, OneCommand, InStep
<1> QED
  BY <1>1, <1>2, CommandGoes, CommandEnds DEF SInv, PushLock

LEMMA PushStartSerial ==
  ASSUME Serialized, SInv, NEW p \in Procs, PushStart(p)
  PROVE  OneCommand'
<1>1. "fp_ahead" \in Steps \ {"idle"} /\ rec' = rec /\ pc[p] = "fp_start" /\ pc[p] # "idle"
  BY DEF Steps, PushStart, record
<1>2. copy[p] = rec /\ rec.state \in {"active", "finalizing"}
  BY <1>1 DEF SInv, OneCommand, InStep
<1>3. CompletionSource(rec) => InStep("fp_ahead", copy[p], rec)
  BY <1>2, SourceDeliverable DEF InStep
<1>4. \/ CompletionSource(rec) /\ Goto(p, "fp_ahead") /\ UNCHANGED <<locks, copy, arg>>
      \/ Exit(p)
  BY <1>2 DEF PushStart
<1> QED
  BY <1>1, <1>3, <1>4, CommandGoes, CommandEnds DEF SInv, locks

LEMMA PushAheadSerial ==
  ASSUME Serialized, SInv, NEW p \in Procs, PushAhead(p)
  PROVE  OneCommand' /\ [Contract!Next]_rec
<1> DEFINE r == [rec EXCEPT !.state = "finalizing"]
<1>1. /\ "fp_push" \in Steps \ {"idle"} /\ "fp_verify" \in Steps \ {"idle"}
      /\ pc[p] = "fp_ahead" /\ pc[p] # "idle"
  BY DEF Steps, PushAhead
<1>2. copy[p] = rec /\ rec.state \in {"active", "finalizing"} /\ Contract!Deliverable(rec)
  BY <1>1 DEF SInv, OneCommand, InStep
<1>3. rec \in Record
  BY DEF SInv, IInv, TypeOK
<1>4. \/ rec' = r /\ Hold(p, r) /\ Goto(p, "fp_push") /\ UNCHANGED <<locks, arg>>
      \/ /\ rec.state = "finalizing"
         /\ Goto(p, "fp_verify") /\ UNCHANGED <<rec, locks, copy, arg>>
      \/ Exit(p) /\ UNCHANGED rec
  BY <1>2 DEF PushAhead, PushedBefore
<1>5. CASE rec' = r /\ Hold(p, r) /\ Goto(p, "fp_push") /\ UNCHANGED <<locks, arg>>
  <2>1. copy'[p] = r /\ r.state = "finalizing"
    BY <1>3, <1>5 DEF SInv, IInv, TypeOK, Hold, Record
  <2>2. InStep("fp_push", copy'[p], rec')
    BY <1>5, <2>1 DEF InStep
  <2>3. rec.state = "finalizing" => r = rec
    BY <1>3 DEF Record
  <2>4. rec.state = "active" => Contract!Finalize(rec, r)
    BY <1>2 DEF Contract!Finalize, Contract!Active
  <2> HIDE DEF r
  <2>5. [Contract!Next]_rec
    BY <1>2, <1>5, <2>3, <2>4 DEF Contract!Next, Contract!Delivers
  <2> QED
    BY <1>1, <1>5, <2>2, <2>5, CommandGoes DEF SInv, locks
<1>6. CASE /\ rec.state = "finalizing"
           /\ Goto(p, "fp_verify") /\ UNCHANGED <<rec, locks, copy, arg>>
  <2>1. InStep("fp_verify", copy'[p], rec')
    BY <1>2, <1>6 DEF InStep
  <2> QED
    BY <1>1, <1>6, <2>1, CommandGoes DEF SInv, locks
<1>7. CASE Exit(p) /\ UNCHANGED rec
  BY <1>1, <1>7, CommandEnds DEF SInv
<1> QED
  BY <1>4, <1>5, <1>6, <1>7

LEMMA PushSendSerial ==
  ASSUME Serialized, SInv, NEW p \in Procs, PushSend(p)
  PROVE  OneCommand'
<1>1. "fp_verify" \in Steps \ {"idle"} /\ rec' = rec /\ pc[p] = "fp_push" /\ pc[p] # "idle"
  BY DEF Steps, PushSend, record
<1>2. InStep("fp_verify", copy'[p], rec')
  BY <1>1 DEF SInv, OneCommand, InStep, PushSend
<1> QED
  BY <1>1, <1>2, CommandGoes DEF SInv, PushSend, locks

LEMMA PushFailsSerial ==
  ASSUME Serialized, SInv, NEW p \in Procs, PushFails(p)
  PROVE  OneCommand'
  BY CommandEnds DEF SInv, PushFails

LEMMA PushVerifySerial ==
  ASSUME Serialized, SInv, NEW p \in Procs, PushVerify(p)
  PROVE  OneCommand' /\ [Contract!Next]_rec
<1> DEFINE r == [rec EXCEPT !.state = "completed"]
<1>1. "fp_sync" \in Steps \ {"idle"} /\ pc[p] = "fp_verify" /\ pc[p] # "idle"
  BY DEF Steps, PushVerify
<1>2. copy[p] = rec /\ rec.state = "finalizing" /\ rec \in Record
  BY <1>1 DEF SInv, IInv, TypeOK, OneCommand, InStep
<1>3. \/ rec' = r /\ Hold(p, r) /\ Goto(p, "fp_sync") /\ UNCHANGED <<locks, arg>>
      \/ Exit(p) /\ UNCHANGED rec
  BY <1>2 DEF PushVerify
<1>4. CASE rec' = r /\ Hold(p, r) /\ Goto(p, "fp_sync") /\ UNCHANGED <<locks, arg>>
  <2>1. copy'[p] = r /\ r.state = "completed"
    BY <1>2, <1>4 DEF SInv, IInv, TypeOK, Hold, Record
  <2>2. InStep("fp_sync", copy'[p], rec')
    BY <1>4, <2>1 DEF InStep
  <2>3. Contract!Next
    BY <1>2, <1>4 DEF Contract!Complete, Contract!Delivers, Contract!Next
  <2> QED
    BY <1>1, <1>4, <2>2, <2>3, CommandGoes DEF SInv, locks
<1>5. CASE Exit(p) /\ UNCHANGED rec
  BY <1>1, <1>5, CommandEnds DEF SInv
<1> QED
  BY <1>3, <1>4, <1>5

LEMMA PushSyncSerial ==
  ASSUME Serialized, SInv, NEW p \in Procs, PushSync(p)
  PROVE  OneCommand' /\ [Contract!Next]_rec
<1> DEFINE r == [rec EXCEPT !.synced = TRUE]
<1>1. "unlink" \in Steps \ {"idle"} /\ pc[p] = "fp_sync" /\ pc[p] # "idle"
  BY DEF Steps, PushSync
<1>2. copy[p] = rec /\ rec.state = "completed" /\ rec \in Record
  BY <1>1 DEF SInv, IInv, TypeOK, OneCommand, InStep
<1>3. rec' = r /\ Hold(p, r) /\ Goto(p, "unlink") /\ UNCHANGED <<locks, arg>>
  BY <1>2 DEF PushSync
<1>4. copy'[p] = r /\ r.state = "completed"
  BY <1>2, <1>3 DEF SInv, IInv, TypeOK, Hold, Record
<1>5. InStep("unlink", copy'[p], rec')
  BY <1>3, <1>4 DEF InStep
<1>6. Contract!Next
  BY <1>2, <1>3 DEF Contract!SyncSource, Contract!Delivers, Contract!Next
<1> QED
  BY <1>1, <1>3, <1>5, <1>6, CommandGoes DEF SInv, locks

LEMMA UnlinkSerial ==
  ASSUME Serialized, SInv, NEW p \in Procs, Unlink(p)
  PROVE  OneCommand'
  BY CommandEnds DEF SInv, Unlink

LEMMA LocalVerifySerial ==
  ASSUME Serialized, SInv, NEW p \in Procs, LocalVerify(p)
  PROVE  OneCommand'
<1>1. /\ "cl_ahead" \in Steps \ {"idle"} /\ Goto(p, "cl_ahead")
      /\ rec' = rec /\ guard = NoProc /\ guard' = p
      /\ rec.state \in {"active", "completed"}
  BY DEF Steps, LocalVerify, record, Admitted
<1>2. Contract!Deliverable(rec)
  BY SourceDeliverable DEF LocalVerify
<1>3. copy'[p] = rec
  BY DEF LocalVerify, SInv, IInv, TypeOK, Hold
<1>4. InStep("cl_ahead", copy'[p], rec')
  BY <1>1, <1>2, <1>3 DEF InStep
<1> QED
  BY <1>1, <1>4, CommandStarts DEF SInv

LEMMA LocalAheadSerial ==
  ASSUME Serialized, SInv, NEW p \in Procs, LocalAhead(p)
  PROVE  OneCommand'
<1>1. "cl_head" \in Steps \ {"idle"} /\ rec' = rec /\ pc[p] = "cl_ahead" /\ pc[p] # "idle"
  BY DEF Steps, LocalAhead, record
<1>2. InStep("cl_head", copy[p], rec)
  BY <1>1 DEF SInv, OneCommand, InStep
<1> QED
  BY <1>1, <1>2, CommandGoes, CommandEnds DEF SInv, LocalAhead, locks

LEMMA LocalHeadSerial ==
  ASSUME Serialized, SInv, NEW p \in Procs, LocalHead(p)
  PROVE  OneCommand'
<1> DEFINE r == LocallyCompleted(rec, HEAD)
<1>1. /\ "unlink" \in Steps \ {"idle"} /\ "cl_save" \in Steps \ {"idle"}
      /\ rec' = rec /\ pc[p] = "cl_head" /\ pc[p] # "idle"
  BY DEF Steps, LocalHead, record
<1>2. /\ copy[p] = rec /\ rec.state \in {"active", "completed"} /\ Contract!Deliverable(rec)
      /\ rec \in Record /\ HEAD \in Nat
  BY <1>1, HeadProfileType DEF SInv, IInv, TypeOK, OneCommand, InStep
<1>3. \/ rec.state = "active" /\ Hold(p, r) /\ Goto(p, "cl_save") /\ UNCHANGED <<locks, arg>>
      \/ rec.state = "completed" /\ Goto(p, "unlink") /\ UNCHANGED <<locks, copy, arg>>
      \/ Exit(p)
  BY <1>2 DEF LocalHead
<1>4. CASE rec.state = "active" /\ Hold(p, r) /\ Goto(p, "cl_save") /\ UNCHANGED <<locks, arg>>
  <2>1. copy'[p] = r
    BY <1>4 DEF SInv, IInv, TypeOK, Hold
  <2>2. r.tip = HEAD
    BY <1>2 DEF LocallyCompleted, Record
  <2>3. Contract!CompleteLocally(rec, r)
    BY <1>2, <1>4, <2>2 DEF Contract!CompleteLocally, Contract!Active, LocallyCompleted
  <2> HIDE DEF r
  <2>4. InStep("cl_save", copy'[p], rec')
    BY <1>1, <2>1, <2>3 DEF InStep
  <2> QED
    BY <1>1, <1>4, <2>4, CommandGoes DEF SInv, locks
<1>5. CASE rec.state = "completed" /\ Goto(p, "unlink") /\ UNCHANGED <<locks, copy, arg>>
  <2>1. InStep("unlink", copy'[p], rec')
    BY <1>1, <1>2, <1>5 DEF InStep
  <2> QED
    BY <1>1, <1>5, <2>1, CommandGoes DEF SInv, locks
<1>6. CASE Exit(p)
  BY <1>1, <1>6, CommandEnds DEF SInv
<1> QED
  BY <1>3, <1>4, <1>5, <1>6

LEMMA LocalCompleteSerial ==
  ASSUME Serialized, SInv, NEW p \in Procs, LocalComplete(p)
  PROVE  OneCommand' /\ [Contract!Next]_rec
<1>1. "unlink" \in Steps \ {"idle"} /\ pc[p] = "cl_save" /\ pc[p] # "idle"
  BY DEF Steps, LocalComplete
<1>2. Contract!CompleteLocally(rec, copy[p]) /\ rec \in Record
  BY <1>1 DEF SInv, IInv, TypeOK, OneCommand, InStep
<1>3. CASE rec' = copy[p] /\ Goto(p, "unlink") /\ UNCHANGED <<locks, copy, arg>>
  <2>1. copy[p].state = "completed"
    BY <1>2 DEF Contract!CompleteLocally, Record
  <2>2. InStep("unlink", copy'[p], rec')
    BY <1>3, <2>1 DEF InStep
  <2>3. Contract!Next
    BY <1>2, <1>3 DEF Contract!Delivers, Contract!Next
  <2> QED
    BY <1>1, <1>3, <2>2, <2>3, CommandGoes DEF SInv, locks
<1>4. CASE Exit(p) /\ UNCHANGED rec
  BY <1>1, <1>4, CommandEnds DEF SInv
<1> QED
  BY <1>3, <1>4 DEF LocalComplete

(* Nothing else touches a command.                                         *)
LEMMA OutsideSerial ==
  ASSUME SInv, UNCHANGED <<rec, guard, pc, copy>>
  PROVE  OneCommand'
  BY DEF SInv, OneCommand

-----------------------------------------------------------------------------
(* The theorems                                                            *)

LEMMA InitSerial == Init => OneCommand
  BY IdleInStep, ProcsAssumption DEF Init, OneCommand

(* A step of a command leaves the record, but for the saves.               *)
LEMMA StartsSerial ==
  ASSUME Serialized, SInv, NEW p \in Procs, Starts(p)
  PROVE  OneCommand' /\ UNCHANGED rec
<1>1. OneCommand'
  BY SetGateSerial, SetApplicabilitySerial, ApproveExceptionSerial,
     UpdatePlanSerial, ReviewArtifactSerial, EvidenceBeginSerial,
     CommitVerifySerial, PushLoadSerial, LocalVerifySerial
     DEF Starts
<1>2. UNCHANGED rec
  BY DEF Starts, SetGate, SetApplicability, ApproveException, UpdatePlan, ReviewArtifact,
         Prepare, EvidenceBegin, CommitVerify, PushLoad, LocalVerify, record
<1> QED
  BY <1>1, <1>2

(* The other steps save an operation of the contract or leave the record.  *)
LEMMA ContinuesSerial ==
  ASSUME Serialized, SInv, NEW p \in Procs, Continues(p)
  PROVE  OneCommand' /\ [Contract!Next]_rec
<1>1. CASE Save(p)
  BY <1>1, SaveSerial
<1>2. CASE PushAhead(p) \/ PushVerify(p) \/ PushSync(p) \/ LocalComplete(p)
  BY <1>2, PushAheadSerial, PushVerifySerial, PushSyncSerial, LocalCompleteSerial
<1>3. CASE EvidenceLoad(p) \/ \E g \in Gate, result \in Ran, e \in EvidenceIds :
                                 EvidenceRan(p, g, result, e)
  BY <1>3, EvidenceLoadSerial, EvidenceRanSerial DEF EvidenceLoad, EvidenceRan, record
<1>4. CASE CommitStage(p) \/ CommitCompare(p) \/ CommitCreate(p) \/ CommitBind(p)
  BY <1>4, CommitStageSerial, CommitCompareSerial, CommitCreateSerial, CommitBindSerial
     DEF CommitStage, CommitCompare, CommitCreate, CommitBind, record
<1>5. CASE PushLock(p) \/ PushStart(p) \/ PushSend(p) \/ Unlink(p)
  BY <1>5, PushLockSerial, PushStartSerial, PushSendSerial, UnlinkSerial
     DEF PushLock, PushStart, PushSend, Unlink, record
<1>6. CASE AdoptCommits(p) \/ LocalAhead(p) \/ LocalHead(p)
  BY <1>6, AdoptCommitsSerial, LocalAheadSerial, LocalHeadSerial
     DEF AdoptCommits, LocalAhead, LocalHead, record
<1> QED
  BY <1>1, <1>2, <1>3, <1>4, <1>5, <1>6 DEF Continues

(* Every step of the system is a step of the contract or leaves the        *)
(* record.                                                                 *)
LEMMA NextSerial ==
  ASSUME Serialized, SInv, [Next]_vars
  PROVE  OneCommand' /\ [Contract!Next]_rec
<1>1. ASSUME NEW p \in Procs, PushFails(p) \/ Crash(p)
      PROVE  OneCommand' /\ UNCHANGED rec
  BY <1>1, PushFailsSerial, CrashSerial DEF PushFails, Crash, record
<1>2. ASSUME Environment \/ UNCHANGED vars
      PROVE  OneCommand' /\ UNCHANGED rec
  BY <1>2, OutsideSerial
     DEF Environment, Edit, Unstage, CommitProfile, record, locks, helpers, vars
<1> QED
  BY <1>1, <1>2, StartsSerial, ContinuesSerial DEF Next

(* The inductive invariant holds of every serialized behaviour.            *)
LEMMA SerialInvariance ==
  ASSUME Serialized
  PROVE  Spec => []SInv
<1>1. Init => SInv
  BY InitIInv, InitTruthful, InitSerial DEF SInv
<1>2. SInv /\ [Next]_vars => SInv'
  BY NextIInv, NextTruthful, NextSerial DEF SInv
<1> QED
  BY <1>1, <1>2, PTL DEF Spec

(* Serialized commands implement CycleContract: whatever crashes and       *)
(* whatever is committed beside them, a reader of the saved record sees    *)
(* one lifecycle operation after another, each applied to the version      *)
(* before it. (Without the guard this is false: two commands load the same *)
(* version.)                                                               *)
THEOREM ContractKept == Serialized => (Spec => ImplementsContract)
<1> SUFFICES ASSUME Serialized PROVE Spec => ImplementsContract
  OBVIOUS
<1>1. Init => Contract!Init
  BY SameRecordChanges DEF Init, Contract!Init
<1>2. SInv /\ [Next]_vars => [Contract!Next]_rec
  BY NextSerial
<1> QED
  BY <1>1, <1>2, SerialInvariance, PTL DEF Spec, ImplementsContract, Contract!Spec

-----------------------------------------------------------------------------
(* What the contract promises of its steps                                 *)

(* Only an active cycle is worked on.                                      *)
LEMMA WorksActive ==
  ASSUME NEW r \in Record, NEW s, Contract!Works(r, s)
  PROVE  r.state = "active"
  BY DEF Contract!Works, Contract!RecordEvidence, Contract!SetGate, Contract!ApproveException,
         Contract!TightenPlan, Contract!Review, Contract!Bind, Contract!Active

(* No operation drops an evidence item: an envelope is only replaced by    *)
(* itself with the commit it is bound to.                                  *)
LEMMA WorksRetain ==
  ASSUME NEW r \in Record, NEW s, Contract!Works(r, s),
         NEW e \in EvidenceIds, r.items[e] # NoItem
  PROVE  s.items[e] # NoItem /\ r.state = "active"
<1>1. CASE \E i \in EvidenceIds : Contract!RecordEvidence(r, s, i)
  <2>1. PICK i \in EvidenceIds : Contract!RecordEvidence(r, s, i)
    BY <1>1
  <2>2. r.items[i] = NoItem /\ s = EvidenceAdded(r, i, s.items[i])
    BY <2>1, SameRecordChanges, SameLedgerOperators DEF Contract!RecordEvidence
  <2>3. s.items = [r.items EXCEPT ![i] = s.items[i]] /\ e # i
    BY <2>2 DEF EvidenceAdded, Record
  <2>4. s.items[e] = r.items[e]
    BY <2>3 DEF Record, Items
  <2> QED
    BY <2>1, <2>4 DEF Contract!RecordEvidence, Contract!Active
<1>2. CASE \E G \in SUBSET Contract!Gate : Contract!Bind(r, s, G)
  <2>1. PICK G \in SUBSET Contract!Gate : Contract!Bind(r, s, G)
    BY <1>2
  <2>2. s = Bound(r, G, Contract!LastCommit(s)) /\ r.state = "active"
    BY <2>1, SameRecordChanges DEF Contract!Bind, Contract!Active
  <2>3. r.items[e] \in Envelope
    BY DEF Record, Items
  <2>4. s.items[e].gate = r.items[e].gate
    <3> DEFINE m == Contract!LastCommit(s)
               B == {r.gates[g].evidence : g \in G} \ {NoEvidence}
    <3> HIDE DEF m
    <3>1. s.items[e] = IF e \in B /\ r.items[e] # NoItem
                       THEN [r.items[e] EXCEPT !.commit = m] ELSE r.items[e]
      <4>1. s = Bound(r, G, m)
        BY <2>2 DEF m
      <4> QED
        BY <4>1 DEF Bound, Record
    <3> HIDE DEF B
    <3> QED
      BY <2>3, <3>1 DEF Envelope
  <2>5. r.items[e].gate # 0
    BY <2>3, NGatesAssumption DEF Envelope, Gate
  <2> QED
    BY <2>2, <2>4, <2>5 DEF NoItem
<1>3. CASE /\ ~\E i \in EvidenceIds : Contract!RecordEvidence(r, s, i)
           /\ ~\E G \in SUBSET Contract!Gate : Contract!Bind(r, s, G)
  <2>1. /\ \A gates, profile, commits :
              [r EXCEPT !.gates = gates, !.profile = profile, !.commits = commits].items = r.items
        /\ \A gates : [r EXCEPT !.gates = gates].items = r.items
        /\ [r EXCEPT !.reviewed = TRUE].items = r.items
    BY DEF Record
  <2>2. ASSUME NEW S, Contract!TightenPlan(r, s, S) PROVE s.items = r.items
    <3> DEFINE gates == Contract!Tighten(r.gates, S)
               profile == s.profile
               commits == s.commits
    <3> HIDE DEF gates, profile, commits
    <3>1. s = [r EXCEPT !.gates = gates, !.profile = profile, !.commits = commits]
      BY <2>2 DEF Contract!TightenPlan, gates, profile, commits
    <3> QED
      BY <2>1, <3>1
  <2>3. s.items = r.items
    BY <1>3, <2>1, <2>2 DEF Contract!Works, Contract!SetGate, Contract!ApproveException,
                            Contract!Review
  <2> QED
    BY <2>3, WorksActive
<1> QED
  BY <1>1, <1>2, <1>3

(* Delivery drops no evidence and only goes forward.                       *)
LEMMA DeliversKeeps ==
  ASSUME NEW r \in Record, NEW s, Contract!Delivers(r, s)
  PROVE  /\ s.items = r.items
         /\ r.state = "completed" => s = [r EXCEPT !.synced = TRUE]
         /\ r.state = "finalizing" => s.state = "completed"
  BY DEF Contract!Delivers, Contract!Finalize, Contract!Complete, Contract!CompleteLocally,
         Contract!SyncSource, Contract!Active, Record

(* An evidence item, once saved, is never lost to another command's save.  *)
THEOREM EvidenceStays == Serialized => (Spec => EvidenceRetained)
<1> SUFFICES ASSUME Serialized PROVE Spec => EvidenceRetained
  OBVIOUS
<1>1. SInv /\ [Next]_vars
        => [\A e \in EvidenceIds : rec.items[e] # NoItem => rec'.items[e] # NoItem]_vars
  BY NextSerial, WorksRetain, DeliversKeeps DEF Contract!Next, SInv, IInv, TypeOK
<1> QED
  BY <1>1, SerialInvariance, PTL DEF Spec, EvidenceRetained

(* A completed record is final but for its source_sync outcome.            *)
THEOREM CompletedStays == Serialized => (Spec => CompletedIsFinal)
<1> SUFFICES ASSUME Serialized PROVE Spec => CompletedIsFinal
  OBVIOUS
<1>1. SInv /\ [Next]_vars
        => [rec.state = "completed" => rec' \in {rec, [rec EXCEPT !.synced = TRUE]}]_vars
  BY NextSerial, WorksActive, DeliversKeeps DEF Contract!Next, SInv, IInv, TypeOK
<1> QED
  BY <1>1, SerialInvariance, PTL DEF Spec, CompletedIsFinal

(* A cycle whose delivery has begun is never active again.                 *)
THEOREM FinalizingStays == Serialized => (Spec => FinalizingNeverReopens)
<1> SUFFICES ASSUME Serialized PROVE Spec => FinalizingNeverReopens
  OBVIOUS
<1>1. SInv /\ [Next]_vars => [rec.state = "finalizing" => rec'.state # "active"]_vars
  BY NextSerial, WorksActive, DeliversKeeps DEF Contract!Next, SInv, IInv, TypeOK
<1> QED
  BY <1>1, SerialInvariance, PTL DEF Spec, FinalizingNeverReopens

-----------------------------------------------------------------------------
(* What is delivered, when nobody commits beside the commands              *)

(* Commands one at a time, and nobody commits a changed Engineering        *)
(* Profile beside them. With such commits both properties below fail: one  *)
(* made between the comparison of the commits ahead and the push is pushed *)
(* unrecorded, and one made while a program runs is the HEAD its evidence  *)
(* names.                                                                  *)
Undisturbed == Serialized /\ Profiles = {BirthProfile}

(* The record lists all n commits of the branch.                           *)
Exact(r, n) == RecordedIds(r) = Lineage(1, n)

(* Every required gate of r passed or is excepted, on matching evidence    *)
(* that is bound to a commit made for it or ran at commit n.               *)
OnEvidence(r, n) ==
  \A g \in Gate : Required(r.gates[g]) =>
    /\ r.gates[g].result = "passed" \/ r.gates[g].exception
    /\ EnvelopeMatches(r.gates, r.items, g)
    /\ LET item == r.items[r.gates[g].evidence]
       IN  \/ item.commit = 0 /\ item.ranHead = n
           \/ BoundFor(r, g, item)

(* No commit was made while the program of an evidence item ran.           *)
RanAtHead(r) == \A e \in EvidenceIds : r.items[e].ranHead = r.items[e].head

(* What a saved record, the pushed commits and the branch's length have to *)
(* do with one another: nothing is pushed of an active cycle; once it is   *)
(* not active the branch is what the record lists, evidenced, and pushed   *)
(* as a whole or not at all.                                               *)
Settled(r, pushed, n) ==
  /\ RanAtHead(r)
  /\ r.state = "active" => pushed = 0
  /\ r.state # "active" => Exact(r, n) /\ OnEvidence(r, n) /\ pushed \in {0, n}
  /\ r.state = "completed" /\ ~LocalOnly => pushed = n

(* What a helper that checked the branch relies on until it saves.         *)
Pending(step, a, r, n) ==
  /\ step = "re_run" => a.head = n
  /\ step = "fp_ahead" => OnEvidence(r, n)
  /\ step = "cl_ahead" => LocalOnly /\ OnEvidence(r, n)
  /\ step \in {"cl_head", "cl_save"} => LocalOnly /\ OnEvidence(r, n) /\ Exact(r, n)

(* The saved record is settled, and every helper can rely on its checks.   *)
Deliveries ==
  /\ Settled(rec, remote, Len(log))
  /\ \A p \in Procs : RanAtHead(copy[p]) /\ Pending(pc[p], arg[p], rec, Len(log))

(* The inductive invariant of undisturbed behaviours.                      *)
DInv == SInv /\ Deliveries

(* An idle helper relies on nothing.                                       *)
LEMMA IdlePending == \A a, r, n : Pending("idle", a, r, n)
  BY DEF Pending

(* A cycle starts without evidence.                                        *)
LEMMA BornRanAtHead == \A skipped : RanAtHead(Born(skipped))
  BY DEF Born, NoItems, NoItem, RanAtHead

(* The guard's holder moves, the others are idle.                          *)
LEMMA HolderMoves ==
  ASSUME DInv, NEW p \in Procs, pc[p] # "idle" \/ guard = NoProc,
         \A q \in Procs : q # p => pc'[q] = pc[q] /\ copy'[q] = copy[q],
         RanAtHead(copy'[p]), Pending(pc'[p], arg'[p], rec', Len(log')),
         Settled(rec', remote', Len(log'))
  PROVE  Deliveries'
<1>1. \A q \in Procs : q # p => pc'[q] = "idle"
  BY Alone DEF DInv, SInv
<1>2. \A q \in Procs : RanAtHead(copy'[q]) /\ Pending(pc'[q], arg'[q], rec', Len(log'))
  BY <1>1, IdlePending DEF DInv, Deliveries
<1> QED
  BY <1>2 DEF Deliveries

(* The holder ends, leaving a settled record;                              *)
LEMMA ExitDelivers ==
  ASSUME DInv, NEW p \in Procs, pc[p] # "idle", Exit(p), Settled(rec', remote', Len(log'))
  PROVE  Deliveries'
<1>1. /\ pc'[p] = "idle" /\ copy'[p] = NoCopy
      /\ \A q \in Procs : q # p => pc'[q] = pc[q] /\ copy'[q] = copy[q]
  BY DEF DInv, SInv, IInv, TypeOK, Exit
<1>2. RanAtHead(NoCopy)
  BY BornRanAtHead DEF NoCopy
<1> QED
  BY <1>1, <1>2, HolderMoves, IdlePending

(* ends without a save;                                                    *)
LEMMA QuietExitDelivers ==
  ASSUME DInv, NEW p \in Procs, pc[p] # "idle", Exit(p), UNCHANGED <<rec, remote, log>>
  PROVE  Deliveries'
  BY ExitDelivers DEF DInv, Deliveries

(* goes on with another copy;                                              *)
LEMMA HoldDelivers ==
  ASSUME DInv, NEW p \in Procs, pc[p] # "idle" \/ guard = NoProc,
         NEW r, Hold(p, r), RanAtHead(r), NEW step, Goto(p, step),
         Pending(step, arg'[p], rec', Len(log')), Settled(rec', remote', Len(log'))
  PROVE  Deliveries'
<1>1. /\ pc'[p] = step /\ copy'[p] = r
      /\ \A q \in Procs : q # p => pc'[q] = pc[q] /\ copy'[q] = copy[q]
  BY DEF DInv, SInv, IInv, TypeOK, Hold, Goto
<1> QED
  BY <1>1, HolderMoves

(* or goes on with the copy it has.                                        *)
LEMMA GotoDelivers ==
  ASSUME DInv, NEW p \in Procs, pc[p] # "idle", UNCHANGED copy, NEW step, Goto(p, step),
         Pending(step, arg'[p], rec', Len(log')), Settled(rec', remote', Len(log'))
  PROVE  Deliveries'
<1>1. Hold(p, copy[p]) /\ RanAtHead(copy[p])
  BY DEF DInv, SInv, IInv, TypeOK, Hold, Deliveries
<1> QED
  BY <1>1, HoldDelivers

(* A command that prepares a copy with the items of the record.            *)
LEMMA PrepareDelivers ==
  ASSUME DInv, NEW p \in Procs, NEW r, Prepare(p, r), guard = NoProc, r.items = rec.items
  PROVE  Deliveries'
<1>1. UNCHANGED <<rec, remote, log>> /\ Hold(p, r) /\ Goto(p, "save")
  BY DEF Prepare, record, source
<1>2. RanAtHead(r)
  BY DEF DInv, Deliveries, Settled, RanAtHead
<1>3. Pending("save", arg'[p], rec', Len(log'))
  BY DEF Pending
<1> QED
  BY <1>1, <1>2, <1>3, HoldDelivers DEF DInv, Deliveries

-----------------------------------------------------------------------------
(* Commands that prepare, saves, evidence and commits                      *)

(* The commands that prepare a change of the ledger, plan or review.       *)
LEMMA ChangesDeliver ==
  ASSUME DInv, Serialized, NEW p \in Procs,
         \/ \E g \in Gate, result \in Results, e \in EvidenceIds \cup {NoEvidence} :
               SetGate(p, g, result, e)
         \/ \E g \in Gate : SetApplicability(p, g) \/ ApproveException(p, g)
         \/ \E S \in SUBSET Optional : UpdatePlan(p, S)
         \/ ReviewArtifact(p)
  PROVE  Deliveries'
<1>1. /\ \A gates, profile, commits :
            [rec EXCEPT !.gates = gates, !.profile = profile, !.commits = commits].items = rec.items
      /\ \A gates : [rec EXCEPT !.gates = gates].items = rec.items
      /\ [rec EXCEPT !.reviewed = TRUE].items = rec.items
  BY DEF DInv, SInv, IInv, TypeOK, Record
<1>2. guard = NoProc
  BY DEF SetGate, SetApplicability, ApproveException, UpdatePlan, ReviewArtifact, Admitted
<1>3. ASSUME NEW gates, Prepare(p, [rec EXCEPT !.gates = gates]) PROVE Deliveries'
  <2> DEFINE r == [rec EXCEPT !.gates = gates]
  <2>1. r.items = rec.items /\ Prepare(p, r)
    BY <1>1, <1>3
  <2> HIDE DEF r
  <2> QED
    BY <1>2, <2>1, PrepareDelivers
<1>4. ASSUME NEW g \in Gate, SetApplicability(p, g) \/ ApproveException(p, g)
      PROVE  Deliveries'
  BY <1>3, <1>4 DEF SetApplicability, ApproveException
<1>5. ASSUME NEW g \in Gate, NEW result \in Results, NEW e \in EvidenceIds \cup {NoEvidence},
             SetGate(p, g, result, e)
      PROVE  Deliveries'
  BY <1>3, <1>5 DEF SetGate
<1>6. ASSUME NEW S \in SUBSET Optional, UpdatePlan(p, S) PROVE Deliveries'
  <2> DEFINE r == [rec EXCEPT !.gates = Tighten(@, S), !.profile = HeadProfile]
  <2>1. /\ r.items = rec.items /\ Hold(p, r) /\ Goto(p, "up_adopt")
        /\ UNCHANGED <<rec, remote, log>>
    BY <1>1, <1>6 DEF UpdatePlan, record, source, DInv, SInv, IInv, TypeOK, Record
  <2> HIDE DEF r
  <2>2. RanAtHead(r)
    BY <2>1 DEF DInv, Deliveries, Settled, RanAtHead
  <2>3. Pending("up_adopt", arg'[p], rec', Len(log'))
    BY DEF Pending
  <2> QED
    BY <1>2, <2>1, <2>2, <2>3, HoldDelivers DEF DInv, Deliveries
<1>7. CASE ReviewArtifact(p)
  <2> DEFINE r == [rec EXCEPT !.reviewed = TRUE]
  <2>1. r.items = rec.items /\ Prepare(p, r)
    BY <1>1, <1>7 DEF ReviewArtifact
  <2> HIDE DEF r
  <2> QED
    BY <1>2, <2>1, PrepareDelivers
<1> QED
  BY <1>4, <1>5, <1>6, <1>7

(* Adopting commits changes no evidence.                                   *)
LEMMA AdoptCommitsDelivers ==
  ASSUME Serialized, DInv, NEW p \in Procs, AdoptCommits(p)
  PROVE  Deliveries'
<1> DEFINE commits == Adopted(copy[p])
           r == [copy[p] EXCEPT !.commits = commits]
<1>1. UNCHANGED <<rec, remote, log>> /\ pc[p] # "idle"
  BY DEF AdoptCommits, record, source
<1>2. CASE Exit(p)
  BY <1>1, <1>2, QuietExitDelivers
<1>3. CASE Hold(p, r) /\ Goto(p, "save")
  <2>1. copy[p] \in Record /\ RanAtHead(copy[p])
    BY DEF DInv, SInv, IInv, TypeOK, Deliveries
  <2> HIDE DEF commits
  <2>2. r.items = copy[p].items
    BY <2>1 DEF Record
  <2> HIDE DEF r
  <2>3. RanAtHead(r)
    BY <2>1, <2>2 DEF RanAtHead
  <2>4. Pending("save", arg'[p], rec', Len(log'))
    BY DEF Pending
  <2> QED
    BY <1>1, <1>3, <2>3, <2>4, HoldDelivers DEF DInv, Deliveries
<1> QED
  BY <1>2, <1>3 DEF AdoptCommits

(* What helpers save between start and delivery leaves the cycle active.   *)
LEMMA WorksStaysActive ==
  ASSUME NEW r \in Record, NEW s, Contract!Works(r, s)
  PROVE  s.state = "active"
<1>1. /\ \A gates, profile, commits :
            [r EXCEPT !.gates = gates, !.profile = profile, !.commits = commits].state = r.state
      /\ \A gates : [r EXCEPT !.gates = gates].state = r.state
      /\ [r EXCEPT !.reviewed = TRUE].state = r.state
  BY DEF Record
<1>2. \A e, envelope : EvidenceAdded(r, e, envelope).state = r.state
  BY DEF EvidenceAdded, Record
<1>3. \A G, commit : Bound(r, G, commit).state = r.state
  BY DEF Bound, Record
<1>4. ASSUME NEW S, Contract!TightenPlan(r, s, S) PROVE s.state = r.state
  <2> DEFINE gates == Contract!Tighten(r.gates, S)
             profile == s.profile
             commits == s.commits
  <2> HIDE DEF gates, profile, commits
  <2>1. s = [r EXCEPT !.gates = gates, !.profile = profile, !.commits = commits]
    BY <1>4 DEF Contract!TightenPlan, gates, profile, commits
  <2> QED
    BY <1>1, <2>1
<1>5. ASSUME NEW e, Contract!RecordEvidence(r, s, e) PROVE s.state = r.state
  <2> DEFINE envelope == s.items[e]
  <2> HIDE DEF envelope
  <2>1. s = EvidenceAdded(r, e, envelope)
    BY <1>5, SameRecordChanges DEF Contract!RecordEvidence, envelope
  <2> QED
    BY <1>2, <2>1
<1>6. ASSUME NEW G, Contract!Bind(r, s, G) PROVE s.state = r.state
  <2> DEFINE last == Contract!LastCommit(s)
  <2> HIDE DEF last
  <2>1. s = Bound(r, G, last)
    BY <1>6, SameRecordChanges DEF Contract!Bind, last
  <2> QED
    BY <1>3, <2>1
<1>7. ASSUME NEW g, NEW result, NEW e,
             \/ Contract!SetGate(r, s, g, result, e)
             \/ Contract!ApproveException(r, s, g)
             \/ Contract!Review(r, s)
      PROVE  s.state = r.state
  BY <1>1, <1>7 DEF Contract!SetGate, Contract!ApproveException, Contract!Review
<1>8. s.state = r.state
  BY <1>4, <1>5, <1>6, <1>7 DEF Contract!Works
<1> QED
  BY <1>8, WorksActive

(* A save leaves the cycle active, so nothing is claimed delivered.        *)
LEMMA SaveDelivers ==
  ASSUME Serialized, DInv, NEW p \in Procs, Save(p)
  PROVE  Deliveries'
<1>1. rec \in Record /\ Contract!Works(rec, copy[p]) /\ RanAtHead(copy[p])
  BY DEF Save, DInv, SInv, IInv, TypeOK, OneCommand, InStep, Deliveries
<1>2. rec.state = "active" /\ copy[p].state = "active"
  BY <1>1, WorksActive, WorksStaysActive
<1>3. pc[p] # "idle" /\ Exit(p) /\ rec' = copy[p] /\ UNCHANGED <<remote, log>>
  BY DEF Save, source
<1>4. Settled(rec', remote', Len(log'))
  BY <1>1, <1>2, <1>3 DEF DInv, Deliveries, Settled
<1> QED
  BY <1>3, <1>4, ExitDelivers

(* record-evidence: the HEAD read at its start is the HEAD of its end.     *)
LEMMA EvidenceBeginDelivers ==
  ASSUME Serialized, DInv, NEW p \in Procs, NEW g \in Gate, NEW blob,
         EvidenceBegin(p, g, blob)
  PROVE  Deliveries'
<1>1. UNCHANGED <<rec, remote, log>> /\ guard = NoProc /\ Hold(p, copy[p])
  BY DEF EvidenceBegin, Admitted, record, source, DInv, SInv, IInv, TypeOK, Hold
<1>2. Pending("re_lock", arg'[p], rec', Len(log'))
  BY DEF Pending
<1> QED
  BY <1>1, <1>2, HoldDelivers DEF EvidenceBegin, DInv, Deliveries

LEMMA EvidenceLoadDelivers ==
  ASSUME Serialized, DInv, NEW p \in Procs, EvidenceLoad(p)
  PROVE  Deliveries'
<1>1. UNCHANGED <<rec, remote, log>> /\ pc[p] # "idle"
  BY DEF EvidenceLoad, record, source
<1>2. CASE Exit(p)
  BY <1>1, <1>2, QuietExitDelivers
<1>3. CASE Hold(p, rec) /\ arg' = [arg EXCEPT ![p].head = HEAD] /\ Goto(p, "re_run")
  <2>1. arg'[p].head = Len(log')
    BY <1>1, <1>3 DEF DInv, SInv, IInv, TypeOK, Argument, HEAD
  <2>2. Pending("re_run", arg'[p], rec', Len(log')) /\ RanAtHead(rec)
    BY <2>1 DEF Pending, DInv, Deliveries, Settled
  <2> QED
    BY <1>1, <1>3, <2>2, HoldDelivers DEF DInv, Deliveries
<1> QED
  BY <1>2, <1>3 DEF EvidenceLoad

(* The HEAD stored is the one the program was started at.                  *)
LEMMA EvidenceRanDelivers ==
  ASSUME Serialized, DInv, NEW p \in Procs, NEW g \in Gate, NEW result \in Ran,
         NEW e \in EvidenceIds, EvidenceRan(p, g, result, e)
  PROVE  Deliveries'
<1> DEFINE envelope == [gate |-> g, result |-> result, head |-> HEAD, blob |-> arg[p].blob,
                        commit |-> 0, ranHead |-> arg[p].head]
           r == EvidenceAdded(copy[p], e, envelope)
<1>1. UNCHANGED <<rec, remote, log>> /\ pc[p] # "idle" /\ pc[p] = "re_run"
  BY DEF EvidenceRan, record, source
<1>2. CASE Exit(p)
  BY <1>1, <1>2, QuietExitDelivers
<1>3. CASE Hold(p, r) /\ Goto(p, "save")
  <2>1. envelope.ranHead = envelope.head
    BY <1>1 DEF DInv, Deliveries, Pending, HEAD
  <2>2. copy[p] \in Record /\ copy[p].items \in Items /\ RanAtHead(copy[p])
    BY DEF DInv, SInv, IInv, TypeOK, Deliveries, Record
  <2> HIDE DEF envelope
  <2>3. r.items = [copy[p].items EXCEPT ![e] = envelope]
    BY <2>2 DEF EvidenceAdded, Record
  <2>4. RanAtHead(r)
    BY <2>1, <2>2, <2>3 DEF RanAtHead, Items
  <2>5. Pending("save", arg'[p], rec', Len(log'))
    BY DEF Pending
  <2> HIDE DEF r
  <2> QED
    BY <1>1, <1>3, <2>4, <2>5, HoldDelivers DEF DInv, Deliveries
<1> QED
  BY <1>2, <1>3 DEF EvidenceRan

(* gate-commit.                                                            *)
LEMMA CommitVerifyDelivers ==
  ASSUME Serialized, DInv, NEW p \in Procs, NEW G, CommitVerify(p, G)
  PROVE  Deliveries'
<1>1. UNCHANGED <<rec, remote, log>> /\ guard = NoProc
  BY DEF CommitVerify, Admitted, record, source
<1>2. Pending("gc_add", arg'[p], rec', Len(log')) /\ RanAtHead(rec)
  BY DEF Pending, DInv, Deliveries, Settled
<1> QED
  BY <1>1, <1>2, HoldDelivers DEF CommitVerify, DInv, Deliveries

LEMMA CommitStageDelivers ==
  ASSUME Serialized, DInv, NEW p \in Procs, CommitStage(p)
  PROVE  Deliveries'
<1>1. UNCHANGED <<rec, remote, log>> /\ pc[p] # "idle"
  BY DEF CommitStage, record
<1>2. Pending("gc_index", arg'[p], rec', Len(log'))
  BY DEF Pending
<1> QED
  BY <1>1, <1>2, GotoDelivers DEF CommitStage, DInv, Deliveries

LEMMA CommitCompareDelivers ==
  ASSUME Serialized, DInv, NEW p \in Procs, CommitCompare(p)
  PROVE  Deliveries'
<1>1. UNCHANGED <<rec, remote, log>> /\ pc[p] # "idle"
  BY DEF CommitCompare, record, source
<1>2. Pending("gc_commit", arg'[p], rec', Len(log'))
  BY DEF Pending
<1> QED
  BY <1>1, <1>2, GotoDelivers, QuietExitDelivers DEF CommitCompare, DInv, Deliveries

(* Gate Commits are made in an active cycle, of which nothing is pushed.   *)
LEMMA CommitCreateDelivers ==
  ASSUME Serialized, DInv, NEW p \in Procs, CommitCreate(p)
  PROVE  Deliveries'
<1>1. UNCHANGED <<rec, remote>> /\ pc[p] # "idle" /\ pc[p] = "gc_commit"
  BY DEF CommitCreate, record
<1>2. rec.state = "active"
  BY <1>1 DEF DInv, SInv, OneCommand, InStep
<1>3. Settled(rec', remote', Len(log'))
  BY <1>1, <1>2 DEF DInv, Deliveries, Settled
<1>4. Pending("gc_bind", arg'[p], rec', Len(log'))
  BY DEF Pending
<1> QED
  BY <1>1, <1>3, <1>4, GotoDelivers, ExitDelivers DEF CommitCreate

(* Binding changes the commit of an envelope, not where it ran.            *)
LEMMA CommitBindDelivers ==
  ASSUME Serialized, DInv, NEW p \in Procs, CommitBind(p)
  PROVE  Deliveries'
<1> DEFINE old == copy[p]
           r == Bound(old, arg[p].gates, HEAD)
<1>1. UNCHANGED <<rec, remote, log>> /\ pc[p] # "idle"
  BY DEF CommitBind, record, source
<1>2. RanAtHead(r)
  <2>1. old \in Record /\ RanAtHead(old)
    BY DEF DInv, SInv, IInv, TypeOK, Deliveries
  <2> HIDE DEF old
  <2>2. ASSUME NEW e \in EvidenceIds
        PROVE  r.items[e].ranHead = old.items[e].ranHead /\ r.items[e].head = old.items[e].head
    <3>1. old.items[e] \in Envelope \cup {NoItem}
      BY <2>1 DEF Record, Items
    <3>2. \/ r.items[e] = old.items[e]
          \/ old.items[e] # NoItem /\ r.items[e] = [old.items[e] EXCEPT !.commit = HEAD]
      BY <2>1 DEF Bound, Record
    <3> QED
      BY <3>1, <3>2 DEF Envelope
  <2> QED
    BY <2>1, <2>2 DEF RanAtHead
<1>3. Pending("save", arg'[p], rec', Len(log'))
  BY DEF Pending
<1> HIDE DEF r
<1> QED
  BY <1>1, <1>2, <1>3, HoldDelivers, QuietExitDelivers DEF CommitBind, DInv, Deliveries, r

-----------------------------------------------------------------------------
(* Delivery                                                                *)

(* A completion source rests on evidence: a gate with an exception failed, *)
(* so its evidence was verified like that of the gates that passed.        *)
LEMMA SourceOnEvidence ==
  ASSUME DInv, CompletionSource(rec)
  PROVE  OnEvidence(rec, Len(log))
<1> SUFFICES ASSUME NEW g \in Gate, Required(rec.gates[g])
             PROVE  /\ rec.gates[g].result = "passed" \/ rec.gates[g].exception
                    /\ EnvelopeMatches(rec.gates, rec.items, g)
                    /\ LET item == rec.items[rec.gates[g].evidence]
                       IN  \/ item.commit = 0 /\ item.ranHead = Len(log)
                           \/ BoundFor(rec, g, item)
  BY DEF OnEvidence
<1>1. rec.gates[g].result = "passed" \/ rec.gates[g].exception
  BY DEF CompletionSource, DeliveryReady
<1>2. rec.gates[g].result \in Ran
  BY <1>1 DEF DInv, SInv, TruthfulRecords, Truthful, Unrun, Ran
<1>3. /\ EnvelopeMatches(rec.gates, rec.items, g)
      /\ EvidenceCurrent(rec, g, rec.items[rec.gates[g].evidence])
  BY <1>2 DEF CompletionSource
<1>4. rec.gates[g].evidence \in EvidenceIds
  BY <1>3 DEF EnvelopeMatches, DInv, SInv, IInv, TypeOK, Record, GateEntry
<1>5. rec.items[rec.gates[g].evidence].ranHead = rec.items[rec.gates[g].evidence].head
  BY <1>4 DEF DInv, Deliveries, Settled, RanAtHead
<1> QED
  BY <1>1, <1>3, <1>5 DEF EvidenceCurrent, HEAD

(* Two records with the same gates, evidence and commits.                  *)
LEMMA SameSourceDelivers ==
  ASSUME NEW r, NEW x, NEW n,
         x.gates = r.gates, x.items = r.items, x.commits = r.commits
  PROVE  /\ Exact(r, n) => Exact(x, n)
         /\ OnEvidence(r, n) => OnEvidence(x, n)
         /\ RanAtHead(r) => RanAtHead(x)
  BY DEF Exact, RecordedIds, OnEvidence, BoundFor, RanAtHead

(* Changing the state or the source_sync outcome touches neither commits   *)
(* nor evidence.                                                           *)
LEMMA StateDelivers ==
  ASSUME NEW r \in Record, NEW n, NEW state
  PROVE  LET s == [r EXCEPT !.state = state]
             t == [r EXCEPT !.synced = TRUE]
         IN  /\ s.state = state /\ t.state = r.state
             /\ Exact(r, n) => Exact(s, n) /\ Exact(t, n)
             /\ OnEvidence(r, n) => OnEvidence(s, n) /\ OnEvidence(t, n)
             /\ RanAtHead(r) => RanAtHead(s) /\ RanAtHead(t)
<1> DEFINE s == [r EXCEPT !.state = state]
           t == [r EXCEPT !.synced = TRUE]
<1>1. s.state = state /\ t.state = r.state
  BY DEF Record
<1>2. \A x \in {s, t} : x.gates = r.gates /\ x.items = r.items /\ x.commits = r.commits
  BY DEF Record
<1> HIDE DEF s, t
<1> QED
  BY <1>1, <1>2, SameSourceDelivers DEF s, t

(* A record that complete-local completed says the same of gates, evidence *)
(* and commits.                                                            *)
LEMMA LocallyCompletedDelivers ==
  ASSUME NEW r \in Record, NEW n, NEW head
  PROVE  LET u == LocallyCompleted(r, head)
         IN  /\ u.state = "completed" /\ u.tip = head /\ u.commits = r.commits
             /\ Exact(r, n) => Exact(u, n)
             /\ OnEvidence(r, n) => OnEvidence(u, n)
             /\ RanAtHead(r) => RanAtHead(u)
<1> DEFINE u == LocallyCompleted(r, head)
<1>1. /\ u.state = "completed" /\ u.tip = head
      /\ u.gates = r.gates /\ u.items = r.items /\ u.commits = r.commits
  BY DEF Record, LocallyCompleted
<1> HIDE DEF u
<1> QED
  BY <1>1, SameSourceDelivers DEF u

(* final-push, whose first steps only read the record;                     *)
LEMMA PushLoadDelivers ==
  ASSUME Serialized, DInv, NEW p \in Procs, PushLoad(p)
  PROVE  Deliveries'
<1>1. UNCHANGED <<rec, remote, log>> /\ guard = NoProc
  BY DEF PushLoad, Admitted, record, source
<1>2. Pending("fp_lock", arg'[p], rec', Len(log')) /\ RanAtHead(rec)
  BY DEF Pending, DInv, Deliveries, Settled
<1> QED
  BY <1>1, <1>2, HoldDelivers DEF PushLoad, DInv, Deliveries

LEMMA PushLockDelivers ==
  ASSUME Serialized, DInv, NEW p \in Procs, PushLock(p)
  PROVE  Deliveries'
<1>1. UNCHANGED <<rec, remote, log>> /\ pc[p] # "idle"
  BY DEF PushLock, record, source
<1>2. Pending("fp_start", arg'[p], rec', Len(log'))
  BY DEF Pending
<1> QED
  BY <1>1, <1>2, GotoDelivers, QuietExitDelivers DEF PushLock, DInv, Deliveries

(* whose completion check establishes that it rests on evidence;           *)
LEMMA PushStartDelivers ==
  ASSUME Serialized, DInv, NEW p \in Procs, PushStart(p)
  PROVE  Deliveries'
<1>1. UNCHANGED <<rec, remote, log>> /\ pc[p] # "idle" /\ pc[p] = "fp_start"
  BY DEF PushStart, record, source
<1>2. copy[p] = rec /\ rec.state # "completed"
  BY <1>1 DEF DInv, SInv, OneCommand, InStep
<1>3. \/ CompletionSource(rec) /\ Goto(p, "fp_ahead") /\ UNCHANGED copy
      \/ Exit(p)
  BY <1>2 DEF PushStart
<1>4. CompletionSource(rec) => Pending("fp_ahead", arg'[p], rec', Len(log'))
  BY <1>1, SourceOnEvidence DEF Pending
<1> QED
  BY <1>1, <1>3, <1>4, GotoDelivers, QuietExitDelivers DEF DInv, Deliveries

(* An active cycle has pushed nothing, so the commits ahead of the target  *)
(* are all there are.                                                      *)
LEMMA PushAheadDelivers ==
  ASSUME Serialized, DInv, NEW p \in Procs, PushAhead(p)
  PROVE  Deliveries'
<1> DEFINE r == [rec EXCEPT !.state = "finalizing"]
<1>1. UNCHANGED <<remote, log>> /\ pc[p] # "idle" /\ pc[p] = "fp_ahead"
  BY DEF PushAhead, source
<1>2. /\ copy[p] = rec /\ rec.state \in {"active", "finalizing"}
      /\ rec \in Record /\ OnEvidence(rec, Len(log)) /\ Settled(rec, remote, Len(log))
  BY <1>1 DEF DInv, SInv, IInv, TypeOK, OneCommand, InStep, Deliveries, Pending
<1>3. \/ /\ OnlyRecordedAhead(rec, remote)
         /\ rec' = r /\ Hold(p, r) /\ Goto(p, "fp_push")
      \/ Goto(p, "fp_verify") /\ UNCHANGED <<rec, copy>>
      \/ Exit(p) /\ UNCHANGED rec
  BY <1>2 DEF PushAhead
<1>4. CASE OnlyRecordedAhead(rec, remote) /\ rec' = r /\ Hold(p, r) /\ Goto(p, "fp_push")
  <2>1. Exact(rec, Len(log)) /\ remote \in {0, Len(log)}
    <3>1. CASE rec.state = "active"
      BY <1>2, <1>4, <3>1 DEF Settled, OnlyRecordedAhead, Exact, HEAD
    <3>2. CASE rec.state # "active"
      BY <1>2, <3>2 DEF Settled
    <3> QED
      BY <3>1, <3>2
  <2>2. /\ r.state = "finalizing" /\ Exact(r, Len(log)) /\ OnEvidence(r, Len(log))
        /\ RanAtHead(r)
    BY <1>2, <2>1, StateDelivers DEF Settled
  <2> HIDE DEF r
  <2>3. Settled(rec', remote', Len(log'))
    BY <1>1, <1>4, <2>1, <2>2 DEF Settled
  <2>4. Pending("fp_push", arg'[p], rec', Len(log'))
    BY DEF Pending
  <2> QED
    BY <1>1, <1>4, <2>2, <2>3, <2>4, HoldDelivers
<1>5. CASE Goto(p, "fp_verify") /\ UNCHANGED <<rec, copy>>
  <2>1. Pending("fp_verify", arg'[p], rec', Len(log'))
    BY DEF Pending
  <2> QED
    BY <1>1, <1>2, <1>5, <2>1, GotoDelivers
<1>6. CASE Exit(p) /\ UNCHANGED rec
  BY <1>1, <1>6, QuietExitDelivers
<1> QED
  BY <1>3, <1>4, <1>5, <1>6

(* that pushes the whole branch, or nothing when it fails;                 *)
LEMMA PushSendDelivers ==
  ASSUME Serialized, DInv, NEW p \in Procs, PushSend(p)
  PROVE  Deliveries'
<1>1. UNCHANGED <<rec, log, copy>> /\ remote' = Len(log) /\ pc[p] # "idle" /\ pc[p] = "fp_push"
  BY DEF PushSend, record, HEAD
<1>2. rec.state = "finalizing"
  BY <1>1 DEF DInv, SInv, OneCommand, InStep
<1>3. Settled(rec', remote', Len(log'))
  BY <1>1, <1>2 DEF DInv, Deliveries, Settled
<1>4. Pending("fp_verify", arg'[p], rec', Len(log'))
  BY DEF Pending
<1> QED
  BY <1>1, <1>3, <1>4, GotoDelivers DEF PushSend

LEMMA PushFailsDelivers ==
  ASSUME Serialized, DInv, NEW p \in Procs, PushFails(p)
  PROVE  Deliveries'
<1>1. /\ UNCHANGED <<rec, log>> /\ remote' \in {remote, Len(log)}
      /\ pc[p] # "idle" /\ pc[p] = "fp_push"
  BY DEF PushFails, record, HEAD
<1>2. rec.state = "finalizing"
  BY <1>1 DEF DInv, SInv, OneCommand, InStep
<1>3. Settled(rec', remote', Len(log'))
  BY <1>1, <1>2 DEF DInv, Deliveries, Settled
<1> QED
  BY <1>1, <1>3, ExitDelivers DEF PushFails

(* that completes when the target is at HEAD;                              *)
LEMMA PushVerifyDelivers ==
  ASSUME Serialized, DInv, NEW p \in Procs, PushVerify(p)
  PROVE  Deliveries'
<1> DEFINE r == [rec EXCEPT !.state = "completed"]
<1>1. UNCHANGED <<remote, log>> /\ pc[p] # "idle" /\ pc[p] = "fp_verify"
  BY DEF PushVerify, source
<1>2. /\ copy[p] = rec /\ rec.state = "finalizing"
      /\ rec \in Record /\ Settled(rec, remote, Len(log))
  BY <1>1 DEF DInv, SInv, IInv, TypeOK, OneCommand, InStep, Deliveries
<1>3. \/ Len(log) = remote /\ rec' = r /\ Hold(p, r) /\ Goto(p, "fp_sync")
      \/ Exit(p) /\ UNCHANGED rec
  BY <1>2 DEF PushVerify, HEAD
<1>4. CASE Len(log) = remote /\ rec' = r /\ Hold(p, r) /\ Goto(p, "fp_sync")
  <2>1. /\ r.state = "completed" /\ Exact(r, Len(log)) /\ OnEvidence(r, Len(log))
        /\ RanAtHead(r)
    BY <1>2, StateDelivers DEF Settled
  <2> HIDE DEF r
  <2>2. Settled(rec', remote', Len(log'))
    BY <1>1, <1>4, <2>1 DEF Settled
  <2>3. Pending("fp_sync", arg'[p], rec', Len(log'))
    BY DEF Pending
  <2> QED
    BY <1>1, <1>4, <2>1, <2>2, <2>3, HoldDelivers
<1>5. CASE Exit(p) /\ UNCHANGED rec
  BY <1>1, <1>5, QuietExitDelivers
<1> QED
  BY <1>3, <1>4, <1>5

(* and records the source_sync outcome.                                    *)
LEMMA PushSyncDelivers ==
  ASSUME Serialized, DInv, NEW p \in Procs, PushSync(p)
  PROVE  Deliveries'
<1> DEFINE r == [rec EXCEPT !.synced = TRUE]
<1>1. UNCHANGED <<remote, log>> /\ pc[p] # "idle" /\ pc[p] = "fp_sync"
  BY DEF PushSync, source
<1>2. /\ copy[p] = rec /\ rec.state = "completed"
      /\ rec \in Record /\ Settled(rec, remote, Len(log))
  BY <1>1 DEF DInv, SInv, IInv, TypeOK, OneCommand, InStep, Deliveries
<1>3. rec' = r /\ Hold(p, r) /\ Goto(p, "unlink")
  BY <1>2 DEF PushSync
<1>4. /\ r.state = "completed" /\ Exact(r, Len(log)) /\ OnEvidence(r, Len(log))
      /\ RanAtHead(r)
  BY <1>2, StateDelivers DEF Settled
<1> HIDE DEF r
<1>5. Settled(rec', remote', Len(log'))
  BY <1>1, <1>2, <1>3, <1>4 DEF Settled
<1>6. Pending("unlink", arg'[p], rec', Len(log'))
  BY DEF Pending
<1> QED
  BY <1>1, <1>3, <1>4, <1>5, <1>6, HoldDelivers

LEMMA UnlinkDelivers ==
  ASSUME Serialized, DInv, NEW p \in Procs, Unlink(p)
  PROVE  Deliveries'
  BY QuietExitDelivers DEF Unlink, source

(* complete-local checks as final-push does,                               *)
LEMMA LocalVerifyDelivers ==
  ASSUME Serialized, DInv, NEW p \in Procs, LocalVerify(p)
  PROVE  Deliveries'
<1>1. /\ UNCHANGED <<rec, remote, log>> /\ guard = NoProc /\ LocalOnly
      /\ CompletionSource(rec) /\ Hold(p, rec) /\ Goto(p, "cl_ahead")
  BY DEF LocalVerify, Admitted, record, source
<1>2. RanAtHead(rec)
  BY DEF DInv, Deliveries, Settled
<1>3. Pending("cl_ahead", arg'[p], rec', Len(log'))
  BY <1>1, SourceOnEvidence DEF Pending
<1> QED
  BY <1>1, <1>2, <1>3, HoldDelivers DEF DInv, Deliveries

(* compares the branch with the record,                                    *)
LEMMA LocalAheadDelivers ==
  ASSUME Serialized, DInv, NEW p \in Procs, LocalAhead(p)
  PROVE  Deliveries'
<1>1. UNCHANGED <<rec, remote, log>> /\ pc[p] # "idle" /\ pc[p] = "cl_ahead"
  BY DEF LocalAhead, record, source
<1>2. copy[p] = rec /\ LocalOnly /\ OnEvidence(rec, Len(log))
  BY <1>1 DEF DInv, SInv, OneCommand, InStep, Deliveries, Pending
<1>3. \/ OnlyRecordedAhead(rec, 0) /\ Goto(p, "cl_head") /\ UNCHANGED copy
      \/ Exit(p)
  BY <1>2 DEF LocalAhead
<1>4. OnlyRecordedAhead(rec, 0) => Pending("cl_head", arg'[p], rec', Len(log'))
  BY <1>1, <1>2 DEF Pending, OnlyRecordedAhead, Exact, HEAD
<1> QED
  BY <1>1, <1>3, <1>4, GotoDelivers, QuietExitDelivers DEF DInv, Deliveries

(* names the HEAD it completes,                                            *)
LEMMA LocalHeadDelivers ==
  ASSUME Serialized, DInv, NEW p \in Procs, LocalHead(p)
  PROVE  Deliveries'
<1> DEFINE r == LocallyCompleted(copy[p], HEAD)
<1>1. UNCHANGED <<rec, remote, log>> /\ pc[p] # "idle" /\ pc[p] = "cl_head"
  BY DEF LocalHead, record, source
<1>2. RanAtHead(r)
  BY LocallyCompletedDelivers DEF DInv, SInv, IInv, TypeOK, Deliveries
<1>3. \/ Hold(p, r) /\ Goto(p, "cl_save")
      \/ Goto(p, "unlink") /\ UNCHANGED copy
      \/ Exit(p)
  BY DEF LocalHead
<1>4. \A step \in {"unlink", "cl_save"} : Pending(step, arg'[p], rec', Len(log'))
  BY <1>1 DEF Pending, DInv, Deliveries
<1> HIDE DEF r
<1> QED
  BY <1>1, <1>2, <1>3, <1>4, HoldDelivers, GotoDelivers, QuietExitDelivers DEF DInv, Deliveries

(* and saves what it checked.                                              *)
LEMMA LocalCompleteDelivers ==
  ASSUME Serialized, DInv, NEW p \in Procs, LocalComplete(p)
  PROVE  Deliveries'
<1> DEFINE head == copy[p].tip
           r == LocallyCompleted(rec, head)
<1>1. UNCHANGED <<remote, log>> /\ pc[p] # "idle" /\ pc[p] = "cl_save"
  BY DEF LocalComplete, source
<1>2. /\ copy[p] = r /\ rec.state = "active" /\ rec \in Record
      /\ LocalOnly /\ OnEvidence(rec, Len(log)) /\ Exact(rec, Len(log))
      /\ Settled(rec, remote, Len(log))
  BY <1>1 DEF DInv, SInv, IInv, TypeOK, OneCommand, InStep, Contract!CompleteLocally,
              Contract!Active, Deliveries, Pending, LocallyCompleted
<1> HIDE DEF head
<1>3. CASE rec' = r /\ Goto(p, "unlink") /\ UNCHANGED copy
  <2>1. /\ r.state = "completed" /\ Exact(r, Len(log)) /\ OnEvidence(r, Len(log))
        /\ RanAtHead(r)
    BY <1>2, LocallyCompletedDelivers DEF Settled
  <2> HIDE DEF r
  <2>2. Settled(rec', remote', Len(log'))
    BY <1>1, <1>2, <1>3, <2>1 DEF Settled
  <2>3. Pending("unlink", arg'[p], rec', Len(log'))
    BY DEF Pending
  <2> QED
    BY <1>1, <1>3, <2>2, <2>3, GotoDelivers
<1>4. CASE Exit(p) /\ UNCHANGED rec
  BY <1>1, <1>4, QuietExitDelivers
<1> QED
  BY <1>2, <1>3, <1>4 DEF LocalComplete

(* There is no other profile to commit.                                    *)
LEMMA EnvironmentDelivers ==
  ASSUME Undisturbed, DInv, Environment
  PROVE  Deliveries'
<1>1. ~CommitProfile
  BY HeadProfileType DEF Undisturbed, CommitProfile, DInv, SInv, IInv
<1>2. UNCHANGED <<rec, remote, log, pc, copy, arg>>
  BY <1>1 DEF Environment, Edit, Unstage, record, helpers
<1> QED
  BY <1>2 DEF DInv, Deliveries

(* A cycle starts with an empty branch and nothing pushed.                 *)
LEMMA InitDelivers == Init => Deliveries
<1> SUFFICES ASSUME Init PROVE Deliveries
  OBVIOUS
<1>1. RanAtHead(rec) /\ rec.state = "active" /\ RanAtHead(NoCopy)
  BY BornRanAtHead DEF Init, NoCopy, Born
<1>2. Settled(rec, remote, Len(log))
  BY <1>1 DEF Init, Settled
<1> QED
  BY <1>1, <1>2, IdlePending DEF Init, Deliveries

(* Every undisturbed step keeps deliveries settled.                        *)
LEMMA NextDelivers ==
  ASSUME Undisturbed, DInv, [Next]_vars
  PROVE  Deliveries'
<1> Serialized
  BY DEF Undisturbed
<1>1. ASSUME NEW p \in Procs, Starts(p) PROVE Deliveries'
  BY <1>1, ChangesDeliver, EvidenceBeginDelivers, CommitVerifyDelivers, PushLoadDelivers,
     LocalVerifyDelivers
     DEF Starts
<1>2. ASSUME NEW p \in Procs, Continues(p) PROVE Deliveries'
  BY <1>2, SaveDelivers, EvidenceLoadDelivers, EvidenceRanDelivers, AdoptCommitsDelivers,
     CommitStageDelivers, CommitCompareDelivers, CommitCreateDelivers, CommitBindDelivers,
     PushLockDelivers, PushStartDelivers, PushAheadDelivers, PushSendDelivers,
     PushVerifyDelivers, PushSyncDelivers, LocalAheadDelivers, LocalHeadDelivers,
     LocalCompleteDelivers, UnlinkDelivers
     DEF Continues
<1>3. ASSUME NEW p \in Procs, PushFails(p) PROVE Deliveries'
  BY <1>3, PushFailsDelivers
<1>4. ASSUME NEW p \in Procs, Crash(p) PROVE Deliveries'
  BY <1>4, QuietExitDelivers DEF Crash, record, source
<1>5. CASE UNCHANGED vars
  BY <1>5 DEF vars, DInv, Deliveries
<1> QED
  BY <1>1, <1>2, <1>3, <1>4, <1>5, EnvironmentDelivers DEF Next

(* The inductive invariant holds of every undisturbed behaviour.           *)
LEMMA DeliveryInvariance ==
  ASSUME Undisturbed
  PROVE  Spec => []DInv
<1> Serialized
  BY DEF Undisturbed
<1>1. Init => Deliveries
  BY InitDelivers
<1>2. SInv /\ Deliveries /\ [Next]_vars => Deliveries'
  BY NextDelivers DEF DInv
<1>3. SInv /\ Deliveries => DInv
  BY DEF DInv
<1> QED
  BY <1>1, <1>2, <1>3, SerialInvariance, PTL DEF Spec

(* A completed cycle rests on evidence: every required gate passed or is   *)
(* excepted, with an envelope bound to a recorded commit for that gate or  *)
(* run at the last recorded commit, when the commands are undisturbed.     *)
THEOREM DeliveryOnEvidence == Undisturbed => (Spec => []DeliveredOnEvidence)
<1> SUFFICES ASSUME Undisturbed PROVE Spec => []DeliveredOnEvidence
  OBVIOUS
<1>1. DInv => DeliveredOnEvidence
  <2> SUFFICES ASSUME DInv, rec.state = "completed" PROVE DeliveredOnEvidence
    BY DEF DeliveredOnEvidence
  <2>1. Exact(rec, Len(log)) /\ OnEvidence(rec, Len(log))
    BY DEF DInv, Deliveries, Settled
  <2>2. Len(rec.commits) = Len(log)
    <3>1. Len(rec.commits) \in Nat /\ Len(log) \in Nat
      BY DEF DInv, SInv, IInv, TypeOK, Record
    <3>2. DOMAIN RecordedIds(rec) = 1..Len(rec.commits)
      BY DEF RecordedIds
    <3>3. DOMAIN Lineage(1, Len(log)) = 1..Len(log)
      BY <3>1 DEF Lineage
    <3> QED
      BY <2>1, <3>1, <3>2, <3>3 DEF Exact
  <2> QED
    BY <2>1, <2>2 DEF OnEvidence, DeliveredOnEvidence
<1> QED
  BY <1>1, DeliveryInvariance, PTL

-----------------------------------------------------------------------------
(* A local-only cycle, whoever commits profiles                            *)

(* The steps a local-only cycle has: final-push is refused.                *)
LocalSteps == Steps \ {"fp_lock", "fp_start", "fp_ahead", "fp_push", "fp_verify", "fp_sync"}

(* What a helper at a step established for its copy r: once complete-local *)
(* has compared it with the branch it lists the branch of that moment, and *)
(* when it is saved it is valid, so the HEAD read second is no later one.  *)
Lists(step, r) ==
  /\ step = "cl_head" => \E n \in Nat : Exact(r, n)
  /\ step = "cl_save" => Exact(r, r.tip)

(* A completed record, and the one complete-local is about to save, lists  *)
(* the branch up to the HEAD it names.                                     *)
ListedToTip ==
  /\ rec.state = "completed" => Exact(rec, rec.tip)
  /\ \A p \in Procs : pc[p] \in LocalSteps /\ Lists(pc[p], copy[p])

(* A record that lists a branch of n commits has n entries.                *)
LEMMA ExactLength ==
  ASSUME NEW r \in Record, NEW n \in Nat, Exact(r, n)
  PROVE  Len(r.commits) = n
<1>1. Len(r.commits) \in Nat
  BY DEF Record
<1>2. DOMAIN RecordedIds(r) = 1..Len(r.commits)
  BY DEF RecordedIds
<1>3. DOMAIN Lineage(1, n) = 1..n
  BY DEF Lineage
<1> QED
  BY <1>1, <1>2, <1>3 DEF Exact

(* A valid completion of a record that lists a branch names its last       *)
(* commit.                                                                 *)
LEMMA ValidNamesLast ==
  ASSUME NEW r \in Record, NEW n \in Nat, Exact(r, n), ValidCompletion(r)
  PROVE  r.tip = n
<1>1. Len(r.commits) = n
  BY ExactLength
<1>2. r.commits # <<>> /\ r.tip = r.commits[n].id /\ r.commits \in Seq(CommitEntry)
  BY <1>1 DEF ValidCompletion, Record
<1>3. n \in 1..n
  BY <1>1, <1>2
<1>4. RecordedIds(r)[n] = r.commits[n].id
  BY <1>1, <1>3 DEF RecordedIds
<1>5. Lineage(1, n)[n] = n
  BY <1>3 DEF Lineage
<1> QED
  BY <1>2, <1>4, <1>5 DEF Exact

(* A command runs alone: when it moves, only what it established and what  *)
(* is saved matter.                                                        *)
LEMMA LocalMoves ==
  ASSUME SInv, ListedToTip, NEW p \in Procs, pc[p] # "idle" \/ guard = NoProc,
         NEW step \in LocalSteps, \A q \in Procs : pc'[q] = IF q = p THEN step ELSE pc[q],
         Lists(step, copy'[p]), rec'.state = "completed" => Exact(rec', rec'.tip)
  PROVE  ListedToTip'
<1>1. \A q \in Procs : pc'[q] = IF q = p THEN step ELSE "idle"
  BY Alone DEF SInv
<1>2. "idle" \in LocalSteps /\ \A r : Lists("idle", r)
  BY DEF LocalSteps, Steps, Lists
<1> QED
  BY <1>1, <1>2 DEF ListedToTip

(* A helper of a local-only cycle goes on, holding some copy,              *)
LEMMA LocalHolds ==
  ASSUME SInv, ListedToTip, NEW p \in Procs, pc[p] # "idle" \/ guard = NoProc,
         NEW step \in LocalSteps, Goto(p, step), NEW r, Hold(p, r),
         Lists(step, r), rec'.state = "completed" => Exact(rec', rec'.tip)
  PROVE  ListedToTip'
<1>1. (\A q \in Procs : pc'[q] = IF q = p THEN step ELSE pc[q]) /\ copy'[p] = r
  BY DEF SInv, IInv, TypeOK, Goto, Hold
<1> QED
  BY <1>1, LocalMoves

(* or the copy it has;                                                     *)
LEMMA LocalGoes ==
  ASSUME SInv, ListedToTip, NEW p \in Procs, pc[p] # "idle" \/ guard = NoProc,
         NEW step \in LocalSteps, Goto(p, step), UNCHANGED copy,
         Lists(step, copy[p]), rec'.state = "completed" => Exact(rec', rec'.tip)
  PROVE  ListedToTip'
<1>1. (\A q \in Procs : pc'[q] = IF q = p THEN step ELSE pc[q]) /\ copy'[p] = copy[p]
  BY DEF SInv, IInv, TypeOK, Goto
<1> QED
  BY <1>1, LocalMoves

(* it ends;                                                                *)
LEMMA LocalEnds ==
  ASSUME SInv, ListedToTip, NEW p \in Procs, pc[p] # "idle", Exit(p),
         rec'.state = "completed" => Exact(rec', rec'.tip)
  PROVE  ListedToTip'
<1>1. \A q \in Procs : pc'[q] = IF q = p THEN "idle" ELSE pc[q]
  BY DEF SInv, IInv, TypeOK, Exit
<1>2. "idle" \in LocalSteps /\ Lists("idle", copy'[p])
  BY DEF LocalSteps, Steps, Lists
<1> QED
  BY <1>1, <1>2, LocalMoves

(* it loads, changes and is about to save.                                 *)
LEMMA LocalPrepares ==
  ASSUME SInv, ListedToTip, NEW p \in Procs, guard = NoProc, NEW r, Prepare(p, r)
  PROVE  ListedToTip'
<1>1. "save" \in LocalSteps /\ Lists("save", r)
  BY DEF LocalSteps, Steps, Lists
<1>2. UNCHANGED rec /\ Hold(p, r) /\ Goto(p, "save")
  BY DEF Prepare, record
<1> QED
  BY <1>1, <1>2, LocalHolds DEF ListedToTip

(* No command has compared anything with the branch when it starts.        *)
LEMMA LocalStarts ==
  ASSUME LocalOnly, Serialized, SInv, ListedToTip, NEW p \in Procs, Starts(p)
  PROVE  ListedToTip'
<1> DEFINE quiet == {"re_lock", "up_adopt", "gc_add", "cl_ahead"}
<1>1. quiet \subseteq LocalSteps /\ \A step \in quiet : \A r : Lists(step, r)
  BY DEF LocalSteps, Steps, Lists
<1> HIDE DEF quiet
<1>2. ASSUME NEW g \in Gate, NEW result \in Results, NEW e \in EvidenceIds \cup {NoEvidence},
             SetGate(p, g, result, e)
      PROVE  ListedToTip'
  BY <1>2, LocalPrepares DEF SetGate, Admitted
<1>3. ASSUME NEW g \in Gate, SetApplicability(p, g) \/ ApproveException(p, g)
      PROVE  ListedToTip'
  BY <1>3, LocalPrepares DEF SetApplicability, ApproveException, Admitted
<1>4. CASE ReviewArtifact(p)
  BY <1>4, LocalPrepares DEF ReviewArtifact, Admitted
<1>5. ASSUME NEW g \in Gate, NEW blob \in {wt, NoPaths}, EvidenceBegin(p, g, blob)
      PROVE  ListedToTip'
  <2>1. guard = NoProc /\ Goto(p, "re_lock") /\ UNCHANGED <<rec, copy>> /\ "re_lock" \in quiet
    BY <1>5 DEF EvidenceBegin, Admitted, record, quiet
  <2> QED
    BY <1>1, <2>1, LocalGoes DEF ListedToTip
<1>6. ASSUME NEW r, NEW step \in quiet, guard = NoProc, Hold(p, r), Goto(p, step), UNCHANGED rec
      PROVE  ListedToTip'
  BY <1>1, <1>6, LocalHolds DEF ListedToTip
<1>7. ASSUME NEW S \in SUBSET Optional, UpdatePlan(p, S)
      PROVE  ListedToTip'
  BY <1>6, <1>7 DEF UpdatePlan, Admitted, record, quiet
<1>8. ASSUME NEW G \in (SUBSET Gate) \ {{}}, CommitVerify(p, G)
      PROVE  ListedToTip'
  BY <1>6, <1>8 DEF CommitVerify, Admitted, record, quiet
<1>9. CASE LocalVerify(p)
  BY <1>6, <1>9 DEF LocalVerify, Admitted, record, quiet
<1> QED
  BY <1>2, <1>3, <1>4, <1>5, <1>7, <1>8, <1>9 DEF Starts, PushLoad

(* complete-local compares the branch with the record,                     *)
LEMMA LocalAheadLists ==
  ASSUME SInv, ListedToTip, NEW p \in Procs, LocalAhead(p)
  PROVE  ListedToTip'
<1>1. pc[p] # "idle" /\ rec' = rec /\ "cl_head" \in LocalSteps
  BY DEF LocalAhead, record, LocalSteps, Steps
<1>2. CASE OnlyRecordedAhead(copy[p], 0) /\ Goto(p, "cl_head") /\ UNCHANGED copy
  <2>1. Len(log) \in Nat /\ Exact(copy[p], Len(log))
    BY <1>2 DEF SInv, IInv, TypeOK, OnlyRecordedAhead, Exact, HEAD
  <2>2. Lists("cl_head", copy[p])
    BY <2>1 DEF Lists
  <2> QED
    BY <1>1, <1>2, <2>2, LocalGoes DEF ListedToTip
<1>3. CASE Exit(p)
  BY <1>1, <1>3, LocalEnds DEF ListedToTip
<1> QED
  BY <1>2, <1>3 DEF LocalAhead

(* reads HEAD, which is the last recorded commit or makes it fail,         *)
LEMMA LocalHeadLists ==
  ASSUME SInv, ListedToTip, NEW p \in Procs, LocalHead(p)
  PROVE  ListedToTip'
<1> DEFINE u == LocallyCompleted(copy[p], HEAD)
<1>1. /\ pc[p] # "idle" /\ pc[p] = "cl_head" /\ rec' = rec
      /\ {"cl_save", "unlink"} \subseteq LocalSteps
  BY DEF LocalHead, record, LocalSteps, Steps
<1>2. PICK n \in Nat : Exact(copy[p], n)
  BY <1>1 DEF ListedToTip, Lists
<1>3. u \in Record /\ u.commits = copy[p].commits
  BY HeadProfileType DEF SInv, IInv, TypeOK, Record, LocallyCompleted
<1>4. \/ ValidCompletion(u) /\ Hold(p, u) /\ Goto(p, "cl_save")
      \/ Goto(p, "unlink") /\ UNCHANGED copy
      \/ Exit(p)
  BY DEF LocalHead, u
<1> HIDE DEF u
<1>5. Exact(u, n)
  BY <1>2, <1>3 DEF Exact, RecordedIds
<1>6. CASE ValidCompletion(u) /\ Hold(p, u) /\ Goto(p, "cl_save")
  <2>1. Lists("cl_save", u)
    BY <1>3, <1>5, <1>6, ValidNamesLast DEF Lists
  <2> QED
    BY <1>1, <1>6, <2>1, LocalHolds DEF ListedToTip
<1>7. CASE Goto(p, "unlink") /\ UNCHANGED copy
  <2>1. Lists("unlink", copy[p])
    BY DEF Lists
  <2> QED
    BY <1>1, <1>7, <2>1, LocalGoes DEF ListedToTip
<1>8. CASE Exit(p)
  BY <1>1, <1>8, LocalEnds DEF ListedToTip
<1> QED
  BY <1>4, <1>6, <1>7, <1>8

(* and saves what it compared and read.                                    *)
LEMMA LocalCompleteLists ==
  ASSUME SInv, ListedToTip, NEW p \in Procs, LocalComplete(p)
  PROVE  ListedToTip'
<1>1. pc[p] # "idle" /\ pc[p] = "cl_save"
  BY DEF LocalComplete
<1>2. Exact(copy[p], copy[p].tip)
  BY <1>1 DEF ListedToTip, Lists
<1>3. "unlink" \in LocalSteps /\ Lists("unlink", copy[p])
  BY DEF LocalSteps, Steps, Lists
<1>4. CASE rec' = copy[p] /\ Goto(p, "unlink") /\ UNCHANGED copy
  BY <1>1, <1>2, <1>3, <1>4, LocalGoes
<1>5. CASE Exit(p) /\ UNCHANGED rec
  BY <1>1, <1>5, LocalEnds DEF ListedToTip
<1> QED
  BY <1>4, <1>5 DEF LocalComplete

(* The steps of final-push are out of reach, and no other command          *)
(* completes or compares.                                                  *)
LEMMA LocalContinues ==
  ASSUME LocalOnly, Serialized, SInv, ListedToTip, NEW p \in Procs, Continues(p)
  PROVE  ListedToTip'
<1> DEFINE quiet == {"re_run", "save", "gc_index", "gc_commit", "gc_bind"}
<1>1. quiet \subseteq LocalSteps /\ \A step \in quiet : \A r : Lists(step, r)
  BY DEF LocalSteps, Steps, Lists
<1> HIDE DEF quiet
<1>2. CASE Save(p)
  <2>1. rec \in Record /\ Contract!Works(rec, copy[p]) /\ pc[p] # "idle" /\ rec' = copy[p]
    BY <1>2 DEF Save, SInv, OneCommand, InStep, IInv, TypeOK
  <2>2. rec'.state = "active"
    BY <2>1, WorksStaysActive
  <2> QED
    BY <1>2, <2>1, <2>2, LocalEnds DEF Save
<1>3. ASSUME pc[p] # "idle", UNCHANGED rec,
             \/ Exit(p)
             \/ \E step \in quiet : Goto(p, step) /\ (UNCHANGED copy \/ \E r : Hold(p, r))
      PROVE  ListedToTip'
  <2>1. CASE Exit(p)
    BY <1>3, <2>1, LocalEnds DEF ListedToTip
  <2>2. ASSUME NEW step \in quiet, Goto(p, step), UNCHANGED copy
        PROVE  ListedToTip'
    BY <1>1, <1>3, <2>2, LocalGoes DEF ListedToTip
  <2>3. ASSUME NEW step \in quiet, Goto(p, step), NEW r, Hold(p, r)
        PROVE  ListedToTip'
    BY <1>1, <1>3, <2>3, LocalHolds DEF ListedToTip
  <2> QED
    BY <1>3, <2>1, <2>2, <2>3
<1>4. CASE EvidenceLoad(p)
  BY <1>3, <1>4 DEF EvidenceLoad, record, quiet
<1>5. ASSUME NEW g \in Gate, NEW result \in Ran, NEW e \in EvidenceIds,
             EvidenceRan(p, g, result, e)
      PROVE  ListedToTip'
  BY <1>3, <1>5 DEF EvidenceRan, record, quiet
<1>6. CASE CommitStage(p) \/ CommitCompare(p) \/ CommitCreate(p) \/ CommitBind(p)
  BY <1>3, <1>6 DEF CommitStage, CommitCompare, CommitCreate, CommitBind, record, quiet
<1>7. CASE AdoptCommits(p)
  BY <1>3, <1>7 DEF AdoptCommits, record, quiet
<1>8. CASE Unlink(p)
  BY <1>3, <1>8 DEF Unlink
<1>9. ~ (\/ PushLock(p) \/ PushStart(p) \/ PushAhead(p) \/ PushSend(p)
         \/ PushVerify(p) \/ PushSync(p))
  BY DEF ListedToTip, LocalSteps, PushLock, PushStart, PushAhead, PushSend,
         PushVerify, PushSync
<1> QED
  BY <1>2, <1>4, <1>5, <1>6, <1>7, <1>8, <1>9, LocalAheadLists, LocalHeadLists,
     LocalCompleteLists DEF Continues

(* The completed record of a local-only cycle lists the branch up to the   *)
(* HEAD it names.                                                          *)
LEMMA LocalInvariance ==
  ASSUME LocalOnly
  PROVE  Spec => []ListedToTip
<1>0. Serialized
  BY LocalOnlyAssumption
<1>1. Init => ListedToTip
  BY DEF Init, Born, ListedToTip, Lists, LocalSteps, Steps
<1>2. SInv /\ ListedToTip /\ [Next]_vars => ListedToTip'
  <2> SUFFICES ASSUME SInv, ListedToTip, [Next]_vars PROVE ListedToTip'
    OBVIOUS
  <2>1. ASSUME NEW p \in Procs, Crash(p) PROVE ListedToTip'
    BY <2>1, LocalEnds DEF Crash, record, ListedToTip
  <2>2. ASSUME NEW p \in Procs PROVE ~PushFails(p)
    BY DEF ListedToTip, LocalSteps, PushFails
  <2>3. CASE Environment \/ UNCHANGED vars
    BY <2>3 DEF Environment, Edit, Unstage, CommitProfile, record, helpers, vars, ListedToTip
  <2> QED
    BY <1>0, <2>1, <2>2, <2>3, LocalStarts, LocalContinues DEF Next
<1> QED
  BY <1>0, <1>1, <1>2, SerialInvariance, PTL DEF Spec

(* What a completed cycle lists is exactly what was delivered. A local-only *)
(* cycle always lists the branch up to the HEAD its local_completion names, *)
(* whatever profiles are committed while complete-local runs. One that is   *)
(* pushed lists what the target has as long as nobody commits by hand       *)
(* beside the commands; otherwise it is false, as unrecorded_pushed shows.  *)
THEOREM DeliveryExact == LocalOnly \/ Undisturbed => (Spec => []DeliveredExactlyRecorded)
<1>1. ASSUME LocalOnly PROVE Spec => []DeliveredExactlyRecorded
  <2>1. ListedToTip => DeliveredExactlyRecorded
    BY <1>1 DEF ListedToTip, Exact, DeliveredExactlyRecorded
  <2> QED
    BY <1>1, <2>1, LocalInvariance, PTL
<1>2. ASSUME Undisturbed, ~LocalOnly PROVE Spec => []DeliveredExactlyRecorded
  <2>1. DInv => DeliveredExactlyRecorded
    BY <1>2 DEF DInv, Deliveries, Settled, Exact, DeliveredExactlyRecorded
  <2> QED
    BY <1>2, <2>1, DeliveryInvariance, PTL
<1> QED
  BY <1>1, <1>2
=============================================================================
