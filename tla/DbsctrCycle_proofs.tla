------------------------- MODULE DbsctrCycle_proofs -------------------------
(***************************************************************************)
(* TypeOK, LedgerInOrder and LedgerEvidenced hold in every reachable state *)
(* of a cycle, serialized or not, for any number of helpers, gates, ids    *)
(* and commits.  The invariant that carries them is that every record in   *)
(* the system, the one on disk and each helper's copy, is sound and leaves *)
(* the evidence ids not issued yet unused: a save may lose what another    *)
(* helper saved, but what it writes is a sound record too.                 *)
(***************************************************************************)
EXTENDS DbsctrCycle, TLAPS

-----------------------------------------------------------------------------
(* First, what the operations on a ledger and on a Cycle Record preserve,  *)
(* whoever applies them: their type, the order of the gates, the link from *)
(* a gate to its evidence.                                                 *)

Ledger == [Gate -> GateEntry]

-----------------------------------------------------------------------------
(* Types                                                                   *)

(* The ledger a plan gives birth to is a ledger (validate_plan).           *)
LEMMA PlannedGatesType == \A skipped : PlannedGates(skipped) \in Ledger
  BY DEF PlannedGates, Ledger, GateEntry, Results, Ran, NoEvidence

(* reopening a gate keeps it a gate entry (invalidate_later).              *)
LEMMA ReopenedType == \A e \in GateEntry : Reopened(e) \in GateEntry
  BY DEF Reopened, GateEntry, Results, NoEvidence

(* invalidate_later maps ledgers to ledgers.                               *)
LEMMA InvalidateLaterType ==
  ASSUME NEW gates \in Ledger, NEW g \in Gate
  PROVE  InvalidateLater(gates, g) \in Ledger
  BY ReopenedType DEF InvalidateLater, Ledger

(* apply_gate_result maps ledgers to ledgers.                              *)
LEMMA ApplyGateResultType ==
  ASSUME NEW gates \in Ledger, NEW g \in Gate, NEW result \in Results,
         NEW e \in EvidenceIds \cup {NoEvidence}
  PROVE  ApplyGateResult(gates, g, result, e) \in Ledger
<1> DEFINE applied == [gates EXCEPT ![g] = WithResult(@, result, e)]
<1>1. WithResult(gates[g], result, e) \in GateEntry
  BY DEF WithResult, Ledger, GateEntry, NoEvidence
<1>2. applied \in Ledger
  BY <1>1 DEF Ledger
<1>3. InvalidateLater(applied, g) \in Ledger
  BY <1>2, InvalidateLaterType
<1> QED
  BY <1>2, <1>3 DEF ApplyGateResult

(* Tightening applicability maps ledgers to ledgers.                       *)
LEMMA TightenType ==
  ASSUME NEW gates \in Ledger, NEW S
  PROVE  Tighten(gates, S) \in Ledger
<1>1. \A h \in Gate : Tightened(gates[h]) \in GateEntry
  BY DEF Tightened, Ledger, GateEntry, Results
<1> QED
  BY <1>1, ReopenedType DEF Tighten, Ledger

(* approve-exception maps ledgers to ledgers.                              *)
LEMMA ExceptedType ==
  ASSUME NEW gates \in Ledger, NEW g \in Gate
  PROVE  Excepted(gates, g) \in Ledger
  BY DEF Excepted, Ledger, GateEntry

-----------------------------------------------------------------------------
(* Order                                                                   *)

(* No gate of a newly planned ledger is passed (validate_plan).            *)
LEMMA PlannedGatesInOrder == \A skipped : InOrder(PlannedGates(skipped))
  BY NGatesAssumption DEF PlannedGates, InOrder, Required, Gate

(* apply_gate_result keeps a ledger in order when its caller has checked   *)
(* the predecessors of a gate it passes, as set-gate and record-evidence   *)
(* do: either g is disposed afterwards, or no later gate was or stays      *)
(* passed.                                                                 *)
LEMMA ApplyGateResultInOrder ==
  ASSUME NEW gates \in Ledger, InOrder(gates), NEW g \in Gate, NEW result \in Results,
         NEW e \in EvidenceIds \cup {NoEvidence},
         result = "passed" => PredecessorsDisposed(gates, g)
  PROVE  InOrder(ApplyGateResult(gates, g, result, e))
<1> DEFINE applied == [gates EXCEPT ![g] = WithResult(@, result, e)]
           after == ApplyGateResult(gates, g, result, e)
<1>0. applied \in Ledger /\ after \in Ledger
  <2>1. WithResult(gates[g], result, e) \in GateEntry
    BY DEF WithResult, Ledger, GateEntry, NoEvidence
  <2> QED
    BY <2>1, ApplyGateResultType DEF Ledger
<1>1. /\ applied[g].applicability = gates[g].applicability
      /\ applied[g].result = result
      /\ \A h \in Gate \ {g} : applied[h] = gates[h]
  BY DEF WithResult, Ledger, GateEntry
<1>2. \A h \in 1..g : after[h] = applied[h]
  <2>1. after = InvalidateLater(applied, g) \/ after = applied
    BY DEF ApplyGateResult
  <2>2. \A h \in 1..g : h \in Gate /\ ~(h > g)
    BY NGatesAssumption DEF Gate
  <2>3. \A h \in 1..g : InvalidateLater(applied, g)[h] = applied[h]
    BY <2>2 DEF InvalidateLater
  <2> QED
    BY <2>1, <2>3
<1> SUFFICES ASSUME NEW h \in Gate, Required(after[h]), after[h].result = "passed",
                    NEW k \in 1..(h-1)
             PROVE  Disposed(after[k])
  BY DEF InOrder, PredecessorsDisposed
<1>3. k \in Gate /\ k < h
  BY NGatesAssumption DEF Gate
<1>4. CASE h < g
  BY <1>0, <1>1, <1>2, <1>3, <1>4, NGatesAssumption
     DEF InOrder, PredecessorsDisposed, Gate, Required
<1>5. CASE h = g
  <2>1. result = "passed"
    BY <1>1, <1>2, <1>5, NGatesAssumption DEF Gate
  <2> QED
    BY <2>1, <1>1, <1>2, <1>3, <1>5, NGatesAssumption DEF PredecessorsDisposed, Gate
<1>6. CASE h > g
  <2>1. ~(Disposed(gates[g]) /\ ~Disposed(applied[g]))
    <3> SUFFICES ASSUME Disposed(gates[g]) /\ ~Disposed(applied[g]) PROVE FALSE
      OBVIOUS
    <3>1. after[h] = Reopened(applied[h])
      BY <1>6 DEF ApplyGateResult, InvalidateLater
    <3> QED
      BY <3>1, <1>0 DEF Reopened, Required, Ledger, GateEntry
  <2>2. after = applied
    BY <2>1 DEF ApplyGateResult
  <2>3. PredecessorsDisposed(gates, h)
    BY <2>2, <1>1, <1>6, NGatesAssumption DEF InOrder, Gate
  <2>4. Disposed(gates[g]) /\ Disposed(gates[k])
    BY <2>3, <1>3, <1>6, NGatesAssumption DEF PredecessorsDisposed, Gate
  <2> QED
    BY <2>1, <2>2, <2>4, <1>1, <1>3
<1> QED
  BY <1>4, <1>5, <1>6, NGatesAssumption DEF Gate

(* Tightening leaves a gate passed only when every gate before it is as it *)
(* was (set-applicability, apply_stricter_plan).                           *)
LEMMA TightenInOrder ==
  ASSUME NEW gates \in Ledger, InOrder(gates), NEW S \in SUBSET Gate
  PROVE  InOrder(Tighten(gates, S))
<1> DEFINE after == Tighten(gates, S)
<1> SUFFICES ASSUME NEW h \in Gate, Required(after[h]), after[h].result = "passed",
                    NEW k \in 1..(h-1)
             PROVE  Disposed(after[k])
  BY DEF InOrder, PredecessorsDisposed
<1>1. k \in Gate /\ k < h
  BY NGatesAssumption DEF Gate
<1>2. h \notin S
  BY DEF Tighten, Tightened, Ledger, GateEntry
<1>3. ~ \E g \in S : g < h
  BY <1>2 DEF Tighten, Reopened, Required, Ledger, GateEntry
<1>4. after[h] = gates[h]
  BY <1>2, <1>3 DEF Tighten
<1>5. after[k] = gates[k]
  BY <1>1, <1>3, NGatesAssumption DEF Tighten, Gate
<1> QED
  BY <1>1, <1>4, <1>5 DEF InOrder, PredecessorsDisposed

(* An exception disposes one more gate and undoes none (approve-exception).  *)
LEMMA ExceptedInOrder ==
  ASSUME NEW gates \in Ledger, InOrder(gates), NEW g \in Gate
  PROVE  InOrder(Excepted(gates, g))
<1> DEFINE after == Excepted(gates, g)
<1>1. \A h \in Gate : /\ after[h].applicability = gates[h].applicability
                      /\ after[h].result = gates[h].result
                      /\ gates[h].exception => after[h].exception
  BY DEF Excepted, Ledger, GateEntry
<1>2. \A h \in Gate : Disposed(gates[h]) => Disposed(after[h])
  BY <1>1 DEF Disposed, Required
<1> QED
  BY <1>1, <1>2, NGatesAssumption DEF InOrder, PredecessorsDisposed, Required, Gate

-----------------------------------------------------------------------------
(* Evidence                                                                *)

(* No gate of a newly planned ledger has run (validate_plan).              *)
LEMMA PlannedGatesEvidenced == \A skipped, items : Evidenced(PlannedGates(skipped), items)
  BY DEF PlannedGates, Evidenced, Ran

(* A reopened gate has not run (invalidate_later).                         *)
LEMMA ReopenedNotRan ==
  \A e \in GateEntry : \/ Reopened(e) = e
                       \/ Reopened(e).result \notin Ran
  BY DEF Reopened, GateEntry, Ran

(* Storing evidence under an unused id leaves every gate evidenced: no     *)
(* gate can have referred to it (record-evidence).                         *)
LEMMA FreshItemEvidenced ==
  ASSUME NEW gates \in Ledger, NEW items \in Items, Evidenced(gates, items),
         NEW e \in EvidenceIds, items[e] = NoItem, NEW envelope \in Envelope
  PROVE  Evidenced(gates, [items EXCEPT ![e] = envelope])
<1> SUFFICES ASSUME NEW g \in Gate, Required(gates[g]), gates[g].result \in Ran
             PROVE  EnvelopeMatches(gates, [items EXCEPT ![e] = envelope], g)
  BY DEF Evidenced
<1>1. EnvelopeMatches(gates, items, g)
  BY DEF Evidenced
<1>2. gates[g].evidence \in EvidenceIds /\ gates[g].evidence # e
  BY <1>1 DEF EnvelopeMatches, Ledger, GateEntry
<1> QED
  BY <1>1, <1>2 DEF EnvelopeMatches, Items

(* apply_gate_result keeps every gate evidenced when the result needs no   *)
(* evidence or the evidence given is stored for that gate and result.      *)
LEMMA ApplyGateResultEvidenced ==
  ASSUME NEW gates \in Ledger, NEW items \in Items, Evidenced(gates, items),
         NEW g \in Gate, NEW result \in Results, NEW e \in EvidenceIds \cup {NoEvidence},
         \/ ~Required(gates[g]) \/ result \notin Ran
         \/ /\ e \in EvidenceIds /\ items[e] # NoItem
            /\ items[e].gate = g /\ items[e].result = result
  PROVE  Evidenced(ApplyGateResult(gates, g, result, e), items)
<1> DEFINE applied == [gates EXCEPT ![g] = WithResult(@, result, e)]
           after == ApplyGateResult(gates, g, result, e)
<1>1. applied \in Ledger
  <2>1. WithResult(gates[g], result, e) \in GateEntry
    BY DEF WithResult, Ledger, GateEntry, NoEvidence
  <2> QED
    BY <2>1 DEF Ledger
<1>2. /\ applied[g].applicability = gates[g].applicability
      /\ applied[g].result = result
      /\ e # NoEvidence => applied[g].evidence = e
      /\ \A h \in Gate \ {g} : applied[h] = gates[h]
  BY DEF WithResult, Ledger, GateEntry
<1>3. e \in EvidenceIds => e # NoEvidence
  BY EvidenceIdsAssumption DEF NoEvidence
<1>4. Evidenced(applied, items)
  <2> SUFFICES ASSUME NEW h \in Gate, Required(applied[h]), applied[h].result \in Ran
               PROVE  EnvelopeMatches(applied, items, h)
    BY DEF Evidenced
  <2>1. CASE h = g
    BY <2>1, <1>2, <1>3 DEF EnvelopeMatches, Required
  <2>2. CASE h # g
    BY <2>2, <1>2 DEF Evidenced, EnvelopeMatches, Required
  <2> QED
    BY <2>1, <2>2
<1>5. Evidenced(InvalidateLater(applied, g), items)
  <2> DEFINE later == InvalidateLater(applied, g)
  <2> SUFFICES ASSUME NEW h \in Gate, Required(later[h]), later[h].result \in Ran
               PROVE  EnvelopeMatches(later, items, h)
    BY DEF Evidenced
  <2>1. later[h] = applied[h]
    BY <1>1, ReopenedNotRan DEF InvalidateLater, Ledger
  <2> QED
    BY <1>4, <2>1 DEF Evidenced, EnvelopeMatches, Required
<1> QED
  BY <1>4, <1>5 DEF ApplyGateResult

(* Tightened and reopened gates have not run (set-applicability,           *)
(* apply_stricter_plan).                                                   *)
LEMMA TightenEvidenced ==
  ASSUME NEW gates \in Ledger, NEW items \in Items, Evidenced(gates, items), NEW S
  PROVE  Evidenced(Tighten(gates, S), items)
<1> DEFINE after == Tighten(gates, S)
<1> SUFFICES ASSUME NEW h \in Gate, Required(after[h]), after[h].result \in Ran
             PROVE  EnvelopeMatches(after, items, h)
  BY DEF Evidenced
<1>1. h \notin S
  BY DEF Tighten, Tightened, Ledger, GateEntry, Ran
<1>2. after[h] = gates[h]
  BY <1>1, ReopenedNotRan DEF Tighten, Ledger
<1> QED
  BY <1>2 DEF Evidenced, EnvelopeMatches, Required

(* An exception changes neither result nor evidence (approve-exception).   *)
LEMMA ExceptedEvidenced ==
  ASSUME NEW gates \in Ledger, NEW items \in Items, Evidenced(gates, items), NEW g \in Gate
  PROVE  Evidenced(Excepted(gates, g), items)
<1>1. \A h \in Gate : /\ Excepted(gates, g)[h].applicability = gates[h].applicability
                      /\ Excepted(gates, g)[h].result = gates[h].result
                      /\ Excepted(gates, g)[h].evidence = gates[h].evidence
  BY DEF Excepted, Ledger, GateEntry
<1> QED
  BY <1>1 DEF Evidenced, EnvelopeMatches, Required

-----------------------------------------------------------------------------
(* Records                                                                 *)

Sound(r) == InOrder(r.gates) /\ Evidenced(r.gates, r.items)

(* The record start-cycle writes is a sound record.                        *)
LEMMA BornSound == \A skipped : Born(skipped) \in Record /\ Sound(Born(skipped))
<1> TAKE skipped
<1>1. NoItems \in Items
  BY DEF NoItems, Items
<1>2. << >> \in Seq(CommitEntry)
  OBVIOUS
<1>3. Born(skipped) \in Record
  BY <1>1, <1>2, PlannedGatesType, ProfileAssumption DEF Born, Record, Ledger
<1> QED
  BY <1>3, PlannedGatesInOrder, PlannedGatesEvidenced DEF Born, Sound

(* A command that changes the ledger alone keeps the record sound when it  *)
(* keeps the ledger so.                                                    *)
LEMMA NewGatesSound ==
  ASSUME NEW r \in Record, NEW gates \in Ledger, InOrder(gates), Evidenced(gates, r.items)
  PROVE  /\ [r EXCEPT !.gates = gates] \in Record
         /\ [r EXCEPT !.gates = gates].items = r.items
         /\ Sound([r EXCEPT !.gates = gates])
  BY DEF Record, Ledger, Sound

(* record-evidence keeps a record sound.                                   *)
LEMMA EvidenceAddedSound ==
  ASSUME NEW r \in Record, Sound(r), NEW e \in EvidenceIds, r.items[e] = NoItem,
         NEW envelope \in Envelope,
         envelope.result = "passed" => PredecessorsDisposed(r.gates, envelope.gate)
  PROVE  EvidenceAdded(r, e, envelope) \in Record /\ Sound(EvidenceAdded(r, e, envelope))
<1> DEFINE items == [r.items EXCEPT ![e] = envelope]
           gates == ApplyGateResult(r.gates, envelope.gate, envelope.result, e)
<1>1. r.gates \in Ledger /\ r.items \in Items
  BY DEF Record, Ledger
<1>2. envelope.gate \in Gate /\ envelope.result \in Ran /\ envelope.result \in Results
  BY DEF Envelope, Results
<1>3. items \in Items /\ items[e] = envelope
  BY <1>1 DEF Items
<1>4. envelope # NoItem
  BY <1>2, NGatesAssumption DEF NoItem, Gate
<1>5. gates \in Ledger /\ InOrder(gates)
  BY <1>1, <1>2, ApplyGateResultType, ApplyGateResultInOrder DEF Sound
<1>6. Evidenced(r.gates, items)
  BY <1>1, FreshItemEvidenced DEF Sound
<1>7. Evidenced(gates, items)
  BY <1>1, <1>2, <1>3, <1>4, <1>6, ApplyGateResultEvidenced
<1>8. EvidenceAdded(r, e, envelope) = [[r EXCEPT !.items = items] EXCEPT !.gates = gates]
  BY DEF EvidenceAdded, Record
<1> QED
  BY <1>3, <1>5, <1>7, <1>8 DEF Record, Ledger, Sound

(* Binding evidence to a commit changes neither the gate nor the result an *)
(* envelope is about (gate-commit).                                        *)
LEMMA BoundSound ==
  ASSUME NEW r \in Record, Sound(r), NEW G \in SUBSET Gate, NEW commit \in Nat
  PROVE  Bound(r, G, commit) \in Record /\ Sound(Bound(r, G, commit))
<1> DEFINE b == Bound(r, G, commit)
<1>1. r.items \in Items /\ r.gates \in Ledger
  BY DEF Record, Ledger
<1>2. \A e \in EvidenceIds :
        \/ b.items[e] = r.items[e]
        \/ /\ r.items[e] # NoItem
           /\ b.items[e] = [r.items[e] EXCEPT !.commit = commit]
  BY DEF Bound, Record
<1>3. \A e \in EvidenceIds :
        /\ b.items[e] \in Envelope \cup {NoItem}
        /\ b.items[e].gate = r.items[e].gate
        /\ b.items[e].result = r.items[e].result
        /\ r.items[e] # NoItem => b.items[e] # NoItem
  <2> TAKE e \in EvidenceIds
  <2>1. r.items[e] \in Envelope \cup {NoItem}
    BY <1>1 DEF Items
  <2>2. CASE b.items[e] = r.items[e]
    BY <2>1, <2>2
  <2>3. CASE r.items[e] # NoItem /\ b.items[e] = [r.items[e] EXCEPT !.commit = commit]
    <3>1. b.items[e] \in Envelope
      BY <2>1, <2>3 DEF Envelope
    <3>2. \A x \in Envelope : x # NoItem
      BY NGatesAssumption DEF Envelope, NoItem, Gate
    <3> QED
      BY <2>1, <2>3, <3>1, <3>2 DEF Envelope
  <2> QED
    BY <1>2, <2>2, <2>3
<1>4. b.items \in Items
  BY <1>3 DEF Bound, Record, Items
<1>5. b.commits \in Seq(CommitEntry)
  BY DEF Bound, Record, CommitEntry
<1>6. b \in Record /\ b.gates = r.gates
  BY <1>4, <1>5 DEF Bound, Record
<1>7. Evidenced(b.gates, b.items)
  <2> SUFFICES ASSUME NEW g \in Gate, Required(b.gates[g]), b.gates[g].result \in Ran
               PROVE  EnvelopeMatches(b.gates, b.items, g)
    BY DEF Evidenced
  <2>1. EnvelopeMatches(r.gates, r.items, g)
    BY <1>6 DEF Sound, Evidenced
  <2>2. r.gates[g].evidence \in EvidenceIds
    BY <1>1, <2>1 DEF EnvelopeMatches, Ledger, GateEntry
  <2> QED
    BY <1>3, <1>6, <2>1, <2>2 DEF EnvelopeMatches
<1> QED
  BY <1>6, <1>7 DEF Sound

-----------------------------------------------------------------------------
(* The invariant of a cycle                                                *)

Fresh(r) == \A e \in EvidenceIds : e > issued => r.items[e] = NoItem
Good(r) == r \in Record /\ Sound(r) /\ Fresh(r)

GoodRecords == Good(rec) /\ \A p \in Procs : Good(copy[p])
IInv == TypeOK /\ GoodRecords

HelpersOK ==
  /\ guard \in Procs \cup {NoProc}
  /\ elock \in Procs \cup {NoProc}
  /\ tlock \in Procs \cup {NoProc}
  /\ pc \in [Procs -> Steps]
  /\ copy \in [Procs -> Record]
  /\ arg \in [Procs -> Argument]
  /\ \A p \in Procs : Good(copy[p])

-----------------------------------------------------------------------------
(* What helper steps have in common                                        *)

(* The initial record of start-cycle is good whatever has been issued.     *)
LEMMA BornGood == \A skipped : Good(Born(skipped))
<1>1. \A skipped : Born(skipped).items = NoItems
  BY DEF Born
<1> QED
  BY <1>1, BornSound DEF Good, Fresh, NoItems

(* A helper that ends, whatever the reason, leaves the others as they are. *)
LEMMA ExitStep ==
  ASSUME IInv, NEW p \in Procs, Exit(p), UNCHANGED issued
  PROVE  HelpersOK'
<1>1. Good(NoCopy)
  BY BornGood DEF NoCopy
<1>2. NoArgument \in Argument /\ "idle" \in Steps
  BY DEF NoArgument, Argument, Steps
<1>3. \A q \in Procs : Good(copy'[q])
  BY <1>1 DEF IInv, GoodRecords, TypeOK, Exit
<1> USE DEF IInv, TypeOK, Exit
<1>4. pc' \in [Procs -> Steps] /\ arg' \in [Procs -> Argument]
  BY <1>2
<1>5. copy' \in [Procs -> Record]
  BY <1>1 DEF Good
<1>6. /\ guard' \in Procs \cup {NoProc}
      /\ elock' \in Procs \cup {NoProc}
      /\ tlock' \in Procs \cup {NoProc}
  BY DEF Free
<1> QED
  BY <1>3, <1>4, <1>5, <1>6 DEF HelpersOK, Good, Fresh

(* A helper that goes on with a good copy.                                 *)
LEMMA HoldStep ==
  ASSUME IInv, NEW p \in Procs, NEW r, Good(r), NEW step \in Steps,
         Hold(p, r), Goto(p, step), UNCHANGED issued,
         arg' \in [Procs -> Argument],
         guard' \in Procs \cup {NoProc}, elock' \in Procs \cup {NoProc},
         tlock' \in Procs \cup {NoProc}
  PROVE  HelpersOK'
<1>1. \A q \in Procs : Good(copy'[q])
  BY DEF IInv, GoodRecords, TypeOK, Hold
<1>2. pc' \in [Procs -> Steps]
  BY DEF IInv, TypeOK, Goto
<1>3. copy' \in [Procs -> Record]
  BY DEF IInv, TypeOK, Hold, Good
<1> QED
  BY <1>1, <1>2, <1>3 DEF HelpersOK, Good, Fresh

(* A command of the load, check, save kind, once its change is known to    *)
(* make a good record.                                                     *)
LEMMA PrepareStep ==
  ASSUME IInv, NEW p \in Procs, NEW r, Good(r), Prepare(p, r)
  PROVE  IInv'
<1>1. HelpersOK'
  <2>1. "save" \in Steps
    BY DEF Steps
  <2> QED
    BY <2>1, HoldStep DEF IInv, TypeOK, Prepare, TakeGuard
<1>2. Good(rec)'
  BY DEF IInv, GoodRecords, Prepare, record, Good, Fresh
<1> QED
  BY <1>1, <1>2 DEF IInv, TypeOK, GoodRecords, HelpersOK, Prepare, record, source

(* A good record whose ledger alone changes is good.                       *)
LEMMA NewGatesGood ==
  ASSUME IInv, NEW gates \in Ledger, InOrder(gates), Evidenced(gates, rec.items)
  PROVE  Good([rec EXCEPT !.gates = gates])
  BY NewGatesSound DEF IInv, GoodRecords, Good, Fresh

-----------------------------------------------------------------------------
(* Commands that load, check and save                                      *)

(* set-gate keeps the invariant.                                           *)
LEMMA SetGateStep ==
  ASSUME IInv, NEW p \in Procs, NEW g \in Gate, NEW result \in Results,
         NEW e \in EvidenceIds \cup {NoEvidence}, SetGate(p, g, result, e)
  PROVE  IInv'
<1> DEFINE gates == ApplyGateResult(rec.gates, g, result, e)
<1>1. rec.gates \in Ledger /\ rec.items \in Items /\ Sound(rec)
  BY DEF IInv, GoodRecords, Good, Record, Ledger
<1>2. gates \in Ledger
  BY <1>1, ApplyGateResultType
<1>3. InOrder(gates)
  BY <1>1, ApplyGateResultInOrder DEF SetGate, Sound
<1>4. \/ ~Required(rec.gates[g]) \/ result \notin Ran
      \/ /\ e \in EvidenceIds /\ rec.items[e] # NoItem
         /\ rec.items[e].gate = g /\ rec.items[e].result = result
  BY DEF SetGate, Ran
<1>5. Evidenced(gates, rec.items)
  BY <1>1, <1>4, ApplyGateResultEvidenced DEF Sound
<1>6. Good([rec EXCEPT !.gates = gates])
  BY <1>2, <1>3, <1>5, NewGatesGood
<1>7. Prepare(p, [rec EXCEPT !.gates = gates])
  BY DEF SetGate
<1> QED
  BY <1>6, <1>7, PrepareStep

(* set-applicability keeps the invariant.                                  *)
LEMMA SetApplicabilityStep ==
  ASSUME IInv, NEW p \in Procs, NEW g \in Gate, SetApplicability(p, g)
  PROVE  IInv'
<1> DEFINE gates == Tighten(rec.gates, {g})
<1>1. rec.gates \in Ledger /\ rec.items \in Items /\ Sound(rec)
  BY DEF IInv, GoodRecords, Good, Record, Ledger
<1>2. gates \in Ledger /\ InOrder(gates) /\ Evidenced(gates, rec.items)
  BY <1>1, TightenType, TightenInOrder, TightenEvidenced DEF Sound
<1>3. Good([rec EXCEPT !.gates = gates])
  BY <1>2, NewGatesGood
<1>4. Prepare(p, [rec EXCEPT !.gates = gates])
  BY DEF SetApplicability
<1> QED
  BY <1>3, <1>4, PrepareStep

(* approve-exception keeps the invariant.                                  *)
LEMMA ApproveExceptionStep ==
  ASSUME IInv, NEW p \in Procs, NEW g \in Gate, ApproveException(p, g)
  PROVE  IInv'
<1> DEFINE gates == Excepted(rec.gates, g)
<1>1. rec.gates \in Ledger /\ rec.items \in Items /\ Sound(rec)
  BY DEF IInv, GoodRecords, Good, Record, Ledger
<1>2. gates \in Ledger /\ InOrder(gates) /\ Evidenced(gates, rec.items)
  BY <1>1, ExceptedType, ExceptedInOrder, ExceptedEvidenced DEF Sound
<1>3. Good([rec EXCEPT !.gates = gates])
  BY <1>2, NewGatesGood
<1>4. Prepare(p, [rec EXCEPT !.gates = gates])
  BY DEF ApproveException
<1> QED
  BY <1>3, <1>4, PrepareStep

(* The committed profile is one of the profiles.                           *)
LEMMA HeadProfileType ==
  ASSUME TypeOK
  PROVE  HEAD \in Nat /\ HeadProfile \in Profiles /\ HeadBlob \in Blobs
<1>1. HEAD \in Nat /\ (log # << >> => HEAD \in 1..Len(log))
  BY DEF TypeOK, HEAD
<1>2. log # << >> => log[HEAD] \in Commit
  BY <1>1 DEF TypeOK
<1> QED
  BY <1>1, <1>2, ProfileAssumption, BirthAssumption DEF HeadProfile, HeadBlob, Commit

(* The commits update-plan records are commit entries.                     *)
LEMMA AdoptedType ==
  ASSUME TypeOK, NEW r \in Record
  PROVE  Adopted(r) \in Seq(CommitEntry)
<1> DEFINE at(i) == CHOOSE k \in 1..Len(r.commits) : r.commits[k].id = i
<1>1. r.commits \in Seq(CommitEntry) /\ HEAD \in Nat
  BY HeadProfileType DEF Record
<1>2. \A i \in 1..HEAD : Known(r, i) => r.commits[at(i)] \in CommitEntry
  <2> TAKE i \in 1..HEAD
  <2> HAVE Known(r, i)
  <2>1. \E k \in 1..Len(r.commits) : r.commits[k].id = i
    BY DEF Known, CommitIds
  <2>2. at(i) \in 1..Len(r.commits)
    BY <2>1
  <2> HIDE DEF at
  <2> QED
    BY <1>1, <2>2
<1>3. \A i \in 1..HEAD : [id |-> i, gates |-> {}] \in CommitEntry
  BY DEF CommitEntry
<1>4. Adopted(r) \in [1..HEAD -> CommitEntry]
  BY <1>2, <1>3 DEF Adopted
<1> QED
  BY <1>1, <1>4

(* update-plan and raise-risk, tightening the plan, keep the invariant.    *)
LEMMA UpdatePlanStep ==
  ASSUME IInv, NEW p \in Procs, NEW S \in SUBSET Optional, UpdatePlan(p, S)
  PROVE  IInv'
<1> DEFINE gates == Tighten(rec.gates, S)
           r == [rec EXCEPT !.gates = gates, !.profile = HeadProfile]
<1>1. rec \in Record /\ rec.gates \in Ledger /\ rec.items \in Items /\ Sound(rec) /\ Fresh(rec)
  BY DEF IInv, GoodRecords, Good, Record, Ledger
<1>2. gates \in Ledger /\ InOrder(gates) /\ Evidenced(gates, rec.items)
  BY <1>1, TightenType, TightenInOrder, TightenEvidenced, OptionalAssumption DEF Sound
<1>3. HeadProfile \in Profiles
  BY HeadProfileType DEF IInv
<1>4. Good(r)
  <2> HIDE DEF gates
  <2>1. r \in Record /\ r.gates = gates /\ r.items = rec.items
    BY <1>1, <1>2, <1>3 DEF Record, Ledger
  <2> QED
    BY <1>1, <1>2, <2>1 DEF Good, Sound, Fresh
<1>5. Hold(p, r) /\ Goto(p, "up_adopt") /\ "up_adopt" \in Steps
  BY DEF UpdatePlan, Steps
<1>6. HelpersOK'
  <2> HIDE DEF r
  <2> QED
    BY <1>4, <1>5, HoldStep DEF IInv, TypeOK, UpdatePlan, TakeGuard
<1>7. Good(rec)'
  BY DEF IInv, GoodRecords, UpdatePlan, record, Good, Fresh
<1> QED
  BY <1>6, <1>7 DEF IInv, TypeOK, GoodRecords, HelpersOK, UpdatePlan, record, source

(* review-artifact keeps the invariant.                                    *)
LEMMA ReviewArtifactStep ==
  ASSUME IInv, NEW p \in Procs, ReviewArtifact(p)
  PROVE  IInv'
<1>1. Good([rec EXCEPT !.reviewed = TRUE])
  BY DEF IInv, GoodRecords, Good, Record, Sound, Fresh
<1> QED
  BY <1>1, PrepareStep DEF ReviewArtifact

-----------------------------------------------------------------------------
(* Saving, dying, recording evidence                                       *)

SourceOK ==
  /\ pointer \in BOOLEAN
  /\ log \in Seq(Commit)
  /\ remote \in Nat
  /\ wt \in Blobs /\ index \in Blobs
  /\ issued \in Nat /\ crashes \in 0..MaxCrashes

(* The three parts an action has to establish.                             *)
LEMMA Assemble ==
  ASSUME HelpersOK', SourceOK', Good(rec)'
  PROVE  IInv'
  BY DEF HelpersOK, SourceOK, IInv, TypeOK, GoodRecords, Good

(* A record on disk and the ids issued that do not change stay good.       *)
LEMMA RecordKept ==
  ASSUME IInv, UNCHANGED <<rec, issued>>
  PROVE  Good(rec)'
  BY DEF IInv, GoodRecords, Good, Fresh

(* atomic_json installs a good copy as the record.                         *)
LEMMA SaveStep ==
  ASSUME IInv, NEW p \in Procs, Save(p)
  PROVE  IInv'
<1>1. HelpersOK'
  BY ExitStep DEF Save
<1>2. SourceOK'
  BY DEF IInv, TypeOK, Save, SourceOK, source
<1>3. Good(rec)'
  BY DEF IInv, GoodRecords, Save, Good, Fresh
<1> QED
  BY <1>1, <1>2, <1>3, Assemble

(* The death of a helper keeps the invariant.                              *)
LEMMA CrashStep ==
  ASSUME IInv, NEW p \in Procs, Crash(p)
  PROVE  IInv'
<1>1. HelpersOK'
  BY ExitStep DEF Crash
<1>2. SourceOK'
  BY BoundsAssumption DEF IInv, TypeOK, Crash, SourceOK, source, record
<1>3. Good(rec)'
  BY RecordKept DEF Crash, record
<1> QED
  BY <1>1, <1>2, <1>3, Assemble

(* record-evidence waiting for its lock keeps the invariant.               *)
LEMMA EvidenceBeginStep ==
  ASSUME IInv, NEW p \in Procs, NEW g \in Gate, NEW blob \in {wt, NoPaths},
         EvidenceBegin(p, g, blob)
  PROVE  IInv'
<1>1. [gates |-> {g}, blob |-> blob, head |-> 0] \in Argument
  BY DEF IInv, TypeOK, Argument
<1>2. HelpersOK'
  BY <1>1 DEF IInv, TypeOK, GoodRecords, EvidenceBegin, HelpersOK, Goto, TakeGuard, Steps, Good, Fresh
<1>3. SourceOK'
  BY DEF IInv, TypeOK, EvidenceBegin, SourceOK, source, record
<1>4. Good(rec)'
  BY RecordKept DEF EvidenceBegin, record
<1> QED
  BY <1>2, <1>3, <1>4, Assemble

(* record-evidence loading the record under its lock keeps the invariant.  *)
LEMMA EvidenceLoadStep ==
  ASSUME IInv, NEW p \in Procs, EvidenceLoad(p)
  PROVE  IInv'
<1>1. HelpersOK'
  <2>1. CASE Exit(p)
    BY <2>1, ExitStep DEF EvidenceLoad
  <2>2. CASE /\ elock' = p
             /\ Hold(p, rec)
             /\ arg' = [arg EXCEPT ![p].head = HEAD]
             /\ Goto(p, "re_run")
             /\ UNCHANGED <<guard, tlock>>
    <3>1. arg' \in [Procs -> Argument]
      BY <2>2, HeadProfileType DEF IInv, TypeOK, Argument
    <3> QED
      BY <2>2, <3>1, HoldStep DEF EvidenceLoad, IInv, TypeOK, GoodRecords, Steps
  <2> QED
    BY <2>1, <2>2 DEF EvidenceLoad
<1>2. SourceOK'
  BY DEF IInv, TypeOK, EvidenceLoad, SourceOK, source, record
<1>3. Good(rec)'
  BY RecordKept DEF EvidenceLoad, record
<1> QED
  BY <1>1, <1>2, <1>3, Assemble

(* The evidence program ending keeps the invariant: the id it uses is new  *)
(* in every record.                                                        *)
LEMMA EvidenceRanStep ==
  ASSUME IInv, NEW p \in Procs, NEW g \in Gate, NEW result \in Ran, NEW e \in EvidenceIds,
         EvidenceRan(p, g, result, e)
  PROVE  IInv'
<1> DEFINE envelope == [gate |-> g, result |-> result, head |-> HEAD, blob |-> arg[p].blob,
                        commit |-> 0, ranHead |-> arg[p].head]
           r == EvidenceAdded(copy[p], e, envelope)
<1>1. envelope \in Envelope
  BY HeadProfileType DEF IInv, TypeOK, Argument, Envelope
<1>2. SourceOK'
  BY DEF IInv, TypeOK, EvidenceRan, SourceOK, source, record
<1>3. Good(rec)'
  BY DEF IInv, TypeOK, GoodRecords, EvidenceRan, Good, Fresh, record
<1>4. CASE Exit(p) /\ UNCHANGED issued
  BY <1>2, <1>3, <1>4, ExitStep, Assemble
<1>5. CASE /\ ~(result = "passed" /\ ~PredecessorsDisposed(copy[p].gates, g))
           /\ Hold(p, r) /\ issued' = e /\ Goto(p, "save")
           /\ UNCHANGED <<locks, arg>>
  <2>1. copy[p] \in Record /\ Sound(copy[p]) /\ copy[p].items[e] = NoItem /\ e = issued + 1
    BY DEF IInv, TypeOK, GoodRecords, Good, Fresh, EvidenceRan
  <2>2. r \in Record /\ Sound(r)
    BY <1>1, <1>5, <2>1, EvidenceAddedSound
  <2>3. r.items = [copy[p].items EXCEPT ![e] = envelope]
    BY <2>1 DEF EvidenceAdded, Record
  <2> HIDE DEF r, envelope
  <2>4. \A i \in EvidenceIds : i > issued' => r.items[i] = NoItem
    <3> SUFFICES ASSUME NEW i \in EvidenceIds, i > e PROVE r.items[i] = NoItem
      BY <1>5
    <3>1. i \in Nat /\ e \in Nat /\ i # e /\ i > issued
      BY <2>1, EvidenceIdsAssumption DEF IInv, TypeOK
    <3>2. copy[p].items[i] = NoItem
      BY <3>1 DEF IInv, GoodRecords, Good, Fresh
    <3>3. copy[p].items \in Items
      BY <2>1 DEF Record
    <3> QED
      BY <2>3, <3>1, <3>2, <3>3 DEF Items
  <2>5. \A q \in Procs : Good(copy[q])'
    <3>1. \A q \in Procs : copy'[q] = IF q = p THEN r ELSE copy[q]
      BY <1>5 DEF Hold, IInv, TypeOK
    <3>2. \A i \in EvidenceIds : i > issued' => i > issued
      BY <2>1, <1>5, EvidenceIdsAssumption DEF IInv, TypeOK
    <3> QED
      BY <2>2, <2>4, <3>1, <3>2 DEF IInv, GoodRecords, Good, Fresh
  <2>6. HelpersOK'
    BY <1>5, <2>2, <2>5 DEF IInv, TypeOK, HelpersOK, Hold, Goto, Steps, locks
  <2> QED
    BY <1>2, <1>3, <2>6, Assemble
<1> QED
  BY <1>4, <1>5 DEF EvidenceRan

-----------------------------------------------------------------------------
(* gate-commit                                                             *)

(* Passing gate-commit's checks keeps the invariant.                       *)
LEMMA CommitVerifyStep ==
  ASSUME IInv, NEW p \in Procs, NEW G \in SUBSET Gate, CommitVerify(p, G)
  PROVE  IInv'
<1>1. arg' \in [Procs -> Argument]
  BY DEF IInv, TypeOK, CommitVerify, Argument
<1>2. HelpersOK'
  BY <1>1, HoldStep DEF IInv, TypeOK, GoodRecords, CommitVerify, TakeGuard, Steps
<1>3. SourceOK'
  BY DEF IInv, TypeOK, CommitVerify, SourceOK, source, record
<1>4. Good(rec)'
  BY RecordKept DEF CommitVerify, record
<1> QED
  BY <1>2, <1>3, <1>4, Assemble

(* A helper that goes on with its copy, arguments and locks unchanged.     *)
LEMMA GotoStep ==
  ASSUME IInv, NEW p \in Procs, NEW step \in Steps, Goto(p, step),
         UNCHANGED <<locks, copy, arg, issued>>
  PROVE  HelpersOK'
  BY DEF IInv, TypeOK, GoodRecords, Goto, HelpersOK, locks, Good, Fresh

(* git add keeps the invariant.                                            *)
LEMMA CommitStageStep ==
  ASSUME IInv, NEW p \in Procs, CommitStage(p)
  PROVE  IInv'
<1>1. HelpersOK'
  BY GotoStep DEF CommitStage, Steps, locks
<1>2. SourceOK'
  BY DEF IInv, TypeOK, CommitStage, SourceOK, record
<1>3. Good(rec)'
  BY RecordKept DEF CommitStage, record
<1> QED
  BY <1>1, <1>2, <1>3, Assemble

(* Comparing the index keeps the invariant.                                *)
LEMMA CommitCompareStep ==
  ASSUME IInv, NEW p \in Procs, CommitCompare(p)
  PROVE  IInv'
<1>1. HelpersOK'
  BY ExitStep, GotoStep DEF CommitCompare, Steps
<1>2. SourceOK'
  BY DEF IInv, TypeOK, CommitCompare, SourceOK, record, source
<1>3. Good(rec)'
  BY RecordKept DEF CommitCompare, record
<1> QED
  BY <1>1, <1>2, <1>3, Assemble

(* Commits made of the index, or of HEAD with another profile, are commits. *)
LEMMA LogGrows ==
  ASSUME TypeOK, NEW blob \in Blobs, NEW profile \in Profiles
  PROVE  Append(log, [blob |-> blob, profile |-> profile]) \in Seq(Commit)
<1>1. [blob |-> blob, profile |-> profile] \in Commit
  BY DEF Commit
<1> QED
  BY <1>1 DEF TypeOK

(* git commit keeps the invariant.                                        *)
LEMMA CommitCreateStep ==
  ASSUME IInv, NEW p \in Procs, CommitCreate(p)
  PROVE  IInv'
<1>1. HelpersOK'
  BY ExitStep, GotoStep DEF CommitCreate, Steps
<1>2. log' \in Seq(Commit)
  BY LogGrows, HeadProfileType DEF IInv, TypeOK, CommitCreate
<1>3. SourceOK'
  BY <1>2 DEF IInv, TypeOK, CommitCreate, SourceOK, record
<1>4. Good(rec)'
  BY RecordKept DEF CommitCreate, record
<1> QED
  BY <1>1, <1>3, <1>4, Assemble

(* Binding evidence to the commit keeps the invariant.                     *)
LEMMA CommitBindStep ==
  ASSUME IInv, NEW p \in Procs, CommitBind(p)
  PROVE  IInv'
<1> DEFINE r == Bound(copy[p], arg[p].gates, HEAD)
<1>1. Good(copy[p]) /\ copy[p] \in Record /\ arg[p].gates \in SUBSET Gate /\ HEAD \in Nat
  BY HeadProfileType DEF IInv, TypeOK, GoodRecords, Argument
<1>2. Good(r)
  <2>1. r \in Record /\ Sound(r)
    BY <1>1, BoundSound DEF Good
  <2>2. \A e \in EvidenceIds : copy[p].items[e] = NoItem => r.items[e] = NoItem
    <3> TAKE e \in EvidenceIds
    <3> DEFINE old == copy[p]
    <3>1. old \in Record
      BY <1>1
    <3> HIDE DEF old
    <3>2. old.items[e] = NoItem => Bound(old, arg[p].gates, HEAD).items[e] = NoItem
      BY <3>1 DEF Bound, Record
    <3> QED
      BY <3>2 DEF old
  <2> QED
    BY <1>1, <2>1, <2>2 DEF Good, Fresh
<1>3. HelpersOK'
  <2>1. CASE Exit(p)
    BY <2>1, ExitStep DEF CommitBind
  <2>2. CASE Hold(p, r) /\ Goto(p, "save") /\ UNCHANGED <<locks, arg>>
    BY <1>2, <2>2, HoldStep DEF IInv, TypeOK, CommitBind, Steps, locks
  <2> QED
    BY <2>1, <2>2 DEF CommitBind
<1>4. SourceOK'
  BY DEF IInv, TypeOK, CommitBind, SourceOK, source, record
<1>5. Good(rec)'
  BY RecordKept DEF CommitBind, record
<1> QED
  BY <1>3, <1>4, <1>5, Assemble

-----------------------------------------------------------------------------
(* final-push and complete-local                                           *)

(* Changing the state or the source_sync outcome keeps a record good.      *)
LEMMA StateGood ==
  ASSUME NEW r, Good(r), NEW state \in {"active", "finalizing", "completed"}
  PROVE  /\ Good([r EXCEPT !.state = state])
         /\ Good([r EXCEPT !.synced = TRUE])
         /\ Good([r EXCEPT !.state = state, !.synced = TRUE])
  BY DEF Good, Record, Sound, Fresh

(* final-push loading the record keeps the invariant.                     *)
LEMMA PushLoadStep ==
  ASSUME IInv, NEW p \in Procs, PushLoad(p)
  PROVE  IInv'
<1>1. HelpersOK'
  BY HoldStep DEF IInv, TypeOK, GoodRecords, PushLoad, TakeGuard, Steps
<1>2. SourceOK'
  BY DEF IInv, TypeOK, PushLoad, SourceOK, source, record
<1>3. Good(rec)'
  BY RecordKept DEF PushLoad, record
<1> QED
  BY <1>1, <1>2, <1>3, Assemble

(* Taking, or not getting, the target lock keeps the invariant.            *)
LEMMA PushLockStep ==
  ASSUME IInv, NEW p \in Procs, PushLock(p)
  PROVE  IInv'
<1>1. HelpersOK'
  <2>1. CASE Exit(p)
    BY <2>1, ExitStep DEF PushLock
  <2>2. CASE tlock' = p /\ Goto(p, "fp_start") /\ UNCHANGED <<guard, elock, copy, arg>>
    BY <2>2 DEF IInv, TypeOK, GoodRecords, PushLock, Goto, HelpersOK, Steps, Good, Fresh
  <2> QED
    BY <2>1, <2>2 DEF PushLock
<1>2. SourceOK'
  BY DEF IInv, TypeOK, PushLock, SourceOK, source, record
<1>3. Good(rec)'
  BY RecordKept DEF PushLock, record
<1> QED
  BY <1>1, <1>2, <1>3, Assemble

(* The readiness checks of final-push keep the invariant.                  *)
LEMMA PushStartStep ==
  ASSUME IInv, NEW p \in Procs, PushStart(p)
  PROVE  IInv'
<1>1. HelpersOK'
  BY ExitStep, GotoStep DEF PushStart, Steps
<1>2. SourceOK'
  BY DEF IInv, TypeOK, PushStart, SourceOK, source, record
<1>3. Good(rec)'
  BY RecordKept DEF PushStart, record
<1> QED
  BY <1>1, <1>2, <1>3, Assemble

(* A helper that saves a good copy, keeps it and goes on.                  *)
LEMMA SaveAndGo ==
  ASSUME IInv, NEW p \in Procs, NEW r, Good(r), rec' = r, Hold(p, r),
         NEW step \in Steps, Goto(p, step),
         UNCHANGED <<pointer, source, locks, arg, issued, crashes>>
  PROVE  IInv'
<1>1. HelpersOK'
  BY HoldStep DEF IInv, TypeOK, locks
<1>2. SourceOK'
  BY DEF IInv, TypeOK, SourceOK, source
<1>3. Good(rec)'
  BY DEF Good, Fresh
<1> QED
  BY <1>1, <1>2, <1>3, Assemble

(* A helper that goes on or ends without touching the record or the source. *)
LEMMA QuietStep ==
  ASSUME IInv, NEW p \in Procs, UNCHANGED <<rec, pointer, source, issued, crashes>>,
         \/ Exit(p)
         \/ \E step \in Steps : Goto(p, step) /\ UNCHANGED <<locks, copy, arg>>
  PROVE  IInv'
<1>1. HelpersOK'
  BY ExitStep, GotoStep
<1>2. SourceOK'
  BY DEF IInv, TypeOK, SourceOK, source
<1>3. Good(rec)'
  BY RecordKept
<1> QED
  BY <1>1, <1>2, <1>3, Assemble

(* Comparing the commits ahead and saving finalizing keeps the invariant.  *)
LEMMA PushAheadStep ==
  ASSUME IInv, NEW p \in Procs, PushAhead(p)
  PROVE  IInv'
<1> DEFINE r == [copy[p] EXCEPT !.state = "finalizing"]
<1>1. Good(r)
  BY StateGood DEF IInv, GoodRecords
<1>2. \/ /\ rec' = r /\ Hold(p, r) /\ Goto(p, "fp_push") /\ UNCHANGED <<locks, arg>>
      \/ Goto(p, "fp_verify") /\ UNCHANGED <<rec, locks, copy, arg>>
      \/ Exit(p) /\ UNCHANGED rec
  BY DEF PushAhead
<1> QED
  BY <1>1, <1>2, SaveAndGo, QuietStep DEF PushAhead, Steps

(* A push that arrives keeps the invariant.                                *)
LEMMA PushSendStep ==
  ASSUME IInv, NEW p \in Procs, PushSend(p)
  PROVE  IInv'
<1>1. HelpersOK'
  BY GotoStep DEF PushSend, Steps
<1>2. SourceOK'
  BY HeadProfileType DEF IInv, TypeOK, PushSend, SourceOK, record
<1>3. Good(rec)'
  BY RecordKept DEF PushSend, record
<1> QED
  BY <1>1, <1>2, <1>3, Assemble

(* A push that fails, applied or not, keeps the invariant.                 *)
LEMMA PushFailsStep ==
  ASSUME IInv, NEW p \in Procs, PushFails(p)
  PROVE  IInv'
<1>1. HelpersOK'
  BY ExitStep DEF PushFails
<1>2. SourceOK'
  BY HeadProfileType DEF IInv, TypeOK, PushFails, SourceOK, record
<1>3. Good(rec)'
  BY RecordKept DEF PushFails, record
<1> QED
  BY <1>1, <1>2, <1>3, Assemble

(* Saving completed after the push keeps the invariant.                    *)
LEMMA PushVerifyStep ==
  ASSUME IInv, NEW p \in Procs, PushVerify(p)
  PROVE  IInv'
<1> DEFINE r == [copy[p] EXCEPT !.state = "completed"]
<1>1. Good(r)
  BY StateGood DEF IInv, GoodRecords
<1>2. \/ /\ rec' = r /\ Hold(p, r) /\ Goto(p, "fp_sync") /\ UNCHANGED <<locks, arg>>
      \/ Exit(p) /\ UNCHANGED rec
  BY DEF PushVerify
<1> QED
  BY <1>1, <1>2, SaveAndGo, QuietStep DEF PushVerify, Steps

(* Saving the source_sync outcome keeps the invariant.                     *)
LEMMA PushSyncStep ==
  ASSUME IInv, NEW p \in Procs, PushSync(p)
  PROVE  IInv'
<1>1. Good([copy[p] EXCEPT !.synced = TRUE])
  BY StateGood DEF IInv, GoodRecords
<1> QED
  BY <1>1, SaveAndGo DEF PushSync, Steps

(* Removing the active pointer keeps the invariant.                        *)
LEMMA UnlinkStep ==
  ASSUME IInv, NEW p \in Procs, Unlink(p)
  PROVE  IInv'
<1>1. HelpersOK'
  BY ExitStep DEF Unlink
<1>2. SourceOK'
  BY DEF IInv, TypeOK, Unlink, SourceOK, source
<1>3. Good(rec)'
  BY RecordKept DEF Unlink
<1> QED
  BY <1>1, <1>2, <1>3, Assemble

(* A helper that changes nothing but its private copy.                     *)
LEMMA HoldAndGo ==
  ASSUME IInv, NEW p \in Procs, NEW r, Good(r), Hold(p, r),
         NEW step \in Steps, Goto(p, step),
         UNCHANGED <<record, source, locks, arg, issued, crashes>>
  PROVE  IInv'
<1>1. HelpersOK'
  BY HoldStep DEF IInv, TypeOK, locks
<1>2. SourceOK'
  BY DEF IInv, TypeOK, SourceOK, source, record
<1>3. Good(rec)'
  BY RecordKept DEF record
<1> QED
  BY <1>1, <1>2, <1>3, Assemble

(* Adopting the commits of the branch keeps the invariant.                 *)
LEMMA AdoptCommitsStep ==
  ASSUME IInv, NEW p \in Procs, AdoptCommits(p)
  PROVE  IInv'
<1> DEFINE commits == Adopted(copy[p])
           r == [copy[p] EXCEPT !.commits = commits]
<1>1. Good(copy[p])
  BY DEF IInv, GoodRecords
<1>2. commits \in Seq(CommitEntry)
  BY <1>1, AdoptedType DEF IInv, Good
<1>3. Good(r)
  <2> HIDE DEF commits
  <2> QED
    BY <1>1, <1>2 DEF Good, Record, Sound, Fresh
<1>4. \/ Hold(p, r) /\ Goto(p, "save") /\ UNCHANGED <<locks, arg>>
      \/ Exit(p)
  BY DEF AdoptCommits
<1>5. UNCHANGED <<record, source, issued, crashes>> /\ "save" \in Steps
  BY DEF AdoptCommits, Steps
<1> HIDE DEF r
<1> QED
  BY <1>3, <1>4, <1>5, HoldAndGo, QuietStep DEF record

(* The checks of complete-local keep the invariant.                        *)
LEMMA LocalVerifyStep ==
  ASSUME IInv, NEW p \in Procs, LocalVerify(p)
  PROVE  IInv'
<1>1. Good(rec)
  BY DEF IInv, GoodRecords
<1>2. HelpersOK'
  BY <1>1, HoldStep DEF IInv, TypeOK, LocalVerify, Steps
<1>3. SourceOK'
  BY DEF IInv, TypeOK, LocalVerify, SourceOK, source, record
<1>4. Good(rec)'
  BY RecordKept DEF LocalVerify, record
<1> QED
  BY <1>2, <1>3, <1>4, Assemble

(* Comparing the commits of the branch keeps the invariant.                *)
LEMMA LocalAheadStep ==
  ASSUME IInv, NEW p \in Procs, LocalAhead(p)
  PROVE  IInv'
  BY QuietStep DEF LocalAhead, record, Steps

(* Reading the HEAD of a local completion keeps the invariant.             *)
LEMMA LocalHeadStep ==
  ASSUME IInv, NEW p \in Procs, LocalHead(p)
  PROVE  IInv'
<1> DEFINE r == LocallyCompleted(copy[p], HEAD)
<1>1. Good(copy[p]) /\ HEAD \in Nat
  BY HeadProfileType DEF IInv, GoodRecords
<1>2. Good(r)
  BY <1>1 DEF Good, Record, Sound, Fresh, LocallyCompleted
<1>3. \/ Hold(p, r) /\ Goto(p, "cl_save") /\ UNCHANGED <<locks, arg>>
      \/ Goto(p, "unlink") /\ UNCHANGED <<locks, copy, arg>>
      \/ Exit(p)
  BY DEF LocalHead
<1>4. UNCHANGED <<record, source, issued, crashes>> /\ {"cl_save", "unlink"} \subseteq Steps
  BY DEF LocalHead, Steps
<1> HIDE DEF r
<1> QED
  BY <1>2, <1>3, <1>4, HoldAndGo, QuietStep DEF record

(* complete-local saving completed keeps the invariant.                    *)
LEMMA LocalCompleteStep ==
  ASSUME IInv, NEW p \in Procs, LocalComplete(p)
  PROVE  IInv'
<1>1. CASE rec' = copy[p] /\ Goto(p, "unlink") /\ UNCHANGED <<locks, copy, arg>>
  <2>1. HelpersOK'
    BY <1>1, GotoStep DEF LocalComplete, Steps
  <2>2. SourceOK'
    BY DEF IInv, TypeOK, LocalComplete, SourceOK, source
  <2>3. Good(rec)'
    BY <1>1 DEF IInv, GoodRecords, LocalComplete, Good, Fresh
  <2> QED
    BY <2>1, <2>2, <2>3, Assemble
<1>2. CASE Exit(p) /\ UNCHANGED rec
  BY <1>2, QuietStep DEF LocalComplete
<1> QED
  BY <1>1, <1>2 DEF LocalComplete

-----------------------------------------------------------------------------
(* The environment, and the theorems                                       *)

(* Steps that leave helpers, record and ids alone.                         *)
LEMMA OutsideStep ==
  ASSUME IInv, UNCHANGED <<record, locks, helpers, issued, crashes>>, SourceOK'
  PROVE  IInv'
<1>1. HelpersOK'
  BY DEF IInv, TypeOK, GoodRecords, HelpersOK, locks, helpers, Good, Fresh
<1>2. Good(rec)'
  BY RecordKept DEF record
<1> QED
  BY <1>1, <1>2, Assemble

(* An editor, unstaging and a profile commit keep the invariant.           *)
LEMMA EnvironmentStep ==
  ASSUME IInv, Environment
  PROVE  IInv'
<1>1. CASE Edit
  BY <1>1, OutsideStep DEF IInv, TypeOK, Edit, SourceOK, record
<1>2. CASE Unstage
  BY <1>2, OutsideStep, HeadProfileType DEF IInv, TypeOK, Unstage, SourceOK, record
<1>3. CASE CommitProfile
  <2>1. log' \in Seq(Commit)
    BY <1>3, LogGrows, HeadProfileType DEF IInv, CommitProfile
  <2> QED
    BY <1>3, <2>1, OutsideStep DEF IInv, TypeOK, CommitProfile, SourceOK, record
<1> QED
  BY <1>1, <1>2, <1>3 DEF Environment

(* The invariant holds in a newly started cycle.                           *)
LEMMA InitIInv == Init => IInv
<1> SUFFICES ASSUME Init PROVE IInv
  OBVIOUS
<1>1. Good(rec) /\ Good(NoCopy)
  BY BornGood DEF Init, NoCopy
<1>2. NoArgument \in Argument /\ "idle" \in Steps
  BY DEF NoArgument, Argument, Steps
<1>3. rec \in Record /\ NoCopy \in Record
  BY <1>1 DEF Good
<1>4. TypeOK
  BY <1>2, <1>3, BirthAssumption, BoundsAssumption DEF Init, TypeOK
<1>5. GoodRecords
  BY <1>1 DEF Init, GoodRecords
<1> QED
  BY <1>4, <1>5 DEF IInv

(* Every step of every helper and of the environment keeps the invariant.  *)
LEMMA NextIInv == IInv /\ [Next]_vars => IInv'
<1> SUFFICES ASSUME IInv, [Next]_vars PROVE IInv'
  OBVIOUS
<1>1. ASSUME NEW p \in Procs, Starts(p) PROVE IInv'
  BY <1>1, SetGateStep, SetApplicabilityStep, ApproveExceptionStep, UpdatePlanStep,
     ReviewArtifactStep, EvidenceBeginStep, CommitVerifyStep, PushLoadStep, LocalVerifyStep
     DEF Starts
<1>2. ASSUME NEW p \in Procs, Continues(p) PROVE IInv'
  BY <1>2, SaveStep, EvidenceLoadStep, EvidenceRanStep, AdoptCommitsStep, CommitStageStep,
     CommitCompareStep, CommitCreateStep, CommitBindStep, PushLockStep, PushStartStep,
     PushAheadStep, PushSendStep, PushVerifyStep, PushSyncStep, LocalAheadStep,
     LocalHeadStep, LocalCompleteStep, UnlinkStep
     DEF Continues
<1>3. ASSUME NEW p \in Procs, PushFails(p) \/ Crash(p) PROVE IInv'
  BY <1>3, PushFailsStep, CrashStep
<1>4. CASE Environment
  BY <1>4, EnvironmentStep
<1>5. CASE UNCHANGED vars
  BY <1>5 DEF vars, IInv, TypeOK, GoodRecords, Good, Fresh
<1> QED
  BY <1>1, <1>2, <1>3, <1>4, <1>5 DEF Next

(* Every reachable state is typed and holds only sound records.            *)
THEOREM Invariance == Spec => []IInv
  BY InitIInv, NextIInv, PTL DEF Spec

(* The Cycle Record, the private copies, locks and steps of the helpers    *)
(* keep their types.                                                       *)
THEOREM TypeCorrect == Spec => []TypeOK
<1>1. IInv => TypeOK
  BY DEF IInv
<1> QED
  BY <1>1, Invariance, PTL

(* A saved gate counts as passed only while its predecessors are disposed, *)
(* whichever helpers interleave, save stale copies or die.                 *)
THEOREM OrderKept == Spec => []LedgerInOrder
<1>1. IInv => LedgerInOrder
  BY DEF IInv, GoodRecords, Good, Sound, LedgerInOrder
<1> QED
  BY <1>1, Invariance, PTL

(* A saved gate that ran refers to stored evidence for it, whichever       *)
(* helpers interleave, save stale copies or die.                           *)
THEOREM EvidenceKept == Spec => []LedgerEvidenced
<1>1. IInv => LedgerEvidenced
  BY DEF IInv, GoodRecords, Good, Sound, LedgerEvidenced
<1> QED
  BY <1>1, Invariance, PTL
=============================================================================
