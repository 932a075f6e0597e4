---------------------------- MODULE CycleContract ----------------------------
(***************************************************************************)
(* What a cycle promises to whoever reads its record: every version saved  *)
(* is the previous version advanced by one lifecycle operation.  There are *)
(* no processes, locks or private copies here, and of Git only the numbers *)
(* of the commits, which only grow.                                        *)
(*                                                                         *)
(* The operations relate a saved record r to the next one, s.              *)
(***************************************************************************)
EXTENDS CycleRecord

VARIABLE rec

Active(r) == r.state = "active"
LastCommit(r) == IF r.commits = <<>> THEN 0 ELSE r.commits[Len(r.commits)].id

(* One program ran for one gate; its envelope is new and not yet bound.    *)
RecordEvidence(r, s, e) ==
  LET envelope == s.items[e]
  IN  /\ Active(r)
      /\ r.items[e] = NoItem
      /\ envelope \in Envelope
      /\ envelope.commit = 0
      /\ Required(r.gates[envelope.gate])
      /\ envelope.result = "passed" => PredecessorsDisposed(r.gates, envelope.gate)
      /\ s = EvidenceAdded(r, e, envelope)

SetGate(r, s, g, result, e) ==
  /\ Active(r)
  /\ IF e = NoEvidence
     THEN Required(r.gates[g]) => result = "pending"
     ELSE /\ r.items[e] # NoItem
          /\ r.items[e].gate = g
          /\ r.items[e].result = result
  /\ result = "passed" => PredecessorsDisposed(r.gates, g)
  /\ IF Required(r.gates[g]) THEN result # "not_run" ELSE result = "not_run"
  /\ s = [r EXCEPT !.gates = ApplyGateResult(@, g, result, e)]

ApproveException(r, s, g) ==
  /\ Active(r)
  /\ Required(r.gates[g]) /\ r.gates[g].result = "failed"
  /\ s = [r EXCEPT !.gates = Excepted(@, g)]

(* Applicability only tightens; commits may be adopted, none is forgotten.  *)
TightenPlan(r, s, S) ==
  /\ Active(r)
  /\ \A g \in S : ~Required(r.gates[g])
  /\ \A i \in 1..Len(r.commits) :
        \E k \in 1..Len(s.commits) : s.commits[k] = r.commits[i]
  /\ s = [r EXCEPT !.gates = Tighten(@, S),
                   !.profile = s.profile,
                   !.commits = s.commits]

Review(r, s) ==
  /\ Active(r)
  /\ s = [r EXCEPT !.reviewed = TRUE]

(* A Gate Commit made after every recorded one                             *)
Bind(r, s, G) ==
  /\ Active(r)
  /\ \A g \in G : CommitReady(r.gates[g])
  /\ LastCommit(s) > LastCommit(r)
  /\ s = Bound(r, G, LastCommit(s))

(* All that leaves the active state is ready for delivery.                 *)
Deliverable(r) ==
  /\ \A g \in Gate : Required(r.gates[g]) => r.gates[g].result = "passed" \/ r.gates[g].exception
  /\ Evidenced(r.gates, r.items)
  /\ r.reviewed

Finalize(r, s) ==
  /\ Active(r) /\ Deliverable(r)
  /\ s = [r EXCEPT !.state = "finalizing"]

Complete(r, s) ==
  /\ r.state = "finalizing"
  /\ s = [r EXCEPT !.state = "completed"]

(* complete-local needs no push and so no finalizing state; it names the   *)
(* HEAD it completes.                                                      *)
CompleteLocally(r, s) ==
  /\ Active(r) /\ Deliverable(r)
  /\ s.tip \in Nat
  /\ s = [r EXCEPT !.state = "completed", !.synced = TRUE, !.tip = s.tip]

SyncSource(r, s) ==
  /\ r.state = "completed"
  /\ s = [r EXCEPT !.synced = TRUE]

Works(r, s) ==
  \/ \E e \in EvidenceIds : RecordEvidence(r, s, e)
  \/ \E g \in Gate, result \in Results, e \in EvidenceIds \cup {NoEvidence} :
        SetGate(r, s, g, result, e)
  \/ \E g \in Gate : ApproveException(r, s, g)
  \/ \E S \in SUBSET Gate : TightenPlan(r, s, S)
  \/ Review(r, s)
  \/ \E G \in SUBSET Gate : Bind(r, s, G)

Delivers(r, s) == Finalize(r, s) \/ Complete(r, s) \/ CompleteLocally(r, s) \/ SyncSource(r, s)

Init == \E skipped \in SUBSET Optional : rec = Born(skipped)
Next == Works(rec, rec') \/ Delivers(rec, rec')
Spec == Init /\ [][Next]_rec
=============================================================================
