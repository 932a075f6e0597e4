----------------------------- MODULE GateLedger -----------------------------
(***************************************************************************)
(* The gate ledger of a DBSCTR Cycle Record: the `gates` dictionary, the   *)
(* `evidence.items` dictionary, and the pure functions dbsctrctl applies   *)
(* to them between loading a record and saving it.                         *)
(*                                                                         *)
(* GATES is a tuple of names whose order is all that the code uses, so a   *)
(* gate is its position.  An evidence id is a number; NoEvidence stands    *)
(* for a gate without an "evidence" key, and exception = TRUE for a gate   *)
(* with an "exception" key.  The results "failed" and "unavailable" are    *)
(* treated alike everywhere and are both "failed" here.  Reasons,          *)
(* timestamps, rationales and the metric counters are left out.            *)
(***************************************************************************)
EXTENDS Naturals

CONSTANTS NGates,       \* length of GATES (11 in the code)
          EvidenceIds   \* evidence ids that can be issued

ASSUME NGatesAssumption == NGates \in Nat \ {0}
ASSUME EvidenceIdsAssumption == EvidenceIds \subseteq Nat \ {0}

Gate == 1..NGates
NoEvidence == 0

Ran == {"passed", "failed"}       \* results that need evidence
Results == Ran \cup {"pending", "not_run"}

GateEntry == [applicability : {"required", "not_applicable"},
              result        : Results,
              evidence      : EvidenceIds \cup {NoEvidence},
              exception     : BOOLEAN]

(***************************************************************************)
(* validate_plan: the ledger a plan gives birth to, `skipped` being the    *)
(* gates the plan declares not_applicable.                                 *)
(***************************************************************************)
PlannedGates(skipped) ==
  [g \in Gate |-> [applicability |-> IF g \in skipped THEN "not_applicable" ELSE "required",
                   result        |-> IF g \in skipped THEN "not_run" ELSE "pending",
                   evidence      |-> NoEvidence,
                   exception     |-> FALSE]]

Required(e) == e.applicability = "required"

Disposed(e) ==
  \/ ~Required(e)
  \/ e.result = "passed"
  \/ e.result = "failed" /\ e.exception

PredecessorsDisposed(gates, g) == \A h \in 1..(g-1) : Disposed(gates[h])

Reopened(e) ==
  IF Required(e) /\ e.result = "passed"
  THEN [e EXCEPT !.result = "pending", !.evidence = NoEvidence, !.exception = FALSE]
  ELSE e

InvalidateLater(gates, g) ==
  [h \in Gate |-> IF h > g THEN Reopened(gates[h]) ELSE gates[h]]

(***************************************************************************)
(* apply_gate_result.  An absent evidence argument keeps the old id unless *)
(* the gate goes back to pending.                                          *)
(***************************************************************************)
WithFirstEvidence(e, result, evidence) ==   \* mutant: a rerun keeps its first evidence
  [e EXCEPT !.exception = FALSE,
            !.result    = result,
            !.evidence  = IF @ # NoEvidence THEN @ ELSE evidence]
WithNextEvidence(e, result, evidence) ==    \* mutant: off by one
  [e EXCEPT !.exception = FALSE, !.result = result, !.evidence = evidence + 1]
WithResult(e, result, evidence) ==
  [e EXCEPT !.exception = FALSE,
            !.result    = result,
            !.evidence  = IF evidence # NoEvidence THEN evidence
                          ELSE IF result = "pending" THEN NoEvidence ELSE @]

ApplyOnlyHere(gates, g, result, evidence) ==    \* mutant: later gates stay passed
  [gates EXCEPT ![g] = WithResult(@, result, evidence)]
ApplyGateResult(gates, g, result, evidence) ==
  LET applied == [gates EXCEPT ![g] = WithResult(@, result, evidence)]
  IN  IF Disposed(gates[g]) /\ ~Disposed(applied[g])
      THEN InvalidateLater(applied, g)
      ELSE applied

(***************************************************************************)
(* set-applicability tightens one gate, apply_stricter_plan every gate of  *)
(* the new plan that was not_applicable and is now required.               *)
(***************************************************************************)
Tightened(e) ==
  [e EXCEPT !.applicability = "required", !.result = "pending", !.exception = FALSE]

Tighten(gates, S) ==
  [h \in Gate |-> IF h \in S THEN Tightened(gates[h])
                  ELSE IF \E g \in S : g < h THEN Reopened(gates[h])
                  ELSE gates[h]]

Excepted(gates, g) == [gates EXCEPT ![g].exception = TRUE]

(***************************************************************************)
(* The gate-commit and final-push readings of "complete": unlike disposed  *)
(* they take the exception key alone, whatever the result beside it;       *)
(* complete-local wants a failed result beside it.                         *)
(***************************************************************************)
CommitReady(e) == ~Required(e) \/ e.result = "passed" \/ e.exception

DeliveryReady(e, localOnly) ==
  Required(e) => \/ e.result = "passed"
                 \/ e.exception /\ (localOnly => e.result = "failed")

-----------------------------------------------------------------------------
(***************************************************************************)
(* Evidence envelopes.  `head` is the HEAD stored in the envelope, `blob`  *)
(* the Git identity of the declared paths (NoPaths when none was given),   *)
(* `commit` the Gate Commit it was bound to (0: unbound).  ranHead is not  *)
(* stored by the code: it records the HEAD at which the evidence program   *)
(* was started, for the properties to compare with.                        *)
(***************************************************************************)
CONSTANT Blobs        \* identities of the modelled path's content
NoPaths == "no_paths"

Envelope == [gate : Gate, result : Ran, head : Nat, blob : Blobs \cup {NoPaths},
             commit : Nat, ranHead : Nat]
NoItem == [gate |-> 0, result |-> "not_run", head |-> 0, blob |-> NoPaths,
           commit |-> 0, ranHead |-> 0]
Items == [EvidenceIds -> Envelope \cup {NoItem}]
NoItems == [e \in EvidenceIds |-> NoItem]

(* verify_envelope without its HEAD and binding options                    *)
EnvelopeMatches(gates, items, g) ==
  LET e == gates[g].evidence
  IN  /\ e # NoEvidence
      /\ items[e] # NoItem
      /\ items[e].gate = g
      /\ items[e].result = gates[g].result

-----------------------------------------------------------------------------
(***************************************************************************)
(* What the lifecycle contract promises of every saved ledger: a gate      *)
(* counts as passed only while every predecessor is disposed, and a gate   *)
(* that ran refers to stored evidence for that gate and that result.       *)
(***************************************************************************)
InOrder(gates) ==
  \A g \in Gate : Required(gates[g]) /\ gates[g].result = "passed"
                    => PredecessorsDisposed(gates, g)

Evidenced(gates, items) ==
  \A g \in Gate : Required(gates[g]) /\ gates[g].result \in Ran
                    => EnvelopeMatches(gates, items, g)
=============================================================================
