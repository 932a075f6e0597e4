----------------------------- MODULE CycleRecord -----------------------------
(***************************************************************************)
(* The Cycle Record dbsctrctl keeps per cycle: what start-cycle writes and *)
(* the changes commands make to their copy of it before they save it.      *)
(* Identity, risk, workspace and authorization fields never change after   *)
(* birth in the modelled commands and are left out.                        *)
(***************************************************************************)
EXTENDS GateLedger, Sequences

CONSTANTS Optional,     \* gates a plan may declare not_applicable
          Profiles,     \* identities of the committed Engineering Profile
          BirthProfile

ASSUME OptionalAssumption == Optional \subseteq Gate
ASSUME ProfileAssumption == BirthProfile \in Profiles
ASSUME NoPathsAssumption == NoPaths \notin Blobs

CommitEntry == [id : Nat, gates : SUBSET Gate]
Record == [state    : {"active", "finalizing", "completed"},
           gates    : [Gate -> GateEntry],
           items    : Items,
           commits  : Seq(CommitEntry),
           profile  : Profiles,
           reviewed : BOOLEAN,     \* artifact_check and the CHANGELOG review
           synced   : BOOLEAN,     \* source_sync recorded
           tip      : Nat]         \* local_completion.head; 0: no local completion

Born(skipped) ==
  [state |-> "active", gates |-> PlannedGates(skipped), items |-> NoItems,
   commits |-> <<>>, profile |-> BirthProfile, reviewed |-> FALSE, synced |-> FALSE,
   tip |-> 0]

NoCopy == Born({})

CommitIds(r) == {r.commits[i].id : i \in 1..Len(r.commits)}
RecordedIds(r) == [i \in 1..Len(r.commits) |-> r.commits[i].id]

RanGates(r, G) == {g \in G : r.gates[g].result \in Ran}

EvidenceAdded(r, e, envelope) ==
  [r EXCEPT !.items[e] = envelope,
            !.gates = ApplyGateResult(@, envelope.gate, envelope.result, e)]

Bound(r, G, commit) ==
  LET bound == {r.gates[g].evidence : g \in G} \ {NoEvidence}
  IN  [r EXCEPT !.items = [e \in EvidenceIds |->
                             IF e \in bound /\ @[e] # NoItem
                             THEN [@[e] EXCEPT !.commit = commit] ELSE @[e]],
                !.commits = Append(@, [id |-> commit, gates |-> G])]
=============================================================================
