---------------------------- MODULE DbsctrCycle ----------------------------
(***************************************************************************)
(* One DBSCTR cycle: its Cycle Record on disk, the Git branch it validates *)
(* and delivers, and the helper processes (dbsctrctl invocations) that     *)
(* read the record, work on a private copy and write the whole record      *)
(* back.  Between the read and the write other helpers, an editor or a     *)
(* person at the Git prompt may act, and a helper may die at any point.    *)
(*                                                                         *)
(* Serialized = TRUE is a cycle with an Initiative (or a local-only one):  *)
(* local_cli_mutation_guard holds "local-mutation-<cycle>" around every    *)
(* command.  Serialized = FALSE is a standalone cycle, whose commands only *)
(* take the locks they name themselves: record-evidence the evidence lock, *)
(* final-push the target lock, the others none.                            *)
(***************************************************************************)
EXTENDS CycleRecord, FiniteSets

CONSTANTS Procs,       \* helper processes that may run at the same time
          NoProc,      \* holder of a free lock
          Serialized,  \* does local_cli_mutation_guard cover this cycle?
          LocalOnly,   \* delivered by complete-local instead of final-push?
          Commands,    \* the commands helpers issue in this instance
          BirthBlob,   \* content of the modelled path at the baseline
          MaxCommits,  \* bound: commits made on top of the baseline
          MaxCrashes   \* bound: helper processes that die

ASSUME ProcsAssumption == NoProc \notin Procs
ASSUME ModeAssumption == Serialized \in BOOLEAN /\ LocalOnly \in BOOLEAN
ASSUME CommandsAssumption ==
  Commands \subseteq {"set-gate", "set-applicability", "approve-exception", "update-plan",
                      "review", "record-evidence", "gate-commit", "final-push",
                      "complete-local"}
ASSUME LocalOnlyAssumption == LocalOnly => Serialized
ASSUME BirthAssumption == BirthBlob \in Blobs
ASSUME BoundsAssumption == MaxCommits \in Nat /\ MaxCrashes \in Nat

VARIABLES rec,      \* the Cycle Record on disk
          pointer,  \* does the worktree's active pointer name the cycle?
          log,      \* commits on top of the baseline; HEAD is Len(log)
          remote,   \* how many of them the delivery target has
          wt,       \* content of the modelled path in the working tree
          index,    \* its content in the Git index
          guard,    \* holder of local-mutation-<cycle>
          elock,    \* holder of evidence-<cycle>
          tlock,    \* holder of the delivery target lock
          pc,       \* next step of each helper
          copy,     \* each helper's private copy of the record
          arg,      \* each helper's arguments and local observations
          issued,   \* evidence ids issued so far
          crashes   \* helpers that died so far

record    == <<rec, pointer>>
source    == <<log, remote, wt, index>>
locks     == <<guard, elock, tlock>>
helpers   == <<pc, copy, arg>>
vars      == <<rec, pointer, log, remote, wt, index, guard, elock, tlock,
               pc, copy, arg, issued, crashes>>

Commit == [blob : Blobs, profile : Profiles]
Argument == [gates : SUBSET Gate, blob : Blobs \cup {NoPaths}, head : Nat]
NoArgument == [gates |-> {}, blob |-> NoPaths, head |-> 0]

Steps == {"idle", "save", "up_adopt", "re_lock", "re_run",
          "gc_add", "gc_index", "gc_commit", "gc_bind",
          "fp_lock", "fp_start", "fp_ahead", "fp_push", "fp_verify", "fp_sync",
          "cl_ahead", "cl_head", "cl_save", "unlink"}

Init ==
  /\ \E skipped \in SUBSET Optional : rec = Born(skipped)
  /\ pointer = TRUE
  /\ log = <<>> /\ remote = 0
  /\ wt = BirthBlob /\ index = BirthBlob
  /\ guard = NoProc /\ elock = NoProc /\ tlock = NoProc
  /\ pc = [p \in Procs |-> "idle"]
  /\ copy = [p \in Procs |-> NoCopy]
  /\ arg = [p \in Procs |-> NoArgument]
  /\ issued = 0 /\ crashes = 0

-----------------------------------------------------------------------------
(* Git, as the helper observes it                                          *)

HEAD == Len(log)
HeadBlob == IF log = <<>> THEN BirthBlob ELSE log[HEAD].blob
HeadProfile == IF log = <<>> THEN BirthProfile ELSE log[HEAD].profile
CleanWorktree == wt = HeadBlob /\ index = HeadBlob
ProfileBefore(i) == IF i = 1 THEN BirthProfile ELSE log[i-1].profile
BlobBefore(i) == IF i = 1 THEN BirthBlob ELSE log[i-1].blob
ProfileOnly(i) == log[i].blob = BlobBefore(i) /\ log[i].profile # ProfileBefore(i)

Lineage(first, last) == [i \in 1..(last - first + 1) |-> first + i - 1]

-----------------------------------------------------------------------------
(* Starting, stopping and dying                                            *)

(* A command is admitted: the pointer names the cycle and, under the guard, *)
(* nobody else runs and the record is in a state the command accepts.       *)
Admitted(p, states) ==
  /\ pc[p] = "idle"
  /\ pointer
  /\ rec.state \in states
  /\ Serialized => guard = NoProc

Unguarded(p) == UNCHANGED guard                \* mutant: no serialization
TakeGuard(p) == guard' = IF Serialized THEN p ELSE guard

KeptLock(lock, p) == lock                      \* mutant: a lock outlives its holder
Free(lock, p) == IF lock = p THEN NoProc ELSE lock

(* The helper exits, by success, failure or death: the kernel drops its    *)
(* locks and its private copy is gone.                                     *)
Exit(p) ==
  /\ pc' = [pc EXCEPT ![p] = "idle"]
  /\ copy' = [copy EXCEPT ![p] = NoCopy]
  /\ arg' = [arg EXCEPT ![p] = NoArgument]
  /\ guard' = Free(guard, p)
  /\ elock' = Free(elock, p)
  /\ tlock' = Free(tlock, p)

Goto(p, step) == pc' = [pc EXCEPT ![p] = step]
Hold(p, r) == copy' = [copy EXCEPT ![p] = r]

Crash(p) ==
  /\ pc[p] # "idle" /\ crashes < MaxCrashes
  /\ crashes' = crashes + 1
  /\ Exit(p)
  /\ UNCHANGED <<record, source, issued>>

(* save: atomic_json replaces the whole record by the helper's copy        *)
Save(p) ==
  /\ pc[p] = "save"
  /\ rec' = copy[p]
  /\ Exit(p)
  /\ UNCHANGED <<pointer, source, issued, crashes>>

-----------------------------------------------------------------------------
(***************************************************************************)
(* Commands that load the record, change the copy and save it, touching    *)
(* nothing else in between.  Loading, checking and computing the change    *)
(* read shared state once, so they are one step; saving is the next.       *)
(***************************************************************************)
Prepare(p, r) ==
  /\ Hold(p, r)
  /\ Goto(p, "save")
  /\ TakeGuard(p)
  /\ UNCHANGED <<record, source, elock, tlock, arg, issued, crashes>>

(* set-gate, with evidence e already stored (NoEvidence: no --evidence)     *)
SetGate(p, g, result, e) ==
  LET gate == rec.gates[g]
  IN  /\ Admitted(p, {"active"})
      /\ IF e = NoEvidence
         THEN Required(gate) => result = "pending"
         ELSE /\ rec.items[e] # NoItem
              /\ rec.items[e].gate = g
              /\ rec.items[e].result = result
              /\ rec.items[e].head = HEAD
      /\ result = "passed" => PredecessorsDisposed(rec.gates, g)
      /\ Required(gate) => result # "not_run"
      /\ ~Required(gate) => result = "not_run"
      /\ Prepare(p, [rec EXCEPT !.gates = ApplyGateResult(@, g, result, e)])

SetApplicability(p, g) ==
  /\ Admitted(p, {"active"})
  /\ ~Required(rec.gates[g])
  /\ Prepare(p, [rec EXCEPT !.gates = Tighten(@, {g})])

ApproveException(p, g) ==
  /\ Admitted(p, {"active"})
  /\ Required(rec.gates[g])
  /\ rec.gates[g].result = "failed"
  /\ Prepare(p, [rec EXCEPT !.gates = Excepted(@, g)])

(* adopt_profile_only_commits: the commits since the baseline that the      *)
(* record does not know must each change the Engineering Profile alone.     *)
Known(r, i) == i \in CommitIds(r)

AnyLineage(r) == CommitIds(r) \subseteq 1..HEAD     \* mutant: adopts whatever is there
Adoptable(r) ==
  /\ Cardinality(CommitIds(r)) = Len(r.commits)
  /\ CommitIds(r) \subseteq 1..HEAD
  /\ \A i \in 1..HEAD : Known(r, i) \/ ProfileOnly(i)

Adopted(r) ==
  LET entry(i) == r.commits[CHOOSE k \in 1..Len(r.commits) : r.commits[k].id = i]
  IN  [i \in 1..HEAD |-> IF Known(r, i) THEN entry(i) ELSE [id |-> i, gates |-> {}]]

(* update-plan and raise-risk: tighten the gates in S and rebind the        *)
(* committed profile, then list the branch and adopt its commits.           *)
UpdatePlan(p, S) ==
  /\ Admitted(p, {"active"})
  /\ \A g \in S : ~Required(rec.gates[g])
  /\ Hold(p, [rec EXCEPT !.gates = Tighten(@, S), !.profile = HeadProfile])
  /\ Goto(p, "up_adopt")
  /\ TakeGuard(p)
  /\ UNCHANGED <<record, source, elock, tlock, arg, issued, crashes>>

AdoptCommits(p) ==
  /\ pc[p] = "up_adopt"
  /\ IF Adoptable(copy[p])
     THEN /\ Hold(p, [copy[p] EXCEPT !.commits = Adopted(copy[p])])
          /\ Goto(p, "save")
          /\ UNCHANGED <<locks, arg>>
     ELSE Exit(p)
  /\ UNCHANGED <<record, source, issued, crashes>>

ReviewArtifact(p) ==
  /\ Admitted(p, {"active"})
  /\ Prepare(p, [rec EXCEPT !.reviewed = TRUE])

-----------------------------------------------------------------------------
(***************************************************************************)
(* record-evidence: the path identities are read first, then the evidence  *)
(* lock is awaited without limit, then the record is loaded, the program   *)
(* runs, HEAD is read and the record is saved.                             *)
(***************************************************************************)
EvidenceBegin(p, g, blob) ==
  /\ Admitted(p, {"active", "finalizing", "completed"})
  /\ Serialized => rec.state = "active"
  /\ issued + Cardinality({q \in Procs : pc[q] \in {"re_lock", "re_run"}}) + 1 \in EvidenceIds
  /\ arg' = [arg EXCEPT ![p] = [gates |-> {g}, blob |-> blob, head |-> 0]]
  /\ Goto(p, "re_lock")
  /\ TakeGuard(p)
  /\ UNCHANGED <<record, source, elock, tlock, copy, issued, crashes>>

EvidenceLoad(p) ==
  /\ pc[p] = "re_lock" /\ elock = NoProc
  /\ IF /\ pointer /\ rec.state = "active"
        /\ \A g \in arg[p].gates : Required(rec.gates[g])
     THEN /\ elock' = p
          /\ Hold(p, rec)
          /\ arg' = [arg EXCEPT ![p].head = HEAD]
          /\ Goto(p, "re_run")
          /\ UNCHANGED <<guard, tlock>>
     ELSE Exit(p)
  /\ UNCHANGED <<record, source, issued, crashes>>

(* The program ends with the given result; evidence id e is fresh.          *)
EvidenceRan(p, g, result, e) ==
  LET envelope == [gate |-> g, result |-> result, head |-> HEAD, blob |-> arg[p].blob,
                   commit |-> 0, ranHead |-> arg[p].head]
  IN  /\ pc[p] = "re_run" /\ arg[p].gates = {g}
      /\ e = issued + 1
      /\ IF result = "passed" /\ ~PredecessorsDisposed(copy[p].gates, g)
         THEN Exit(p) /\ UNCHANGED issued
         ELSE /\ Hold(p, EvidenceAdded(copy[p], e, envelope))
              /\ issued' = e
              /\ Goto(p, "save")
              /\ UNCHANGED <<locks, arg>>
      /\ UNCHANGED <<record, source, crashes>>

-----------------------------------------------------------------------------
(***************************************************************************)
(* gate-commit: verify the evidence against HEAD and the working tree,     *)
(* stage, compare the index, commit, compare the commit at HEAD, bind the  *)
(* evidence to it and save.                                                *)
(***************************************************************************)
AnyBlobWithoutPaths(r, G, blob) ==   \* mutant: evidence without paths fits any commit
  \A g \in RanGates(r, G) : r.items[r.gates[g].evidence].blob \in {blob, NoPaths}
EvidenceBlobIs(r, G, blob) ==
  \A g \in RanGates(r, G) : r.items[r.gates[g].evidence].blob = blob

CommitVerify(p, G) ==
  /\ Admitted(p, {"active"})
  /\ rec.profile = HeadProfile
  /\ \A g \in G : CommitReady(rec.gates[g])
  /\ \A g \in RanGates(rec, G) :
        /\ EnvelopeMatches(rec.gates, rec.items, g)
        /\ rec.items[rec.gates[g].evidence].head = HEAD
  /\ EvidenceBlobIs(rec, G, wt)
  /\ Hold(p, rec)
  /\ arg' = [arg EXCEPT ![p].gates = G]
  /\ Goto(p, "gc_add")
  /\ TakeGuard(p)
  /\ UNCHANGED <<record, source, elock, tlock, issued, crashes>>

CommitStage(p) ==
  /\ pc[p] = "gc_add"
  /\ index' = wt
  /\ Goto(p, "gc_index")
  /\ UNCHANGED <<record, log, remote, wt, locks, copy, arg, issued, crashes>>

CommitCompare(p) ==
  /\ pc[p] = "gc_index"
  /\ IF EvidenceBlobIs(copy[p], arg[p].gates, index) /\ index # HeadBlob
     THEN Goto(p, "gc_commit") /\ UNCHANGED <<locks, copy, arg>>
     ELSE Exit(p)
  /\ UNCHANGED <<record, source, issued, crashes>>

CommitCreate(p) ==
  /\ pc[p] = "gc_commit"
  /\ IF index # HeadBlob /\ HEAD < MaxCommits
     THEN /\ log' = Append(log, [blob |-> index, profile |-> HeadProfile])
          /\ Goto(p, "gc_bind")
          /\ UNCHANGED <<locks, copy, arg>>
     ELSE Exit(p) /\ UNCHANGED log
  /\ UNCHANGED <<record, remote, wt, index, issued, crashes>>

CommitBind(p) ==
  /\ pc[p] = "gc_bind"
  /\ IF EvidenceBlobIs(copy[p], arg[p].gates, HeadBlob)
     THEN /\ Hold(p, Bound(copy[p], arg[p].gates, HEAD))
          /\ Goto(p, "save")
          /\ UNCHANGED <<locks, arg>>
     ELSE Exit(p)
  /\ UNCHANGED <<record, source, issued, crashes>>

-----------------------------------------------------------------------------
(***************************************************************************)
(* Delivery.  require_completion_source with the checks of the modelled    *)
(* state, then the two commands that end a cycle.                          *)
(***************************************************************************)
BoundFor(r, g, item) ==
  \E i \in 1..Len(r.commits) : r.commits[i].id = item.commit /\ g \in r.commits[i].gates

StaleAccepted(r, g, item) ==         \* mutant: unbound evidence may be stale
  item.commit # 0 => BoundFor(r, g, item)
EvidenceCurrent(r, g, item) ==
  IF item.commit = 0 THEN item.head = HEAD ELSE BoundFor(r, g, item)

CompletionSource(r) ==
  /\ r.profile = HeadProfile
  /\ \A g \in Gate : Required(r.gates[g]) /\ r.gates[g].result \in Ran =>
        /\ EnvelopeMatches(r.gates, r.items, g)
        /\ EvidenceCurrent(r, g, r.items[r.gates[g].evidence])
  /\ \A g \in Gate : DeliveryReady(r.gates[g], LocalOnly)
  /\ r.reviewed
  /\ CleanWorktree

(* The commits made since `from` are the recorded ones, or none is left and *)
(* the target already ends with them.                                       *)
RecordedAmongAhead(r, from) ==       \* mutant: tolerates unrecorded commits
  r.commits # <<>> /\ CommitIds(r) \subseteq (from + 1)..HEAD
OnlyRecordedAhead(r, from) ==
  r.commits # <<>> /\ RecordedIds(r) = Lineage(from + 1, HEAD)

NeverPushed(r) == FALSE              \* mutant: a retry insists on pushing
PushedBefore(r) ==
  LET n == Len(r.commits)
  IN  /\ r.state = "finalizing"
      /\ HEAD = remote
      /\ remote > 0 /\ n <= remote
      /\ Lineage(remote - n + 1, remote) = RecordedIds(r)

NotCompleted == {"active", "finalizing"}   \* mutant: require_pushable everywhere
PushStates ==
  IF Serialized THEN {"active", "finalizing"} ELSE {"active", "finalizing", "completed"}

(* final-push loads the record before it tries the target lock.             *)
PushLoad(p) ==
  /\ ~LocalOnly
  /\ Admitted(p, PushStates)
  /\ Hold(p, rec)
  /\ Goto(p, "fp_lock")
  /\ TakeGuard(p)
  /\ UNCHANGED <<record, source, elock, tlock, arg, issued, crashes>>

PushLock(p) ==
  /\ pc[p] = "fp_lock"
  /\ IF tlock = NoProc
     THEN tlock' = p /\ Goto(p, "fp_start") /\ UNCHANGED <<guard, elock, copy, arg>>
     ELSE Exit(p)
  /\ UNCHANGED <<record, source, issued, crashes>>

PushStart(p) ==
  /\ pc[p] = "fp_start"
  /\ CASE copy[p].state = "completed" -> Goto(p, "unlink") /\ UNCHANGED <<locks, copy, arg>>
       [] copy[p].state # "completed" /\ CompletionSource(copy[p]) ->
            Goto(p, "fp_ahead") /\ UNCHANGED <<locks, copy, arg>>
       [] OTHER -> Exit(p)
  /\ UNCHANGED <<record, source, issued, crashes>>

(* After the fetch: compare the commits ahead of the target.                *)
PushAhead(p) ==
  LET finalizing == [copy[p] EXCEPT !.state = "finalizing"]
  IN  /\ pc[p] = "fp_ahead"
      /\ CASE OnlyRecordedAhead(copy[p], remote) ->
                 /\ rec' = finalizing
                 /\ Hold(p, finalizing)
                 /\ Goto(p, "fp_push")
                 /\ UNCHANGED <<locks, arg>>
            [] ~OnlyRecordedAhead(copy[p], remote) /\ PushedBefore(copy[p]) ->
                 /\ Goto(p, "fp_verify")
                 /\ UNCHANGED <<rec, locks, copy, arg>>
            [] OTHER -> Exit(p) /\ UNCHANGED rec
      /\ UNCHANGED <<pointer, source, issued, crashes>>

(* git push HEAD:branch sends whatever HEAD is now.                         *)
PushSend(p) ==
  /\ pc[p] = "fp_push"
  /\ remote' = HEAD
  /\ Goto(p, "fp_verify")
  /\ UNCHANGED <<record, log, wt, index, locks, copy, arg, issued, crashes>>

PushFailsActive(p) ==      \* mutant: a failed push makes the record active again
  /\ pc[p] = "fp_push"
  /\ rec' = [copy[p] EXCEPT !.state = "active"]
  /\ Exit(p)
  /\ UNCHANGED <<pointer, source, issued, crashes>>

(* The push fails, before or after the target took the commits.             *)
PushFails(p) ==
  /\ pc[p] = "fp_push"
  /\ remote' \in {remote, HEAD}
  /\ Exit(p)
  /\ UNCHANGED <<record, log, wt, index, issued, crashes>>

PushVerifyStale(p) ==      \* mutant: the copy saved later is not completed
  /\ pc[p] = "fp_verify"
  /\ rec' = [copy[p] EXCEPT !.state = "completed"]
  /\ Goto(p, "fp_sync")
  /\ UNCHANGED <<pointer, source, locks, copy, arg, issued, crashes>>

PushVerify(p) ==
  LET completed == [copy[p] EXCEPT !.state = "completed"]
  IN  /\ pc[p] = "fp_verify"
      /\ IF HEAD = remote
         THEN /\ rec' = completed
              /\ Hold(p, completed)
              /\ Goto(p, "fp_sync")
              /\ UNCHANGED <<locks, arg>>
         ELSE Exit(p) /\ UNCHANGED rec
      /\ UNCHANGED <<pointer, source, issued, crashes>>

PushSync(p) ==
  LET synced == [copy[p] EXCEPT !.synced = TRUE]
  IN  /\ pc[p] = "fp_sync"
      /\ rec' = synced
      /\ Hold(p, synced)
      /\ Goto(p, "unlink")
      /\ UNCHANGED <<pointer, source, locks, arg, issued, crashes>>

(* The last step of final-push and of complete-local                        *)
Unlink(p) ==
  /\ pc[p] = "unlink"
  /\ pointer' = FALSE
  /\ Exit(p)
  /\ UNCHANGED <<rec, source, issued, crashes>>

(* complete-local holds the guard and the target lock to its end.           *)
(* local_completion_source reads the branch twice: it compares the commits  *)
(* since the baseline with the recorded ones, then it reads HEAD.           *)
LocalVerify(p) ==
  /\ LocalOnly
  /\ Admitted(p, {"active", "completed"})
  /\ tlock = NoProc
  /\ CompletionSource(rec)
  /\ Hold(p, rec)
  /\ Goto(p, "cl_ahead")
  /\ guard' = p /\ tlock' = p
  /\ UNCHANGED <<record, source, elock, arg, issued, crashes>>

LocalAhead(p) ==
  /\ pc[p] = "cl_ahead"
  /\ IF OnlyRecordedAhead(copy[p], 0)
     THEN Goto(p, "cl_head") /\ UNCHANGED <<locks, copy, arg>>
     ELSE Exit(p)
  /\ UNCHANGED <<record, source, issued, crashes>>

LocallyCompleted(r, head) ==
  [r EXCEPT !.state = "completed", !.synced = TRUE, !.tip = head]

(* validate_schema6_record, of a completed record: its local_completion     *)
(* names its last commit.                                                   *)
AnyHead(r) == TRUE                       \* mutant: the record is not validated
ValidCompletion(r) == r.commits # <<>> /\ r.tip = r.commits[Len(r.commits)].id

(* HEAD becomes local_completion.head of a record that must be valid; one   *)
(* completed before must name this HEAD already, and only loses its pointer. *)
LocalHead(p) ==
  /\ pc[p] = "cl_head"
  /\ LET completed == LocallyCompleted(copy[p], HEAD)
     IN  CASE copy[p].state # "completed" /\ ValidCompletion(completed) ->
                /\ Hold(p, completed)
                /\ Goto(p, "cl_save")
                /\ UNCHANGED <<locks, arg>>
           [] copy[p].state = "completed" /\ copy[p].tip = HEAD ->
                Goto(p, "unlink") /\ UNCHANGED <<locks, copy, arg>>
           [] OTHER -> Exit(p)
  /\ UNCHANGED <<record, source, issued, crashes>>

(* The source is observed again, and the record, right before the save.     *)
LocalComplete(p) ==
  /\ pc[p] = "cl_save"
  /\ IF /\ CleanWorktree /\ HEAD = copy[p].tip /\ pointer
        /\ rec = [copy[p] EXCEPT !.state = "active", !.synced = FALSE, !.tip = 0]
     THEN rec' = copy[p] /\ Goto(p, "unlink") /\ UNCHANGED <<locks, copy, arg>>
     ELSE Exit(p) /\ UNCHANGED rec
  /\ UNCHANGED <<pointer, source, issued, crashes>>

-----------------------------------------------------------------------------
(* An editor, and a person committing a changed Engineering Profile          *)

Edit ==
  /\ wt' \in Blobs \ {wt}
  /\ UNCHANGED <<record, log, remote, index, locks, helpers, issued, crashes>>

Unstage ==
  /\ index # HeadBlob
  /\ index' = HeadBlob
  /\ UNCHANGED <<record, log, remote, wt, locks, helpers, issued, crashes>>

CommitProfile ==
  /\ HEAD < MaxCommits
  /\ \E f \in Profiles \ {HeadProfile} :
        log' = Append(log, [blob |-> HeadBlob, profile |-> f])
  /\ UNCHANGED <<record, remote, wt, index, locks, helpers, issued, crashes>>

-----------------------------------------------------------------------------
Starts(p) ==
  \/ /\ "set-gate" \in Commands
     /\ \E g \in Gate, result \in Results, e \in EvidenceIds \cup {NoEvidence} :
           SetGate(p, g, result, e)
  \/ "set-applicability" \in Commands /\ \E g \in Gate : SetApplicability(p, g)
  \/ "approve-exception" \in Commands /\ \E g \in Gate : ApproveException(p, g)
  \/ "update-plan" \in Commands /\ \E S \in SUBSET Optional : UpdatePlan(p, S)
  \/ "review" \in Commands /\ ReviewArtifact(p)
  \/ /\ "record-evidence" \in Commands
     /\ \E g \in Gate, blob \in {wt, NoPaths} : EvidenceBegin(p, g, blob)
  \/ "gate-commit" \in Commands /\ \E G \in (SUBSET Gate) \ {{}} : CommitVerify(p, G)
  \/ "final-push" \in Commands /\ PushLoad(p)
  \/ "complete-local" \in Commands /\ LocalVerify(p)

Continues(p) ==
  \/ Save(p)
  \/ EvidenceLoad(p)
  \/ \E g \in Gate, result \in Ran, e \in EvidenceIds : EvidenceRan(p, g, result, e)
  \/ AdoptCommits(p)
  \/ CommitStage(p) \/ CommitCompare(p) \/ CommitCreate(p) \/ CommitBind(p)
  \/ PushLock(p) \/ PushStart(p) \/ PushAhead(p) \/ PushSend(p)
  \/ PushVerify(p) \/ PushSync(p)
  \/ LocalAhead(p) \/ LocalHead(p) \/ LocalComplete(p) \/ Unlink(p)

Environment == Edit \/ Unstage \/ CommitProfile

Next ==
  \/ \E p \in Procs : Starts(p) \/ Continues(p) \/ PushFails(p) \/ Crash(p)
  \/ Environment

Spec == Init /\ [][Next]_vars

(* A started command keeps running until it ends or dies, and whoever       *)
(* delivers the cycle repeats final-push until it is done; a push that is   *)
(* repeated again and again does not fail for ever.                         *)
Retry(p) == "final-push" \in Commands /\ PushLoad(p)

Fairness ==
  \A p \in Procs : /\ WF_vars(Continues(p))
                   /\ SF_vars(Retry(p))
                   /\ SF_vars(PushSend(p))

FairSpec == Spec /\ Fairness

-----------------------------------------------------------------------------
TypeOK ==
  /\ rec \in Record
  /\ pointer \in BOOLEAN
  /\ log \in Seq(Commit)
  /\ remote \in Nat
  /\ wt \in Blobs /\ index \in Blobs
  /\ guard \in Procs \cup {NoProc}
  /\ elock \in Procs \cup {NoProc}
  /\ tlock \in Procs \cup {NoProc}
  /\ pc \in [Procs -> Steps]
  /\ copy \in [Procs -> Record]
  /\ arg \in [Procs -> Argument]
  /\ issued \in Nat /\ crashes \in 0..MaxCrashes

(* Whatever interleaving produced the saved record, a required gate is     *)
(* passed only while all its predecessors are disposed (invalidate_later,  *)
(* the predecessor checks of set-gate and record-evidence).                *)
LedgerInOrder == InOrder(rec.gates)

(* Every required gate that ran refers to stored evidence of that gate and *)
(* that result, whichever helper saved last (verify_envelope's premise).   *)
LedgerEvidenced == Evidenced(rec.gates, rec.items)

(* Evidence bound to a commit is about that commit: gate-commit binds only *)
(* after comparing the committed blob with the one the evidence names, so  *)
(* no edit between validation, staging and commit slips through.           *)
BoundEvidenceIsCommitted ==
  \A e \in EvidenceIds :
    LET item == rec.items[e]
    IN  item # NoItem /\ item.commit # 0 =>
          /\ item.commit \in 1..HEAD
          /\ item.head < item.commit
          /\ log[item.commit].blob = item.blob

(* A completed cycle lists exactly the commits it completes, in order       *)
(* ("ahead commits are not exactly the recorded cycle commits" otherwise):  *)
(* those the target has, or, for a local-only cycle, those up to the HEAD   *)
(* its local_completion names, though complete-local reads the branch and   *)
(* HEAD at two times and a profile may be committed in between.             *)
DeliveredExactlyRecorded ==
  rec.state = "completed" =>
    RecordedIds(rec) = Lineage(1, IF LocalOnly THEN rec.tip ELSE remote)

(* In a completed cycle every required gate passed or carries an exception *)
(* and its evidence is bound to a recorded commit made for that gate, or   *)
(* was produced by a program started at the last recorded commit.          *)
DeliveredOnEvidence ==
  rec.state = "completed" =>
    \A g \in Gate : Required(rec.gates[g]) =>
      /\ rec.gates[g].result = "passed" \/ rec.gates[g].exception
      /\ EnvelopeMatches(rec.gates, rec.items, g)
      /\ LET item == rec.items[rec.gates[g].evidence]
         IN  \/ item.commit = 0 /\ item.ranHead = Len(rec.commits)
            \/ BoundFor(rec, g, item)

(* A commit gets into the record for gates, or because it changes only the  *)
(* Engineering Profile: update-plan does not launder a commit that a dead   *)
(* gate-commit left unrecorded.                                             *)
AdoptedIsProfileOnly ==
  \A i \in 1..Len(rec.commits) :
    rec.commits[i].gates = {} => ProfileOnly(rec.commits[i].id)

(* No save drops an evidence item another save stored: items leave a Cycle *)
(* Record only through the retired cleanup command.                        *)
EvidenceRetained ==
  [][\A e \in EvidenceIds : rec.items[e] # NoItem => rec'.items[e] # NoItem]_vars

(* A completed record is final but for the source_sync outcome.            *)
CompletedIsFinal ==
  [][rec.state = "completed" => rec' \in {rec, [rec EXCEPT !.synced = TRUE]}]_vars

(* Once a push may have left, the record never returns to active, where    *)
(* the pushed commits would no longer be recognised as its own.            *)
FinalizingNeverReopens ==
  [][rec.state = "finalizing" => rec'.state # "active"]_vars

(* No order of acquiring guard, evidence lock and target lock leaves a      *)
(* command waiting for ever, and a command that ends, or dies, leaves its   *)
(* locks to the next one.                                                   *)
CommandsEnd ==
  \A p \in Procs :
    pc[p] # "idle" ~> pc[p] = "idle" /\ p \notin {guard, elock, tlock}

(* A push cut off anywhere, before or after the target took the commits, is *)
(* finished by repeating final-push, unless somebody keeps changing the     *)
(* branch or the working tree.                                              *)
PushSettles ==
  <>[](CleanWorktree /\ HEAD = Len(rec.commits))
    => (rec.state = "finalizing" ~> rec.state = "completed")

(* Repeating final-push on a completed cycle releases its worktree.         *)
PointerReleased == rec.state = "completed" ~> ~pointer

(* Every save of a serialized cycle advances the last saved record by one   *)
(* lifecycle operation: no command works from a record somebody else has    *)
(* replaced since (local_cli_mutation_guard).                               *)
Contract == INSTANCE CycleContract
ImplementsContract == Contract!Spec
=============================================================================
