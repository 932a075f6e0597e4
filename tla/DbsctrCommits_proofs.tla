------------------------ MODULE DbsctrCommits_proofs ------------------------
(***************************************************************************)
(* What a Cycle Record says about the Git branch is true: evidence bound   *)
(* to a commit is about that commit, and the commits it lists exist.       *)
(***************************************************************************)
EXTENDS DbsctrCycle_proofs

(* A gate that has not run keeps no evidence, and only a failed one        *)
(* carries an exception.                                                   *)
Unrun(gates) ==
  \A g \in Gate :
    /\ ~Required(gates[g]) \/ gates[g].result \notin Ran => gates[g].evidence = NoEvidence
    /\ gates[g].exception => gates[g].result = "failed"

(* Commit item.commit exists on branch l, was made after the program of    *)
(* the evidence ran, and contains what the program ran on.                 *)
BoundIn(item, l) ==
  /\ item.commit \in 1..Len(l)
  /\ item.head < item.commit
  /\ l[item.commit].blob = item.blob

(* ProfileOnly of commit i, on branch l.                                   *)
ProfileOnlyIn(l, i) ==
  /\ l[i].blob = (IF i = 1 THEN BirthBlob ELSE l[i-1].blob)
  /\ l[i].profile # (IF i = 1 THEN BirthProfile ELSE l[i-1].profile)

(* The listed commits are on branch l, in its order, and one that was made *)
(* for no gate changes the Engineering Profile alone.                      *)
ListedIn(commits, l) ==
  /\ \A i \in 1..Len(commits) :
        /\ commits[i].id \in 1..Len(l)
        /\ commits[i].gates = {} => ProfileOnlyIn(l, commits[i].id)
  /\ \A i, j \in 1..Len(commits) : i < j => commits[i].id < commits[j].id

(* What record r says is true of itself and of branch l.                   *)
Truthful(r, l) ==
  /\ Unrun(r.gates)
  /\ \A e \in EvidenceIds :
        r.items[e] # NoItem /\ r.items[e].commit # 0 => BoundIn(r.items[e], l)
  /\ ListedIn(r.commits, l)

(* The evidence that the gates in G currently rest on.                     *)
EvidenceOf(r, G) == {r.gates[g].evidence : g \in G} \ {NoEvidence}

(* What a helper established before a step and relies on in it: the gates  *)
(* given are required, or ready to commit, their evidence is no younger    *)
(* than HEAD; and once the commit is made, the evidence and the listed     *)
(* commits are older than it.                                              *)
Standing(step, r, a, l) ==
  /\ step = "re_run" => \A g \in a.gates : Required(r.gates[g])
  /\ step \in {"gc_add", "gc_index", "gc_commit", "gc_bind"} =>
       /\ a.gates # {}
       /\ \A g \in a.gates : CommitReady(r.gates[g])
  /\ step \in {"gc_add", "gc_index", "gc_commit"} =>
       \A e \in EvidenceOf(r, a.gates) : r.items[e].head <= Len(l)
  /\ step = "gc_bind" =>
       /\ \A e \in EvidenceOf(r, a.gates) : r.items[e].head < Len(l)
       /\ Len(l) > 0
       /\ \A i \in 1..Len(r.commits) : r.commits[i].id < Len(l)

(* The inductive invariant: the saved record and every private copy, the   *)
(* stale ones included, tell the truth about the branch.                   *)
TruthfulRecords ==
  /\ Truthful(rec, log)
  /\ \A p \in Procs : Truthful(copy[p], log) /\ Standing(pc[p], copy[p], arg[p], log)

-----------------------------------------------------------------------------
(* Ledgers                                                                 *)

(* Planning, reopening, tightening and excepting leave no evidence behind  *)
(* on a gate that has not run.                                             *)
LEMMA PlannedUnrun == \A skipped : Unrun(PlannedGates(skipped))
  BY DEF PlannedGates, Unrun

(* A gate that is reopened loses its evidence and its exception.           *)
LEMMA ReopenedUnrun ==
  ASSUME NEW e \in GateEntry
  PROVE  \/ Reopened(e) = e
         \/ Reopened(e).evidence = NoEvidence /\ Reopened(e).exception = FALSE
  BY DEF Reopened, GateEntry

(* So an invalidation of later gates leaves no evidence on a gate that has *)
(* not run...                                                              *)
LEMMA InvalidateLaterUnrun ==
  ASSUME NEW gates \in Ledger, Unrun(gates), NEW g \in Gate
  PROVE  Unrun(InvalidateLater(gates, g))
  BY ReopenedUnrun DEF InvalidateLater, Unrun, Ledger

(* ...nor does a gate result, when it is a verdict of a required gate or,  *)
(* without evidence, no verdict...                                         *)
LEMMA ApplyGateResultUnrun ==
  ASSUME NEW gates \in Ledger, Unrun(gates), NEW g \in Gate, NEW result \in Results,
         NEW e \in EvidenceIds \cup {NoEvidence},
         \/ e = NoEvidence /\ (Required(gates[g]) => result = "pending")
         \/ Required(gates[g]) /\ result \in Ran
  PROVE  Unrun(ApplyGateResult(gates, g, result, e))
<1> DEFINE applied == [gates EXCEPT ![g] = WithResult(@, result, e)]
<1>1. gates[g] \in GateEntry /\ WithResult(gates[g], result, e) \in GateEntry
  BY DEF Ledger, GateEntry, WithResult, NoEvidence
<1>2. applied \in Ledger
  BY <1>1 DEF Ledger
<1>3. /\ WithResult(gates[g], result, e).exception = FALSE
      /\ WithResult(gates[g], result, e).applicability = gates[g].applicability
      /\ WithResult(gates[g], result, e).result = result
      /\ WithResult(gates[g], result, e).evidence =
            IF e # NoEvidence THEN e
            ELSE IF result = "pending" THEN NoEvidence ELSE gates[g].evidence
  BY <1>1 DEF WithResult, GateEntry
<1>4. \A h \in Gate : applied[h] = IF h = g THEN WithResult(gates[g], result, e) ELSE gates[h]
  BY DEF Ledger
<1>5. Unrun(applied)
  BY <1>3, <1>4 DEF Unrun, Required
<1> QED
  BY <1>2, <1>5, InvalidateLaterUnrun DEF ApplyGateResult

(* ...nor does making gates required...                                    *)
LEMMA TightenUnrun ==
  ASSUME NEW gates \in Ledger, Unrun(gates), NEW S,
         \A g \in S : g \in Gate /\ ~Required(gates[g])
  PROVE  Unrun(Tighten(gates, S))
<1>1. \A h \in Gate : gates[h] \in GateEntry
  BY DEF Ledger
<1>2. \A h \in S : /\ Tightened(gates[h]).evidence = NoEvidence
                   /\ Tightened(gates[h]).exception = FALSE
  BY <1>1 DEF Tightened, Unrun, GateEntry
<1> QED
  BY <1>1, <1>2, ReopenedUnrun DEF Tighten, Unrun

(* ...nor an exception for a failed gate.                                  *)
LEMMA ExceptedUnrun ==
  ASSUME NEW gates \in Ledger, Unrun(gates), NEW g \in Gate, gates[g].result = "failed"
  PROVE  Unrun(Excepted(gates, g))
<1>1. \A h \in Gate : /\ Excepted(gates, g)[h].applicability = gates[h].applicability
                      /\ Excepted(gates, g)[h].result = gates[h].result
                      /\ Excepted(gates, g)[h].evidence = gates[h].evidence
                      /\ h # g => Excepted(gates, g)[h].exception = gates[h].exception
  BY DEF Excepted, Ledger, GateEntry
<1> QED
  BY <1>1 DEF Unrun, Required

-----------------------------------------------------------------------------
(* Records                                                                 *)

LEMMA BornTruthful == \A skipped, l : Truthful(Born(skipped), l)
  BY PlannedUnrun DEF Born, Truthful, ListedIn, NoItems

(* A change of the gates alone is truthful when the new gates are.         *)
LEMMA NewGatesTruthful ==
  ASSUME NEW r \in Record, NEW l, Truthful(r, l), NEW gates \in Ledger, Unrun(gates)
  PROVE  Truthful([r EXCEPT !.gates = gates], l)
  BY DEF Truthful, Record

(* Evidence that is new and unbound says nothing of the branch.            *)
LEMMA EvidenceAddedTruthful ==
  ASSUME NEW r \in Record, NEW l, Truthful(r, l), NEW e \in EvidenceIds, r.items[e] = NoItem,
         NEW envelope \in Envelope, envelope.commit = 0, Required(r.gates[envelope.gate])
  PROVE  Truthful(EvidenceAdded(r, e, envelope), l)
<1> DEFINE gates == ApplyGateResult(r.gates, envelope.gate, envelope.result, e)
           new == EvidenceAdded(r, e, envelope)
<1>1. r.gates \in Ledger /\ r.items \in Items
  BY DEF Record, Ledger
<1>2. envelope.gate \in Gate /\ envelope.result \in Ran /\ envelope.result \in Results
  BY DEF Envelope, Results
<1>3. Unrun(gates)
  BY <1>1, <1>2, ApplyGateResultUnrun DEF Truthful
<1>4. new.gates = gates /\ new.items = [r.items EXCEPT ![e] = envelope] /\ new.commits = r.commits
  BY DEF EvidenceAdded, Record
<1> HIDE DEF gates, new
<1>5. \A i \in EvidenceIds : new.items[i] = IF i = e THEN envelope ELSE r.items[i]
  BY <1>1, <1>4 DEF Items
<1> QED
  BY <1>3, <1>4, <1>5 DEF new, Truthful

(* Evidence binds to the commit at HEAD when it is about its content and   *)
(* older than it, and the commit goes last in the list.                    *)
LEMMA BoundTruthful ==
  ASSUME NEW r \in Record, NEW l \in Seq(Commit), Truthful(r, l),
         NEW G \in SUBSET Gate, G # {}, Len(l) > 0,
         \A e \in EvidenceOf(r, G) : r.items[e].head < Len(l),
         \A e \in EvidenceOf(r, G) : r.items[e].blob = l[Len(l)].blob,
         \A i \in 1..Len(r.commits) : r.commits[i].id < Len(l)
  PROVE  Truthful(Bound(r, G, Len(l)), l)
<1> DEFINE n == Len(l)
           entry == [id |-> n, gates |-> G]
           new == Bound(r, G, n)
<1>1. n \in Nat /\ n \in 1..Len(l) /\ r.commits \in Seq(CommitEntry)
  BY DEF Record
<1>2. /\ new.gates = r.gates
      /\ new.commits = Append(r.commits, entry)
      /\ \A e \in EvidenceIds :
            new.items[e] = IF e \in EvidenceOf(r, G) /\ r.items[e] # NoItem
                           THEN [r.items[e] EXCEPT !.commit = n] ELSE r.items[e]
  BY DEF Bound, EvidenceOf, Record
<1> HIDE DEF new
<1>3. ASSUME NEW e \in EvidenceIds, new.items[e] # NoItem, new.items[e].commit # 0
      PROVE  BoundIn(new.items[e], l)
  <2>1. CASE e \in EvidenceOf(r, G) /\ r.items[e] # NoItem
    <3>1. r.items[e] \in Envelope
      BY <2>1 DEF Record, Items
    <3>2. /\ new.items[e].commit = n
          /\ new.items[e].head = r.items[e].head
          /\ new.items[e].blob = r.items[e].blob
      BY <1>2, <2>1, <3>1 DEF Envelope
    <3> QED
      BY <1>1, <2>1, <3>2 DEF BoundIn
  <2>2. CASE ~(e \in EvidenceOf(r, G) /\ r.items[e] # NoItem)
    BY <1>2, <1>3, <2>2 DEF Truthful
  <2> QED
    BY <2>1, <2>2
<1>4. ListedIn(new.commits, l)
  <2> DEFINE m == Len(r.commits)
  <2>1. /\ m \in Nat /\ Len(new.commits) = m + 1
        /\ \A i \in 1..m : new.commits[i] = r.commits[i]
        /\ new.commits[m+1] = entry
    BY <1>1, <1>2
  <2>2. \A i \in 1..(m+1) : i \in 1..m \/ i = m+1
    BY <2>1
  <2>3. \A i \in 1..m : r.commits[i] \in CommitEntry
    BY <1>1
  <2> HIDE DEF m
  <2>4. ASSUME NEW i \in 1..(m+1)
        PROVE  /\ new.commits[i].id \in 1..Len(l)
               /\ new.commits[i].gates = {} => ProfileOnlyIn(l, new.commits[i].id)
    <3>1. CASE i = m+1
      BY <1>1, <2>1, <3>1
    <3>2. CASE i \in 1..m
      BY <2>1, <3>2 DEF Truthful, ListedIn, m
    <3> QED
      BY <2>2, <3>1, <3>2
  <2>5. ASSUME NEW i \in 1..(m+1), NEW j \in 1..(m+1), i < j
        PROVE  new.commits[i].id < new.commits[j].id
    <3>1. i \in 1..m
      BY <2>1, <2>5
    <3>2. CASE j = m+1
      BY <1>1, <2>1, <3>1, <3>2 DEF m
    <3>3. CASE j \in 1..m
      BY <2>1, <2>5, <3>1, <3>3 DEF Truthful, ListedIn, m
    <3> QED
      BY <2>2, <3>2, <3>3
  <2> QED
    BY <2>1, <2>4, <2>5 DEF ListedIn
<1> QED
  BY <1>2, <1>3, <1>4 DEF Truthful, new

(* What is true of the branch stays true as commits are added to it.       *)
LEMMA TruthfulGrows ==
  ASSUME NEW r \in Record, NEW l \in Seq(Commit), NEW c \in Commit, Truthful(r, l)
  PROVE  Truthful(r, Append(l, c))
<1> DEFINE k == Append(l, c)
           n == Len(l)
<1>1. n \in Nat /\ Len(k) = n + 1 /\ \A i \in 1..n : k[i] = l[i]
  OBVIOUS
<1> HIDE DEF k
<1>2. 1..n \subseteq 1..Len(k)
  BY <1>1
<1>3. \A i \in 1..n : ProfileOnlyIn(l, i) => ProfileOnlyIn(k, i)
  <2> TAKE i \in 1..n
  <2>1. i # 1 => i - 1 \in 1..n
    BY <1>1
  <2> QED
    BY <1>1, <2>1 DEF ProfileOnlyIn
<1>4. ListedIn(r.commits, k)
  BY <1>2, <1>3 DEF Truthful, ListedIn
<1>5. \A e \in EvidenceIds : BoundIn(r.items[e], l) => BoundIn(r.items[e], k)
  BY <1>1, <1>2 DEF BoundIn
<1> QED
  BY <1>4, <1>5 DEF Truthful, k

(* update-plan lists every commit up to HEAD, the new ones being about the *)
(* Engineering Profile alone.                                              *)
LEMMA AdoptedListed ==
  ASSUME TypeOK, NEW r \in Record, Truthful(r, log), Adoptable(r)
  PROVE  ListedIn(Adopted(r), log)
<1> DEFINE at(i) == CHOOSE k \in 1..Len(r.commits) : r.commits[k].id = i
           new == Adopted(r)
<1>1. HEAD \in Nat /\ HEAD = Len(log)
  BY HeadProfileType DEF HEAD
<1>2. ASSUME NEW i \in 1..HEAD, Known(r, i)
      PROVE  at(i) \in 1..Len(r.commits) /\ r.commits[at(i)].id = i
  BY <1>2 DEF Known, CommitIds
<1>3. Len(new) = HEAD
  BY <1>1 DEF Adopted
<1>4. ASSUME NEW i \in 1..HEAD
      PROVE  new[i].id = i /\ (new[i].gates = {} => ProfileOnlyIn(log, i))
  <2>1. CASE Known(r, i)
    <3>1. new[i] = r.commits[at(i)]
      BY <2>1 DEF Adopted
    <3> HIDE DEF at, new
    <3> QED
      BY <1>2, <2>1, <3>1 DEF Truthful, ListedIn
  <2>2. CASE ~Known(r, i)
    <3>1. new[i] = [id |-> i, gates |-> {}]
      BY <2>2 DEF Adopted
    <3>2. ProfileOnly(i)
      BY <2>2 DEF Adoptable
    <3> QED
      BY <3>1, <3>2 DEF ProfileOnly, ProfileOnlyIn, BlobBefore, ProfileBefore
  <2> QED
    BY <2>1, <2>2
<1> HIDE DEF new
<1> QED
  BY <1>1, <1>3, <1>4 DEF ListedIn, new

-----------------------------------------------------------------------------
(* What helper steps have in common                                        *)

LogStep == log' = log \/ \E c \in Commit : log' = Append(log, c)

(* What a helper relies on stays true as the branch grows, unless it is    *)
(* about to bind.                                                          *)
LEMMA StandingGrows ==
  ASSUME NEW l \in Seq(Commit), NEW c \in Commit, NEW r \in Record, NEW a \in Argument,
         NEW step, Standing(step, r, a, l)
  PROVE  Standing(step, r, a, Append(l, c))
<1>1. Len(l) \in Nat /\ Len(Append(l, c)) = Len(l) + 1
  OBVIOUS
<1>2. ASSUME NEW e \in EvidenceOf(r, a.gates) PROVE r.items[e].head \in Nat
  <2>1. e \in EvidenceIds
    BY DEF EvidenceOf, Argument, Record, GateEntry
  <2> QED
    BY <2>1 DEF Record, Items, Envelope, NoItem
<1>3. ASSUME NEW i \in 1..Len(r.commits) PROVE r.commits[i].id \in Nat
  <2>1. r.commits \in Seq(CommitEntry)
    BY DEF Record
  <2>2. r.commits[i] \in CommitEntry
    BY <2>1
  <2> QED
    BY <2>2 DEF CommitEntry
<1> HIDE DEF EvidenceOf
<1> QED
  BY <1>1, <1>2, <1>3 DEF Standing

(* So all records and copies stay truthful when the branch grows.          *)
LEMMA AllGrow ==
  ASSUME IInv, TruthfulRecords, LogStep
  PROVE  /\ Truthful(rec, log')
         /\ \A q \in Procs : Truthful(copy[q], log') /\ Standing(pc[q], copy[q], arg[q], log')
<1>1. CASE log' = log
  BY <1>1 DEF TruthfulRecords
<1>2. ASSUME NEW c \in Commit, log' = Append(log, c)
      PROVE  /\ Truthful(rec, log')
             /\ \A q \in Procs : Truthful(copy[q], log') /\ Standing(pc[q], copy[q], arg[q], log')
  <2>1. rec \in Record /\ log \in Seq(Commit)
    BY DEF IInv, TypeOK
  <2>2. \A q \in Procs : copy[q] \in Record /\ arg[q] \in Argument
    BY DEF IInv, TypeOK
  <2> QED
    BY <1>2, <2>1, <2>2, TruthfulGrows, StandingGrows DEF TruthfulRecords
<1> QED
  BY <1>1, <1>2 DEF LogStep

(* One helper moves, the others stand still.                               *)
LEMMA OneMoves ==
  ASSUME IInv, TruthfulRecords, LogStep, NEW p \in Procs,
         \A q \in Procs : q # p => /\ copy'[q] = copy[q]
                                   /\ pc'[q] = pc[q]
                                   /\ arg'[q] = arg[q],
         Truthful(rec', log'), Truthful(copy'[p], log'),
         Standing(pc'[p], copy'[p], arg'[p], log')
  PROVE  TruthfulRecords'
<1>1. \A q \in Procs : Truthful(copy'[q], log') /\ Standing(pc'[q], copy'[q], arg'[q], log')
  BY AllGrow
<1> QED
  BY <1>1 DEF TruthfulRecords

(* A helper that ends drops its copy.                                      *)
LEMMA ExitTruthful ==
  ASSUME IInv, TruthfulRecords, LogStep, NEW p \in Procs, Exit(p), Truthful(rec', log')
  PROVE  TruthfulRecords'
<1>1. /\ \A q \in Procs : q # p => /\ copy'[q] = copy[q]
                                   /\ pc'[q] = pc[q]
                                   /\ arg'[q] = arg[q]
      /\ copy'[p] = NoCopy /\ pc'[p] = "idle" /\ arg'[p] = NoArgument
  BY DEF IInv, TypeOK, Exit
<1>2. Truthful(NoCopy, log') /\ Standing("idle", NoCopy, NoArgument, log')
  BY BornTruthful DEF NoCopy, Standing
<1> QED
  BY <1>1, <1>2, OneMoves

(* A helper goes on with a copy that is truthful, and its standing.        *)
LEMMA HoldTruthful ==
  ASSUME IInv, TruthfulRecords, LogStep, NEW p \in Procs, NEW r, Hold(p, r),
         NEW step, Goto(p, step), NEW a, arg' = [arg EXCEPT ![p] = a],
         Truthful(rec', log'), Truthful(r, log'), Standing(step, r, a, log')
  PROVE  TruthfulRecords'
<1>1. /\ \A q \in Procs : q # p => /\ copy'[q] = copy[q]
                                   /\ pc'[q] = pc[q]
                                   /\ arg'[q] = arg[q]
      /\ copy'[p] = r /\ pc'[p] = step /\ arg'[p] = a
  BY DEF IInv, TypeOK, Hold, Goto
<1> QED
  BY <1>1, OneMoves

(* A command that loads, changes and is about to save a truthful copy.     *)
LEMMA PrepareTruthful ==
  ASSUME IInv, TruthfulRecords, NEW p \in Procs, NEW r, Truthful(r, log), Prepare(p, r)
  PROVE  TruthfulRecords'
<1>1. arg' = [arg EXCEPT ![p] = arg[p]] /\ log' = log /\ rec' = rec
  BY DEF IInv, TypeOK, Prepare, record, source
<1>2. Standing("save", r, arg[p], log')
  BY DEF Standing
<1> QED
  BY <1>1, <1>2, HoldTruthful DEF Prepare, LogStep, TruthfulRecords

(* A helper that goes on with its copy and arguments.                      *)
LEMMA GotoTruthful ==
  ASSUME IInv, TruthfulRecords, LogStep, NEW p \in Procs, NEW step, Goto(p, step),
         UNCHANGED <<copy, arg>>, Truthful(rec', log'),
         Standing(step, copy[p], arg[p], log')
  PROVE  TruthfulRecords'
<1>1. copy' = [copy EXCEPT ![p] = copy[p]] /\ arg' = [arg EXCEPT ![p] = arg[p]]
  BY DEF IInv, TypeOK
<1>2. Truthful(copy[p], log')
  BY AllGrow
<1> QED
  BY <1>1, <1>2, HoldTruthful DEF Hold

-----------------------------------------------------------------------------
(* The steps                                                               *)

LEMMA SetGateTruthful ==
  ASSUME IInv, TruthfulRecords, NEW p \in Procs, NEW g \in Gate, NEW result \in Results,
         NEW e \in EvidenceIds \cup {NoEvidence}, SetGate(p, g, result, e)
  PROVE  TruthfulRecords'
<1> DEFINE gates == ApplyGateResult(rec.gates, g, result, e)
<1>1. rec \in Record /\ rec.gates \in Ledger /\ rec.items \in Items
  BY DEF IInv, TypeOK, Record, Ledger
<1>2. \/ e = NoEvidence /\ (Required(rec.gates[g]) => result = "pending")
      \/ Required(rec.gates[g]) /\ result \in Ran
  <2>1. CASE e = NoEvidence
    BY <2>1 DEF SetGate
  <2>2. CASE e # NoEvidence
    <3>1. rec.items[e] \in Envelope /\ rec.items[e].result = result
      BY <1>1, <2>2 DEF SetGate, Items
    <3>2. result \in Ran /\ result # "not_run"
      BY <3>1 DEF Envelope, Ran
    <3> QED
      BY <3>2 DEF SetGate
  <2> QED
    BY <2>1, <2>2
<1>3. gates \in Ledger /\ Unrun(gates)
  BY <1>1, <1>2, ApplyGateResultType, ApplyGateResultUnrun DEF TruthfulRecords, Truthful
<1>4. Truthful([rec EXCEPT !.gates = gates], log)
  BY <1>1, <1>3, NewGatesTruthful DEF TruthfulRecords
<1>5. Prepare(p, [rec EXCEPT !.gates = gates])
  BY DEF SetGate
<1> QED
  BY <1>4, <1>5, PrepareTruthful

(* Every action of a helper keeps the records truthful. The commands that  *)
(* load, change and save:                                                  *)
LEMMA SetApplicabilityTruthful ==
  ASSUME IInv, TruthfulRecords, NEW p \in Procs, NEW g \in Gate, SetApplicability(p, g)
  PROVE  TruthfulRecords'
<1> DEFINE gates == Tighten(rec.gates, {g})
<1>1. rec \in Record /\ rec.gates \in Ledger
  BY DEF IInv, TypeOK, Record, Ledger
<1>2. gates \in Ledger /\ Unrun(gates)
  BY <1>1, TightenType, TightenUnrun DEF SetApplicability, TruthfulRecords, Truthful
<1>3. Truthful([rec EXCEPT !.gates = gates], log)
  BY <1>1, <1>2, NewGatesTruthful DEF TruthfulRecords
<1>4. Prepare(p, [rec EXCEPT !.gates = gates])
  BY DEF SetApplicability
<1> QED
  BY <1>3, <1>4, PrepareTruthful

LEMMA ApproveExceptionTruthful ==
  ASSUME IInv, TruthfulRecords, NEW p \in Procs, NEW g \in Gate, ApproveException(p, g)
  PROVE  TruthfulRecords'
<1> DEFINE gates == Excepted(rec.gates, g)
<1>1. rec \in Record /\ rec.gates \in Ledger
  BY DEF IInv, TypeOK, Record, Ledger
<1>2. gates \in Ledger /\ Unrun(gates)
  BY <1>1, ExceptedType, ExceptedUnrun DEF ApproveException, TruthfulRecords, Truthful
<1>3. Truthful([rec EXCEPT !.gates = gates], log)
  BY <1>1, <1>2, NewGatesTruthful DEF TruthfulRecords
<1>4. Prepare(p, [rec EXCEPT !.gates = gates])
  BY DEF ApproveException
<1> QED
  BY <1>3, <1>4, PrepareTruthful

LEMMA UpdatePlanTruthful ==
  ASSUME IInv, TruthfulRecords, NEW p \in Procs, NEW S \in SUBSET Optional, UpdatePlan(p, S)
  PROVE  TruthfulRecords'
<1> DEFINE gates == Tighten(rec.gates, S)
           r == [rec EXCEPT !.gates = gates, !.profile = HeadProfile]
<1>1. rec \in Record /\ rec.gates \in Ledger /\ Truthful(rec, log)
  BY DEF IInv, TypeOK, TruthfulRecords, Record, Ledger
<1>2. Unrun(gates)
  BY <1>1, TightenUnrun, OptionalAssumption DEF UpdatePlan, Truthful
<1>3. Truthful(r, log)
  <2> HIDE DEF gates
  <2> QED
    BY <1>1, <1>2 DEF Truthful, Record
<1>4. Standing("up_adopt", r, arg[p], log)
  BY DEF Standing
<1>5. /\ arg' = [arg EXCEPT ![p] = arg[p]] /\ log' = log /\ rec' = rec
      /\ Hold(p, r) /\ Goto(p, "up_adopt")
  BY DEF IInv, TypeOK, UpdatePlan, record, source
<1> HIDE DEF r
<1> QED
  BY <1>1, <1>3, <1>4, <1>5, HoldTruthful DEF LogStep

LEMMA AdoptCommitsTruthful ==
  ASSUME IInv, TruthfulRecords, NEW p \in Procs, AdoptCommits(p)
  PROVE  TruthfulRecords'
<1> DEFINE commits == Adopted(copy[p])
           r == [copy[p] EXCEPT !.commits = commits]
<1>1. copy[p] \in Record /\ Truthful(copy[p], log)
  BY DEF IInv, TypeOK, TruthfulRecords
<1>2. UNCHANGED <<rec, log>>
  BY DEF AdoptCommits, record, source
<1>3. CASE Exit(p)
  BY <1>2, <1>3, ExitTruthful DEF LogStep, TruthfulRecords
<1>4. CASE /\ Adoptable(copy[p])
           /\ Hold(p, r) /\ Goto(p, "save") /\ UNCHANGED <<locks, arg>>
  <2>1. ListedIn(commits, log)
    BY <1>1, <1>4, AdoptedListed DEF IInv
  <2>2. Truthful(r, log)
    <3> HIDE DEF commits
    <3> QED
      BY <1>1, <2>1 DEF Truthful, Record
  <2>3. arg' = [arg EXCEPT ![p] = arg[p]] /\ Standing("save", r, arg[p], log)
    BY <1>4 DEF IInv, TypeOK, Standing
  <2> HIDE DEF r
  <2> QED
    BY <1>2, <1>4, <2>2, <2>3, HoldTruthful DEF LogStep, TruthfulRecords
<1> QED
  BY <1>3, <1>4 DEF AdoptCommits

(* Changing the state, the review or the source_sync outcome says nothing  *)
(* about the branch.                                                       *)
LEMMA StateTruthful ==
  ASSUME NEW r \in Record, NEW l, Truthful(r, l), NEW state
  PROVE  /\ Truthful([r EXCEPT !.state = state], l)
         /\ Truthful([r EXCEPT !.synced = TRUE], l)
         /\ Truthful([r EXCEPT !.reviewed = TRUE], l)
         /\ Truthful([r EXCEPT !.state = state, !.synced = TRUE], l)
  BY DEF Truthful, Record

LEMMA ReviewArtifactTruthful ==
  ASSUME IInv, TruthfulRecords, NEW p \in Procs, ReviewArtifact(p)
  PROVE  TruthfulRecords'
<1>1. Truthful([rec EXCEPT !.reviewed = TRUE], log)
  BY StateTruthful DEF IInv, TypeOK, TruthfulRecords
<1> QED
  BY <1>1, PrepareTruthful DEF ReviewArtifact

LEMMA SaveTruthful ==
  ASSUME IInv, TruthfulRecords, NEW p \in Procs, Save(p)
  PROVE  TruthfulRecords'
<1>1. LogStep /\ Truthful(rec', log')
  BY DEF Save, source, LogStep, TruthfulRecords
<1> QED
  BY <1>1, ExitTruthful DEF Save

(* The helper ends without touching the record or the branch.              *)
LEMMA QuietExitTruthful ==
  ASSUME IInv, TruthfulRecords, NEW p \in Procs, Exit(p), UNCHANGED <<rec, log>>
  PROVE  TruthfulRecords'
  BY ExitTruthful DEF TruthfulRecords, LogStep

LEMMA CrashTruthful ==
  ASSUME IInv, TruthfulRecords, NEW p \in Procs, Crash(p)
  PROVE  TruthfulRecords'
  BY QuietExitTruthful DEF Crash, record, source

(* record-evidence.                                                        *)
LEMMA EvidenceBeginTruthful ==
  ASSUME IInv, TruthfulRecords, NEW p \in Procs, NEW g \in Gate, NEW blob,
         EvidenceBegin(p, g, blob)
  PROVE  TruthfulRecords'
<1> DEFINE a == [gates |-> {g}, blob |-> blob, head |-> 0]
<1>1. Hold(p, copy[p]) /\ UNCHANGED <<rec, log>>
  BY DEF IInv, TypeOK, EvidenceBegin, Hold, record, source
<1>2. Standing("re_lock", copy[p], a, log)
  BY DEF Standing
<1> QED
  BY <1>1, <1>2, HoldTruthful DEF EvidenceBegin, LogStep, TruthfulRecords

LEMMA EvidenceLoadTruthful ==
  ASSUME IInv, TruthfulRecords, NEW p \in Procs, EvidenceLoad(p)
  PROVE  TruthfulRecords'
<1>1. UNCHANGED <<rec, log>>
  BY DEF EvidenceLoad, record, source
<1>2. CASE Exit(p)
  BY <1>1, <1>2, QuietExitTruthful
<1>3. CASE /\ \A g \in arg[p].gates : Required(rec.gates[g])
           /\ Hold(p, rec)
           /\ arg' = [arg EXCEPT ![p].head = HEAD]
           /\ Goto(p, "re_run")
  <2> DEFINE a == [arg[p] EXCEPT !.head = HEAD]
  <2>1. a.gates = arg[p].gates /\ arg' = [arg EXCEPT ![p] = a]
    BY <1>3 DEF IInv, TypeOK, Argument
  <2>2. Standing("re_run", rec, a, log)
    BY <1>3, <2>1 DEF Standing
  <2> QED
    BY <1>1, <1>3, <2>1, <2>2, HoldTruthful DEF LogStep, TruthfulRecords
<1> QED
  BY <1>2, <1>3 DEF EvidenceLoad

LEMMA EvidenceRanTruthful ==
  ASSUME IInv, TruthfulRecords, NEW p \in Procs, NEW g \in Gate, NEW result \in Ran,
         NEW e \in EvidenceIds, EvidenceRan(p, g, result, e)
  PROVE  TruthfulRecords'
<1> DEFINE envelope == [gate |-> g, result |-> result, head |-> HEAD, blob |-> arg[p].blob,
                        commit |-> 0, ranHead |-> arg[p].head]
           r == EvidenceAdded(copy[p], e, envelope)
<1>1. UNCHANGED <<rec, log>>
  BY DEF EvidenceRan, record, source
<1>2. CASE Exit(p)
  BY <1>1, <1>2, QuietExitTruthful
<1>3. CASE Hold(p, r) /\ Goto(p, "save") /\ UNCHANGED <<locks, arg>>
  <2>1. envelope \in Envelope
    BY HeadProfileType DEF IInv, TypeOK, Argument, Envelope
  <2>2. copy[p] \in Record /\ copy[p].items[e] = NoItem
    BY DEF IInv, TypeOK, GoodRecords, Good, Fresh, EvidenceRan
  <2>3. Required(copy[p].gates[g])
    BY DEF EvidenceRan, TruthfulRecords, Standing
  <2>4. Truthful(copy[p], log) /\ envelope.commit = 0 /\ envelope.gate = g
    BY DEF TruthfulRecords
  <2>5. Truthful(r, log)
    <3> HIDE DEF envelope
    <3> QED
      BY <2>1, <2>2, <2>3, <2>4, EvidenceAddedTruthful
  <2>6. arg' = [arg EXCEPT ![p] = arg[p]] /\ Standing("save", r, arg[p], log)
    BY <1>3 DEF IInv, TypeOK, Standing
  <2> HIDE DEF r, envelope
  <2> QED
    BY <1>1, <1>3, <2>5, <2>6, HoldTruthful DEF LogStep, TruthfulRecords
<1> QED
  BY <1>2, <1>3 DEF EvidenceRan

(* The evidence gate-commit is about to bind was checked against HEAD.     *)
LEMMA CommitVerifyTruthful ==
  ASSUME IInv, TruthfulRecords, NEW p \in Procs, NEW G \in SUBSET Gate, G # {},
         CommitVerify(p, G)
  PROVE  TruthfulRecords'
<1> DEFINE a == [arg[p] EXCEPT !.gates = G]
<1>1. UNCHANGED <<rec, log>> /\ arg' = [arg EXCEPT ![p] = a] /\ a.gates = G
  BY DEF IInv, TypeOK, CommitVerify, record, source, Argument
<1>2. HEAD \in Nat /\ HEAD = Len(log)
  BY HeadProfileType DEF IInv, HEAD
<1>3. ASSUME NEW e \in EvidenceOf(rec, G) PROVE rec.items[e].head <= Len(log)
  <2>1. PICK g \in G : rec.gates[g].evidence = e /\ e # NoEvidence
    BY DEF EvidenceOf
  <2>2. g \in RanGates(rec, G)
    BY <2>1 DEF TruthfulRecords, Truthful, Unrun, RanGates
  <2> QED
    BY <1>2, <2>1, <2>2 DEF CommitVerify
<1>4. Standing("gc_add", rec, a, log)
  BY <1>1, <1>3 DEF Standing, CommitVerify
<1> QED
  BY <1>1, <1>4, HoldTruthful DEF CommitVerify, LogStep, TruthfulRecords

LEMMA CommitStageTruthful ==
  ASSUME IInv, TruthfulRecords, NEW p \in Procs, CommitStage(p)
  PROVE  TruthfulRecords'
<1>1. UNCHANGED <<rec, log>>
  BY DEF CommitStage, record
<1>2. Standing("gc_index", copy[p], arg[p], log)
  BY DEF CommitStage, TruthfulRecords, Standing
<1> QED
  BY <1>1, <1>2, GotoTruthful DEF CommitStage, LogStep, TruthfulRecords

LEMMA CommitCompareTruthful ==
  ASSUME IInv, TruthfulRecords, NEW p \in Procs, CommitCompare(p)
  PROVE  TruthfulRecords'
<1>1. UNCHANGED <<rec, log>>
  BY DEF CommitCompare, record, source
<1>2. Standing("gc_commit", copy[p], arg[p], log)
  BY DEF CommitCompare, TruthfulRecords, Standing
<1> QED
  BY <1>1, <1>2, QuietExitTruthful, GotoTruthful DEF CommitCompare, LogStep, TruthfulRecords

(* The commit comes after all the record lists and all that the evidence   *)
(* was recorded at.                                                        *)
LEMMA CommitCreateTruthful ==
  ASSUME IInv, TruthfulRecords, NEW p \in Procs, CommitCreate(p)
  PROVE  TruthfulRecords'
<1> DEFINE c == [blob |-> index, profile |-> HeadProfile]
<1>1. rec' = rec
  BY DEF CommitCreate, record
<1>2. CASE Exit(p) /\ UNCHANGED log
  BY <1>1, <1>2, QuietExitTruthful
<1>3. CASE log' = Append(log, c) /\ Goto(p, "gc_bind") /\ UNCHANGED <<locks, copy, arg>>
  <2>1. c \in Commit /\ log \in Seq(Commit) /\ copy[p] \in Record /\ arg[p] \in Argument
    BY HeadProfileType DEF IInv, TypeOK, Commit
  <2>2. Len(log) \in Nat /\ Len(log') = Len(log) + 1
    BY <1>3, <2>1
  <2>3. LogStep
    BY <1>3, <2>1 DEF LogStep
  <2>4. Standing("gc_commit", copy[p], arg[p], log) /\ Truthful(copy[p], log)
    BY DEF CommitCreate, TruthfulRecords
  <2>5. \A e \in EvidenceOf(copy[p], arg[p].gates) : copy[p].items[e].head < Len(log')
    <3> TAKE e \in EvidenceOf(copy[p], arg[p].gates)
    <3>1. e \in EvidenceIds
      BY <2>1 DEF EvidenceOf, Argument, Record, GateEntry
    <3>2. copy[p].items[e].head \in Nat
      BY <2>1, <3>1 DEF Record, Items, Envelope, NoItem
    <3>3. copy[p].items[e].head <= Len(log)
      BY <2>4 DEF Standing
    <3> QED
      BY <2>2, <3>2, <3>3
  <2>6. \A i \in 1..Len(copy[p].commits) : copy[p].commits[i].id < Len(log')
    BY <2>2, <2>4 DEF Truthful, ListedIn
  <2>7. Standing("gc_bind", copy[p], arg[p], log')
    BY <2>2, <2>4, <2>5, <2>6 DEF Standing
  <2>8. Truthful(rec', log')
    BY <1>1, <2>3, AllGrow
  <2> QED
    BY <1>3, <2>3, <2>7, <2>8, GotoTruthful DEF locks
<1> QED
  BY <1>2, <1>3 DEF CommitCreate

LEMMA CommitBindTruthful ==
  ASSUME IInv, TruthfulRecords, NEW p \in Procs, CommitBind(p)
  PROVE  TruthfulRecords'
<1> DEFINE old == copy[p]
           G == arg[p].gates
           r == Bound(old, G, HEAD)
<1>1. UNCHANGED <<rec, log>>
  BY DEF CommitBind, record, source
<1>2. CASE Exit(p)
  BY <1>1, <1>2, QuietExitTruthful
<1>3. CASE /\ EvidenceBlobIs(old, G, HeadBlob)
           /\ Hold(p, r) /\ Goto(p, "save") /\ UNCHANGED <<locks, arg>>
  <2>1. old \in Record /\ log \in Seq(Commit) /\ G \in SUBSET Gate
    BY DEF IInv, TypeOK, Argument
  <2>2. Standing("gc_bind", old, arg[p], log) /\ Truthful(old, log)
    BY DEF CommitBind, TruthfulRecords
  <2>3. HeadBlob = log[Len(log)].blob
    BY <2>2 DEF Standing, HeadBlob, HEAD
  <2>4. \A e \in EvidenceOf(old, G) : old.items[e].blob = log[Len(log)].blob
    <3> TAKE e \in EvidenceOf(old, G)
    <3>1. PICK g \in G : old.gates[g].evidence = e /\ e # NoEvidence
      BY DEF EvidenceOf
    <3>2. g \in RanGates(old, G)
      BY <2>1, <2>2, <3>1 DEF Truthful, Unrun, RanGates
    <3> QED
      BY <1>3, <2>3, <3>1, <3>2 DEF EvidenceBlobIs
  <2>5. Truthful(r, log)
    <3> HIDE DEF old, G
    <3> QED
      BY <2>1, <2>2, <2>4, BoundTruthful DEF Standing, HEAD, G
  <2>6. arg' = [arg EXCEPT ![p] = arg[p]] /\ Standing("save", r, arg[p], log)
    BY <1>3 DEF IInv, TypeOK, Standing
  <2> HIDE DEF r
  <2> QED
    BY <1>1, <1>3, <2>5, <2>6, HoldTruthful DEF LogStep, TruthfulRecords
<1> QED
  BY <1>2, <1>3 DEF CommitBind

(* A helper between the steps of record-evidence and gate-commit relies on *)
(* nothing.                                                                *)
OtherSteps == Steps \ {"re_run", "gc_add", "gc_index", "gc_commit", "gc_bind"}

LEMMA OtherStanding == \A step \in OtherSteps : \A r, a, l : Standing(step, r, a, l)
  BY DEF OtherSteps, Standing

(* A helper that goes on to such a step without touching the branch.       *)
LEMMA QuietTruthful ==
  ASSUME IInv, TruthfulRecords, NEW p \in Procs, UNCHANGED log, NEW step \in OtherSteps,
         Goto(p, step), UNCHANGED arg, NEW r, Hold(p, r), Truthful(r, log),
         rec' = rec \/ rec' = r
  PROVE  TruthfulRecords'
<1>1. arg' = [arg EXCEPT ![p] = arg[p]]
  BY DEF IInv, TypeOK
<1>2. Standing(step, r, arg[p], log)
  BY OtherStanding
<1> QED
  BY <1>1, <1>2, HoldTruthful DEF LogStep, TruthfulRecords

(* A helper that goes on to such a step with the copy it has.              *)
LEMMA QuietGotoTruthful ==
  ASSUME IInv, TruthfulRecords, NEW p \in Procs, UNCHANGED <<rec, log, copy, arg>>,
         NEW step \in OtherSteps, Goto(p, step)
  PROVE  TruthfulRecords'
<1>1. Standing(step, copy[p], arg[p], log)
  BY OtherStanding
<1> QED
  BY <1>1, GotoTruthful DEF LogStep, TruthfulRecords

(* final-push and complete-local, which change the state of the record.    *)
LEMMA PushLoadTruthful ==
  ASSUME IInv, TruthfulRecords, NEW p \in Procs, PushLoad(p)
  PROVE  TruthfulRecords'
<1>1. "fp_lock" \in OtherSteps
  BY DEF OtherSteps, Steps
<1> QED
  BY <1>1, QuietTruthful DEF PushLoad, record, source, TruthfulRecords

LEMMA PushLockTruthful ==
  ASSUME IInv, TruthfulRecords, NEW p \in Procs, PushLock(p)
  PROVE  TruthfulRecords'
<1>1. "fp_start" \in OtherSteps
  BY DEF OtherSteps, Steps
<1> QED
  BY <1>1, QuietExitTruthful, QuietGotoTruthful DEF PushLock, record, source

LEMMA PushStartTruthful ==
  ASSUME IInv, TruthfulRecords, NEW p \in Procs, PushStart(p)
  PROVE  TruthfulRecords'
<1>1. "fp_ahead" \in OtherSteps /\ "unlink" \in OtherSteps
  BY DEF OtherSteps, Steps
<1> QED
  BY <1>1, QuietExitTruthful, QuietGotoTruthful DEF PushStart, record, source

LEMMA PushAheadTruthful ==
  ASSUME IInv, TruthfulRecords, NEW p \in Procs, PushAhead(p)
  PROVE  TruthfulRecords'
<1> DEFINE r == [copy[p] EXCEPT !.state = "finalizing"]
<1>1. Truthful(r, log)
  BY StateTruthful DEF IInv, TypeOK, TruthfulRecords
<1>2. "fp_push" \in OtherSteps /\ "fp_verify" \in OtherSteps
  BY DEF OtherSteps, Steps
<1>3. \/ rec' = r /\ Hold(p, r) /\ Goto(p, "fp_push") /\ UNCHANGED <<locks, arg>>
      \/ Goto(p, "fp_verify") /\ UNCHANGED <<rec, locks, copy, arg>>
      \/ Exit(p) /\ UNCHANGED rec
  BY DEF PushAhead
<1>4. UNCHANGED log
  BY DEF PushAhead, source
<1> QED
  BY <1>1, <1>2, <1>3, <1>4, QuietTruthful, QuietGotoTruthful, QuietExitTruthful

LEMMA PushSendTruthful ==
  ASSUME IInv, TruthfulRecords, NEW p \in Procs, PushSend(p)
  PROVE  TruthfulRecords'
<1>1. "fp_verify" \in OtherSteps
  BY DEF OtherSteps, Steps
<1> QED
  BY <1>1, QuietGotoTruthful DEF PushSend, record

LEMMA PushFailsTruthful ==
  ASSUME IInv, TruthfulRecords, NEW p \in Procs, PushFails(p)
  PROVE  TruthfulRecords'
  BY QuietExitTruthful DEF PushFails, record

LEMMA PushVerifyTruthful ==
  ASSUME IInv, TruthfulRecords, NEW p \in Procs, PushVerify(p)
  PROVE  TruthfulRecords'
<1> DEFINE r == [copy[p] EXCEPT !.state = "completed"]
<1>1. Truthful(r, log)
  BY StateTruthful DEF IInv, TypeOK, TruthfulRecords
<1>2. "fp_sync" \in OtherSteps
  BY DEF OtherSteps, Steps
<1>3. \/ rec' = r /\ Hold(p, r) /\ Goto(p, "fp_sync") /\ UNCHANGED <<locks, arg>>
      \/ Exit(p) /\ UNCHANGED rec
  BY DEF PushVerify
<1>4. UNCHANGED log
  BY DEF PushVerify, source
<1> QED
  BY <1>1, <1>2, <1>3, <1>4, QuietTruthful, QuietExitTruthful

LEMMA PushSyncTruthful ==
  ASSUME IInv, TruthfulRecords, NEW p \in Procs, PushSync(p)
  PROVE  TruthfulRecords'
<1> DEFINE r == [copy[p] EXCEPT !.synced = TRUE]
<1>1. Truthful(r, log)
  BY StateTruthful DEF IInv, TypeOK, TruthfulRecords
<1>2. "unlink" \in OtherSteps
  BY DEF OtherSteps, Steps
<1>3. rec' = r /\ Hold(p, r) /\ Goto(p, "unlink") /\ UNCHANGED <<log, arg>>
  BY DEF PushSync, source
<1> QED
  BY <1>1, <1>2, <1>3, QuietTruthful

LEMMA UnlinkTruthful ==
  ASSUME IInv, TruthfulRecords, NEW p \in Procs, Unlink(p)
  PROVE  TruthfulRecords'
  BY QuietExitTruthful DEF Unlink, source

LEMMA LocalVerifyTruthful ==
  ASSUME IInv, TruthfulRecords, NEW p \in Procs, LocalVerify(p)
  PROVE  TruthfulRecords'
<1>1. "cl_ahead" \in OtherSteps
  BY DEF OtherSteps, Steps
<1> QED
  BY <1>1, QuietTruthful DEF LocalVerify, record, source, TruthfulRecords

LEMMA LocalAheadTruthful ==
  ASSUME IInv, TruthfulRecords, NEW p \in Procs, LocalAhead(p)
  PROVE  TruthfulRecords'
<1>1. "cl_head" \in OtherSteps
  BY DEF OtherSteps, Steps
<1> QED
  BY <1>1, QuietExitTruthful, QuietGotoTruthful DEF LocalAhead, record, source

LEMMA LocalHeadTruthful ==
  ASSUME IInv, TruthfulRecords, NEW p \in Procs, LocalHead(p)
  PROVE  TruthfulRecords'
<1> DEFINE r == LocallyCompleted(copy[p], HEAD)
<1>1. Truthful(r, log)
  BY DEF IInv, TypeOK, TruthfulRecords, Truthful, Record, LocallyCompleted
<1>2. "cl_save" \in OtherSteps /\ "unlink" \in OtherSteps
  BY DEF OtherSteps, Steps
<1>3. \/ Hold(p, r) /\ Goto(p, "cl_save") /\ UNCHANGED <<locks, arg>>
      \/ Goto(p, "unlink") /\ UNCHANGED <<locks, copy, arg>>
      \/ Exit(p)
  BY DEF LocalHead
<1>4. UNCHANGED <<rec, log>>
  BY DEF LocalHead, record, source
<1> HIDE DEF r
<1> QED
  BY <1>1, <1>2, <1>3, <1>4, QuietTruthful, QuietGotoTruthful, QuietExitTruthful

LEMMA LocalCompleteTruthful ==
  ASSUME IInv, TruthfulRecords, NEW p \in Procs, LocalComplete(p)
  PROVE  TruthfulRecords'
<1>1. UNCHANGED log
  BY DEF LocalComplete, source
<1>2. "unlink" \in OtherSteps
  BY DEF OtherSteps, Steps
<1>3. CASE rec' = copy[p] /\ Goto(p, "unlink") /\ UNCHANGED <<locks, copy, arg>>
  <2>1. Hold(p, copy[p])
    BY <1>3 DEF IInv, TypeOK, Hold
  <2> QED
    BY <1>1, <1>2, <1>3, <2>1, QuietTruthful DEF TruthfulRecords
<1>4. CASE Exit(p) /\ UNCHANGED rec
  BY <1>1, <1>4, QuietExitTruthful
<1> QED
  BY <1>3, <1>4 DEF LocalComplete

(* The world beside the helpers adds commits at most.                      *)
LEMMA EnvironmentTruthful ==
  ASSUME IInv, TruthfulRecords, Environment
  PROVE  TruthfulRecords'
<1>1. UNCHANGED <<rec, helpers>>
  BY DEF Environment, Edit, Unstage, CommitProfile, record
<1>2. LogStep
  <2>1. CASE Edit \/ Unstage
    BY <2>1 DEF Edit, Unstage, LogStep
  <2>2. CASE CommitProfile
    <3>1. \A f \in Profiles : [blob |-> HeadBlob, profile |-> f] \in Commit
      BY HeadProfileType DEF IInv, Commit
    <3> QED
      BY <2>2, <3>1 DEF CommitProfile, LogStep
  <2> QED
    BY <2>1, <2>2 DEF Environment
<1> QED
  BY <1>1, <1>2, AllGrow DEF helpers, TruthfulRecords

-----------------------------------------------------------------------------
(* The theorems                                                            *)

LEMMA InitTruthful == Init => TruthfulRecords
<1> SUFFICES ASSUME Init PROVE TruthfulRecords
  OBVIOUS
<1>1. Truthful(rec, log) /\ Truthful(NoCopy, log)
  BY BornTruthful DEF Init, NoCopy
<1>2. Standing("idle", NoCopy, NoArgument, log)
  BY DEF Standing
<1>3. \A p \in Procs : copy[p] = NoCopy /\ pc[p] = "idle" /\ arg[p] = NoArgument
  BY DEF Init
<1> QED
  BY <1>1, <1>2, <1>3 DEF TruthfulRecords

(* Every step keeps the records truthful.                                  *)
LEMMA NextTruthful == IInv /\ TruthfulRecords /\ [Next]_vars => TruthfulRecords'
<1> SUFFICES ASSUME IInv, TruthfulRecords, [Next]_vars PROVE TruthfulRecords'
  OBVIOUS
<1>1. ASSUME NEW p \in Procs, Starts(p) PROVE TruthfulRecords'
  BY <1>1, SetGateTruthful, SetApplicabilityTruthful, ApproveExceptionTruthful,
     UpdatePlanTruthful, ReviewArtifactTruthful, EvidenceBeginTruthful,
     CommitVerifyTruthful, PushLoadTruthful, LocalVerifyTruthful
     DEF Starts
<1>2. ASSUME NEW p \in Procs, Continues(p) PROVE TruthfulRecords'
  BY <1>2, SaveTruthful, EvidenceLoadTruthful, EvidenceRanTruthful, AdoptCommitsTruthful,
     CommitStageTruthful, CommitCompareTruthful, CommitCreateTruthful, CommitBindTruthful,
     PushLockTruthful, PushStartTruthful, PushAheadTruthful, PushSendTruthful, PushVerifyTruthful, PushSyncTruthful,
     LocalAheadTruthful, LocalHeadTruthful, LocalCompleteTruthful, UnlinkTruthful
     DEF Continues
<1>3. ASSUME NEW p \in Procs, PushFails(p) \/ Crash(p) PROVE TruthfulRecords'
  BY <1>3, PushFailsTruthful, CrashTruthful
<1>4. CASE Environment
  BY <1>4, EnvironmentTruthful
<1>5. CASE UNCHANGED vars
  BY <1>5 DEF vars, TruthfulRecords
<1> QED
  BY <1>1, <1>2, <1>3, <1>4, <1>5 DEF Next

(* Whatever helpers run at once, die or overwrite one another, and         *)
(* whatever is committed beside them, no saved record and no private copy  *)
(* ever says something false of the Git branch: its evidence bound to a    *)
(* commit, its listed commits and their order.                             *)
THEOREM Truthfulness == Spec => []TruthfulRecords
  BY InitTruthful, NextTruthful, Invariance, PTL DEF Spec

(* Evidence bound to a commit was produced from the content of that        *)
(* commit, before it was made: what bind_gate_evidence writes after the    *)
(* Gate Commit.                                                            *)
THEOREM BindingIsTrue == Spec => []BoundEvidenceIsCommitted
<1>1. IInv /\ TruthfulRecords => BoundEvidenceIsCommitted
  BY DEF TruthfulRecords, Truthful, BoundIn, BoundEvidenceIsCommitted, HEAD
<1> QED
  BY <1>1, Invariance, Truthfulness, PTL

(* A commit listed for no gate changes the Engineering Profile alone:      *)
(* update-plan never adopts a commit that a dead gate-commit left          *)
(* unrecorded.                                                             *)
THEOREM AdoptionIsProfileOnly == Spec => []AdoptedIsProfileOnly
<1>1. TruthfulRecords => AdoptedIsProfileOnly
  BY DEF TruthfulRecords, Truthful, ListedIn, ProfileOnlyIn, AdoptedIsProfileOnly, ProfileOnly,
         BlobBefore, ProfileBefore
<1> QED
  BY <1>1, Truthfulness, PTL
=============================================================================
