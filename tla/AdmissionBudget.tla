--------------------------- MODULE AdmissionBudget ---------------------------
(***************************************************************************)
(* The admission budget that every continuous-validation process of a user *)
(* shares (runner.Budget): an index file of queued and running slots,      *)
(* written only under index.lock, and for each slot a lease file that its  *)
(* process keeps locked, so that the death of the process shows.           *)
(*                                                                         *)
(* A call is one use of Budget.slot, with a token and a lease of its own.  *)
(* A locked section of the code is one action: it reads the index, and     *)
(* either raises or replaces the file.  Getting the lock may time out.     *)
(***************************************************************************)
EXTENDS Naturals, FiniteSets, Sequences

CONSTANTS Calls,        \* uses of a slot
          Kind,         \* class of each call: cheap or expensive
          OwnRunning,   \* limits the enrollment of each call configures
          OwnExpensive,
          Capacities,   \* how many entries an index may be limited to (256 in the code)
          MaxCrashes,   \* bound: processes that die
          MaxTimeouts   \* bound: index.lock not obtained in time

ASSUME CallsAssumption == IsFiniteSet(Calls)
ASSUME KindAssumption == Kind \in [Calls -> {"cheap", "expensive"}]
ASSUME LimitsAssumption ==
  /\ OwnRunning \in [Calls -> Nat \ {0}] /\ OwnExpensive \in [Calls -> Nat \ {0}]
  /\ \A c \in Calls : OwnExpensive[c] <= OwnRunning[c]
ASSUME CapacitiesAssumption == Capacities \subseteq Nat
ASSUME BoundsAssumption == MaxCrashes \in Nat /\ MaxTimeouts \in Nat

States == {"none", "queued", "running", "unknown"}
Leases == {"none", "held", "free"}
Steps == {"idle", "opened", "queued", "running", "marking", "releasing", "closing",
          "unlinking", "done", "dead"}

Limits == [running : Nat, expensive : Nat]
NoLimits == [running |-> 0, expensive |-> 0]

VARIABLES entries,   \* the index: state of the entry of each call
          limits,    \* the index: the first configured limits
          lease,     \* the lease file of each call, and whether it is locked
          born,      \* calls in the order of their creation times
          aged,      \* how many of them are older than the aging time
          pc,        \* next step of each call
          work,      \* the calls whose work may be going on
          kept,      \* the calls that retain their entry as unknown
          unmarked,  \* history: those that timed out before they could
          capacity,  \* the number of entries the index is limited to
          crashes, timeouts

index == <<entries, limits>>
bounds == <<unmarked, capacity, crashes, timeouts>>
vars == <<entries, limits, lease, born, aged, pc, work, kept, unmarked, capacity,
          crashes, timeouts>>

Init ==
  /\ entries = [c \in Calls |-> "none"] /\ limits = NoLimits
  /\ lease = [c \in Calls |-> "none"]
  /\ born = <<>> /\ aged = 0
  /\ pc = [c \in Calls |-> "idle"]
  /\ work = {} /\ kept = {} /\ unmarked = {}
  /\ capacity \in Capacities
  /\ crashes = 0 /\ timeouts = 0

-----------------------------------------------------------------------------
(* The index, as _read sees it                                              *)

In(state) == {c \in Calls : entries[c] = state}
OfKind(kind, calls) == {c \in calls : Kind[c] = kind}
Lesser(m, n) == IF m < n THEN m ELSE n

Listed == {c \in Calls : entries[c] # "none"}
Fits == Cardinality(Listed) <= capacity

(* Mutant: an entry whose lease is free is dropped, running or not.         *)
ReadableIfKnown == Fits /\ \A c \in Calls : entries[c] # "none" => entries[c] # "unknown" /\ lease[c] # "none"

(* Mutant: a queued entry whose lease is free blocks too.                   *)
ReadableIfHeld == Fits /\ \A c \in Calls : entries[c] # "none" => entries[c] # "unknown" /\ lease[c] = "held"

(* _read raises for too many entries, an unknown entry, a missing lease,    *)
(* and a running entry whose lease is free.  It drops queued entries whose  *)
(* lease is free.                                                           *)
Readable ==
  /\ Fits
  /\ \A c \in Listed :
       /\ entries[c] # "unknown" /\ lease[c] # "none"
       /\ entries[c] = "running" => lease[c] = "held"

Live(c) == entries[c] # "none" /\ lease[c] = "held"
Read == [c \in Calls |-> IF Live(c) THEN entries[c] ELSE "none"]
ReadLimits(c) ==
  IF limits = NoLimits THEN [running |-> OwnRunning[c], expensive |-> OwnExpensive[c]] ELSE limits

(* Mutant: expensive work waits as long as there is cheap work.             *)
CheapFirst(c, d) ==
  \/ Kind[c] = "cheap" /\ Kind[d] = "expensive"
  \/ Kind[c] = Kind[d] /\ \E i, j \in DOMAIN born : born[i] = c /\ born[j] = d /\ i <= j

(* Cheap work wins over expensive work that has not aged, then the older.   *)
Before(c, d) ==
  \E i, j \in DOMAIN born :
    /\ born[i] = c /\ born[j] = d
    /\ LET first(e, k) == Kind[e] = "cheap" \/ k <= aged
       IN  \/ first(c, i) /\ ~first(d, j)
           \/ (first(c, i) <=> first(d, j)) /\ i <= j

(* The entries that c, reading the index, finds eligible under its limits   *)
Running == In("running")
Eligible(c) ==
  {d \in In("queued") : Live(d) /\
     (Kind[d] = "expensive" =>
        Cardinality(OfKind("expensive", Running)) < Lesser(OwnExpensive[c], limits.expensive))}

Admissible(c) ==
  /\ Cardinality(Running) < Lesser(OwnRunning[c], limits.running)
  /\ c \in Eligible(c)
  /\ \A d \in Eligible(c) : Before(c, d)

-----------------------------------------------------------------------------
Goto(c, step) == pc' = [pc EXCEPT ![c] = step]
Replace(new) == entries' = new
Keep == UNCHANGED index

Open(c) ==
  /\ pc[c] = "idle"
  /\ lease' = [lease EXCEPT ![c] = "held"]
  /\ born' = Append(born, c)
  /\ Goto(c, "opened")
  /\ UNCHANGED <<index, aged, work, kept, bounds>>

Enqueue(c) ==
  /\ pc[c] = "opened"
  /\ IF Readable
     THEN /\ Replace([Read EXCEPT ![c] = "queued"])
          /\ limits' = ReadLimits(c)
          /\ Goto(c, "queued")
     ELSE Keep /\ Goto(c, "releasing")
  /\ UNCHANGED <<lease, born, aged, work, kept, bounds>>

(* superseded, or admission_deferred                                        *)
GiveUp(c) ==
  /\ pc[c] = "queued"
  /\ Goto(c, "releasing")
  /\ UNCHANGED <<index, lease, born, aged, work, kept, bounds>>

Admit(c) ==
  /\ pc[c] = "queued" /\ Readable /\ Admissible(c)
  /\ Replace([Read EXCEPT ![c] = "running"])
  /\ work' = work \cup {c}
  /\ Goto(c, "running")
  /\ UNCHANGED <<limits, lease, born, aged, kept, bounds>>

(* Host pressure holds back expensive work only.                            *)
Wait(c) ==
  /\ pc[c] = "queued" /\ Readable
  /\ ~Admissible(c) \/ Kind[c] = "expensive"
  /\ Replace(Read)
  /\ UNCHANGED <<limits, lease, born, aged, pc, work, kept, bounds>>

Refuse(c) ==
  /\ pc[c] = "queued" /\ ~Readable
  /\ Goto(c, "releasing")
  /\ UNCHANGED <<index, lease, born, aged, work, kept, bounds>>

Finish(c) ==
  /\ pc[c] = "running"
  /\ work' = work \ {c}
  /\ Goto(c, "releasing")
  /\ UNCHANGED <<index, lease, born, aged, kept, bounds>>

(* UncertainTermination: the work could not be seen to stop.                *)
Uncertain(c) ==
  /\ pc[c] = "running"
  /\ Goto(c, "marking")
  /\ UNCHANGED <<index, lease, born, aged, work, kept, bounds>>

Mark(c) ==
  /\ pc[c] = "marking"
  /\ IF Readable
     THEN /\ Replace([Read EXCEPT ![c] = "unknown"])
          /\ kept' = kept \cup {c}
          /\ Goto(c, "closing")
     ELSE UNCHANGED <<entries, kept>> /\ Goto(c, "releasing")
  /\ UNCHANGED <<limits, lease, born, aged, work, bounds>>

(* The entry stays if the index cannot be read; the lease goes all the same.*)
(* A call that never got to write the index creates it here, with its limits.*)
Release(c) ==
  /\ pc[c] = "releasing"
  /\ IF Readable
     THEN Replace([Read EXCEPT ![c] = "none"]) /\ limits' = ReadLimits(c)
     ELSE Keep
  /\ Goto(c, "closing")
  /\ UNCHANGED <<lease, born, aged, work, kept, bounds>>

Close(c) ==
  /\ pc[c] = "closing"
  /\ lease' = [lease EXCEPT ![c] = "free"]
  /\ Goto(c, IF c \in kept THEN "done" ELSE "unlinking")
  /\ UNCHANGED <<index, born, aged, work, kept, bounds>>

Unlink(c) ==
  /\ pc[c] = "unlinking"
  /\ lease' = [lease EXCEPT ![c] = "none"]
  /\ Goto(c, "done")
  /\ UNCHANGED <<index, born, aged, work, kept, bounds>>

(* locked raises admission_lock_unavailable                                 *)
LockTimeout(c) ==
  /\ pc[c] \in {"opened", "queued", "marking", "releasing"} /\ timeouts < MaxTimeouts
  /\ timeouts' = timeouts + 1
  /\ unmarked' = IF pc[c] = "marking" THEN unmarked \cup {c} ELSE unmarked
  /\ Goto(c, IF pc[c] = "releasing" THEN "closing" ELSE "releasing")
  /\ UNCHANGED <<index, lease, born, aged, work, kept, capacity, crashes>>

-----------------------------------------------------------------------------
(* The environment                                                          *)

(* The kernel unlocks the lease of a dead process; its work may go on.      *)
Crash(c) ==
  /\ pc[c] \notin {"idle", "done", "dead"} /\ crashes < MaxCrashes
  /\ crashes' = crashes + 1
  /\ lease' = [lease EXCEPT ![c] = IF @ = "held" THEN "free" ELSE @]
  /\ Goto(c, "dead")
  /\ UNCHANGED <<index, born, aged, work, kept, unmarked, capacity, timeouts>>

WorkEnds(c) ==
  /\ c \in work /\ pc[c] # "running"
  /\ work' = work \ {c}
  /\ UNCHANGED <<index, lease, born, aged, pc, kept, bounds>>

Age ==
  /\ aged < Len(born)
  /\ aged' = aged + 1
  /\ UNCHANGED <<index, lease, born, pc, work, kept, bounds>>

-----------------------------------------------------------------------------
Step(c) ==
  \/ Open(c) \/ Enqueue(c) \/ GiveUp(c) \/ Admit(c) \/ Wait(c) \/ Refuse(c)
  \/ Finish(c) \/ Uncertain(c) \/ Mark(c) \/ Release(c) \/ Close(c) \/ Unlink(c)

Next ==
  \/ \E c \in Calls : Step(c) \/ LockTimeout(c) \/ Crash(c) \/ WorkEnds(c)
  \/ Age

Spec == Init /\ [][Next]_vars

-----------------------------------------------------------------------------
TypeOK ==
  /\ entries \in [Calls -> States] /\ limits \in Limits
  /\ lease \in [Calls -> Leases]
  /\ born \in Seq(Calls) /\ aged \in 0..Len(born)
  /\ pc \in [Calls -> Steps]
  /\ work \subseteq Calls /\ kept \subseteq Calls /\ unmarked \subseteq Calls
  /\ capacity \in Capacities
  /\ crashes \in 0..MaxCrashes /\ timeouts \in 0..MaxTimeouts

(* All work that may be going on, that of dead processes included, stays    *)
(* within the first configured limits, unless marking uncertainty timed out.*)
WorkBounded ==
  unmarked = {} =>
    /\ Cardinality(work) <= limits.running
    /\ Cardinality(OfKind("expensive", work)) <= limits.expensive

(* The budget only becomes unreadable, which is for good, because of work   *)
(* left running by a process that died or could not stop it, because the    *)
(* lock timed out, or because more calls entered than the index is limited  *)
(* to: never because of what becomes of queued calls.                       *)
BlockedForCause ==
  ~Readable =>
    \/ kept # {} \/ timeouts > 0 \/ ~Fits
    \/ \E c \in Calls : pc[c] = "dead" /\ entries[c] = "running"

(* "aging retains progress": no call is admitted before an older one that   *)
(* has aged, unless that one is expensive and expensive work is at a limit. *)
AgedNotOvertaken ==
  [][\A c, d \in Calls :
       /\ Admit(c) /\ c # d /\ entries[d] = "queued" /\ lease[d] = "held"
       /\ \E i, j \in DOMAIN born : born[i] = d /\ born[j] = c /\ i < j /\ i <= aged
       => /\ Kind[d] = "expensive"
          /\ Cardinality(OfKind("expensive", Running)) >= Lesser(OwnExpensive[c], limits.expensive)
    ]_vars

(* "Unknown termination blocks new admission": nothing is admitted while    *)
(* the work of a call that is over may be going on.                         *)
UnknownBlocks ==
  [][\A c, d \in Calls : Admit(c) => ~(d \in work /\ pc[d] \in {"done", "dead"})]_vars
=============================================================================
