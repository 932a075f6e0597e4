----------------------------- MODULE SetupState -----------------------------
(***************************************************************************)
(* ~/.jfrog/setup.json, the record of the JPD and project each jf server   *)
(* was last set up with (jfrog-state-file.mjs).  `set` reads the whole     *)
(* file, changes one server's record and writes the whole file back, under *)
(* a lock that is a file created exclusively.  Nobody waits for the lock:  *)
(* a lock file older than STALE_LOCK_MS is taken for abandoned and         *)
(* removed, and then creation is tried once more.                          *)
(*                                                                         *)
(* The check of the age and the removal are two system calls, as are the   *)
(* writing of the temporary file and the rename.  A walk is a slot for a   *)
(* process: it may die anywhere and a later one may get its PID.           *)
(***************************************************************************)
EXTENDS Naturals, FiniteSets

CONSTANTS Walks,       \* processes that may call `set` at the same time
          Nobody,      \* owner of a lock file that does not exist
          Dead,        \* owner of a lock file whose creator has died
          Servers,     \* jf server ids
          Urls,        \* JPD URLs
          NoUrl,       \* URL of a server that has no record
          Projects,    \* project keys
          NoProject,   \* no project resolved, none on record
          MaxDeaths    \* bound: processes that die

ASSUME OwnersAssumption == Nobody \notin Walks /\ Dead \notin Walks /\ Nobody # Dead
ASSUME ServersAssumption == Servers # {} /\ Urls # {}
ASSUME MaxDeathsAssumption == MaxDeaths \in Nat

VARIABLES setup,     \* the record of each server in setup.json
          readable,  \* does setup.json parse?
          lock,      \* setup.json.lock: who created it, is it older than STALE_LOCK_MS?
          leftover,  \* PIDs whose temporary file a killed run left behind
          at,        \* next system call of each walk
          ask,       \* the arguments of its `set`
          loaded,    \* the records it read
          aged,      \* history: whose locks have become stale so far
          deaths     \* processes that have died

stateVars == <<setup, readable, lock, leftover, at, ask, loaded, aged, deaths>>

Record == [url : Urls \cup {NoUrl}, project : Projects \cup {NoProject}]
NoRecord == [url |-> NoUrl, project |-> NoProject]
NoRecords == [s \in Servers |-> NoRecord]
Request == [server : Servers, url : Urls, project : Projects \cup {NoProject}]
NoRequest == CHOOSE r \in Request : r.project = NoProject

Lock(w) == [owner |-> w, stale |-> FALSE]
Unlocked == Lock(Nobody)

\* Between acquireLock and releaseLock.
Section == {"load", "write", "rename", "release"}
Calls == {"out", "create", "stat", "unlink", "recreate"} \cup Section

StateInit ==
  /\ setup = NoRecords
  /\ readable \in BOOLEAN
  /\ lock = Unlocked
  /\ leftover = {}
  /\ at = [w \in Walks |-> "out"]
  /\ ask = [w \in Walks |-> NoRequest]
  /\ loaded = [w \in Walks |-> NoRecords]
  /\ aged = {}
  /\ deaths = 0

Goto(w, call) == at' = [at EXCEPT ![w] = call]

\* `set` returns or its process dies: its variables are gone.
Leave(w) ==
  /\ Goto(w, "out")
  /\ ask' = [ask EXCEPT ![w] = NoRequest]
  /\ loaded' = [loaded EXCEPT ![w] = NoRecords]

BeginSet(w, request) ==
  /\ at[w] = "out"
  /\ ask' = [ask EXCEPT ![w] = request]
  /\ Goto(w, "create")
  /\ UNCHANGED <<setup, readable, lock, leftover, loaded, aged, deaths>>

Acquire(w) ==
  /\ at[w] \in {"create", "recreate"}
  /\ lock.owner = Nobody
  /\ lock' = Lock(w)
  /\ Goto(w, "load")
  /\ UNCHANGED <<setup, readable, leftover, ask, loaded, aged, deaths>>

\* writeFileSync with "wx" raises EEXIST.
Contended(w) ==
  /\ at[w] = "create"
  /\ lock.owner # Nobody
  /\ Goto(w, "stat")
  /\ UNCHANGED <<setup, readable, lock, leftover, ask, loaded, aged, deaths>>

\* Mutant: the age of a lock is never looked at.
NeverStale(w) ==
  /\ at[w] = "stat"
  /\ Goto(w, "recreate")
  /\ UNCHANGED <<setup, readable, lock, leftover, ask, loaded, aged, deaths>>

\* The age test of reclaimIfStale; a lock that vanished raises and is let be.
CheckAge(w) ==
  /\ at[w] = "stat"
  /\ Goto(w, IF lock.owner # Nobody /\ lock.stale THEN "unlink" ELSE "recreate")
  /\ UNCHANGED <<setup, readable, lock, leftover, ask, loaded, aged, deaths>>

\* The removal in reclaimIfStale, of whatever lock is there by now.
Reclaim(w) ==
  /\ at[w] = "unlink"
  /\ lock' = Unlocked
  /\ Goto(w, "recreate")
  /\ UNCHANGED <<setup, readable, leftover, ask, loaded, aged, deaths>>

GiveUp(w) ==
  /\ at[w] = "recreate"
  /\ lock.owner # Nobody
  /\ Leave(w)
  /\ UNCHANGED <<setup, readable, lock, leftover, aged, deaths>>

\* Mutant: loadState before acquireLock.
EarlyLoad(w) ==
  /\ at[w] = "load"
  /\ Goto(w, "write")
  /\ UNCHANGED <<setup, readable, lock, leftover, ask, loaded, aged, deaths>>

Load(w) ==
  /\ at[w] = "load"
  /\ loaded' = [loaded EXCEPT ![w] = IF readable THEN setup ELSE NoRecords]
  /\ Goto(w, "write")
  /\ UNCHANGED <<setup, readable, lock, leftover, ask, aged, deaths>>

WriteTemporary(w) ==
  /\ at[w] = "write"
  /\ w \notin leftover
  /\ Goto(w, "rename")
  /\ UNCHANGED <<setup, readable, lock, leftover, ask, loaded, aged, deaths>>

\* A temporary file of an earlier process with this PID: "wx" raises, the file is removed
\* and this `set` fails.
WriteRefused(w) ==
  /\ at[w] = "write"
  /\ w \in leftover
  /\ leftover' = leftover \ {w}
  /\ Goto(w, "release")
  /\ UNCHANGED <<setup, readable, lock, ask, loaded, aged, deaths>>

\* A `set` without a project keeps the one on record.
Updated(previous, request) ==
  [url |-> request.url,
   project |-> IF request.project # NoProject THEN request.project ELSE previous.project]

Rename(w) ==
  /\ at[w] = "rename"
  /\ setup' = [loaded[w] EXCEPT ![ask[w].server] = Updated(@, ask[w])]
  /\ readable' = TRUE
  /\ Goto(w, "release")
  /\ UNCHANGED <<lock, leftover, ask, loaded, aged, deaths>>

\* Removes the lock file, whoever created it.
Release(w) ==
  /\ at[w] = "release"
  /\ lock' = Unlocked
  /\ Leave(w)
  /\ UNCHANGED <<setup, readable, leftover, aged, deaths>>

\* The process is killed; its lock and temporary file stay.
Die(w) ==
  /\ at[w] # "out"
  /\ deaths < MaxDeaths
  /\ deaths' = deaths + 1
  /\ leftover' = leftover \cup (IF at[w] = "rename" THEN {w} ELSE {})
  /\ lock' = IF lock.owner = w THEN [lock EXCEPT !.owner = Dead] ELSE lock
  /\ Leave(w)
  /\ UNCHANGED <<setup, readable, aged>>

\* STALE_LOCK_MS pass; the creator is dead, or merely slow (a stopped or starved process).
Age ==
  /\ lock.owner # Nobody
  /\ ~lock.stale
  /\ lock' = [lock EXCEPT !.stale = TRUE]
  /\ aged' = aged \cup {IF lock.owner = Dead THEN "dead" ELSE "living"}
  /\ UNCHANGED <<setup, readable, leftover, at, ask, loaded, deaths>>

SetStep(w) ==
  \/ Acquire(w) \/ Contended(w) \/ CheckAge(w) \/ Reclaim(w) \/ GiveUp(w)
  \/ Load(w) \/ WriteTemporary(w) \/ WriteRefused(w) \/ Rename(w) \/ Release(w)

StateNext ==
  \/ \E w \in Walks, request \in Request : BeginSet(w, request)
  \/ \E w \in Walks : SetStep(w) \/ Die(w)
  \/ Age

StateSpec == StateInit /\ [][StateNext]_stateVars

-----------------------------------------------------------------------------
StateTypeOK ==
  /\ setup \in [Servers -> Record]
  /\ readable \in BOOLEAN
  /\ lock \in [owner : Walks \cup {Nobody, Dead}, stale : BOOLEAN]
  /\ leftover \subseteq Walks
  /\ at \in [Walks -> Calls]
  /\ ask \in [Walks -> Request]
  /\ loaded \in [Walks -> [Servers -> Record]]
  /\ aged \subseteq {"dead", "living"}
  /\ deaths \in 0..MaxDeaths

\* Concurrent walks cannot clobber each other's record (jfrog-state-file.mjs:28): as long as
\* no lock has become stale, a change of setup.json is one walk saving what it asked for its
\* own server, on top of what the file says at that moment; a walk without a project leaves
\* the recorded one.
RecordsKept ==
  [][readable /\ aged = {} =>
       \A s \in Servers : setup'[s] # setup[s] =>
         \E w \in Walks :
           /\ at[w] = "rename" /\ ask[w].server = s
           /\ setup'[s].url = ask[w].url
           /\ setup'[s].project \in {ask[w].project, setup[s].project}
           /\ setup'[s].project = NoProject => setup[s].project = NoProject
           /\ \A o \in Servers \ {s} : setup'[o] = setup[o]]_stateVars

\* "This is a real mutex" (jfrog-state-file.mjs:65): while only abandoned locks become
\* stale, one walk at a time reads and writes the file.
MutualExclusion ==
  "living" \in aged \/ Cardinality({w \in Walks : at[w] \in Section}) <= 1

-----------------------------------------------------------------------------
\* A process that has begun ends or dies, time passes, and the skill is run again and again.
StateFairness ==
  /\ \A w \in Walks : WF_stateVars(SetStep(w)) /\ SF_stateVars(\E r \in Request : BeginSet(w, r))
  /\ WF_stateVars(Age)

\* A lock left by a killed walk does not block the file for ever (jfrog-state-file.mjs:76).
AbandonedLockGoes == (lock.owner = Dead) ~> (lock.owner # Dead)
=============================================================================
