-------------------------- MODULE JfrogTools_proofs --------------------------
(***************************************************************************)
(* Theorems about the scripts of the JFrog skills that share no state: the *)
(* setup record, the freshness cache, the policy listing, the installation *)
(* of jf and the probes of a platform, one section each.                   *)
(***************************************************************************)
EXTENDS SetupState, CliFreshness, PolicyListing, CliInstall, RemoteProbes, TLAPS

-----------------------------------------------------------------------------
(***************************************************************************)
(* Theorems about SetupState, for any number of walks, servers, URLs,      *)
(* projects and deaths: its types, and that no `set` undoes another one as *)
(* long as no lock has become stale.                                       *)
(***************************************************************************)

\* As long as no lock has become stale: whoever is between acquireLock and releaseLock owns
\* the lock file, nobody is about to remove it as abandoned, and what the owner has loaded is
\* what the file says.
Calm ==
  aged = {} =>
    /\ ~lock.stale
    /\ \A w \in Walks : at[w] \in Section => lock.owner = w
    /\ \A w \in Walks : at[w] # "unlink"
    /\ \A w \in Walks : readable /\ at[w] \in {"write", "rename"} => loaded[w] = setup

StateIInv == StateTypeOK /\ Calm

\* Walks that are not running hold a request like any other.
LEMMA NoRequestType == NoRequest \in Request
  <1>1. PICK s \in Servers, u \in Urls : TRUE
    BY ServersAssumption
  <1>2. [server |-> s, url |-> u, project |-> NoProject] \in {r \in Request : r.project = NoProject}
    BY DEF Request
  <1> QED BY <1>2 DEF NoRequest

LEMMA NoRecordsType == NoRecords \in [Servers -> Record]
  BY DEF NoRecords, NoRecord, Record

LEMMA UpdatedType ==
  ASSUME NEW previous \in Record, NEW asked \in Request
  PROVE  Updated(previous, asked) \in Record
  BY DEF Updated, Record, Request

\* The initial states are typed and calm.
LEMMA StateInitIInv == StateInit => StateIInv
  BY NoRequestType, NoRecordsType, MaxDeathsAssumption
     DEF StateInit, StateIInv, StateTypeOK, Calm, Section, Calls, Unlocked, Lock, Record

\* Every step keeps the types.
LEMMA StateTypeStep == StateTypeOK /\ [StateNext]_stateVars => StateTypeOK'
  <1> SUFFICES ASSUME StateTypeOK, [StateNext]_stateVars PROVE StateTypeOK'
    OBVIOUS
  <1> USE NoRequestType, NoRecordsType, MaxDeathsAssumption
      DEF StateTypeOK, Section, Calls, Goto, Leave, Lock, Unlocked
  <1>1. CASE UNCHANGED stateVars  BY <1>1 DEF stateVars
  <1>2. ASSUME NEW w \in Walks, NEW r \in Request, BeginSet(w, r) PROVE StateTypeOK'
    BY <1>2 DEF BeginSet
  <1>3. ASSUME NEW w \in Walks, SetStep(w) PROVE StateTypeOK'
    <2>1. CASE Acquire(w)  BY <2>1 DEF Acquire
    <2>2. CASE Contended(w)  BY <2>2 DEF Contended
    <2>3. CASE CheckAge(w)  BY <2>3 DEF CheckAge
    <2>4. CASE Reclaim(w)  BY <2>4 DEF Reclaim
    <2>5. CASE GiveUp(w)  BY <2>5 DEF GiveUp
    <2>6. CASE Load(w)  BY <2>6 DEF Load
    <2>7. CASE WriteTemporary(w)  BY <2>7 DEF WriteTemporary
    <2>8. CASE WriteRefused(w)  BY <2>8 DEF WriteRefused
    <2>9. CASE Rename(w)
      <3>1. Updated(loaded[w][ask[w].server], ask[w]) \in Record
        BY UpdatedType DEF Request
      <3> QED BY <2>9, <3>1 DEF Rename
    <2>10. CASE Release(w)  BY <2>10 DEF Release
    <2> QED BY <1>3, <2>1, <2>2, <2>3, <2>4, <2>5, <2>6, <2>7, <2>8, <2>9, <2>10 DEF SetStep
  <1>4. ASSUME NEW w \in Walks, Die(w) PROVE StateTypeOK'
    BY <1>4 DEF Die
  <1>5. CASE Age
    BY <1>5 DEF Age
  <1> QED BY <1>1, <1>2, <1>3, <1>4, <1>5 DEF StateNext

\* Every step keeps the calm.
LEMMA CalmStep == StateIInv /\ [StateNext]_stateVars => Calm'
  <1> SUFFICES ASSUME StateIInv, [StateNext]_stateVars, aged' = {} PROVE Calm'
    BY DEF Calm
  <1> USE OwnersAssumption DEF StateIInv, StateTypeOK, Calm, Section, Calls, Goto, Leave, Lock, Unlocked
  <1>1. CASE UNCHANGED stateVars  BY <1>1 DEF stateVars
  <1>2. ASSUME NEW w \in Walks, NEW r \in Request, BeginSet(w, r) PROVE Calm'
    BY <1>2 DEF BeginSet
  <1>3. ASSUME NEW w \in Walks, SetStep(w) PROVE Calm'
    <2>1. CASE Acquire(w)  BY <2>1 DEF Acquire
    <2>2. CASE Contended(w)  BY <2>2 DEF Contended
    <2>3. CASE CheckAge(w)  BY <2>3 DEF CheckAge
    <2>4. CASE Reclaim(w)  BY <2>4 DEF Reclaim
    <2>5. CASE GiveUp(w)  BY <2>5 DEF GiveUp
    <2>6. CASE Load(w)  BY <2>6 DEF Load
    <2>7. CASE WriteTemporary(w)  BY <2>7 DEF WriteTemporary
    <2>8. CASE WriteRefused(w)  BY <2>8 DEF WriteRefused
    <2>9. CASE Rename(w)  BY <2>9 DEF Rename
    <2>10. CASE Release(w)  BY <2>10 DEF Release
    <2> QED BY <1>3, <2>1, <2>2, <2>3, <2>4, <2>5, <2>6, <2>7, <2>8, <2>9, <2>10 DEF SetStep
  <1>4. ASSUME NEW w \in Walks, Die(w) PROVE Calm'
    BY <1>4 DEF Die
  <1>5. CASE Age
    BY <1>5 DEF Age
  <1> QED BY <1>1, <1>2, <1>3, <1>4, <1>5 DEF StateNext

\* The inductive invariant, for any number of walks: types and calm.
THEOREM SetupInvariance == StateSpec => []StateIInv
  <1>1. StateIInv /\ [StateNext]_stateVars => StateIInv'
    BY StateTypeStep, CalmStep DEF StateIInv
  <1> QED BY StateInitIInv, <1>1, PTL DEF StateSpec

\* While the calm lasts, a step that changes the record of a server is the rename of a walk
\* that asked for that server, on top of what the file says.
LEMMA KeepStep ==
  ASSUME StateIInv, [StateNext]_stateVars, readable, aged = {},
         NEW s \in Servers, setup'[s] # setup[s]
  PROVE  \E w \in Walks :
           /\ at[w] = "rename" /\ ask[w].server = s
           /\ setup'[s].url = ask[w].url
           /\ setup'[s].project \in {ask[w].project, setup[s].project}
           /\ setup'[s].project = NoProject => setup[s].project = NoProject
           /\ \A o \in Servers \ {s} : setup'[o] = setup[o]
  <1>1. PICK w \in Walks : Rename(w)
    BY DEF StateNext, stateVars, BeginSet, SetStep, Acquire, Contended, CheckAge, Reclaim, GiveUp,
           Load, WriteTemporary, WriteRefused, Release, Die, Age
  <1>2. loaded[w] = setup
    BY <1>1 DEF Rename, StateIInv, Calm
  <1>3. ask[w] \in Request /\ setup \in [Servers -> Record]
    BY DEF StateIInv, StateTypeOK
  <1>4. setup' = [setup EXCEPT ![ask[w].server] = Updated(setup[ask[w].server], ask[w])]
    BY <1>1, <1>2 DEF Rename
  <1>5. ask[w].server = s
    BY <1>3, <1>4
  <1>6. setup'[s] = Updated(setup[s], ask[w])
    BY <1>3, <1>4, <1>5
  <1> QED BY <1>1, <1>3, <1>4, <1>5, <1>6 DEF Rename, Updated

\* Concurrent walks cannot clobber each other's record (jfrog-state-file.mjs:28), for any
\* number of walks and servers, as long as no lock has become stale.
THEOREM RecordsAreKept == StateSpec => RecordsKept
  <1>1. StateIInv /\ [StateNext]_stateVars =>
          [readable /\ aged = {} =>
             \A s \in Servers : setup'[s] # setup[s] =>
               \E w \in Walks :
                 /\ at[w] = "rename" /\ ask[w].server = s
                 /\ setup'[s].url = ask[w].url
                 /\ setup'[s].project \in {ask[w].project, setup[s].project}
                 /\ setup'[s].project = NoProject => setup[s].project = NoProject
                 /\ \A o \in Servers \ {s} : setup'[o] = setup[o]]_stateVars
    BY KeepStep
  <1> QED BY <1>1, SetupInvariance, PTL DEF StateSpec, RecordsKept

-----------------------------------------------------------------------------
(***************************************************************************)
(* Theorems about CliFreshness, for any number of agents and any versions: *)
(* an offer that was cleared does not become pending again.  No writer is  *)
(* ordered with another, so the argument is about what each of them knows: *)
(* a script that was not overtaken holds the cache as it is, and a release *)
(* it learns of is no older than the one on record.                        *)
(***************************************************************************)

\* Nobody knows of a release that has not appeared, or records one older than what it read.
Known ==
  /\ cache.latest <= released
  /\ \A s \in Sessions :
       /\ read[s].latest <= released
       /\ doing[s] = "write" /\ latest[s] # Unknown
            => read[s].latest <= latest[s] /\ latest[s] <= released

\* A script in possession of the cache has what is on disk, but for the age.
Agreement ==
  \A s \in Sessions :
    doing[s] \in Holding /\ s \notin overtaken
      => read[s].latest = cache.latest /\ read[s].suggest = cache.suggest

\* The cleared releases are no newer than the one on record, which is not offered if cleared.
Cleared ==
  \A r \in settled : r <= cache.latest /\ (r = cache.latest => cache.suggest = "false")

FreshIInv == FreshTypeOK /\ Known /\ Agreement /\ Cleared

Numbered == Releases \cup {Unknown}

LEMMA NumberedAreNaturals == Numbered \subseteq Nat /\ Unknown \in Numbered /\ Unknown = 0
  BY FreshAssumption DEF Numbered, Releases, Unknown

\* Whatever a script that exits held, the types are kept.
LEMMA ExitType ==
  ASSUME FreshTypeOK, NEW s \in Sessions, NEW next \in {"idle", "checked"}, Exit(s, next)
  PROVE  /\ doing' \in [Sessions -> {"idle", "resolve", "fetch", "write", "checked", "offered",
                                     "clear"}]
         /\ read' \in [Sessions -> Cached]
         /\ version' \in [Sessions -> Numbered]
         /\ latest' \in [Sessions -> Numbered]
         /\ \A o \in Sessions \ {s} : /\ doing'[o] = doing[o] /\ read'[o] = read[o]
                                      /\ latest'[o] = latest[o]
         /\ doing'[s] = next /\ read'[s].latest = Unknown
  <1>1. NoCache \in Cached /\ NoCache.latest = Unknown
    BY DEF NoCache, Cached
  <1>2. doing \in [Sessions -> {"idle", "resolve", "fetch", "write", "checked", "offered", "clear"}]
    BY DEF FreshTypeOK
  <1>3. read \in [Sessions -> Cached]
    BY DEF FreshTypeOK
  <1>4. version \in [Sessions -> Numbered] /\ latest \in [Sessions -> Numbered]
    BY DEF FreshTypeOK, Numbered
  <1>5. Unknown \in Numbered
    BY NumberedAreNaturals
  <1> QED BY <1>1, <1>2, <1>3, <1>4, <1>5 DEF Exit, Does

\* What a check writes, and what a clear writes, is a cache.
LEMMA WrittenType ==
  ASSUME NEW v \in Numbered, NEW found \in Numbered, NEW prev \in Cached, NEW b \in BOOLEAN
  PROVE  /\ Latest(found, prev) \in Numbered
         /\ [valid |-> TRUE, fresh |-> TRUE, version |-> v, latest |-> Latest(found, prev),
             suggest |-> IF b THEN "true" ELSE "false"] \in Cached
         /\ [prev EXCEPT !.suggest = "false"] \in Cached
         /\ [prev EXCEPT !.suggest = "false"].latest = prev.latest
         /\ [prev EXCEPT !.suggest = "false"].suggest = "false"
  <1>1. prev.latest \in Numbered
    BY DEF Cached, Numbered
  <1>2. Latest(found, prev) \in Numbered
    BY <1>1 DEF Latest
  <1>3. [prev EXCEPT !.suggest = "false"] \in Cached
    BY DEF Cached
  <1>4. /\ [prev EXCEPT !.suggest = "false"].latest = prev.latest
        /\ [prev EXCEPT !.suggest = "false"].suggest = "false"
    BY DEF Cached
  <1> QED BY <1>2, <1>3, <1>4 DEF Cached, Numbered

\* A jf of an older release is a jf.
LEMMA InstalledType == \A n \in Releases : Installed(n) \subseteq Installed(NewestRelease)
  <1> SUFFICES ASSUME NEW n \in Releases PROVE Installed(n) \subseteq Installed(NewestRelease)
    OBVIOUS
  <1>1. 1..n \cup {Unknown} \subseteq 1..NewestRelease \cup {Unknown}
    BY FreshAssumption DEF Releases
  <1> QED BY <1>1, Zenon DEF Installed

\* At first nothing is known and nothing cleared.
LEMMA FreshInitIInv == FreshInit => FreshIInv
  <1> SUFFICES ASSUME FreshInit PROVE FreshIInv
    OBVIOUS
  <1>1. NoCache \in Cached /\ NoCache.latest = 0 /\ Unknown \in Numbered
    BY NumberedAreNaturals DEF NoCache, Cached, Unknown
  <1>2. 1 \in Releases /\ 0 \in 0..MaxTurns
    BY FreshAssumption DEF Releases
  <1>3. jf \in {Absent} \cup Installed(NewestRelease)
    BY <1>2, InstalledType DEF FreshInit
  <1>4. FreshTypeOK
    <2>1. cache \in Cached /\ read \in [Sessions -> Cached]
      BY <1>1 DEF FreshInit
    <2>2. version \in [Sessions -> Numbered] /\ latest \in [Sessions -> Numbered]
      BY <1>1 DEF FreshInit
    <2>3. released \in Releases /\ writable \in BOOLEAN /\ turns \in 0..MaxTurns
      BY <1>2 DEF FreshInit
    <2>4. overtaken \subseteq Sessions /\ settled \subseteq Numbered
      BY DEF FreshInit
    <2>5. doing \in [Sessions -> {"idle", "resolve", "fetch", "write", "checked", "offered", "clear"}]
      BY DEF FreshInit
    <2> QED BY <1>3, <2>1, <2>2, <2>3, <2>4, <2>5, Zenon DEF FreshTypeOK, Numbered
  <1>5. Known
    BY <1>1 DEF FreshInit, Known
  <1>6. Agreement
    BY DEF FreshInit, Agreement, Holding
  <1>7. Cleared
    BY DEF FreshInit, Cleared
  <1> QED BY <1>4, <1>5, <1>6, <1>7 DEF FreshIInv

-----------------------------------------------------------------------------
\* The numbers the other lemmas compare.
LEMMA NumberTypes ==
  ASSUME FreshTypeOK
  PROVE  /\ released \in Nat /\ cache.latest \in Numbered /\ settled \subseteq Nat
         /\ \A s \in Sessions : read[s].latest \in Numbered /\ latest[s] \in Numbered
  <1>1. released \in Nat /\ settled \subseteq Nat
    BY NumberedAreNaturals DEF FreshTypeOK, Numbered
  <1>2. cache.latest \in Numbered
    BY DEF FreshTypeOK, Cached, Numbered
  <1>3. \A s \in Sessions : read[s].latest \in Numbered
    BY DEF FreshTypeOK, Cached, Numbered
  <1>4. \A s \in Sessions : latest[s] \in Numbered
    BY DEF FreshTypeOK, Numbered
  <1> QED BY <1>1, <1>2, <1>3, <1>4

\* The step of a writer: what it puts on record is as new as the record, does not offer what
\* was cleared, and leaves every other writer overtaken.
LEMMA WriteStep ==
  ASSUME FreshIInv, NEW s \in Sessions, NEW new \in Cached, NEW next \in {"idle", "checked"},
         WriteCache(s, new), Exit(s, next), new.latest <= released,
         UNCHANGED <<jf, released, writable, turns>>, settled' \subseteq Numbered,
         writable => \A r \in settled' : r <= new.latest /\ (r = new.latest => new.suggest = "false"),
         ~writable => settled' = settled
  PROVE  FreshIInv'
  <1>0. FreshTypeOK /\ Known /\ Agreement /\ Cleared
    BY DEF FreshIInv
  <1>1. /\ doing' \in [Sessions -> {"idle", "resolve", "fetch", "write", "checked", "offered",
                                    "clear"}]
        /\ read' \in [Sessions -> Cached]
        /\ version' \in [Sessions -> Numbered]
        /\ latest' \in [Sessions -> Numbered]
        /\ \A o \in Sessions \ {s} : /\ doing'[o] = doing[o] /\ read'[o] = read[o]
                                     /\ latest'[o] = latest[o]
        /\ doing'[s] = next /\ read'[s].latest = Unknown
    BY <1>0, ExitType
  <1>2. cache' \in Cached /\ cache'.latest <= released
    BY <1>0 DEF WriteCache, FreshTypeOK, Known
  <1>3. FreshTypeOK'
    <2>1. overtaken' \subseteq Sessions
      BY <1>0 DEF WriteCache, FreshTypeOK
    <2>2. /\ jf' \in {Absent} \cup Installed(NewestRelease) /\ released' \in Releases
          /\ writable' \in BOOLEAN /\ turns' \in 0..MaxTurns
      BY <1>0 DEF FreshTypeOK
    <2> QED BY <1>1, <1>2, <2>1, <2>2, Zenon DEF FreshTypeOK, Numbered
  <1>4. Known'
    <2>1. released' = released /\ released \in Nat
      BY <1>0, NumberTypes
    <2>2. ASSUME NEW o \in Sessions
          PROVE  /\ read'[o].latest <= released'
                 /\ doing'[o] = "write" /\ latest'[o] # Unknown
                      => read'[o].latest <= latest'[o] /\ latest'[o] <= released'
      <3>1. CASE o = s
        BY <1>1, <2>1, <3>1, NumberedAreNaturals
      <3>2. CASE o # s
        BY <1>0, <1>1, <2>1, <3>2 DEF Known
      <3> QED BY <3>1, <3>2
    <2> QED BY <1>2, <2>1, <2>2 DEF Known
  <1>5. Agreement'
    <2> SUFFICES ASSUME NEW o \in Sessions, doing'[o] \in Holding, o \notin overtaken'
                 PROVE  read'[o].latest = cache'.latest /\ read'[o].suggest = cache'.suggest
      BY DEF Agreement, Holding
    <2>1. o # s
      BY <1>1 DEF Holding
    <2>2. ~writable /\ cache' = cache /\ o \notin overtaken
      BY <1>1, <2>1 DEF WriteCache
    <2> QED BY <1>0, <1>1, <2>1, <2>2 DEF Agreement
  <1>6. Cleared'
    <2>1. CASE writable
      BY <2>1 DEF WriteCache, Cleared
    <2>2. CASE ~writable
      BY <1>0, <2>2 DEF WriteCache, Cleared
    <2> QED BY <2>1, <2>2
  <1> QED BY <1>3, <1>4, <1>5, <1>6 DEF FreshIInv

\* The check: a lookup that failed keeps the release on record, one that did not brings one as
\* new, and the release on record is not offered again once its offer was cleared.
LEMMA RecordCheckStep == ASSUME FreshIInv, NEW s \in Sessions, RecordCheck(s) PROVE FreshIInv'
  <1> DEFINE b == decideSuggestUpgrade(version[s], latest[s], read[s])
             known == Latest(latest[s], read[s])
             new == [valid |-> TRUE, fresh |-> TRUE, version |-> version[s], latest |-> known,
                     suggest |-> IF b THEN "true" ELSE "false"]
             next == IF versionLt(version[s], Minimum) THEN "idle" ELSE "checked"
  <1>0. FreshTypeOK /\ Known /\ Agreement /\ Cleared
    BY DEF FreshIInv
  <1>1. /\ WriteCache(s, new) /\ Exit(s, next) /\ doing[s] = "write"
        /\ UNCHANGED <<jf, released, writable, turns>>
        /\ settled' = IF writable /\ s \in overtaken THEN {} ELSE settled
    BY DEF RecordCheck
  <1>2. version[s] \in Numbered /\ latest[s] \in Numbered /\ read[s] \in Cached
    BY <1>0 DEF FreshTypeOK, Numbered
  <1>3. b \in BOOLEAN
    BY DEF decideSuggestUpgrade, versionLt
  <1>4. new \in Cached /\ known \in Numbered
    BY <1>2, <1>3, WrittenType
  <1>5. next \in {"idle", "checked"}
    OBVIOUS
  <1>6. known <= released /\ read[s].latest <= known
    <2>1. read[s].latest \in Nat
      BY <1>0, NumberTypes, NumberedAreNaturals
    <2>2. /\ read[s].latest <= released
          /\ latest[s] # Unknown => read[s].latest <= latest[s] /\ latest[s] <= released
      BY <1>0, <1>1 DEF Known
    <2>3. known = IF latest[s] = Unknown THEN read[s].latest ELSE latest[s]
      BY DEF Latest
    <2> HIDE DEF known
    <2>4. CASE latest[s] = Unknown
      BY <2>1, <2>2, <2>3, <2>4
    <2>5. CASE latest[s] # Unknown
      BY <2>2, <2>3, <2>5
    <2> QED BY <2>4, <2>5
  <1>7. ASSUME writable, NEW r \in settled'
        PROVE  r <= new.latest /\ (r = new.latest => new.suggest = "false")
    <2>1. s \notin overtaken /\ r \in settled
      BY <1>1, <1>7
    <2>2. read[s].latest = cache.latest /\ read[s].suggest = cache.suggest
      BY <1>0, <1>1, <2>1 DEF Agreement, Holding
    <2>3. r <= cache.latest /\ (r = cache.latest => cache.suggest = "false")
      BY <1>0, <2>1 DEF Cleared
    <2>4. r \in Nat /\ known \in Nat /\ cache.latest \in Nat
      BY <1>0, <1>4, <2>1, NumberTypes, NumberedAreNaturals
    <2>5. r <= known
      BY <1>6, <2>2, <2>3, <2>4
    <2>6. r = known => read[s].latest = known /\ read[s].suggest = "false"
      BY <1>6, <2>2, <2>3, <2>4
    <2>7. r = known => ~b
      BY <2>6 DEF decideSuggestUpgrade
    <2> QED BY <2>5, <2>7
  <1>8. settled' \subseteq Numbered /\ (~writable => settled' = settled)
    BY <1>0, <1>1 DEF FreshTypeOK, Numbered
  <1> HIDE DEF b, known, new, next
  <1>9. new.latest <= released
    BY <1>6 DEF new
  <1> QED BY <1>1, <1>4, <1>5, <1>7, <1>8, <1>9, WriteStep

\* The clear: the release whose offer it clears is the one on record.
LEMMA RecordClearStep == ASSUME FreshIInv, NEW s \in Sessions, RecordClear(s) PROVE FreshIInv'
  <1> DEFINE new == [read[s] EXCEPT !.suggest = "false"]
  <1>0. FreshTypeOK /\ Known /\ Agreement /\ Cleared
    BY DEF FreshIInv
  <1>1. /\ WriteCache(s, new) /\ Exit(s, "idle") /\ doing[s] = "clear"
        /\ UNCHANGED <<jf, released, writable, turns>>
        /\ settled' = IF ~writable THEN settled
                      ELSE IF s \in overtaken THEN {} ELSE settled \cup {read[s].latest}
    BY DEF RecordClear
  <1>2. read[s] \in Cached
    BY <1>0 DEF FreshTypeOK
  <1>3. new \in Cached /\ new.latest = read[s].latest /\ new.suggest = "false"
    BY <1>2, WrittenType, NumberedAreNaturals
  <1>4. read[s].latest <= released /\ read[s].latest \in Numbered /\ read[s].latest \in Nat
    BY <1>0, NumberTypes, NumberedAreNaturals DEF Known
  <1> HIDE DEF new
  <1>5. CASE ~writable
    <2>1. settled' = settled /\ settled' \subseteq Numbered
      BY <1>0, <1>1, <1>5 DEF FreshTypeOK, Numbered
    <2> QED BY <1>1, <1>3, <1>4, <1>5, <2>1, WriteStep
  <1>6. CASE writable /\ s \in overtaken
    <2>1. settled' = {}
      BY <1>1, <1>6
    <2> QED BY <1>1, <1>3, <1>4, <1>6, <2>1, WriteStep
  <1>7. CASE writable /\ s \notin overtaken
    <2>1. settled' = settled \cup {read[s].latest}
      BY <1>1, <1>7
    <2>2. read[s].latest = cache.latest
      BY <1>0, <1>1, <1>7 DEF Agreement, Holding
    <2>3. \A r \in settled' : r <= new.latest /\ (r = new.latest => new.suggest = "false")
      <3>1. \A r \in settled : r <= new.latest
        BY <1>0, <1>3, <2>2 DEF Cleared
      <3>2. read[s].latest <= new.latest
        BY <1>3, <1>4
      <3>3. ASSUME NEW r \in settled' PROVE r <= new.latest
        BY <2>1, <3>1, <3>2
      <3> QED BY <1>3, <3>3
    <2>4. settled' \subseteq Numbered
      BY <1>0, <1>4, <2>1 DEF FreshTypeOK, Numbered
    <2> QED BY <1>1, <1>3, <1>4, <1>7, <2>3, <2>4, WriteStep
  <1> QED BY <1>5, <1>6, <1>7

\* The steps that neither write nor change what anybody knows of releases.
LEMMA QuietStep ==
  ASSUME FreshIInv, FreshTypeOK', UNCHANGED <<released, settled>>,
         cache'.latest = cache.latest, cache'.suggest = cache.suggest,
         \A o \in Sessions :
           /\ read'[o].latest <= released
           /\ doing'[o] = "write" => doing[o] = "write" /\ latest'[o] = latest[o] /\ read'[o] = read[o]
           /\ doing'[o] \in Holding /\ o \notin overtaken'
                => \/ doing[o] \in Holding /\ o \notin overtaken /\ read'[o] = read[o]
                   \/ read'[o].latest = cache.latest /\ read'[o].suggest = cache.suggest
  PROVE  FreshIInv'
  <1>0. Known /\ Agreement /\ Cleared
    BY DEF FreshIInv
  <1>1. Known'
    BY <1>0 DEF Known
  <1>2. Agreement'
    BY <1>0 DEF Agreement, Holding
  <1>3. Cleared'
    BY <1>0 DEF Cleared
  <1> QED BY <1>1, <1>2, <1>3 DEF FreshIInv

\* A script that exits without having written.
LEMMA QuietExit ==
  ASSUME FreshIInv, NEW s \in Sessions, NEW next \in {"idle", "checked"}, Exit(s, next),
         overtaken' = overtaken \/ overtaken' = overtaken \ {s},
         UNCHANGED <<jf, released, cache, writable, settled, turns>>
  PROVE  FreshIInv'
  <1>0. FreshTypeOK /\ Known
    BY DEF FreshIInv
  <1>1. /\ doing' \in [Sessions -> {"idle", "resolve", "fetch", "write", "checked", "offered",
                                    "clear"}]
        /\ read' \in [Sessions -> Cached]
        /\ version' \in [Sessions -> Numbered]
        /\ latest' \in [Sessions -> Numbered]
        /\ \A o \in Sessions \ {s} : /\ doing'[o] = doing[o] /\ read'[o] = read[o]
                                     /\ latest'[o] = latest[o]
        /\ doing'[s] = next /\ read'[s].latest = Unknown
    BY <1>0, ExitType
  <1>2. FreshTypeOK'
    <2>1. overtaken' \subseteq Sessions
      BY <1>0 DEF FreshTypeOK
    <2> QED BY <1>0, <1>1, <2>1 DEF FreshTypeOK, Numbered
  <1>3. Unknown <= released
    BY <1>0, NumberTypes, NumberedAreNaturals
  <1>4. ASSUME NEW o \in Sessions
        PROVE  /\ read'[o].latest <= released
               /\ doing'[o] = "write" => doing[o] = "write" /\ latest'[o] = latest[o] /\ read'[o] = read[o]
               /\ doing'[o] \in Holding /\ o \notin overtaken'
                    => doing[o] \in Holding /\ o \notin overtaken /\ read'[o] = read[o]
    <2>1. CASE o = s
      BY <1>1, <1>3, <2>1 DEF Holding
    <2>2. CASE o # s
      <3>1. o \notin overtaken' => o \notin overtaken
        BY <2>2
      <3> QED BY <1>0, <1>1, <2>2, <3>1 DEF Known
    <2> QED BY <2>1, <2>2
  <1> QED BY <1>2, <1>4, QuietStep

\* Every step, one action after the other.
LEMMA FreshNextStep == FreshIInv /\ [FreshNext]_freshVars => FreshIInv'
  <1> SUFFICES ASSUME FreshIInv, [FreshNext]_freshVars PROVE FreshIInv'
    OBVIOUS
  <1>0. FreshTypeOK /\ Known
    BY DEF FreshIInv
  <1>a. /\ cache \in Cached /\ read \in [Sessions -> Cached]
        /\ doing \in [Sessions -> {"idle", "resolve", "fetch", "write", "checked", "offered", "clear"}]
        /\ version \in [Sessions -> Numbered] /\ latest \in [Sessions -> Numbered]
        /\ released \in Releases /\ jf \in {Absent} \cup Installed(NewestRelease)
        /\ released \in Nat /\ turns \in 0..MaxTurns /\ Unknown \in Numbered
    BY <1>0, NumberTypes, NumberedAreNaturals DEF FreshTypeOK, Numbered
  <1>b. cache.latest <= released /\ \A o \in Sessions : read[o].latest <= released
    BY <1>0 DEF Known
  <1>1. ASSUME NEW s \in Sessions, NEW force \in BOOLEAN, BeginCheck(s, force) PROVE FreshIInv'
    <2>1. CASE ~force /\ cache.fresh
      BY <1>1, <2>1, QuietExit DEF BeginCheck
    <2>2. CASE ~(~force /\ cache.fresh)
      <3>1. /\ doing' = [doing EXCEPT ![s] = "resolve"] /\ read' = [read EXCEPT ![s] = cache]
            /\ UNCHANGED <<version, latest, jf, released, cache, writable, overtaken, settled, turns>>
        BY <1>1, <2>2 DEF BeginCheck, Does
      <3>2. FreshTypeOK'
        BY <1>0, <1>a, <3>1 DEF FreshTypeOK
      <3>3. read'[s] = cache /\ doing'[s] = "resolve"
        BY <1>a, <3>1
      <3>4. \A o \in Sessions \ {s} : read'[o] = read[o] /\ doing'[o] = doing[o]
        BY <1>a, <3>1
      <3> QED BY <1>b, <3>1, <3>2, <3>3, <3>4, QuietStep DEF Holding
    <2> QED BY <2>1, <2>2
  <1>2. ASSUME NEW s \in Sessions, ResolveJf(s) PROVE FreshIInv'
    <2>1. CASE jf.found
      <3>1. /\ doing' = [doing EXCEPT ![s] = "fetch"] /\ version' = [version EXCEPT ![s] = jf.version]
            /\ UNCHANGED <<read, latest, jf, released, cache, writable, overtaken, settled, turns>>
            /\ doing[s] = "resolve"
        BY <1>2, <2>1 DEF ResolveJf, Does
      <3>2. jf.version \in Numbered
        <4>1. CASE jf = Absent
          BY <1>a, <4>1 DEF Absent
        <4>2. CASE jf \in Installed(NewestRelease)
          BY <4>2 DEF Installed, Numbered, Releases
        <4> QED BY <1>a, <4>1, <4>2
      <3>3. FreshTypeOK'
        BY <1>0, <1>a, <3>1, <3>2 DEF FreshTypeOK, Numbered
      <3>4. doing'[s] = "fetch" /\ \A o \in Sessions \ {s} : doing'[o] = doing[o]
        BY <1>a, <3>1
      <3> QED BY <1>b, <3>1, <3>3, <3>4, QuietStep DEF Holding
    <2>2. CASE ~jf.found
      BY <1>2, <2>2, QuietExit DEF ResolveJf
    <2> QED BY <2>1, <2>2
  <1>3. ASSUME NEW s \in Sessions, FetchLatest(s) PROVE FreshIInv'
    <2>1. PICK found \in {released, Unknown} : latest' = [latest EXCEPT ![s] = found]
      BY <1>3 DEF FetchLatest
    <2>2. /\ doing' = [doing EXCEPT ![s] = "write"] /\ doing[s] = "fetch"
          /\ UNCHANGED <<jf, released, cache, writable, read, version, overtaken, settled, turns>>
      BY <1>3 DEF FetchLatest, Does
    <2>3. found \in Numbered
      BY <1>a DEF Numbered
    <2>4. FreshTypeOK'
      BY <1>0, <1>a, <2>1, <2>2, <2>3 DEF FreshTypeOK, Numbered
    <2>5. /\ doing'[s] = "write" /\ latest'[s] = found
          /\ \A o \in Sessions \ {s} : doing'[o] = doing[o] /\ latest'[o] = latest[o]
      BY <1>a, <2>1, <2>2
    <2>6. Known'
      <3>1. latest'[s] # Unknown => read'[s].latest <= latest'[s] /\ latest'[s] <= released'
        <4>1. read'[s].latest = read[s].latest /\ read[s].latest <= released /\ released' = released
          BY <1>b, <2>2
        <4>2. latest'[s] # Unknown => latest'[s] = released
          BY <2>1, <2>5
        <4>3. released <= released
          BY <1>a
        <4> QED BY <4>1, <4>2, <4>3
      <3>2. released' = released /\ cache' = cache /\ read' = read
        BY <2>2
      <3> QED BY <1>0, <2>5, <3>1, <3>2 DEF Known
    <2>7. Agreement'
      BY <2>2, <2>5 DEF FreshIInv, Agreement, Holding
    <2>8. Cleared'
      BY <2>2 DEF FreshIInv, Cleared
    <2> QED BY <2>4, <2>6, <2>7, <2>8 DEF FreshIInv
  <1>4. ASSUME NEW s \in Sessions, RecordCheck(s) PROVE FreshIInv'
    BY <1>4, RecordCheckStep
  <1>5. ASSUME NEW s \in Sessions, NEW avoid \in BOOLEAN, ReadOffer(s, avoid) PROVE FreshIInv'
    <2>1. PICK what \in {"offered", "idle"} : doing' = [doing EXCEPT ![s] = what]
      BY <1>5 DEF ReadOffer, Does
    <2>2. UNCHANGED <<jf, released, cache, writable, read, version, latest, overtaken, settled, turns>>
      BY <1>5 DEF ReadOffer
    <2>3. FreshTypeOK'
      BY <1>0, <1>a, <2>1, <2>2 DEF FreshTypeOK
    <2>4. doing'[s] = what /\ \A o \in Sessions \ {s} : doing'[o] = doing[o]
      BY <1>a, <2>1
    <2> QED BY <1>b, <2>1, <2>2, <2>3, <2>4, QuietStep DEF Holding
  <1>6. ASSUME NEW s \in Sessions, BeginClear(s) PROVE FreshIInv'
    <2>1. UNCHANGED <<jf, released, cache, writable, version, latest, overtaken, settled, turns>>
      BY <1>6 DEF BeginClear
    <2>2. PICK what \in {"clear", "idle"} :
            /\ doing' = [doing EXCEPT ![s] = what]
            /\ what = "clear" => read' = [read EXCEPT ![s] = cache]
            /\ what = "idle" => read' = read
      BY <1>6 DEF BeginClear, Does
    <2>3. read' \in [Sessions -> Cached]
      BY <1>a, <2>2
    <2>4. FreshTypeOK'
      BY <1>0, <1>a, <2>1, <2>2, <2>3 DEF FreshTypeOK
    <2>5. /\ doing'[s] = what /\ (what = "clear" => read'[s] = cache)
          /\ (what = "idle" => read'[s] = read[s])
          /\ \A o \in Sessions \ {s} : doing'[o] = doing[o] /\ read'[o] = read[o]
      BY <1>a, <2>2
    <2> QED BY <1>b, <2>1, <2>2, <2>4, <2>5, QuietStep DEF Holding
  <1>7. ASSUME NEW s \in Sessions, RecordClear(s) PROVE FreshIInv'
    BY <1>7, RecordClearStep
  <1>8. ASSUME NEW s \in Sessions, SessionEnds(s) PROVE FreshIInv'
    BY <1>8, QuietExit DEF SessionEnds
  <1>9. CASE Expire
    <2>1. /\ cache' \in Cached /\ cache'.latest = cache.latest /\ cache'.suggest = cache.suggest
          /\ UNCHANGED <<jf, released, writable, doing, read, version, latest, overtaken, settled>>
      BY <1>9, <1>a DEF Expire, Cached
    <2>2. FreshTypeOK'
      BY <1>0, <1>9, <2>1, FreshAssumption DEF FreshTypeOK, Expire, Turn
    <2> QED BY <1>b, <2>1, <2>2, QuietStep
  <1>10. CASE ChangeJf
    <2>1. jf' \in {Absent} \cup Installed(NewestRelease)
      BY <1>10, <1>a, InstalledType DEF ChangeJf
    <2>2. FreshTypeOK'
      BY <1>0, <1>10, <2>1, FreshAssumption DEF FreshTypeOK, ChangeJf, Turn
    <2> QED BY <1>b, <1>10, <2>2, QuietStep DEF ChangeJf
  <1>11. CASE NewRelease
    <2>1. released' = released + 1 /\ released' \in Releases
      BY <1>11, <1>a, FreshAssumption DEF NewRelease, Releases
    <2>2. FreshTypeOK'
      BY <1>0, <1>11, <2>1, FreshAssumption DEF FreshTypeOK, NewRelease, Turn
    <2>3. Known'
      <3>1. \A o \in Sessions : latest[o] \in Nat /\ read[o].latest \in Nat
        BY <1>0, NumberTypes, NumberedAreNaturals
      <3>2. cache.latest \in Nat
        BY <1>0, NumberTypes, NumberedAreNaturals
      <3> QED BY <1>0, <1>11, <1>a, <2>1, <3>1, <3>2 DEF Known, NewRelease
    <2>4. Agreement' /\ Cleared'
      BY <1>11 DEF FreshIInv, NewRelease, Agreement, Cleared
    <2> QED BY <2>2, <2>3, <2>4 DEF FreshIInv
  <1>12. CASE ChangeDisk
    <2>1. FreshTypeOK'
      BY <1>0, <1>12, FreshAssumption DEF FreshTypeOK, ChangeDisk, Turn
    <2> QED BY <1>b, <1>12, <2>1, QuietStep DEF ChangeDisk
  <1>13. CASE UNCHANGED freshVars
    BY <1>13 DEF freshVars, FreshIInv, FreshTypeOK, Known, Agreement, Cleared
  <1> QED BY <1>1, <1>2, <1>3, <1>4, <1>5, <1>6, <1>7, <1>8, <1>9, <1>10, <1>11, <1>12, <1>13
          DEF FreshNext, SessionStep

\* The invariant holds throughout.
THEOREM FreshInvariance == FreshSpec => []FreshIInv
  BY FreshInitIInv, FreshNextStep, PTL DEF FreshSpec

\* However many agents check, read and clear at once, an offer that was cleared does not become
\* pending again, unless a writer put back a cache another had replaced meanwhile.
THEOREM NeverOfferedAgain == FreshSpec => []OfferedOnce
  <1>1. FreshIInv => OfferedOnce
    BY DEF FreshIInv, Cleared, OfferedOnce
  <1> QED BY <1>1, FreshInvariance, PTL

-----------------------------------------------------------------------------
(***************************************************************************)
(* Theorems about PolicyListing, for any page limit, any number of pages   *)
(* and any policies: its types, and that an answer without a note misses   *)
(* nothing that applied all the while, unless a policy was removed.        *)
(***************************************************************************)

\* A policy is still ahead: it is k or beyond the offset of the next page.
Ahead(p) == \E i \in DOMAIN catalog : i > offset /\ catalog[i] = p

\* Unless a policy was removed, what applied throughout is collected or still ahead; once the
\* listing is done without a note, it is collected.
Progress ==
  ~removals =>
    /\ listing = "fetching" => \A p \in throughout : p \in Listed(allItems) \/ Ahead(p)
    /\ listing = "done" /\ note = "none" => throughout \subseteq Listed(allItems)

\* A page is asked for only below the cap, and a note appears when the listing is over.
Bounded ==
  /\ listing = "fetching" => page < MAX_PAGES
  /\ listing = "fetching" => note = "none"

ListIInv == ListTypeOK /\ Bounded /\ Progress

LEMMA OffsetType == ASSUME page \in Nat PROVE offset \in Nat
  BY PageAssumption DEF offset

\* The next page starts where this one ends.
LEMMA NextOffset == ASSUME page \in Nat, page' = page + 1 PROVE offset' = offset + PAGE_LIMIT
  BY PageAssumption DEF offset

\* A page holds the policies from offset on, k most PAGE_LIMIT of them.
LEMMA PageType ==
  ASSUME ListTypeOK
  PROVE  /\ PageSize \in Nat /\ PageSize <= PAGE_LIMIT
         /\ PageItems \in Seq(Policies) /\ Len(PageItems) = PageSize
         /\ \A i \in 1..PageSize : offset + i \in DOMAIN catalog /\ PageItems[i] = catalog[offset + i]
         /\ \A i \in DOMAIN catalog : i > offset => i <= offset + PageSize \/ PageSize = PAGE_LIMIT
  <1> USE PageAssumption DEF ListTypeOK
  <1>1. offset \in Nat  BY OffsetType
  <1>2. Len(catalog) \in Nat /\ DOMAIN catalog = 1..Len(catalog)  OBVIOUS
  <1>3. PageSize \in Nat /\ PageSize <= PAGE_LIMIT /\ (PageSize > 0 => offset + PageSize <= Len(catalog))
    BY <1>1, <1>2 DEF PageSize
  <1>4. \A i \in 1..PageSize : offset + i \in 1..Len(catalog)
    BY <1>1, <1>2, <1>3
  <1>5. \A i \in 1..PageSize : catalog[offset + i] \in Policies
    BY <1>2, <1>4
  <1>6. PageItems \in [1..PageSize -> Policies]
    BY <1>5 DEF PageItems
  <1>7. PageItems \in Seq(Policies) /\ Len(PageItems) = PageSize
    BY <1>3, <1>6
  <1>8. ASSUME NEW i \in 1..Len(catalog), i > offset, PageSize # PAGE_LIMIT
        PROVE  i <= offset + PageSize
    <2>1. ~(Len(catalog) <= offset)
      BY <1>1, <1>2, <1>8
    <2>2. PageSize = Len(catalog) - offset
      BY <2>1, <1>8 DEF PageSize
    <2>3. \A a, b, c \in Nat : c = a - b /\ a > b => b + c = a
      OBVIOUS
    <2>4. offset + PageSize = Len(catalog)
      <3> HIDE DEF ListTypeOK
      <3> QED BY <1>1, <1>2, <1>3, <2>1, <2>2, <2>3
    <2> QED BY <1>8, <2>4
  <1> QED BY <1>2, <1>3, <1>4, <1>7, <1>8 DEF PageItems

\* What a concatenation lists.
LEMMA ListedConcat ==
  ASSUME NEW s \in Seq(Policies), NEW t \in Seq(Policies)
  PROVE  Listed(s) \subseteq Listed(s \o t) /\ Listed(t) \subseteq Listed(s \o t)
  <1>1. ASSUME NEW i \in DOMAIN s PROVE s[i] \in Listed(s \o t)
    BY <1>1 DEF Listed
  <1>2. ASSUME NEW i \in DOMAIN t PROVE t[i] \in Listed(s \o t)
    <2>1. Len(s) + i \in DOMAIN (s \o t) /\ (s \o t)[Len(s) + i] = t[i]
      BY <1>2
    <2> QED BY <2>1 DEF Listed
  <1> QED BY <1>1, <1>2 DEF Listed

\* An insertion leaves every policy where it was or moves it away from the pages already read.
LEMMA Inserted ==
  ASSUME catalog \in Seq(Policies), NEW p \in Policies, AddPolicy(p)
  PROVE  /\ catalog' \in Seq(Policies)
         /\ \A i \in DOMAIN catalog : \E j \in DOMAIN catalog' : j >= i /\ catalog'[j] = catalog[i]
  <1> DEFINE n == Len(catalog)
  <1>1. n \in Nat /\ DOMAIN catalog = 1..n /\ \A i \in 1..n : catalog[i] \in Policies  OBVIOUS
  <1>2. PICK k \in 1..n + 1 :
          catalog' = [i \in 1..n + 1 |->
                        IF i < k THEN catalog[i] ELSE IF i = k THEN p ELSE catalog[i - 1]]
    BY DEF AddPolicy
  <1> HIDE DEF n
  <1>3. catalog' \in [1..n + 1 -> Policies]
    BY <1>1, <1>2
  <1>4. DOMAIN catalog' = 1..n + 1 /\ catalog' \in Seq(Policies)
    BY <1>1, <1>3
  <1>5. ASSUME NEW i \in 1..n PROVE \E j \in 1..n + 1 : j >= i /\ catalog'[j] = catalog[i]
    <2>1. CASE i < k
      BY <1>1, <1>2, <2>1
    <2>2. CASE ~(i < k)
      <3>1. i + 1 \in 1..n + 1 /\ i + 1 >= i /\ catalog'[i + 1] = catalog[i]
        BY <1>1, <1>2, <2>2
      <3> QED BY <3>1
    <2> QED BY <2>1, <2>2
  <1> QED BY <1>1, <1>4, <1>5

LEMMA ListInitIInv == ListInit => ListIInv
  <1> SUFFICES ASSUME ListInit PROVE ListIInv  OBVIOUS
  <1>1. <<>> \in Seq(Policies) /\ 0 \in 0..MAX_PAGES  BY PageAssumption
  <1>2. ListTypeOK  BY <1>1 DEF ListInit, ListTypeOK
  <1>3. Bounded  BY DEF ListInit, Bounded
  <1>4. Progress  BY DEF ListInit, Progress
  <1> QED BY <1>2, <1>3, <1>4 DEF ListIInv

\* Every step keeps the types and the bounds.
LEMMA ListTypeStep == ListTypeOK /\ Bounded /\ [ListNext]_listVars => ListTypeOK' /\ Bounded'
  <1> SUFFICES ASSUME ListTypeOK, Bounded, [ListNext]_listVars PROVE ListTypeOK' /\ Bounded'
    OBVIOUS
  <1> USE PageAssumption DEF ListTypeOK, Bounded
  <1>1. CASE UNCHANGED listVars  BY <1>1 DEF listVars
  <1>2. CASE BeginListing
    <2>1. ASSUME NEW i \in DOMAIN catalog PROVE catalog[i] \in Policies
      BY <2>1
    <2>2. Listed(catalog) \subseteq Policies  BY <2>1 DEF Listed
    <2>3. <<>> \in Seq(Policies) /\ 0 \in 0..MAX_PAGES /\ 0 < MAX_PAGES  OBVIOUS
    <2> QED BY <1>2, <2>2, <2>3 DEF BeginListing
  <1>3. CASE FetchPage
    <2>1. PageItems \in Seq(Policies)  BY PageType
    <2>2. page + 1 \in 0..MAX_PAGES  BY <1>3 DEF FetchPage
    <2>3. allItems' \in Seq(Policies)  BY <1>3, <2>1 DEF FetchPage
    <2>4. listing' \in {"fetching", "done"} /\ note' \in {"none", "cap"}
      BY <1>3 DEF FetchPage, AfterPage
    <2>5. listing' = "fetching" => page + 1 < MAX_PAGES /\ note' = "none"
      BY <1>3, <2>2 DEF FetchPage, AfterPage, LastPage, AtCap
    <2> QED BY <1>3, <2>2, <2>3, <2>4, <2>5 DEF FetchPage
  <1>4. CASE PageFails  BY <1>4 DEF PageFails
  <1>5. CASE StopForTime  BY <1>5 DEF StopForTime
  <1>6. CASE BudgetPasses  BY <1>6 DEF BudgetPasses
  <1>7. ASSUME NEW p \in Policies, AddPolicy(p) PROVE ListTypeOK' /\ Bounded'
    <2>1. catalog' \in Seq(Policies)  BY <1>7, Inserted
    <2> QED BY <1>7, <2>1 DEF AddPolicy
  <1>8. ASSUME NEW k \in DOMAIN catalog, RemovePolicy(k) PROVE ListTypeOK' /\ Bounded'
    <2>1. k \in 1..Len(catalog) /\ Len(catalog) \in Nat
      BY <1>8
    <2>2. \A i \in 1..Len(catalog) - 1 : i \in 1..Len(catalog) /\ i + 1 \in 1..Len(catalog)
      BY <2>1
    <2>3. catalog' \in [1..Len(catalog) - 1 -> Policies]
      BY <1>8, <2>2 DEF RemovePolicy
    <2>4. catalog' \in Seq(Policies)  BY <2>1, <2>3
    <2> QED BY <1>8, <2>4 DEF RemovePolicy
  <1> QED BY <1>1, <1>2, <1>3, <1>4, <1>5, <1>6, <1>7, <1>8 DEF ListNext

\* A page collects everything up to its end, and a short page everything there is.
LEMMA FetchProgress == ListIInv /\ FetchPage => Progress'
  <1> SUFFICES ASSUME ListIInv, FetchPage, ~removals PROVE Progress'
    BY DEF FetchPage, Progress
  <1> USE DEF ListIInv
  <1>1. page \in Nat /\ page' = page + 1 /\ catalog' = catalog /\ throughout' = throughout
        /\ removals' = removals /\ listing = "fetching"
    BY PageAssumption DEF FetchPage, ListTypeOK
  <1>2. offset \in Nat /\ offset' = offset + PAGE_LIMIT
    BY <1>1, OffsetType, NextOffset
  <1>3. allItems \in Seq(Policies) /\ PageItems \in Seq(Policies) /\ allItems' = allItems \o PageItems
    BY PageType DEF ListTypeOK, FetchPage
  <1>4. Listed(allItems) \subseteq Listed(allItems') /\ Listed(PageItems) \subseteq Listed(allItems')
    BY <1>3, ListedConcat
  <1>5. ASSUME NEW p \in throughout, p \notin Listed(allItems')
        PROVE  PageSize = PAGE_LIMIT /\ Ahead(p)'
    <2>1. PICK i \in DOMAIN catalog : i > offset /\ catalog[i] = p
      BY <1>1, <1>4, <1>5 DEF Progress, Ahead
    <2>2. i \in Nat /\ PageSize \in Nat
      BY <2>1, PageType DEF ListTypeOK
    <2>3. ~(i <= offset + PageSize)
      <3>1. SUFFICES ASSUME i <= offset + PageSize PROVE FALSE
        OBVIOUS
      <3>2. i - offset \in 1..PageSize /\ offset + (i - offset) = i
        BY <1>2, <2>1, <2>2, <3>1
      <3>3. PageItems[i - offset] = p /\ i - offset \in DOMAIN PageItems
        BY <2>1, <3>2, PageType, <1>3
      <3>4. p \in Listed(PageItems)
        BY <3>3 DEF Listed
      <3> QED BY <3>4, <1>4, <1>5
    <2>4. PageSize = PAGE_LIMIT
      BY <2>1, <2>3, PageType
    <2>5. i > offset'
      BY <1>2, <2>2, <2>3, <2>4, PageAssumption
    <2> QED BY <1>1, <2>1, <2>4, <2>5 DEF Ahead
  <1>6. listing' = "done" /\ note' = "none" => PageSize < PAGE_LIMIT
    BY DEF FetchPage, AfterPage, LastPage
  <1>7. listing' = "done" /\ note' = "none" => throughout' \subseteq Listed(allItems')
    BY <1>1, <1>5, <1>6, PageAssumption
  <1> QED BY <1>1, <1>5, <1>7 DEF Progress

\* Every step keeps what is collected or ahead.
LEMMA ProgressStep == ListIInv /\ [ListNext]_listVars => Progress'
  <1> SUFFICES ASSUME ListIInv, [ListNext]_listVars PROVE Progress'
    OBVIOUS
  <1>1. CASE UNCHANGED listVars  BY <1>1 DEF listVars, ListIInv, Progress, Ahead, offset, Listed
  <1>2. CASE BeginListing
    <2>1. offset' = 0  BY <1>2, PageAssumption DEF BeginListing, offset
    <2>2. \A i \in DOMAIN catalog : i \in Nat /\ i > 0  BY DEF ListIInv, ListTypeOK
    <2>3. \A p \in Listed(catalog) : Ahead(p)'
      BY <1>2, <2>1, <2>2 DEF BeginListing, Listed, Ahead
    <2> QED BY <1>2, <2>3 DEF BeginListing, Progress
  <1>3. CASE FetchPage  BY <1>3, FetchProgress
  <1>4. CASE PageFails  BY <1>4 DEF PageFails, ListIInv, Progress
  <1>5. CASE StopForTime  BY <1>5 DEF StopForTime, ListIInv, Progress
  <1>6. CASE BudgetPasses  BY <1>6 DEF BudgetPasses, ListIInv, Progress, Ahead, offset, Listed
  <1>7. ASSUME NEW p \in Policies, AddPolicy(p) PROVE Progress'
    <2>1. \A i \in DOMAIN catalog : \E j \in DOMAIN catalog' : j >= i /\ catalog'[j] = catalog[i]
      BY <1>7, Inserted DEF ListIInv, ListTypeOK
    <2>2. offset \in Nat /\ offset' = offset
      BY <1>7, OffsetType, PageAssumption DEF AddPolicy, offset, ListIInv, ListTypeOK
    <2>3. catalog' \in Seq(Policies) /\ catalog \in Seq(Policies)
      BY <1>7, Inserted DEF ListIInv, ListTypeOK
    <2>4. \A q \in throughout : Ahead(q) => Ahead(q)'
      <3>1. SUFFICES ASSUME NEW q, Ahead(q) PROVE Ahead(q)'
        OBVIOUS
      <3>2. PICK i \in DOMAIN catalog : i > offset /\ catalog[i] = q
        BY <3>1 DEF Ahead
      <3>3. PICK j \in DOMAIN catalog' : j >= i /\ catalog'[j] = catalog[i]
        BY <2>1
      <3>4. j > offset'
        BY <2>2, <2>3, <3>2, <3>3
      <3> QED BY <3>2, <3>3, <3>4 DEF Ahead
    <2> QED BY <1>7, <2>4 DEF AddPolicy, ListIInv, Progress, Listed
  <1>8. ASSUME NEW k \in DOMAIN catalog, RemovePolicy(k) PROVE Progress'
    BY <1>8 DEF RemovePolicy, Progress
  <1> QED BY <1>1, <1>2, <1>3, <1>4, <1>5, <1>6, <1>7, <1>8 DEF ListNext

\* The inductive invariant of a listing, for any page limit and number of pages.
THEOREM ListingInvariance == ListSpec => []ListIInv
  <1>1. ListIInv /\ [ListNext]_listVars => ListIInv'
    BY ListTypeStep, ProgressStep DEF ListIInv
  <1> QED BY ListInitIInv, <1>1, PTL DEF ListSpec

\* An answer without a note is complete (list-skill-policies.mjs:47-49), for any page limit,
\* number of pages and catalog, whatever is added between the pages.
THEOREM ListingComplete == ListSpec => []CompleteWithoutNote
  <1>1. ListIInv => CompleteWithoutNote
    BY DEF ListIInv, Progress, CompleteWithoutNote
  <1> QED BY ListingInvariance, <1>1, PTL

-----------------------------------------------------------------------------
(***************************************************************************)
(* Theorems about CliInstall, for any minimum version and any number of    *)
(* releases: what Plan C leaves in ~/.jfrog/bin is one whole release, and  *)
(* a run that succeeds leaves a recent jf first on its PATH.               *)
(***************************************************************************)

Recents == MIN_JF_VERSION..Newest

\* What came over the network: releases since the oldest one that could be the latest.
Downloads ==
  /\ sum \in {0, NotYet} \cup Recents
  /\ bytes \in {Empty, Damaged} \cup {Build(v) : v \in Recents}

\* Once verified, the bytes are a whole release; once renamed, so is the binary.
Whole ==
  /\ bin["home"] \in {NoFile} \cup {Build(v) : v \in Versions}
  /\ plan \in {"write", "rename"} => bytes \in {Build(v) : v \in Recents}
  /\ plan = "try" => bin["home"] \in {Build(v) : v \in Recents}

InstallIInv == InstallTypeOK /\ Downloads /\ Whole

LEMMA InstallNumbers ==
  /\ Newest \in Nat /\ MIN_JF_VERSION \in Nat /\ NotYet \in Nat
  /\ 1 <= MIN_JF_VERSION /\ MIN_JF_VERSION <= Newest /\ NotYet = Newest + 1
  /\ Recents \subseteq Versions /\ 1 \in Versions
  BY NewestAssumption DEF NotYet, Recents, Versions

LEMMA BuildType == ASSUME NEW v \in Versions PROVE Build(v) \in Files
  BY InstallNumbers, SMTT(20) DEF Build, Files, Versions, NotYet

LEMMA PrependedType ==
  ASSUME NEW place \in Places, NEW p \in Seq(Places)
  PROVE  Prepended(place, p) \in Seq(Places)
  <1>1. <<place>> \in Seq(Places)
    OBVIOUS
  <1>2. <<place>> \o p \in Seq(Places)
    BY <1>1
  <1> QED BY <1>2 DEF Prepended

LEMMA HealedType == ASSUME NEW p \in Seq(Places) PROVE selfHealPath(p) \in Seq(Places)
  BY PrependedType DEF selfHealPath, Places

LEMMA PathsType == Paths \subseteq Seq(Places)
  BY DEF Paths, Places

\* The first entry of PATH wins.
LEMMA FirstWins ==
  ASSUME NEW p \in Seq(Places), NEW files \in [Places -> Files], files["home"] # NoFile
  PROVE  Resolved(<<"home">> \o p, files) = "home"
  <1> DEFINE q == <<"home">> \o p
             hits == {i \in DOMAIN q : files[q[i]] # NoFile}
  <1>1. q \in Seq(Places) /\ q[1] = "home" /\ 1 \in DOMAIN q /\ DOMAIN q \subseteq Nat \ {0}
    BY DEF Places
  <1>2. 1 \in hits
    BY <1>1
  <1>3. \A i \in hits : 1 <= i
    BY <1>1
  <1>4. (CHOOSE i \in hits : \A j \in hits : i <= j) = 1
    <2>1. PICK i \in hits : i = (CHOOSE k \in hits : \A j \in hits : k <= j) /\ \A j \in hits : i <= j
      BY <1>2, <1>3
    <2>2. i <= 1 /\ 1 <= i /\ i \in Nat
      BY <1>1, <1>2, <1>3, <2>1
    <2> QED BY <2>1, <2>2
  <1> QED BY <1>1, <1>2, <1>4, Zenon DEF Resolved

\* The script starts with releases of the past, and nothing downloaded.
LEMMA InstallInitIInv == InstallInit => InstallIInv
  <1> SUFFICES ASSUME InstallInit PROVE InstallIInv
    OBVIOUS
  <1>1. NoFile \in Files /\ Damaged \in Files
    BY InstallNumbers DEF NoFile, Damaged, Files
  <1>2. Build(1) \in Files /\ Build(MIN_JF_VERSION) \in Files
    BY InstallNumbers, BuildType DEF Recents, Versions
  <1>3. bin \in [Places -> Files]
    BY <1>1, <1>2 DEF InstallInit, Places
  <1>4. published \in Recents /\ unrunnable \subseteq Versions
    BY InstallNumbers DEF InstallInit, Recents, Versions
  <1>5. InstallTypeOK
    <2>1. path \in Seq(Places)
      BY PathsType DEF InstallInit
    <2>2. sum \in 0..NotYet /\ bytes \in Files
      BY <1>1, InstallNumbers DEF InstallInit, Empty
    <2>3. plan = "start" /\ memo = "unset" /\ strayFile = FALSE /\ kills = FALSE
      BY DEF InstallInit
    <2>4. npm \in [there : BOOLEAN, public : BOOLEAN, prefix : BOOLEAN]
      BY DEF InstallInit
    <2> QED BY <1>3, <1>4, <2>1, <2>2, <2>3, <2>4, Zenon DEF InstallTypeOK, Recents
  <1>6. Downloads
    BY DEF InstallInit, Downloads
  <1>7. Whole
    BY InstallNumbers DEF InstallInit, Whole
  <1> QED BY <1>5, <1>6, <1>7 DEF InstallIInv

-----------------------------------------------------------------------------
\* What AfterNpm leaves is typed.
LEMMA AfterNpmType ==
  ASSUME InstallTypeOK, NEW files \in [Places -> Files], NEW retry \in BOOLEAN, AfterNpm(files, retry)
  PROVE  /\ bin' \in [Places -> Files] /\ path' \in Seq(Places) /\ memo' \in {"unset", "yes", "no"}
         /\ plan' \in {"installed", "npm public", "download"}
  <1>1. Prepended("npm", path) \in Seq(Places)
    BY PrependedType DEF InstallTypeOK, Places
  <1>2. selfHealPath(IF npm.prefix THEN Prepended("npm", path) ELSE path) \in Seq(Places)
    BY <1>1, HealedType DEF InstallTypeOK
  <1> QED BY <1>2 DEF AfterNpm, Memo

\* The other place npm writes to.
LEMMA NpmFileType ==
  ASSUME InstallTypeOK, NEW v \in 1..published
  PROVE  /\ [bin EXCEPT !["npm"] = Build(v)] \in [Places -> Files]
         /\ [bin EXCEPT !["npm"] = Build(v)]["home"] = bin["home"]
  <1>1. v \in Versions
    <2>1. published \in MIN_JF_VERSION..Newest
      BY DEF InstallTypeOK
    <2> QED BY <2>1, InstallNumbers DEF Versions
  <1>2. Build(v) \in Files
    BY <1>1, BuildType
  <1>3. bin \in [Places -> Files]
    BY DEF InstallTypeOK
  <1> QED BY <1>2, <1>3 DEF Places

\* The files and checksums a download may give.
LEMMA DownloadTypes ==
  ASSUME InstallTypeOK
  PROVE  /\ published \in Recents /\ published \in 1..published
         /\ Empty \in Files /\ Damaged \in Files /\ Build(published) \in Files
         /\ {0, NotYet, published} \subseteq 0..NotYet
  <1>1. published \in MIN_JF_VERSION..Newest
    BY DEF InstallTypeOK
  <1>2. published \in Recents /\ published \in 1..published /\ published \in Versions
    BY <1>1, InstallNumbers DEF Recents, Versions
  <1>3. Empty \in Files /\ Damaged \in Files
    BY InstallNumbers DEF Empty, NoFile, Damaged, Files
  <1>4. {0, NotYet, published} \subseteq 0..NotYet
    BY <1>1, InstallNumbers
  <1> QED BY <1>2, <1>3, <1>4, BuildType

\* Every step keeps the types.
LEMMA InstallTypeStep == InstallTypeOK /\ [InstallNext]_installVars => InstallTypeOK'
  <1> SUFFICES ASSUME InstallTypeOK, [InstallNext]_installVars PROVE InstallTypeOK'
    OBVIOUS
  <1>0. /\ published \in Recents /\ published \in 1..published
        /\ Empty \in Files /\ Damaged \in Files /\ Build(published) \in Files
        /\ {0, NotYet, published} \subseteq 0..NotYet
    BY DownloadTypes
  <1>1. CASE Start
    BY <1>1, HealedType DEF Start, InstallTypeOK, Memo
  <1>2. CASE NpmInstall
    <2>1. PICK v \in 1..published : AfterNpm([bin EXCEPT !["npm"] = Build(v)], TRUE)
      BY <1>2 DEF NpmInstall
    <2>2. [bin EXCEPT !["npm"] = Build(v)] \in [Places -> Files]
      BY NpmFileType
    <2>3. /\ bin' \in [Places -> Files] /\ path' \in Seq(Places) /\ memo' \in {"unset", "yes", "no"}
          /\ plan' \in {"installed", "npm public", "download"}
      BY <2>1, <2>2, AfterNpmType
    <2> QED BY <1>2, <2>3 DEF NpmInstall, InstallTypeOK
  <1>3. CASE NpmFails
    <2>1. bin' \in [Places -> Files]
      BY <1>3, NpmFileType DEF NpmFails, InstallTypeOK
    <2>2. plan' \in {"npm public", "download"}
      BY <1>3 DEF NpmFails
    <2> QED BY <1>3, <2>1, <2>2 DEF NpmFails, InstallTypeOK
  <1>4. CASE NpmInstallPublic
    <2>1. [bin EXCEPT !["npm"] = Build(published)] \in [Places -> Files]
      BY <1>0, NpmFileType
    <2>2. /\ bin' \in [Places -> Files] /\ path' \in Seq(Places) /\ memo' \in {"unset", "yes", "no"}
          /\ plan' \in {"installed", "npm public", "download"}
      BY <1>4, <2>1, AfterNpmType DEF NpmInstallPublic
    <2> QED BY <1>4, <2>2 DEF NpmInstallPublic, InstallTypeOK
  <1>5. CASE BeginDownload
    <2>1. sum' \in 0..NotYet /\ bytes' \in Files
      BY <1>0, <1>5 DEF BeginDownload, InstallTypeOK
    <2>2. plan' \in {"fetching", "failed"}
      BY <1>5 DEF BeginDownload
    <2> QED BY <1>5, <2>1, <2>2 DEF BeginDownload, InstallTypeOK
  <1>6. CASE AnswerHead
    <2>1. sum' \in 0..NotYet
      BY <1>0, <1>6 DEF AnswerHead
    <2> QED BY <1>6, <2>1 DEF AnswerHead, InstallTypeOK
  <1>7. CASE AnswerGet
    <2>1. bytes' \in Files
      BY <1>0, <1>7 DEF AnswerGet, InstallTypeOK
    <2>2. plan' \in {"fetched", "failed"}
      BY <1>7 DEF AnswerGet
    <2> QED BY <1>7, <2>1, <2>2 DEF AnswerGet, InstallTypeOK
  <1>8. CASE Verify
    <2>1. plan' \in {"write", "failed"}
      BY <1>8 DEF Verify
    <2> QED BY <1>8, <2>1 DEF Verify, InstallTypeOK
  <1>9. CASE WriteBinary
    BY <1>9 DEF WriteBinary, InstallTypeOK
  <1>10. CASE RenameBinary
    BY <1>10 DEF RenameBinary, InstallTypeOK
  <1>11. CASE TryBinary
    <2>1. "home" \in Places /\ path \in Seq(Places)
      BY DEF Places, InstallTypeOK
    <2>2. <<"home">> \o path \in Seq(Places)
      <3>1. <<"home">> \in Seq(Places)
        BY <2>1
      <3> QED BY <2>1, <3>1
    <2>3. path' \in Seq(Places) /\ plan' \in {"installed", "failed"}
      BY <1>11, <2>1, <2>2 DEF TryBinary
    <2> QED BY <1>11, <2>3 DEF TryBinary, InstallTypeOK
  <1>12. CASE RunAgain
    <2>1. path' \in Seq(Places)
      BY <1>12, PathsType DEF RunAgain, InstallTypeOK
    <2> QED BY <1>0, <1>12, <2>1 DEF RunAgain, InstallTypeOK
  <1>13. CASE KillInstall
    BY <1>13 DEF KillInstall, InstallTypeOK
  <1>14. CASE PublishRelease
    <2>1. published' \in MIN_JF_VERSION..Newest
      <3>1. published \in MIN_JF_VERSION..Newest
        BY DEF InstallTypeOK
      <3> QED BY <1>14, <3>1, InstallNumbers DEF PublishRelease
    <2> QED BY <1>14, <2>1 DEF PublishRelease, InstallTypeOK
  <1>15. CASE UNCHANGED installVars
    BY <1>15 DEF installVars, InstallTypeOK
  <1> QED BY <1>1, <1>2, <1>3, <1>4, <1>5, <1>6, <1>7, <1>8, <1>9, <1>10, <1>11, <1>12, <1>13,
             <1>14, <1>15 DEF InstallNext

\* The step, one conjunct of Downloads and of Whole after the other: no action makes a file
\* that is neither a whole release nor one of the two kinds of rubbish, and only verified
\* bytes reach ~/.jfrog/bin.
LEMMA WholeStep == InstallIInv /\ [InstallNext]_installVars => (Downloads /\ Whole)'
  <1> SUFFICES ASSUME InstallIInv, [InstallNext]_installVars PROVE (Downloads /\ Whole)'
    OBVIOUS
  <1>0. InstallTypeOK /\ Downloads /\ Whole
    BY DEF InstallIInv
  <1>a. unrunnable' = unrunnable
    BY DEF InstallNext, installVars, Start, NpmInstall, NpmFails, NpmInstallPublic, BeginDownload,
           AnswerHead, AnswerGet, Verify, WriteBinary, RenameBinary, TryBinary, RunAgain,
           KillInstall, PublishRelease
  <1>b. \A v : Build(v)' = Build(v)
    BY <1>a DEF Build
  <1> DEFINE Builds == {Build(v) : v \in Recents}
             InPlace == {NoFile} \cup {Build(v) : v \in Versions}
  <1>c. SUFFICES /\ sum' \in {0, NotYet} \cup Recents
                 /\ bytes' \in {Empty, Damaged} \cup Builds
                 /\ bin'["home"] \in InPlace
                 /\ plan' \in {"write", "rename"} => bytes' \in Builds
                 /\ plan' = "try" => bin'["home"] \in Builds
    BY <1>a DEF Downloads, Whole, Build, NoFile, Empty, Damaged, NotYet, Recents, Versions
  <1>d. /\ sum \in {0, NotYet} \cup Recents
        /\ bytes \in {Empty, Damaged} \cup Builds
        /\ bin["home"] \in InPlace
        /\ plan \in {"write", "rename"} => bytes \in Builds
        /\ plan = "try" => bin["home"] \in Builds
    BY <1>0 DEF Downloads, Whole
  <1>e. /\ published \in Recents /\ published \in 1..published
        /\ Build(published) \in Builds /\ Builds \subseteq InPlace
    BY <1>0, DownloadTypes, InstallNumbers
  <1> HIDE DEF Builds, InPlace
  <1>1. CASE Start
    BY <1>1, <1>d DEF Start
  <1>2. CASE NpmInstall
    <2>1. PICK v \in 1..published : AfterNpm([bin EXCEPT !["npm"] = Build(v)], TRUE)
      BY <1>2 DEF NpmInstall
    <2>2. bin'["home"] = bin["home"]
      BY <1>0, <2>1, NpmFileType DEF AfterNpm
    <2>3. plan' \in {"installed", "npm public", "download"}
      BY <2>1 DEF AfterNpm
    <2> QED BY <1>2, <1>d, <2>2, <2>3 DEF NpmInstall
  <1>3. CASE NpmFails
    <2>1. bin'["home"] = bin["home"]
      <3>1. CASE bin' = bin
        BY <3>1
      <3>2. CASE bin' # bin
        <4>1. PICK v \in 1..published : bin' = [bin EXCEPT !["npm"] = Build(v)]
          BY <1>3, <3>2 DEF NpmFails
        <4> QED BY <1>0, <4>1, NpmFileType
      <3> QED BY <3>1, <3>2
    <2>2. plan' \in {"npm public", "download"}
      BY <1>3 DEF NpmFails
    <2> QED BY <1>3, <1>d, <2>1, <2>2 DEF NpmFails
  <1>4. CASE NpmInstallPublic
    <2>1. bin'["home"] = bin["home"]
      BY <1>0, <1>4, <1>e, NpmFileType DEF AfterNpm, NpmInstallPublic
    <2>2. plan' \in {"installed", "npm public", "download"}
      BY <1>4 DEF AfterNpm, NpmInstallPublic
    <2> QED BY <1>4, <1>d, <2>1, <2>2 DEF NpmInstallPublic
  <1>5. CASE BeginDownload
    BY <1>5, <1>d DEF BeginDownload
  <1>6. CASE AnswerHead
    BY <1>6, <1>d, <1>e DEF AnswerHead
  <1>7. CASE AnswerGet
    BY <1>7, <1>d, <1>e DEF AnswerGet
  <1>8. CASE Verify
    <2>1. CASE plan' = "write"
      <3>1. Verified /\ sum # NotYet
        BY <1>8, <2>1 DEF Verify
      <3>2. sum \in Recents
        BY <1>d, <3>1 DEF Verified
      <3>3. bytes # Damaged
        BY <3>1 DEF Verified, Damaged
      <3>4. bytes \in Builds
        BY <1>d, <3>1, <3>3 DEF Verified
      <3> QED BY <1>8, <1>d, <3>4 DEF Verify
    <2>2. CASE plan' # "write"
      BY <1>8, <1>d, <2>2 DEF Verify
    <2> QED BY <2>1, <2>2
  <1>9. CASE WriteBinary
    BY <1>9, <1>d DEF WriteBinary
  <1>10. CASE RenameBinary
    <2>1. CASE plan' = "try"
      <3>1. bin' = [bin EXCEPT !["home"] = bytes] /\ bytes \in Builds
        BY <1>10, <1>d, <2>1 DEF RenameBinary
      <3>2. bin'["home"] = bytes
        BY <1>0, <3>1 DEF InstallTypeOK, Places
      <3> QED BY <1>10, <1>d, <1>e, <2>1, <3>1, <3>2 DEF RenameBinary
    <2>2. CASE plan' # "try"
      BY <1>10, <1>d, <2>2 DEF RenameBinary
    <2> QED BY <2>1, <2>2
  <1>11. CASE TryBinary
    BY <1>11, <1>d DEF TryBinary
  <1>12. CASE RunAgain
    BY <1>12, <1>d DEF RunAgain
  <1>13. CASE KillInstall
    BY <1>13, <1>d DEF KillInstall
  <1>14. CASE PublishRelease
    BY <1>14, <1>d DEF PublishRelease
  <1>15. CASE UNCHANGED installVars
    BY <1>15, <1>d DEF installVars
  <1> QED BY <1>1, <1>2, <1>3, <1>4, <1>5, <1>6, <1>7, <1>8, <1>9, <1>10, <1>11, <1>12, <1>13,
             <1>14, <1>15 DEF InstallNext

\* The invariant holds throughout.
THEOREM InstallInvariance == InstallSpec => []InstallIInv
  <1>1. InstallInit => InstallIInv
    BY InstallInitIInv
  <1>2. InstallIInv /\ [InstallNext]_installVars => InstallIInv'
    BY InstallTypeStep, WholeStep DEF InstallIInv
  <1> QED BY <1>1, <1>2, PTL DEF InstallSpec

\* Whatever is cut short, published in between or killed, ~/.jfrog/bin/jf is one whole release
\* or is not there.
THEOREM InstalledWhole == InstallSpec => []InstalledIsPublished
  <1>1. InstallIInv => InstalledIsPublished
    BY DEF InstallIInv, Whole, InstalledIsPublished
  <1> QED BY <1>1, InstallInvariance, PTL

-----------------------------------------------------------------------------
\* A look-up of jf that finds it up to date, after the memo was reset or in the first run.
LEMMA UpToDateIsRecent ==
  ASSUME NEW known, NEW p, NEW files, currentJfIsUpToDate(known, p, files)
  PROVE  Recent(p, files)
  BY DEF currentJfIsUpToDate

\* The printed line puts ~/.jfrog/bin first: the release just tried is the jf that runs.
LEMMA TriedIsRecent ==
  ASSUME InstallIInv, TryBinary, plan' = "installed"
  PROVE  Recent(path', bin')
  <1>1. bin' = bin /\ path' = <<"home">> \o path /\ bin["home"].runs /\ plan = "try"
    BY DEF TryBinary
  <1>2. bin \in [Places -> Files] /\ path \in Seq(Places)
    BY DEF InstallIInv, InstallTypeOK
  <1>3. PICK v \in Recents : bin["home"] = Build(v)
    BY <1>1 DEF InstallIInv, Whole
  <1>4. bin["home"].version = v /\ v \in Nat /\ v >= MIN_JF_VERSION
    BY <1>3, InstallNumbers DEF Build, Recents
  <1>5. bin["home"] # NoFile
    BY <1>1 DEF NoFile
  <1>6. Resolved(path', bin') = "home"
    BY <1>1, <1>2, <1>5, FirstWins
  <1> QED BY <1>1, <1>4, <1>6 DEF Recent, Runs

\* A run that exits zero, by any of the three plans, leaves a recent jf first on its PATH.
THEOREM SuccessUsable == InstallSpec => ZeroMeansUsable
  <1>1. InstallIInv /\ [InstallNext]_installVars
          => [plan' = "installed" /\ plan # "installed" => Recent(path', bin')]_installVars
    <2> SUFFICES ASSUME InstallIInv, InstallNext, plan' = "installed", plan # "installed"
                 PROVE  Recent(path', bin')
      BY DEF installVars
    <2>1. CASE Start
      BY <2>1, UpToDateIsRecent, Zenon DEF Start
    <2>2. CASE NpmInstall
      BY <2>2, UpToDateIsRecent DEF NpmInstall, AfterNpm
    <2>3. CASE NpmInstallPublic
      BY <2>3, UpToDateIsRecent DEF NpmInstallPublic, AfterNpm
    <2>4. CASE TryBinary
      BY <2>4, TriedIsRecent
    <2>5. CASE NpmFails \/ BeginDownload \/ AnswerHead \/ AnswerGet \/ Verify
      BY <2>5 DEF NpmFails, BeginDownload, AnswerHead, AnswerGet, Verify
    <2>6. CASE WriteBinary \/ RenameBinary \/ RunAgain \/ KillInstall \/ PublishRelease
      BY <2>6 DEF WriteBinary, RenameBinary, RunAgain, KillInstall, PublishRelease
    <2> QED BY <2>1, <2>2, <2>3, <2>4, <2>5, <2>6 DEF InstallNext
  <1> QED BY <1>1, InstallInvariance, PTL DEF InstallSpec, ZeroMeansUsable

-----------------------------------------------------------------------------
(***************************************************************************)
(* Theorems about RemoteProbes, for every platform, network and credential *)
(* and one change of any of them at any point: its types, and that a       *)
(* verdict is right for a world in which the probe ran.                    *)
(***************************************************************************)

\* The requests of the catalog probe.
CatalogRequests == {"root", "bridge", "authed root", "authed bridge", "authed retry"}

\* The requests of each probe.
OwnRequest ==
  /\ request = "ping" \/ request = "jf ping" => probe = "ping"
  /\ request = "mcp" => probe = "mcp"
  /\ request = "project" => probe = "project"
  /\ request \in CatalogRequests => probe = "catalog"

\* A probe ran in the world as it is and in at most one other, which differs in nothing that
\* cannot change: whether everything is guarded, the firewall, whether there is a credential.
Ran ==
  /\ request # "none" => exit = NoExit /\ world \in saw
  /\ \A w \in saw : /\ w.guarded = world.guarded /\ w.waf = world.waf
                    /\ w.credential = "none" <=> world.credential = "none"

\* Anonymous requests go on behind /bridge-client only if not everything is guarded and there
\* was no catalog at the root, and an authenticated one is repeated only with a credential.
Followed ==
  /\ request \in {"bridge", "authed bridge"} =>
       ~world.guarded /\ (world.catalog = "root" => \E w \in saw : w.catalog = "nowhere")
  /\ request = "authed retry" => world.credential # "none"

\* If the world did not change, the requests before this one were answered in it.
Answered ==
  request # "none" /\ saw = {world} =>
    /\ request = "bridge" => AtCatalog("root", FALSE) = "404"
    /\ request \in {"authed root", "authed retry"} => partAReachable(AtCatalog("root", FALSE))
    /\ request = "authed bridge" =>
         AtCatalog("root", FALSE) = "404" /\ partAReachable(AtCatalog("bridge", FALSE))
    /\ request = "authed retry" => AtCatalog("root", Valid) = "404"

\* The inductive invariant of the probes.
ProbeIInv == ProbeTypeOK /\ OwnRequest /\ Ran /\ Followed /\ Answered /\ VerdictWasRight

\* Before the first probe nothing has run and nothing was concluded.
LEMMA ProbeInitIInv == ProbeInit => ProbeIInv
  BY DEF ProbeInit, ProbeIInv, ProbeTypeOK, OwnRequest, Ran, Followed, Answered, VerdictWasRight,
         Requests, NoExit, CatalogRequests

\* The fields of a world.
LEMMA WorldFields ==
  ASSUME NEW w \in World
  PROVE  /\ w.way \in Ways /\ w.guarded \in BOOLEAN /\ w.waf \in BOOLEAN /\ w.entitled \in BOOLEAN
         /\ w.mcp \in BOOLEAN /\ w.catalog \in {"root", "bridge", "nowhere"}
         /\ w.credential \in {"none", "stale", "good"}
  BY DEF World

\* A probe that exits, whatever its verdict
LEMMA ExitStep ==
  ASSUME ProbeIInv, request # "none", NEW code \in 0..4, Exits(code), VerdictWasRight'
  PROVE  ProbeIInv'
<1>1. ProbeTypeOK'
  BY DEF ProbeIInv, ProbeTypeOK, Exits, Requests
<1>2. OwnRequest' /\ Followed' /\ Answered'
  BY DEF OwnRequest, Followed, Answered, Exits, CatalogRequests
<1>3. Ran'
  BY DEF ProbeIInv, Ran, Exits
<1> QED
  BY <1>1, <1>2, <1>3 DEF ProbeIInv

\* A probe that exits with a verdict that is right for the world as it is
LEMMA RightNow ==
  ASSUME ProbeIInv, request # "none", NEW code \in 0..4, Exits(code), code \in Verdicts(world)
  PROVE  ProbeIInv'
<1>1. world \in saw
  BY DEF ProbeIInv, Ran
<1>2. VerdictWasRight'
  BY <1>1 DEF Exits, VerdictWasRight, Verdicts
<1> QED
  BY <1>2, ExitStep

\* A probe that gives up in a world where that is right
LEMMA GivesUp ==
  ASSUME ProbeIInv, request # "none", Exits(1), 1 \in Verdicts(world)
  PROVE  ProbeIInv'
<1>1. 1 \in 0..4
  OBVIOUS
<1> QED
  BY <1>1, RightNow

\* A probe that gives up in a world that changed
LEMMA InDoubt ==
  ASSUME ProbeIInv, request # "none", saw # {world}, Exits(1)
  PROVE  ProbeIInv'
<1>1. VerdictWasRight'
  BY DEF Exits, VerdictWasRight
<1> QED
  BY <1>1, ExitStep

\* A probe that sends its next request
LEMMA SendsStep ==
  ASSUME ProbeIInv, request # "none", NEW next \in Requests \ {"none"}, Sends(next),
         OwnRequest', Followed', Answered'
  PROVE  ProbeIInv'
<1>1. ProbeTypeOK'
  BY DEF ProbeIInv, ProbeTypeOK, Sends
<1>2. Ran' /\ VerdictWasRight'
  BY DEF ProbeIInv, Ran, Sends, VerdictWasRight
<1> QED
  BY <1>1, <1>2 DEF ProbeIInv

-----------------------------------------------------------------------------
\* A new probe forgets the worlds and the verdict of the last one.
LEMMA BeginProbeStep == ASSUME ProbeIInv, BeginProbe PROVE ProbeIInv'
<1>1. /\ request' = IF probe = "catalog" THEN "root" ELSE probe
      /\ saw' = {world} /\ exit' = NoExit /\ UNCHANGED <<world, probe>>
  BY DEF BeginProbe
<1>2. probe \in Probes /\ world \in World
  BY DEF ProbeIInv, ProbeTypeOK
<1>3. request' \in {"root", "ping", "mcp", "project"}
  BY <1>1, <1>2 DEF Probes
<1>4. ProbeTypeOK' /\ OwnRequest'
  BY <1>1, <1>2, <1>3 DEF ProbeTypeOK, OwnRequest, Requests, Probes, NoExit, CatalogRequests
<1>5. Ran' /\ Followed' /\ Answered' /\ VerdictWasRight'
  BY <1>1, <1>3 DEF Ran, Followed, Answered, VerdictWasRight, NoExit
<1> QED
  BY <1>4, <1>5 DEF ProbeIInv

\* The ping, whose verdict is that of jf unless the platform itself fails.
LEMMA PingStep == ASSUME ProbeIInv, PingAnonymously \/ PingWithJf PROVE ProbeIInv'
<1>0. world \in World /\ probe = "ping" /\ request # "none"
  BY DEF ProbeIInv, ProbeTypeOK, OwnRequest, PingAnonymously, PingWithJf
<1>1. CASE PingAnonymously
  <2>1. CASE Sends("jf ping")
    <3>1. OwnRequest' /\ Followed' /\ Answered'
      BY <1>0, <2>1 DEF Sends, OwnRequest, Followed, Answered, CatalogRequests
    <3> QED
      BY <1>0, <2>1, <3>1, SendsStep DEF Requests
  <2>2. CASE Exits(1) /\ Reached("page", FALSE) \notin {"000", "page", "401", "403"}
    <3>1. world.way = "failing"
      BY <2>2 DEF Reached
    <3>2. 1 \in Verdicts(world)
      BY <1>0, <3>1 DEF Verdicts
    <3> QED
      BY <1>0, <2>2, <3>2, RightNow
  <2> QED
    BY <1>1, <2>1, <2>2 DEF PingAnonymously
<1>2. CASE PingWithJf
  <2> DEFINE code == IF world.way \in {"clear", "proxied"} /\ Valid THEN 0 ELSE 1
  <2>1. Exits(code)
    BY <1>2 DEF PingWithJf
  <2>3. code \in 0..4
    OBVIOUS
  <2>2. code \in Verdicts(world)
    BY <1>0 DEF Verdicts, Valid
  <2> HIDE DEF code
  <2> QED
    BY <1>0, <2>1, <2>2, <2>3, RightNow
<1> QED
  BY <1>1, <1>2

\* The MCP server's one request.
LEMMA McpStep == ASSUME ProbeIInv, ProbeMcp PROVE ProbeIInv'
<1>0. world \in World /\ probe = "mcp" /\ request # "none"
  BY DEF ProbeIInv, ProbeTypeOK, OwnRequest, ProbeMcp
<1> DEFINE answer == Reached(IF world.mcp THEN "challenge" ELSE "404", world.mcp)
           code == IF answer \in {"challenge", "page"} THEN 0
                   ELSE IF answer \in {"404", "403"} THEN 4 ELSE 1
<1>1. code \in 0..4 /\ Exits(code)
  BY DEF ProbeMcp
<1>2. code \in Verdicts(world)
  <2>1. world.way \in Ways
    BY <1>0, WorldFields
  <2> QED
    BY <1>0, <2>1 DEF Verdicts, Reached, Ways
<1> QED
  BY <1>0, <1>1, <1>2, RightNow

\* The one request for the projects.
LEMMA ProjectsStep == ASSUME ProbeIInv, ProbeProjects PROVE ProbeIInv'
<1>0. world \in World /\ probe = "project" /\ request # "none"
  BY DEF ProbeIInv, ProbeTypeOK, OwnRequest, ProbeProjects
<1> DEFINE code == IF world.credential = "none"
                        \/ Reached(IF Valid THEN "page" ELSE "401", Valid) = "401" THEN 3 ELSE 2
<1>1. code \in 0..4 /\ Exits(code)
  BY DEF ProbeProjects
<1>2. code \in Verdicts(world)
  BY <1>0 DEF Verdicts, Reached, Valid
<1> QED
  BY <1>0, <1>1, <1>2, RightNow

-----------------------------------------------------------------------------
\* The anonymous request at the root.
LEMMA RootStep == ASSUME ProbeIInv, ProbeRoot PROVE ProbeIInv'
<1>0. world \in World /\ probe = "catalog" /\ request = "root"
  BY DEF ProbeIInv, ProbeTypeOK, OwnRequest, ProbeRoot, CatalogRequests
<1>1. \/ AtCatalog("root", FALSE) = "404" /\ Sends("bridge")
      \/ partAReachable(AtCatalog("root", FALSE)) /\ Sends("authed root")
      \/ /\ AtCatalog("root", FALSE) # "404" /\ ~partAReachable(AtCatalog("root", FALSE))
         /\ Exits(1)
  BY DEF ProbeRoot
<1>2. CASE AtCatalog("root", FALSE) = "404" /\ Sends("bridge")
  <2>1. ~world.guarded
    BY <1>2 DEF AtCatalog, Reached
  <2>2. OwnRequest' /\ Followed' /\ Answered'
    BY <1>0, <1>2, <2>1 DEF Sends, OwnRequest, Followed, Answered, CatalogRequests, AtCatalog, Reached
  <2> QED
    BY <1>0, <1>2, <2>2, SendsStep DEF Requests
<1>3. CASE partAReachable(AtCatalog("root", FALSE)) /\ Sends("authed root")
  <2>1. OwnRequest' /\ Followed' /\ Answered'
    BY <1>0, <1>3 DEF Sends, OwnRequest, Followed, Answered, CatalogRequests, AtCatalog, Reached, partAReachable
  <2> QED
    BY <1>0, <1>3, <2>1, SendsStep DEF Requests
<1>4. CASE /\ AtCatalog("root", FALSE) # "404" /\ ~partAReachable(AtCatalog("root", FALSE))
           /\ Exits(1)
  <2>1. world.way \notin {"clear", "portal"}
    BY <1>0, <1>4 DEF AtCatalog, Reached, partAReachable
  <2>2. 1 \in Verdicts(world)
    BY <1>0, <2>1 DEF Verdicts
  <2> QED
    BY <1>0, <1>4, <2>2, RightNow
<1> QED
  BY <1>1, <1>2, <1>3, <1>4

\* The anonymous request behind /bridge-client.
LEMMA BridgeStep == ASSUME ProbeIInv, ProbeBridge PROVE ProbeIInv'
<1>0. /\ world \in World /\ probe = "catalog" /\ request = "bridge" /\ ~world.guarded
      /\ saw = {world} => AtCatalog("root", FALSE) = "404"
  BY DEF ProbeIInv, ProbeTypeOK, OwnRequest, Followed, Answered, ProbeBridge, CatalogRequests
<1>1. CASE partAReachable(AtCatalog("bridge", FALSE))
  <2>1. Sends("authed bridge")
    BY <1>1 DEF ProbeBridge
  <2>2. OwnRequest' /\ Followed'
    BY <1>0, <2>1 DEF ProbeIInv, Sends, OwnRequest, Followed, CatalogRequests
  <2>3. Answered'
    BY <1>0, <1>1, <2>1 DEF Sends, Answered, AtCatalog, Reached, partAReachable
  <2> QED
    BY <1>0, <2>1, <2>2, <2>3, SendsStep DEF Requests
<1>2. CASE ~partAReachable(AtCatalog("bridge", FALSE))
  <2>1. Exits(1)
    BY <1>2 DEF ProbeBridge
  <2>2. CASE saw = {world}
    <3>1. world.catalog = "nowhere"
      BY <1>0, <1>2, <2>2, WorldFields DEF AtCatalog, Reached, partAReachable
    <3>2. world.way = "clear"
      BY <1>0, <2>2, WorldFields DEF AtCatalog, Reached, Ways
    <3>3. 1 \in Verdicts(world)
      BY <1>0, <3>1, <3>2 DEF Verdicts
    <3> QED
      BY <1>0, <2>1, <3>3, RightNow
  <2> QED
    BY <1>0, <2>1, <2>2, InDoubt
<1> QED
  BY <1>1, <1>2

\* An authenticated answer other than a 404 is judged rightly, wherever it came from, but for
\* the firewall behind /bridge-client.
LEMMA PartBRight ==
  ASSUME world \in World, probe = "catalog", world.credential # "none",
         NEW prefix \in {"root", "bridge"}, AtCatalog(prefix, Valid) # "404",
         prefix = "bridge" /\ world.waf => world.catalog = "bridge" \/ (world.guarded /\ ~Valid)
  PROVE  PartB(AtCatalog(prefix, Valid)) \in Verdicts(world)
<1>1. /\ world.way \in Ways /\ world.catalog \in {"root", "bridge", "nowhere"}
      /\ world.credential \in {"stale", "good"}
  BY WorldFields
<1>2. CASE world.way # "clear"
  BY <1>1, <1>2 DEF Verdicts, AtCatalog, Reached, PartB, Ways
<1>3. CASE world.way = "clear" /\ world.guarded /\ ~Valid
  <2>1. AtCatalog(prefix, Valid) = "401"
    BY <1>3 DEF AtCatalog, Reached
  <2> QED
    BY <1>1, <1>3, <2>1 DEF Verdicts, PartB, Valid
<1>4. CASE world.way = "clear" /\ ~(world.guarded /\ ~Valid)
  <2>1. world.catalog = prefix
    BY <1>4 DEF AtCatalog, Reached
  <2>2. AtCatalog(prefix, Valid) =
          IF ~Valid THEN "401" ELSE IF world.entitled THEN "catalog" ELSE "403"
    BY <1>4, <2>1 DEF AtCatalog, Reached
  <2> QED
    BY <1>1, <1>4, <2>1, <2>2 DEF Verdicts, PartB, Valid
<1> QED
  BY <1>1, <1>2, <1>3, <1>4

\* Whatever was answered, the verdict is an exit code.
LEMMA PartBCode == ASSUME NEW code PROVE PartB(code) \in 0..4
  BY DEF PartB

\* The authenticated request: where its answer is not right for the world as it is, the
\* world has turned or is the one left out.
LEMMA AuthedStep == ASSUME ProbeIInv, AuthedCall PROVE ProbeIInv'
<1>0. /\ world \in World /\ probe = "catalog" /\ request \in {"authed root", "authed bridge"}
      /\ request = "authed bridge" => ~world.guarded
      /\ world \in saw
  BY DEF ProbeIInv, ProbeTypeOK, OwnRequest, Ran, Followed, AuthedCall, CatalogRequests
<1> DEFINE prefix == IF request = "authed root" THEN "root" ELSE "bridge"
           code == AtCatalog(prefix, Valid)
<1>1. CASE world.credential = "none"
  <2>1. Exits(1)
    BY <1>1 DEF AuthedCall
  <2>2. 1 \in Verdicts(world)
    BY <1>0, <1>1 DEF Verdicts
  <2> QED
    BY <1>0, <2>1, <2>2, GivesUp
<1>2. CASE world.credential # "none" /\ code = "404" /\ request = "authed root"
  <2>1. Sends("authed retry")
    BY <1>2 DEF AuthedCall
  <2>2. OwnRequest' /\ Followed'
    BY <1>0, <1>2, <2>1 DEF Sends, OwnRequest, Followed, CatalogRequests
  <2>3. Answered'
    <3>1. saw = {world} => partAReachable(AtCatalog("root", FALSE))
      BY <1>2 DEF ProbeIInv, Answered
    <3> QED
      BY <1>2, <2>1, <3>1 DEF Sends, Answered, AtCatalog, Reached, partAReachable, Valid
  <2> QED
    BY <1>0, <2>1, <2>2, <2>3, SendsStep DEF Requests
<1>3. CASE world.credential # "none" /\ ~(code = "404" /\ request = "authed root")
  <2>1. Exits(PartB(code))
    BY <1>3 DEF AuthedCall
  <2>2. PartB(code) \in 0..4
    BY PartBCode
  <2>3. CASE code = "404"
    <3>1. PartB(code) = 1 /\ request = "authed bridge"
      BY <1>0, <1>3, <2>3 DEF PartB
    <3>2. saw # {world}
      <4>1. SUFFICES ASSUME saw = {world} PROVE FALSE
        OBVIOUS
      <4>2. partAReachable(AtCatalog("bridge", FALSE)) /\ AtCatalog("root", FALSE) = "404"
        BY <1>0, <3>1, <4>1 DEF ProbeIInv, Answered
      <4> QED
        BY <1>0, <2>3, <3>1, <4>2 DEF AtCatalog, Reached, partAReachable
    <3> HIDE DEF code
    <3>3. Exits(1)
      BY <2>1, <3>1
    <3> QED
      BY <1>0, <3>2, <3>3, InDoubt
  <2>4. CASE code # "404" /\ ~(prefix = "bridge" /\ world.waf /\ world.catalog = "nowhere")
    <3>1. CASE prefix = "bridge" /\ world.waf /\ world.catalog = "root"
      \* Deployed at the root since the anonymous request, which ran where there was none.
      <4>1. PICK w \in saw : w.catalog = "nowhere"
        BY <1>0, <3>1 DEF ProbeIInv, Followed
      <4>2. ~w.guarded /\ w.waf
        BY <1>0, <3>1, <4>1 DEF ProbeIInv, Ran
      <4> HIDE DEF code
      <4>3. VerdictWasRight'
        BY <2>1, <4>1, <4>2 DEF Exits, VerdictWasRight
      <4> QED
        BY <1>0, <2>1, <2>2, <4>3, ExitStep
    <3>2. CASE ~(prefix = "bridge" /\ world.waf /\ world.catalog = "root")
      <4>1. prefix = "bridge" /\ world.waf => world.catalog = "bridge"
        BY <1>0, <2>4, <3>2, WorldFields
      <4>2. prefix \in {"root", "bridge"}
        OBVIOUS
      <4>3. PartB(AtCatalog(prefix, Valid)) \in Verdicts(world)
        <5> HIDE DEF prefix
        <5> QED
          BY <1>0, <1>3, <2>4, <4>1, <4>2, PartBRight
      <4> QED
        BY <1>0, <2>1, <2>2, <4>3, RightNow
    <3> QED
      BY <3>1, <3>2
  <2>5. CASE code # "404" /\ prefix = "bridge" /\ world.waf /\ world.catalog = "nowhere"
    \* The world that is left out
    <3>1. ~world.guarded
      BY <1>0, <2>5
    <3> HIDE DEF code
    <3>2. VerdictWasRight'
      BY <1>0, <2>1, <2>5, <3>1 DEF Exits, VerdictWasRight
    <3> QED
      BY <1>0, <2>1, <2>2, <3>2, ExitStep
  <2> QED
    BY <2>3, <2>4, <2>5
<1> QED
  BY <1>1, <1>2, <1>3

\* The request repeated behind /bridge-client: only a catalog, or the 403 of one, counts.
LEMMA RetryStep == ASSUME ProbeIInv, AuthedRetry PROVE ProbeIInv'
<1>0. /\ world \in World /\ probe = "catalog" /\ request = "authed retry"
      /\ world.credential # "none"
      /\ saw = {world} => /\ partAReachable(AtCatalog("root", FALSE))
                          /\ AtCatalog("root", Valid) = "404"
  BY DEF ProbeIInv, ProbeTypeOK, OwnRequest, Followed, Answered, AuthedRetry, CatalogRequests
<1> DEFINE code == AtCatalog("bridge", Valid)
<1>1. CASE code \in {"catalog", "403"}
  <2>1. world.catalog = "bridge"
    BY <1>1 DEF AtCatalog, Reached
  <2>2. PartB(code) \in Verdicts(world)
    BY <1>0, <1>1, <2>1, PartBRight
  <2>3. Exits(PartB(code)) /\ PartB(code) \in 0..4
    BY <1>1, PartBCode DEF AuthedRetry, Retried
  <2> QED
    BY <1>0, <2>2, <2>3, RightNow
<1>2. CASE code \notin {"catalog", "403"}
  <2>1. Exits(1)
    BY <1>2 DEF AuthedRetry, Retried, PartB
  <2>2. CASE saw = {world}
    <3>1. world.way = "clear" /\ world.catalog # "root"
      BY <1>0, <2>2, WorldFields DEF AtCatalog, Reached, Ways
    <3>2. world.guarded /\ Valid
      BY <1>0, <2>2, <3>1 DEF AtCatalog, Reached, partAReachable
    <3>3. world.catalog = "nowhere"
      BY <1>0, <1>2, <3>1, <3>2, WorldFields DEF AtCatalog, Reached
    <3>4. 1 \in Verdicts(world)
      BY <1>0, <3>1, <3>2, <3>3 DEF Verdicts, Valid
    <3> QED
      BY <1>0, <2>1, <3>4, GivesUp
  <2> QED
    BY <1>0, <2>1, <2>2, InDoubt
<1> QED
  BY <1>1, <1>2

\* The world turns once: nothing that is fixed turns, and a catalog only where there was none.
LEMMA TurnStep == ASSUME ProbeIInv, WorldTurns PROVE ProbeIInv'
<1>0. /\ world \in World /\ saw = {world} /\ saw' = {world, world'} /\ request # "none"
      /\ UNCHANGED <<probe, request, exit>>
  BY DEF ProbeIInv, ProbeTypeOK, WorldTurns
<1>1. /\ world' \in World
      /\ world'.guarded = world.guarded /\ world'.waf = world.waf
      /\ world'.credential = "none" <=> world.credential = "none"
      /\ world'.catalog = world.catalog \/ world.catalog = "nowhere"
  <2>1. CASE \E way \in Ways : world' = [world EXCEPT !.way = way]
    BY <1>0, <2>1 DEF World
  <2>2. CASE \E place \in {"root", "bridge"} :
                world.catalog = "nowhere" /\ world' = [world EXCEPT !.catalog = place]
    BY <1>0, <2>2 DEF World
  <2>3. CASE world' = [world EXCEPT !.entitled = ~@]
    BY <1>0, <2>3 DEF World
  <2>4. CASE world' = [world EXCEPT !.mcp = ~@]
    BY <1>0, <2>4 DEF World
  <2>5. CASE Valid /\ world' = [world EXCEPT !.credential = "stale"]
    BY <1>0, <2>5 DEF World, Valid
  <2> QED
    BY <2>1, <2>2, <2>3, <2>4, <2>5 DEF WorldTurns
<1>2. ProbeTypeOK' /\ OwnRequest'
  BY <1>0, <1>1 DEF ProbeIInv, ProbeTypeOK, OwnRequest
<1>3. Ran' /\ VerdictWasRight'
  BY <1>0, <1>1 DEF ProbeIInv, Ran, VerdictWasRight
<1>4. Followed'
  BY <1>0, <1>1 DEF ProbeIInv, Followed
<1>5. Answered'
  <2>1. SUFFICES ASSUME saw' = {world'} PROVE Answered'
    BY DEF Answered
  <2>2. world' = world
    BY <1>0, <2>1
  <2> QED
    BY <1>0, <2>2 DEF ProbeIInv, Answered, AtCatalog, Reached, Valid, partAReachable
<1> QED
  BY <1>2, <1>3, <1>4, <1>5 DEF ProbeIInv

\* The inductive invariant of the probes of RemoteProbes, detectServerPing to
\* detectCatalogRuntime, holds throughout.
THEOREM ProbeInvariance == ProbeSpec => []ProbeIInv
<1>1. ProbeIInv /\ [ProbeNext]_probeVars => ProbeIInv'
  <2> SUFFICES ASSUME ProbeIInv, [ProbeNext]_probeVars PROVE ProbeIInv'
    OBVIOUS
  <2>1. CASE UNCHANGED probeVars
    BY <2>1 DEF probeVars, ProbeIInv, ProbeTypeOK, OwnRequest, Ran, Followed, Answered,
                VerdictWasRight, Verdicts, AtCatalog, Reached, Valid, partAReachable
  <2> QED
    BY <2>1, BeginProbeStep, PingStep, McpStep, ProjectsStep, RootStep, BridgeStep, AuthedStep,
       RetryStep, TurnStep DEF ProbeNext, ProbeStep
<1> QED
  BY ProbeInitIInv, <1>1, PTL DEF ProbeSpec

\* The verdict of a probe is right for a world in which it ran, or says 1 in doubt: no catalog
\* is called missing, and no good credentials are rejected, because of a request at the wrong
\* prefix, a proxy or a portal (the exception is the one VerdictWasRight names).
THEOREM VerdictIsRight == ProbeSpec => [](ProbeTypeOK /\ VerdictWasRight)
<1>1. ProbeIInv => ProbeTypeOK /\ VerdictWasRight
  BY DEF ProbeIInv
<1> QED
  BY ProbeInvariance, <1>1, PTL
=============================================================================
