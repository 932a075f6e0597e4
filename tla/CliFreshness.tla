---------------------------- MODULE CliFreshness ----------------------------
(***************************************************************************)
(* The offer to upgrade jf: check-environment.mjs refreshes the cached     *)
(* facts (installed version, latest release, is an offer pending?) and     *)
(* cli-newer-version-offer.mjs tells an agent of a pending offer and,      *)
(* called again with --clear, marks it as made.  Every writer of the cache *)
(* reads it, keeps what it read in memory (the check over a network call   *)
(* of up to five seconds) and writes the whole file back; nothing orders   *)
(* the writers.  A session is one agent that checks, reads and clears.     *)
(***************************************************************************)
EXTENDS Naturals, FiniteSets

CONSTANTS Sessions,      \* agents that use the skill at the same time
          Minimum,       \* MIN_CLI_VERSION
          NewestRelease, \* bound: versions are 1..NewestRelease
          MaxTurns       \* bound: changes of jf and of the disk, releases and expiries

ASSUME FreshAssumption == Minimum \in Nat /\ NewestRelease \in Nat \ {0} /\ MaxTurns \in Nat

VARIABLES jf,        \* the jf on PATH: is there one, what version does it print?
          released,  \* the latest release
          cache,     \* skills-cache/jfrog-skill-state.json
          writable,  \* can the cache be written?
          doing,     \* next step of each session
          read,      \* the cache as its script read it
          version,   \* the version jfVersion returned to it
          latest,    \* what fetchLatestVersion returned to it
          overtaken, \* history: scripts that hold a cache another script has replaced
          settled,   \* history: releases whose offer has been cleared
          turns      \* changes of the world so far

freshVars == <<jf, released, cache, writable, doing, read, version, latest, overtaken, settled,
               turns>>

Releases == 1..NewestRelease
Unknown == 0
Absent == [found |-> FALSE, version |-> Unknown]
Installed(upTo) == [found : {TRUE}, version : 1..upTo \cup {Unknown}]

Cached == [valid : BOOLEAN, fresh : BOOLEAN, version : Releases \cup {Unknown},
           latest : Releases \cup {Unknown}, suggest : {"true", "false", ""}]
\* readCache of a missing or broken file.
NoCache == [valid |-> FALSE, fresh |-> FALSE, version |-> Unknown, latest |-> Unknown,
            suggest |-> ""]

versionLt(a, b) == a # Unknown /\ b # Unknown /\ a < b

FreshInit ==
  /\ jf \in {Absent} \cup Installed(1)
  /\ released = 1
  /\ cache = NoCache
  /\ writable \in BOOLEAN
  /\ doing = [s \in Sessions |-> "idle"]
  /\ read = [s \in Sessions |-> NoCache]
  /\ version = [s \in Sessions |-> Unknown]
  /\ latest = [s \in Sessions |-> Unknown]
  /\ overtaken = {}
  /\ settled = {}
  /\ turns = 0

\* Between the read of the cache and the end of the script.
Holding == {"resolve", "fetch", "write", "clear"}

Does(s, what) == doing' = [doing EXCEPT ![s] = what]

\* The script of a session exits: what it held in memory is gone.
Exit(s, next) ==
  /\ Does(s, next)
  /\ read' = [read EXCEPT ![s] = NoCache]
  /\ version' = [version EXCEPT ![s] = Unknown]
  /\ latest' = [latest EXCEPT ![s] = Unknown]

\* A fresh cache answers for jf (exit 0, or 3 below the minimum); --force asks again.
BeginCheck(s, force) ==
  /\ doing[s] = "idle"
  /\ IF ~force /\ cache.fresh
     THEN Exit(s, IF versionLt(cache.version, Minimum) THEN "idle" ELSE "checked")
     ELSE /\ Does(s, "resolve")
          /\ read' = [read EXCEPT ![s] = cache]
          /\ UNCHANGED <<version, latest>>
  /\ UNCHANGED <<jf, released, cache, writable, overtaken, settled, turns>>

\* resolveBinaryPath (exit 2 when there is no jf) and jfVersion.
ResolveJf(s) ==
  /\ doing[s] = "resolve"
  /\ IF jf.found
     THEN /\ version' = [version EXCEPT ![s] = jf.version]
          /\ Does(s, "fetch")
          /\ UNCHANGED <<read, latest, overtaken>>
     ELSE /\ Exit(s, "idle")
          /\ overtaken' = overtaken \ {s}
  /\ UNCHANGED <<jf, released, cache, writable, settled, turns>>

\* The lookup gets the latest release, or fails in any way.
FetchLatest(s) ==
  /\ doing[s] = "fetch"
  /\ \E found \in {released, Unknown} : latest' = [latest EXCEPT ![s] = found]
  /\ Does(s, "write")
  /\ UNCHANGED <<jf, released, cache, writable, read, version, overtaken, settled, turns>>

\* The latest version to record: a failed lookup keeps the one on record.
Latest(found, prev) == IF found = Unknown THEN prev.latest ELSE found

\* Mutant: a pending offer is decided by the versions alone.
AlwaysBehind(installed, found, prev) == versionLt(installed, Latest(found, prev))

decideSuggestUpgrade(installed, found, prev) ==
  LET known == Latest(found, prev)
  IN IF known = Unknown THEN FALSE
     ELSE /\ versionLt(installed, known)
          /\ prev.latest # known \/ prev.suggest # "false"

\* writeCache replaces the file or, when it cannot, changes nothing.  A write over a cache
\* the writer never saw takes what it knew of cleared offers with it.
WriteCache(s, new) ==
  IF writable
  THEN /\ cache' = new
       /\ overtaken' = {o \in Sessions \ {s} : doing[o] \in Holding}
  ELSE /\ overtaken' = overtaken \ {s}
       /\ UNCHANGED cache

\* Exit 1, or 3 when the installed version is below the minimum.
RecordCheck(s) ==
  /\ doing[s] = "write"
  /\ WriteCache(s, [valid |-> TRUE, fresh |-> TRUE, version |-> version[s],
                    latest |-> Latest(latest[s], read[s]),
                    suggest |-> IF decideSuggestUpgrade(version[s], latest[s], read[s])
                                THEN "true" ELSE "false"])
  /\ settled' = IF writable /\ s \in overtaken THEN {} ELSE settled
  /\ Exit(s, IF versionLt(version[s], Minimum) THEN "idle" ELSE "checked")
  /\ UNCHANGED <<jf, released, writable, turns>>

\* NEWER_AVAILABLE or SKIP; JFROG_CLI_AVOID_NEW_VERSION_WARNING forces the latter.
ReadOffer(s, avoid) ==
  /\ doing[s] = "checked"
  /\ Does(s, IF ~avoid /\ cache.suggest = "true" THEN "offered" ELSE "idle")
  /\ UNCHANGED <<jf, released, cache, writable, read, version, latest, overtaken, settled, turns>>

BeginClear(s) ==
  /\ doing[s] = "offered"
  /\ IF cache.valid
     THEN /\ Does(s, "clear")
          /\ read' = [read EXCEPT ![s] = cache]
     ELSE Does(s, "idle") /\ UNCHANGED read
  /\ UNCHANGED <<jf, released, cache, writable, version, latest, overtaken, settled, turns>>

\* Keeps everything it read but the flag.
RecordClear(s) ==
  /\ doing[s] = "clear"
  /\ WriteCache(s, [read[s] EXCEPT !.suggest = "false"])
  /\ settled' = IF ~writable THEN settled
                ELSE IF s \in overtaken THEN {} ELSE settled \cup {read[s].latest}
  /\ Exit(s, "idle")
  /\ UNCHANGED <<jf, released, writable, turns>>

SessionStep(s) ==
  \/ \E force \in BOOLEAN : BeginCheck(s, force)
  \/ ResolveJf(s) \/ FetchLatest(s) \/ RecordCheck(s)
  \/ \E avoid \in BOOLEAN : ReadOffer(s, avoid)
  \/ BeginClear(s) \/ RecordClear(s)

\* Its agent goes away, the running script with it; a temporary file it leaves is overwritten.
SessionEnds(s) ==
  /\ doing[s] # "idle"
  /\ Exit(s, "idle")
  /\ overtaken' = overtaken \ {s}
  /\ UNCHANGED <<jf, released, cache, writable, settled, turns>>

Turn == turns < MaxTurns /\ turns' = turns + 1

\* ttl_hours pass.
Expire ==
  /\ Turn
  /\ cache.fresh
  /\ cache' = [cache EXCEPT !.fresh = FALSE]
  /\ UNCHANGED <<jf, released, writable, doing, read, version, latest, overtaken, settled>>

\* jf is installed, removed, upgraded or downgraded.
ChangeJf ==
  /\ Turn
  /\ jf' \in {Absent} \cup Installed(released)
  /\ UNCHANGED <<released, cache, writable, doing, read, version, latest, overtaken, settled>>

NewRelease ==
  /\ Turn
  /\ released < NewestRelease
  /\ released' = released + 1
  /\ UNCHANGED <<jf, cache, writable, doing, read, version, latest, overtaken, settled>>

ChangeDisk ==
  /\ Turn
  /\ writable' = ~writable
  /\ UNCHANGED <<jf, released, cache, doing, read, version, latest, overtaken, settled>>

FreshNext ==
  \/ \E s \in Sessions : SessionStep(s) \/ SessionEnds(s)
  \/ Expire \/ ChangeJf \/ NewRelease \/ ChangeDisk

FreshSpec == FreshInit /\ [][FreshNext]_freshVars

-----------------------------------------------------------------------------
FreshTypeOK ==
  /\ jf \in {Absent} \cup Installed(NewestRelease)
  /\ released \in Releases
  /\ cache \in Cached
  /\ writable \in BOOLEAN
  /\ doing \in [Sessions -> {"idle", "resolve", "fetch", "write", "checked", "offered", "clear"}]
  /\ read \in [Sessions -> Cached]
  /\ version \in [Sessions -> Releases \cup {Unknown}]
  /\ latest \in [Sessions -> Releases \cup {Unknown}]
  /\ overtaken \subseteq Sessions
  /\ settled \subseteq Releases \cup {Unknown}
  /\ turns \in 0..MaxTurns

\* "Offer once per new latest" (check-environment.mjs:347): an offer that was cleared does
\* not become pending again, through forced checks, failed lookups, upgrades, downgrades and
\* removals of jf, unless a writer put back a cache that another had replaced meanwhile.
OfferedOnce == cache.suggest = "true" => cache.latest \notin settled
=============================================================================
