----------------------------- MODULE CliInstall -----------------------------
(***************************************************************************)
(* Installing or updating jf (jfrog-install-jf-cli.mjs, lib/command.mjs,   *)
(* and jfAvailable of lib/jf.mjs): Plan A is npm with the configured       *)
(* registry, Plan B npm with the public one, Plan C a download of the      *)
(* latest release into ~/.jfrog/bin.  jf may live in three places; which   *)
(* one runs is a matter of the order of PATH, which the script changes for *)
(* itself.  Releases appear while it runs, and it can be killed.           *)
(***************************************************************************)
EXTENDS Naturals, Sequences

CONSTANTS MIN_JF_VERSION,
          Newest   \* bound: versions are 1..Newest

ASSUME NewestAssumption == MIN_JF_VERSION \in 1..Newest /\ Newest \in Nat

VARIABLES bin,       \* the jf in each place
          path,      \* PATH of the running script
          npm,       \* is there an npm, is its registry the public one, is its prefix known?
          published,  \* the latest release, on the public registry and for download
          unrunnable,\* releases that do not run on this machine
          plan,      \* what the script does next
          memo,      \* jfAvailableCache: "unset", "yes" or "no"
          sum,       \* the release whose checksum HEAD returned; 0: none, NotYet: pending
          bytes,     \* what GET returned
          strayFile,  \* is the temporary file of a killed run there?
          kills      \* has a run been killed?

installVars == <<bin, path, npm, published, unrunnable, plan, memo, sum, bytes, strayFile, kills>>

Versions == 1..Newest
Places == {"home", "npm", "other"}  \* ~/.jfrog/bin, npm's global bin, Homebrew and the like
NotYet == Newest + 1

NoFile == [runs |-> FALSE, version |-> 0]
Damaged == [runs |-> FALSE, version |-> NotYet]
Build(v) == [runs |-> v \notin unrunnable, version |-> v]
Files == [runs : BOOLEAN, version : 0..NotYet]
Empty == NoFile

\* The orders of PATH in use.
Paths == {<<>>, <<"other">>, <<"other", "npm">>, <<"npm", "other">>, <<"other", "home">>}

Prepended(place, p) == IF \E i \in DOMAIN p : p[i] = place THEN p ELSE <<place>> \o p
selfHealPath(p) == IF bin["home"] # NoFile THEN Prepended("home", p) ELSE p

\* resolveBinaryDir("jf"): the first entry of PATH with such a file.
Resolved(p, files) ==
  LET hits == {i \in DOMAIN p : files[p[i]] # NoFile}
  IN IF hits = {} THEN "nowhere" ELSE p[CHOOSE i \in hits : \A j \in hits : i <= j]

Runs(p, files) == Resolved(p, files) # "nowhere" /\ files[Resolved(p, files)].runs
Recent(p, files) == Runs(p, files) /\ files[Resolved(p, files)].version >= MIN_JF_VERSION

InstallInit ==
  /\ unrunnable \in {{}, {Newest}}
  /\ published = MIN_JF_VERSION
  /\ bin \in {[home |-> h, npm |-> NoFile, other |-> o] :
                h \in {NoFile, Build(1)}, o \in {NoFile, Build(1), Build(MIN_JF_VERSION), Damaged}}
  /\ path \in Paths
  /\ npm \in [there : BOOLEAN, public : BOOLEAN, prefix : BOOLEAN]
  /\ plan = "start"
  /\ memo = "unset"
  /\ sum = 0
  /\ bytes = Empty
  /\ strayFile = FALSE
  /\ kills = FALSE

\* jfAvailable with its memo, on a PATH and files of the moment.
Available(known, p, files) == IF known = "unset" THEN Runs(p, files) ELSE known = "yes"

\* Mutant: some jf that runs is enough.
AnyJf(known, p, files) == Available(known, p, files)

currentJfIsUpToDate(known, p, files) == Available(known, p, files) /\ Recent(p, files)

Memo(known, p, files) == IF Available(known, p, files) THEN "yes" ELSE "no"

Start ==
  /\ plan = "start"
  /\ LET healed == selfHealPath(path)
     IN /\ path' = healed
        /\ memo' = Memo(memo, healed, bin)
        /\ plan' = IF currentJfIsUpToDate(memo, healed, bin) THEN "installed"
                   ELSE IF npm.there THEN "npm" ELSE "download"
  /\ UNCHANGED <<bin, npm, published, unrunnable, sum, bytes, strayFile, kills>>

\* npm ran and succeeded: its bin is put on PATH and jf is looked up again.  `retry`: Plan B
\* is worth trying, which it is not when another jf hides npm's.
AfterNpm(files, retry) ==
  LET onPath == selfHealPath(IF npm.prefix THEN Prepended("npm", path) ELSE path)
      shadowed == npm.prefix /\ Resolved(onPath, files) \notin {"nowhere", "npm"}
  IN /\ bin' = files
     /\ path' = onPath
     /\ memo' = Memo("unset", onPath, files)
     /\ plan' = IF currentJfIsUpToDate("unset", onPath, files) THEN "installed"
                ELSE IF retry /\ ~shadowed /\ ~npm.public THEN "npm public" ELSE "download"

\* The configured registry may serve any release so far.
NpmInstall ==
  /\ plan = "npm"
  /\ \E v \in 1..published : AfterNpm([bin EXCEPT !["npm"] = Build(v)], TRUE)
  /\ UNCHANGED <<npm, published, unrunnable, sum, bytes, strayFile, kills>>

\* npm exits non-zero or runs out of time, before or after it wrote its files.
NpmFails ==
  /\ plan \in {"npm", "npm public"}
  /\ bin' \in {bin} \cup {[bin EXCEPT !["npm"] = Build(v)] : v \in 1..published}
  /\ plan' = IF plan = "npm" /\ ~npm.public THEN "npm public" ELSE "download"
  /\ UNCHANGED <<path, npm, published, unrunnable, memo, sum, bytes, strayFile, kills>>

NpmInstallPublic ==
  /\ plan = "npm public"
  /\ AfterNpm([bin EXCEPT !["npm"] = Build(published)], FALSE)
  /\ UNCHANGED <<npm, published, unrunnable, sum, bytes, strayFile, kills>>

\* Plan C sends HEAD and GET at once.  There is nothing to fetch for Windows, whose user gets a
\* command to run, and for a platform without an artifact.
BeginDownload ==
  /\ plan = "download"
  /\ \/ plan' = "fetching" /\ sum' = NotYet
     \/ plan' = "failed" /\ UNCHANGED sum
  /\ bytes' = Empty
  /\ UNCHANGED <<bin, path, npm, published, unrunnable, memo, strayFile, kills>>

\* The answer of Artifactory to HEAD, for the release of that moment, or none.
AnswerHead ==
  /\ plan \in {"fetching", "fetched"}
  /\ sum = NotYet
  /\ sum' \in {published, 0}
  /\ UNCHANGED <<bin, path, npm, published, unrunnable, plan, memo, bytes, strayFile, kills>>

\* The bytes of GET: whole, cut short or replaced by an error page, or none at all.
AnswerGet ==
  /\ plan = "fetching"
  /\ \/ bytes' \in {Build(published), Damaged, Empty} /\ plan' = "fetched"
     \/ plan' = "failed" /\ UNCHANGED bytes
  /\ UNCHANGED <<bin, path, npm, published, unrunnable, memo, sum, strayFile, kills>>

\* Mutant: a missing checksum is let pass.
UncheckedWithoutSum == bytes # Empty /\ (sum = 0 \/ bytes.version = sum)

\* Not empty, and the digest Artifactory computed; the magic number comes on top.
Verified == bytes # Empty /\ sum # 0 /\ bytes.version = sum

Verify ==
  /\ plan = "fetched"
  /\ sum # NotYet
  /\ plan' = IF Verified THEN "write" ELSE "failed"
  /\ UNCHANGED <<bin, path, npm, published, unrunnable, memo, sum, bytes, strayFile, kills>>

\* The temporary file is created exclusively; one of a killed run with this PID is in the
\* way and is removed.
WriteBinary ==
  /\ plan = "write"
  /\ \/ plan' \in {"rename", "failed"} /\ UNCHANGED strayFile
     \/ strayFile /\ plan' = "failed" /\ strayFile' = FALSE
  /\ UNCHANGED <<bin, path, npm, published, unrunnable, memo, sum, bytes, kills>>

RenameBinary ==
  /\ plan = "rename"
  /\ \/ plan' = "try" /\ bin' = [bin EXCEPT !["home"] = bytes]
     \/ plan' = "failed" /\ UNCHANGED bin
  /\ UNCHANGED <<path, npm, published, unrunnable, memo, sum, bytes, strayFile, kills>>

\* Runs the new jf; the printed line puts ~/.jfrog/bin first.  One that does not run stays.
TryBinary ==
  /\ plan = "try"
  /\ IF bin["home"].runs THEN plan' = "installed" /\ path' = <<"home">> \o path
                         ELSE plan' = "failed" /\ UNCHANGED path
  /\ UNCHANGED <<bin, npm, published, unrunnable, memo, sum, bytes, strayFile, kills>>

\* The skill runs the script again, in the shell of the last run or a new one.
RunAgain ==
  /\ plan \in {"installed", "failed"}
  /\ plan' = "start"
  /\ memo' = "unset"
  /\ path' \in {path} \cup Paths
  /\ sum' = 0
  /\ bytes' = Empty
  /\ UNCHANGED <<bin, npm, published, unrunnable, strayFile, kills>>

KillInstall ==
  /\ plan \notin {"installed", "failed"}
  /\ ~kills
  /\ kills' = TRUE
  /\ plan' = "failed"
  /\ strayFile' = (strayFile \/ plan = "rename")
  /\ UNCHANGED <<bin, path, npm, published, unrunnable, memo, sum, bytes>>

PublishRelease ==
  /\ published < Newest
  /\ published' = published + 1
  /\ UNCHANGED <<bin, path, npm, unrunnable, plan, memo, sum, bytes, strayFile, kills>>

InstallNext ==
  \/ Start \/ NpmInstall \/ NpmFails \/ NpmInstallPublic
  \/ BeginDownload \/ AnswerHead \/ AnswerGet \/ Verify
  \/ WriteBinary \/ RenameBinary \/ TryBinary
  \/ RunAgain \/ KillInstall \/ PublishRelease

InstallSpec == InstallInit /\ [][InstallNext]_installVars

-----------------------------------------------------------------------------
InstallTypeOK ==
  /\ bin \in [Places -> Files]
  /\ path \in Seq(Places)
  /\ npm \in [there : BOOLEAN, public : BOOLEAN, prefix : BOOLEAN]
  /\ published \in MIN_JF_VERSION..Newest
  /\ unrunnable \subseteq Versions
  /\ plan \in {"start", "npm", "npm public", "download", "fetching", "fetched", "write",
               "rename", "try", "installed", "failed"}
  /\ memo \in {"unset", "yes", "no"}
  /\ sum \in 0..NotYet
  /\ bytes \in Files
  /\ strayFile \in BOOLEAN
  /\ kills \in BOOLEAN

\* Plan C is "checksum-verified against Artifactory's own SHA-256 for that same artifact"
\* (jfrog-install-jf-cli.mjs:19-20): whatever is cut short, whatever release appears between
\* HEAD and GET, and wherever a run is killed, ~/.jfrog/bin/jf is one whole release.
InstalledIsPublished ==
  bin["home"] = NoFile \/ \E v \in Versions : bin["home"] = Build(v)

\* "Installed, updated, or already present and up to date" (jfrog-install-jf-cli.mjs:46): a
\* run that exits zero leaves a jf that runs and is recent first on its PATH, with the line it
\* printed evaluated, whichever plan it took and whatever jf it found.
ZeroMeansUsable ==
  [][plan' = "installed" /\ plan # "installed" => Recent(path', bin')]_installVars
=============================================================================
