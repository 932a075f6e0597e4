------------------------- MODULE CodexUpdate_proofs -------------------------
(***************************************************************************)
(* Whatever dies, fails or is retried, an activation of Codex replaces the *)
(* release in force as a whole or not at all, and its prior release stays  *)
(* on disk as long as the journal stands.                                  *)
(***************************************************************************)
EXTENDS CodexUpdate, TLAPS

(* The files by name                                                       *)
Binary == disk["binary"]
Lock == disk["lock"]
Candidate == disk["candidate"]
CandidateLock == disk["candidate_lock"]
Previous == disk["previous"]
PreviousLock == disk["previous_lock"]

(* Locks are renamed into place, never torn.                               *)
LocksWhole == \A f \in {"lock", "candidate_lock", "previous_lock"} : disk[f] # Torn

(* Which command runs which steps                                          *)
RollingBack == {"rollback", "set_aside", "put_back", "republish", "check_back"}
Staging == {"stage", "extract", "validate", "stage_lock"}
Activating == {"activate", "prepare", "backup_lock", "backup", "backup_check", "backed_up",
               "swap", "mark_host", "publish", "verify", "probe"}

(* The running command takes only steps of its own, on a machine of its    *)
(* role. A rollback is the command itself, part of the recovery before it, *)
(* or the undoing of an activation of its own, which then raises.          *)
CommandOK ==
  /\ pc = "idle" => job = NoJob
  /\ pc # "idle" => job.cmd # "none"
  /\ job.cmd = "update" => role = "user"
  /\ job.cmd \in {"guest-stage", "guest-activate", "guest-rollback"} => role = "guest"
  /\ job.cmd = "guest-stage" => job.release \in Releases
  /\ pc = "recover" => job.cmd \in {"update", "recover", "guest-stage"} /\ job.then = "idle"
  /\ pc \in RollingBack =>
       \/ job.then = "idle" /\ job.cmd # "guest-activate"
       \/ job.then = "raise" /\ job.cmd \in {"update", "guest-activate"}
  /\ pc = "query" => job.cmd = "update"
  /\ pc \in Staging => job.cmd \in {"update", "guest-stage"}
  /\ pc \in Activating => job.cmd \in {"update", "guest-activate"}
  /\ pc = "done" => /\ job.cmd = "guest-stage" => ~InFlight
                    /\ job.cmd = "guest-activate" => NothingStaged

(* What a finished command of a guest left, until another one than a       *)
(* recovery has run.                                                       *)
ExitOK ==
  pc = "idle" \/ job.cmd = "recover" =>
    /\ exit = [cmd |-> "guest-activate", code |-> "zero"] => NothingStaged
    /\ exit = [cmd |-> "guest-stage", code |-> "staged"] => ~InFlight

(* As long as the journal stands, the binary of the prior release is in    *)
(* place or backed up, and identified by its lock.                         *)
FlightOK ==
  InFlight =>
    /\ journal.had_binary = journal.had_lock
    /\ journal.had_lock =>
         /\ PreviousLock # Absent => PreviousLock \in {Binary, Previous}
         /\ PreviousLock = Absent => Lock # Absent /\ Binary = Lock
         /\ journal.phase = "prepared" => Lock # Absent /\ PreviousLock \in {Absent, Lock}

(* A machine that updates itself chooses no older release.                 *)
Chosen == job.release \in Releases /\ (role = "user" => job.release >= Lock)

(* A whole candidate with its lock                                         *)
Staged == CandidateLock # Absent /\ Candidate = CandidateLock

(* The prior release, when there is one, is backed up with its lock.       *)
BackedUpWhole == journal.had_lock => PreviousLock # Absent /\ Previous = PreviousLock

(* Nothing is staged, and no activation is prepared, over a journal that   *)
(* stands: recovery or the query before it has settled it.                 *)
StagingOK ==
  /\ pc \in Staging \cup {"query", "prepare"} => ~InFlight
  /\ pc \in Staging => Chosen
  /\ pc = "activate" =>
       /\ InFlight => role = "guest" /\ NothingStaged
       /\ role = "user" => CandidateLock = job.release /\ Chosen
  /\ pc = "prepare" =>
       /\ Staged /\ Previous = Absent /\ PreviousLock = Absent
       /\ role = "user" => CandidateLock >= Lock

(* What an activation has done by each of its steps. The journal leaves    *)
(* "prepared" before the binary is moved, so "prepared" means that the     *)
(* release is untouched; the candidate is in place only once the prior     *)
(* release is backed up.                                                   *)
ActivatingOK ==
  /\ pc \in {"backup_lock", "backup", "backup_check", "backed_up", "swap"} => InFlight /\ Staged
  /\ pc \in {"backup_lock", "backup", "backup_check", "backed_up"} =>
       /\ journal.phase = "prepared"
       /\ journal.had_lock <=> Lock # Absent
       /\ Binary = Lock
  /\ pc = "backup_lock" => Previous = Absent /\ PreviousLock = Absent
  /\ pc \in {"backup", "backup_check"} => Lock # Absent /\ PreviousLock = Lock
  /\ pc \in {"backed_up", "swap"} => BackedUpWhole
  /\ pc \in {"swap", "mark_host", "publish", "verify", "probe"} => journal.phase # "prepared"
  /\ pc = "backed_up" /\ journal.had_lock => PreviousLock = Lock
  /\ pc \in {"mark_host", "publish", "verify", "probe"} =>
       /\ InFlight /\ BackedUpWhole
       /\ CandidateLock # Absent /\ Binary = CandidateLock /\ Candidate = Absent
  /\ pc \in {"verify", "probe"} => Lock = CandidateLock
  /\ pc \in {"backup_lock", "backup", "backup_check", "backed_up", "swap", "mark_host",
             "publish", "verify", "probe"} =>
       (role = "user" => CandidateLock >= Prior)

(* What a rollback from the backup has done by each of its steps: the      *)
(* binary first, then the lock, and the backup lock to the end.            *)
RollbackOK ==
  /\ pc \in {"set_aside", "put_back", "republish", "check_back"} =>
       InFlight /\ journal.had_lock /\ PreviousLock # Absent
  /\ pc \in {"set_aside", "put_back"} => Previous = PreviousLock
  /\ pc \in {"republish", "check_back"} => Binary = PreviousLock
  /\ pc = "check_back" => Lock = PreviousLock

(* A rollback returns to the command it belongs to.                        *)
Returns ==
  \/ job.then = "query" /\ job.cmd = "update"
  \/ job.then = "stage" /\ job.cmd = "guest-stage"
  \/ job.then = "done" /\ job.cmd \in {"recover", "guest-rollback"}
  \/ job.then = "raise" /\ job.cmd \in {"update", "guest-activate"}

(* A stale candidate is being removed, after a rollback without a journal  *)
(* or before another is staged.                                            *)
Restaging ==
  /\ ~InFlight
  /\ \/ Returns
     \/ job.then = "extract" /\ job.cmd \in {"update", "guest-stage"} /\ Chosen

(* The generation before the last is being removed, and no journal needs   *)
(* it.                                                                     *)
MakingRoom ==
  /\ ~InFlight /\ Staged
  /\ job.then = "prepare" /\ job.cmd \in {"update", "guest-activate"}
  /\ job.at = 2 => Previous = Absent
  /\ role = "user" => CandidateLock >= Lock

(* There was no prior release: all of the new one goes before the journal. *)
Bootstrap ==
  /\ InFlight /\ ~journal.had_lock
  /\ Returns
  /\ job.at > 1 => Binary = Absent
  /\ job.at > 2 => Lock = Absent

(* The release in force was not touched: its backup goes, and the journal  *)
(* last.                                                                   *)
UntouchedFiles ==
  /\ InFlight /\ journal.had_lock /\ journal.phase = "prepared"
  /\ Returns
  /\ Lock # Absent /\ Binary = Lock
  /\ job.at > 2 => PreviousLock = Absent

(* The prior release is back under its own lock before its backup goes.    *)
Restored ==
  /\ Returns
  /\ job.at <= 3 => InFlight /\ journal.had_lock /\ Lock # Absent /\ Binary = Lock
  /\ job.at = 1 => PreviousLock = Lock
  /\ job.at \in {2, 3} => PreviousLock = Absent
  /\ job.at > 3 => ~InFlight

(* A guest's activation ends with its candidate in place and its journal   *)
(* standing.                                                               *)
Activated ==
  /\ InFlight /\ Candidate = Absent
  /\ job.then = "done" /\ job.cmd = "guest-activate"

(* A machine's own activation commits a whole release that is no older.    *)
Committed ==
  /\ InFlight /\ Lock # Absent /\ Binary = Lock /\ Lock >= Prior
  /\ job.then = "done" /\ job.cmd = "update"

(* The host asked again, and the release of its guest was healthy.         *)
Finalized ==
  /\ InFlight /\ Lock # Absent /\ Binary = Lock /\ NothingStaged
  /\ job.then = "done" /\ job.cmd = "guest-activate"

(* Which list of files is being unlinked, how far, and what that list      *)
(* relies on: a command may die between any two files of it.               *)
UnlinkOK ==
  pc = "unlink" =>
    \/ job.unlink = "restaging" /\ job.at \in 1..2 /\ Restaging
    \/ job.unlink = "making_room" /\ job.at \in 1..2 /\ MakingRoom
    \/ job.unlink = "bootstrap" /\ job.at \in 1..5 /\ Bootstrap
    \/ job.unlink = "untouched" /\ job.at \in 1..5 /\ UntouchedFiles
    \/ job.unlink = "restored" /\ job.at \in 1..5 /\ Restored
    \/ job.unlink = "activated" /\ job.at = 1 /\ Activated
    \/ job.unlink = "committed" /\ job.at \in 1..2 /\ Committed
    \/ job.unlink = "finalized" /\ job.at = 1 /\ Finalized

(* What holds of the files                                                 *)
FilesOK == LocksWhole /\ SettledCoherent /\ FlightOK

(* Where the command stands                                                *)
PlaceOK == CommandOK /\ ExitOK /\ StagingOK /\ ActivatingOK /\ RollbackOK /\ UnlinkOK

(* The inductive invariant                                                 *)
IInv == TypeOK /\ FilesOK /\ PlaceOK

-----------------------------------------------------------------------------
(* Files, jobs and types                                                   *)

LEMMA WriteFile ==
  ASSUME TypeOK, NEW f \in Files, NEW c \in Content, Write(f, c)
  PROVE  /\ disk' \in [Files -> Content]
         /\ \A g \in Files : disk'[g] = IF g = f THEN c ELSE disk[g]
  BY DEF TypeOK, Write

(* Renaming moves the content of one file to another and leaves the rest.  *)
LEMMA RenameFile ==
  ASSUME TypeOK, NEW f \in Files, NEW g \in Files, f # g, Rename(f, g)
  PROVE  /\ disk' \in [Files -> Content]
         /\ \A h \in Files :
               disk'[h] = IF h = f THEN Absent ELSE IF h = g THEN disk[f] ELSE disk[h]
  BY DEF TypeOK, Rename, Content

(* The content of a file is a number, so that releases are compared with   *)
(* it.                                                                     *)
LEMMA ContentOf ==
  ASSUME TypeOK
  PROVE  \A f \in Files : disk[f] \in Content /\ disk[f] \in Nat
<1>1. Content \subseteq Nat
  BY ReleasesAssumption DEF Content, Absent, Torn
<1> QED
  BY <1>1 DEF TypeOK

(* Beginning a list keeps the command and the release it is about.         *)
LEMMA UnlinkAllJob ==
  ASSUME TypeOK, NEW which \in DOMAIN Unlinks, NEW then \in Steps, UnlinkAll(which, then)
  PROVE  /\ job' \in Job /\ pc' = "unlink"
         /\ job'.cmd = job.cmd /\ job'.release = job.release
         /\ job'.unlink = which /\ job'.at = 1 /\ job'.then = then
<1>1. job \in Job /\ job' = [job EXCEPT !.unlink = which, !.at = 1, !.then = then]
  BY DEF TypeOK, UnlinkAll
<1>2. job' = [cmd |-> job.cmd, release |-> job.release, healthy |-> job.healthy,
              unlink |-> which, at |-> 1, then |-> then]
  BY <1>1 DEF Job
<1>3. job' \in Job
  <2>1. /\ job.cmd \in Commands \cup {"none"} /\ job.release \in Releases \cup {Absent}
        /\ job.healthy \in BOOLEAN
    BY <1>1 DEF Job
  <2> QED
    BY <1>2, <2>1 DEF Job
<1> QED
  BY <1>2, <1>3 DEF UnlinkAll

(* A command that ends leaves a well-typed state.                          *)
LEMMA QuitType ==
  ASSUME TypeOK, NEW code \in {"zero", "staged", "nonzero"}, Quit(code)
  PROVE  pc' \in Steps /\ job' \in Job /\ exit' \in Exit
<1>1. NoJob \in Job /\ "idle" \in Steps
  BY DEF NoJob, Job, Steps, Absent
<1>2. [cmd |-> job.cmd, code |-> code] \in Exit
  BY DEF TypeOK, Job, Exit
<1> QED
  BY <1>1, <1>2 DEF TypeOK, Quit

(* So does one that ends with an error.                                    *)
LEMMA RaiseType ==
  ASSUME TypeOK, Raise
  PROVE  pc' \in Steps /\ job' \in Job /\ exit' \in Exit
  BY QuitType DEF Raise

(* A probe counts its failure within the bound.                            *)
LEMMA ProbeType ==
  ASSUME TypeOK, NEW lock, NEW runs \in BOOLEAN, Probe(lock, runs)
  PROVE  faults' \in 0..MaxFaults
<1>1. faults \in 0..MaxFaults
  BY DEF TypeOK
<1>2. \/ faults' = faults
      \/ faults < MaxFaults /\ faults' = faults + 1
  BY DEF Probe
<1> QED
  BY <1>1, <1>2, BoundsAssumption

(* Where a rollback returns to depends on the command and on the error it  *)
(* was called for.                                                         *)
LEMMA AfterRollbackSteps ==
  ASSUME IInv, pc \in RollingBack
  PROVE  /\ AfterRollback \in Steps
         /\ \/ AfterRollback = "query" /\ job.cmd = "update"
            \/ AfterRollback = "stage" /\ job.cmd = "guest-stage"
            \/ AfterRollback = "done" /\ job.cmd \in {"recover", "guest-rollback"}
            \/ AfterRollback = "raise" /\ job.cmd \in {"update", "guest-activate"}
<1>1. job.cmd \in Commands
  BY DEF IInv, PlaceOK, CommandOK, RollingBack, TypeOK, Job
<1>2. CASE job.then = "raise"
  BY <1>2 DEF AfterRollback, IInv, PlaceOK, CommandOK, Steps
<1>3. CASE job.then = "idle" /\ job.cmd = "guest-rollback"
  BY <1>3 DEF AfterRollback, Steps
<1>4. CASE job.then = "idle" /\ job.cmd \notin {"guest-rollback", "guest-activate"}
  BY <1>1, <1>4 DEF AfterRollback, AfterRecovery, Steps, Commands
<1> QED
  BY <1>2, <1>3, <1>4 DEF IInv, PlaceOK, CommandOK

-----------------------------------------------------------------------------
(* Steps that touch no file of the transaction                             *)

LEMMA Still ==
  ASSUME IInv, UNCHANGED <<disk, journal>>
  PROVE  FilesOK'
  BY DEF IInv, FilesOK, LocksWhole, SettledCoherent, FlightOK, InFlight,
         Binary, Lock, Previous, PreviousLock

(* A command ends: it keeps the invariant when a staging reports success   *)
(* only without a journal, and an activation only without a candidate.     *)
LEMMA QuitStep ==
  ASSUME IInv, NEW code, Quit(code), UNCHANGED <<disk, journal, role>>,
         job.cmd = "guest-stage" /\ code = "staged" => ~InFlight,
         job.cmd = "guest-activate" /\ code = "zero" => NothingStaged
  PROVE  FilesOK' /\ PlaceOK'
<1>1. /\ pc' = "idle" /\ job' = NoJob /\ role' = role
      /\ InFlight' = InFlight /\ NothingStaged' = NothingStaged
  BY DEF Quit, InFlight, NothingStaged
<1>2. CommandOK' /\ StagingOK' /\ ActivatingOK' /\ RollbackOK' /\ UnlinkOK'
  BY <1>1 DEF CommandOK, StagingOK, ActivatingOK, RollbackOK, UnlinkOK, NoJob,
              RollingBack, Staging, Activating
<1>3. ExitOK'
  <2>1. CASE job.cmd = "recover"
    BY <1>1, <2>1 DEF IInv, PlaceOK, ExitOK, Quit
  <2>2. CASE job.cmd # "recover"
    BY <1>1, <2>2 DEF ExitOK, Quit
  <2> QED
    BY <2>1, <2>2
<1> QED
  BY <1>2, <1>3, Still DEF PlaceOK

(* An error reports success only for an update, which promises neither.    *)
LEMMA RaiseStep ==
  ASSUME IInv, Raise, UNCHANGED <<disk, journal, role>>
  PROVE  FilesOK' /\ PlaceOK'
<1>1. Soft => job.cmd = "update"
  BY DEF Soft
<1> QED
  BY <1>1, QuitStep DEF Raise

(* A command dies and leaves its files as they are.                        *)
LEMMA CrashStep ==
  ASSUME IInv, Crash
  PROVE  IInv'
<1>1. FilesOK' /\ PlaceOK'
  BY QuitStep DEF Crash
<1>2. TypeOK'
  <2>1. pc' \in Steps /\ job' \in Job /\ exit' \in Exit
    BY QuitType DEF Crash, IInv
  <2>2. crashes' \in 0..MaxCrashes
    BY BoundsAssumption DEF Crash, IInv, TypeOK
  <2> QED
    BY <2>1, <2>2 DEF Crash, IInv, TypeOK
<1> QED
  BY <1>1, <1>2 DEF IInv

(* A command ends by itself.                                               *)
LEMMA EndStep ==
  ASSUME IInv, RaiseAgain \/ Done
  PROVE  IInv'
<1>1. CASE RaiseAgain
  BY <1>1, RaiseStep, RaiseType DEF RaiseAgain, IInv, TypeOK, bounds
<1>2. CASE Done
  <2>1. PICK code \in {"zero", "staged"} :
           Quit(code) /\ (code = "staged" <=> job.cmd = "guest-stage")
    BY <1>2 DEF Done
  <2>2. FilesOK' /\ PlaceOK'
    BY <1>2, <2>1, QuitStep DEF Done, IInv, PlaceOK, CommandOK, bounds
  <2>3. pc' \in Steps /\ job' \in Job /\ exit' \in Exit
    BY <2>1, QuitType DEF IInv
  <2> QED
    BY <1>2, <2>2, <2>3 DEF Done, IInv, TypeOK, bounds
<1> QED
  BY <1>1, <1>2

(* A command starts, with the step and release it starts with.             *)
Begun(cmd, step, r) ==
  /\ Start(cmd, step, r)
  /\ step = "recover" => cmd \in {"update", "recover", "guest-stage"}
  /\ step = "rollback" <=> cmd = "guest-rollback"
  /\ step = "activate" <=> cmd = "guest-activate"
  /\ cmd = "update" => role = "user"
  /\ cmd \in {"guest-stage", "guest-activate", "guest-rollback"} => role = "guest"
  /\ cmd = "guest-stage" => r \in Releases
  /\ cmd = "guest-activate" =>
       \/ exit = [cmd |-> "guest-stage", code |-> "staged"]
       \/ exit = [cmd |-> "guest-activate", code |-> "zero"]

(* The five commands begin with a recovery, a rollback or an activation.   *)
LEMMA BeginsWith ==
  ASSUME Begin
  PROVE  \E cmd \in Commands, step \in {"recover", "rollback", "activate"},
            r \in Releases \cup {Absent} : Begun(cmd, step, r)
<1>1. CASE Update
  <2>1. Begun("update", "recover", Absent)
    BY <1>1 DEF Update, Begun
  <2> QED
    BY <2>1 DEF Commands
<1>2. CASE RecoverLocal
  <2>1. Begun("recover", "recover", Absent)
    BY <1>2 DEF RecoverLocal, Begun
  <2> QED
    BY <2>1 DEF Commands
<1>3. CASE GuestActivate
  <2>1. Begun("guest-activate", "activate", Absent)
    BY <1>3 DEF GuestActivate, Begun
  <2> QED
    BY <2>1 DEF Commands
<1>4. CASE GuestRollback
  <2>1. Begun("guest-rollback", "rollback", Absent)
    BY <1>4 DEF GuestRollback, Begun
  <2> QED
    BY <2>1 DEF Commands
<1>5. ASSUME NEW r \in Releases, GuestStage(r)
      PROVE  Begun("guest-stage", "recover", r)
  BY <1>5 DEF GuestStage, Begun
<1>6. CASE \E r \in Releases : GuestStage(r)
  BY <1>5, <1>6 DEF Commands
<1> QED
  BY <1>1, <1>2, <1>3, <1>4, <1>6 DEF Begin

(* Beginning a command touches no file.                                    *)
LEMMA BeginStep ==
  ASSUME IInv, Begin
  PROVE  IInv'
<1>1. PICK cmd \in Commands, step \in {"recover", "rollback", "activate"},
           r \in Releases \cup {Absent} : Begun(cmd, step, r)
  BY BeginsWith
<1>2. /\ pc = "idle" /\ pc' = step
      /\ UNCHANGED <<disk, journal, rejected, exit, role, crashes, faults>>
      /\ job' = [cmd |-> cmd, release |-> r, healthy |-> FALSE, unlink |-> "none",
                 at |-> 0, then |-> "idle"]
  BY <1>1 DEF Begun, Start, NoJob, bounds
<1>3. InFlight' = InFlight /\ NothingStaged' = NothingStaged
  BY <1>2 DEF InFlight, NothingStaged
<1>4. /\ exit = [cmd |-> "guest-activate", code |-> "zero"] => NothingStaged
      /\ exit = [cmd |-> "guest-stage", code |-> "staged"] => ~InFlight
  BY <1>2 DEF IInv, PlaceOK, ExitOK
<1>5. TypeOK'
  <2>1. job' \in Job
    BY <1>1, <1>2 DEF Job, Steps, Absent
  <2> QED
    BY <1>2, <2>1 DEF IInv, TypeOK, Steps
<1>6. CommandOK'
  BY <1>1, <1>2 DEF Begun, CommandOK, RollingBack, Staging, Activating, Commands
<1>7. ExitOK'
  BY <1>2, <1>3, <1>4 DEF ExitOK
<1>8. StagingOK' /\ ActivatingOK' /\ RollbackOK' /\ UnlinkOK'
  BY <1>1, <1>2, <1>3, <1>4
     DEF Begun, StagingOK, ActivatingOK, RollbackOK, UnlinkOK, Staging
<1> QED
  BY <1>2, <1>5, <1>6, <1>7, <1>8, Still DEF IInv, PlaceOK

-----------------------------------------------------------------------------
(* Steps that probe the health of the release                              *)

(* Recovery finds no journal, finds the activation this guest is asked     *)
(* for, or rolls back.                                                     *)
LEMMA RecoverStep ==
  ASSUME IInv, NEW runs \in BOOLEAN, Recover(runs)
  PROVE  IInv'
<1>1. /\ pc = "recover" /\ faults' \in 0..MaxFaults
      /\ UNCHANGED <<disk, journal, rejected, role, crashes>>
      /\ InFlight' = InFlight /\ NothingStaged' = NothingStaged
  BY ProbeType DEF Recover, IInv, InFlight, NothingStaged
<1>2. /\ job.cmd \in {"update", "recover", "guest-stage"} /\ job.then = "idle"
      /\ job.cmd = "guest-stage" => job.release \in Releases
  BY <1>1 DEF IInv, PlaceOK, CommandOK
<1>3. \/ ~InFlight /\ Goto(AfterRecovery) /\ UNCHANGED <<job, exit>>
      \/ job.cmd = "guest-stage" /\ Quit("zero")
      \/ InFlight /\ Goto("rollback") /\ UNCHANGED <<job, exit>>
  BY DEF Recover
<1>4. CASE ~InFlight /\ Goto(AfterRecovery) /\ UNCHANGED <<job, exit>>
  <2>1. \/ pc' = "query" /\ job.cmd = "update"
        \/ pc' = "stage" /\ job.cmd = "guest-stage"
        \/ pc' = "done" /\ job.cmd = "recover"
    BY <1>2, <1>4 DEF AfterRecovery, Goto
  <2>2. TypeOK'
    BY <1>1, <1>4, <2>1 DEF IInv, TypeOK, Steps
  <2>3. CommandOK' /\ ExitOK'
    BY <1>1, <1>2, <1>4, <2>1
       DEF IInv, PlaceOK, CommandOK, ExitOK, RollingBack, Staging, Activating
  <2>4. StagingOK' /\ ActivatingOK' /\ RollbackOK' /\ UnlinkOK'
    BY <1>1, <1>2, <1>4, <2>1
       DEF IInv, PlaceOK, CommandOK, StagingOK, ActivatingOK, RollbackOK, UnlinkOK, Chosen,
           Staging
  <2> QED
    BY <1>1, <2>2, <2>3, <2>4, Still DEF IInv, PlaceOK
<1>5. CASE job.cmd = "guest-stage" /\ Quit("zero")
  BY <1>1, <1>5, QuitStep, QuitType DEF IInv, TypeOK
<1>6. CASE InFlight /\ Goto("rollback") /\ UNCHANGED <<job, exit>>
  <2>1. TypeOK'
    BY <1>1, <1>6 DEF IInv, TypeOK, Steps, Goto
  <2>2. CommandOK' /\ ExitOK'
    BY <1>1, <1>2, <1>6
       DEF IInv, PlaceOK, CommandOK, ExitOK, RollingBack, Staging, Activating, Goto
  <2>3. StagingOK' /\ ActivatingOK' /\ RollbackOK' /\ UnlinkOK'
    BY <1>6 DEF StagingOK, ActivatingOK, RollbackOK, UnlinkOK, Staging, Goto
  <2> QED
    BY <1>1, <2>1, <2>2, <2>3, Still DEF IInv, PlaceOK
<1> QED
  BY <1>3, <1>4, <1>5, <1>6

(* A list of files is about to be unlinked, by a command that returns      *)
(* afterwards to what it was about.                                        *)
LEMMA UnlinkBegins ==
  ASSUME IInv, UNCHANGED <<disk, journal, rejected, exit, role, crashes>>,
         faults' \in 0..MaxFaults, pc # "idle",
         NEW which \in DOMAIN Unlinks, NEW then \in Steps, UnlinkAll(which, then),
         UnlinkOK'
  PROVE  IInv'
<1>1. /\ job' \in Job /\ pc' = "unlink" /\ job'.cmd = job.cmd /\ job'.release = job.release
      /\ InFlight' = InFlight /\ NothingStaged' = NothingStaged
  BY UnlinkAllJob DEF IInv, InFlight, NothingStaged
<1>2. TypeOK'
  BY <1>1 DEF IInv, TypeOK, Steps
<1>3. CommandOK' /\ ExitOK'
  BY <1>1 DEF IInv, PlaceOK, CommandOK, ExitOK, RollingBack, Staging, Activating
<1>4. StagingOK' /\ ActivatingOK' /\ RollbackOK'
  BY <1>1 DEF StagingOK, ActivatingOK, RollbackOK, Staging
<1> QED
  BY <1>2, <1>3, <1>4, Still DEF IInv, PlaceOK

(* Rolling back chooses its list, or the backup, by what the journal and   *)
(* the files say; each choice establishes what it relies on.               *)
LEMMA RollbackStep ==
  ASSUME IInv, NEW runs \in BOOLEAN, Rollback(runs)
  PROVE  IInv'
<1>1. /\ pc = "rollback" /\ faults' \in 0..MaxFaults
      /\ UNCHANGED <<disk, journal, rejected, role, crashes>>
      /\ InFlight' = InFlight
  BY ProbeType DEF Rollback, IInv, InFlight
<1> DEFINE then == AfterRollback
<1>2. /\ then \in Steps
      /\ \/ then = "query" /\ job.cmd = "update"
         \/ then = "stage" /\ job.cmd = "guest-stage"
         \/ then = "done" /\ job.cmd \in {"recover", "guest-rollback"}
         \/ then = "raise" /\ job.cmd \in {"update", "guest-activate"}
  BY <1>1, AfterRollbackSteps DEF RollingBack
<1>3. {"restaging", "bootstrap", "untouched"} \subseteq DOMAIN Unlinks
  BY DEF Unlinks
<1>4. \/ ~InFlight /\ UnlinkAll("restaging", then) /\ UNCHANGED exit
      \/ /\ InFlight /\ ~journal.had_lock
         /\ UnlinkAll("bootstrap", then) /\ UNCHANGED exit
      \/ Raise
      \/ /\ InFlight /\ Untouched(runs)
         /\ UnlinkAll("untouched", then) /\ UNCHANGED exit
      \/ /\ InFlight /\ journal.had_lock
         /\ PreviousLock # Absent /\ Previous = PreviousLock
         /\ Goto("set_aside") /\ UNCHANGED <<job, exit>>
  BY DEF Rollback, IInv, FilesOK, FlightOK, Previous, PreviousLock
<1> HIDE DEF then
<1>5. CASE ~InFlight /\ UnlinkAll("restaging", then) /\ UNCHANGED exit
  <2>1. UnlinkOK'
    BY <1>1, <1>2, <1>3, <1>5, UnlinkAllJob DEF IInv, UnlinkOK, Restaging, Returns
  <2> QED
    BY <1>1, <1>2, <1>3, <1>5, <2>1, UnlinkBegins
<1>6. CASE InFlight /\ ~journal.had_lock /\ UnlinkAll("bootstrap", then) /\ UNCHANGED exit
  <2>1. UnlinkOK'
    BY <1>1, <1>2, <1>3, <1>6, UnlinkAllJob DEF IInv, UnlinkOK, Bootstrap, Returns
  <2> QED
    BY <1>1, <1>2, <1>3, <1>6, <2>1, UnlinkBegins
<1>7. CASE Raise
  BY <1>1, <1>7, RaiseStep, RaiseType DEF IInv, TypeOK
<1>8. CASE InFlight /\ Untouched(runs) /\ UnlinkAll("untouched", then) /\ UNCHANGED exit
  <2>1. /\ journal.had_lock /\ journal.phase = "prepared"
        /\ Lock # Absent /\ Binary = Lock
    BY <1>8 DEF Untouched, Healthy, Lock, Binary
  <2>2. UnlinkOK'
    BY <1>1, <1>2, <1>3, <1>8, <2>1, UnlinkAllJob
       DEF IInv, UnlinkOK, UntouchedFiles, Returns, Lock, Binary
  <2> QED
    BY <1>1, <1>2, <1>3, <1>8, <2>2, UnlinkBegins
<1>9. CASE /\ InFlight /\ journal.had_lock
           /\ PreviousLock # Absent /\ Previous = PreviousLock
           /\ Goto("set_aside") /\ UNCHANGED <<job, exit>>
  <2>1. TypeOK'
    BY <1>1, <1>9 DEF IInv, TypeOK, Steps, Goto
  <2>2. CommandOK' /\ ExitOK'
    BY <1>1, <1>9
       DEF IInv, PlaceOK, CommandOK, ExitOK, RollingBack, Staging, Activating, Goto,
           NothingStaged
  <2>3. StagingOK' /\ ActivatingOK' /\ RollbackOK' /\ UnlinkOK'
    BY <1>1, <1>9 DEF StagingOK, ActivatingOK, RollbackOK, UnlinkOK, Staging, Goto,
                      Previous, PreviousLock
  <2> QED
    BY <1>1, <2>1, <2>2, <2>3, Still DEF IInv, PlaceOK
<1> QED
  BY <1>4, <1>5, <1>6, <1>7, <1>8, <1>9

(* The backup lock goes only once the restored release is healthy.         *)
LEMMA CheckBackStep ==
  ASSUME IInv, NEW runs \in BOOLEAN, CheckBack(runs)
  PROVE  IInv'
<1>1. /\ pc = "check_back" /\ faults' \in 0..MaxFaults
      /\ UNCHANGED <<disk, journal, rejected, role, crashes>>
      /\ InFlight' = InFlight
  BY ProbeType DEF CheckBack, IInv, InFlight
<1> DEFINE then == AfterRollback
<1>2. /\ then \in Steps
      /\ \/ then = "query" /\ job.cmd = "update"
         \/ then = "stage" /\ job.cmd = "guest-stage"
         \/ then = "done" /\ job.cmd \in {"recover", "guest-rollback"}
         \/ then = "raise" /\ job.cmd \in {"update", "guest-activate"}
  BY <1>1, AfterRollbackSteps DEF RollingBack
<1>3. "restored" \in DOMAIN Unlinks
  BY DEF Unlinks
<1>4. \/ UnlinkAll("restored", then) /\ UNCHANGED exit
      \/ Raise
  BY DEF CheckBack
<1> HIDE DEF then
<1>5. CASE UnlinkAll("restored", then) /\ UNCHANGED exit
  <2>1. /\ InFlight /\ journal.had_lock /\ Lock # Absent /\ Binary = Lock
        /\ PreviousLock = Lock
    BY <1>1 DEF IInv, PlaceOK, RollbackOK
  <2>2. UnlinkOK'
    BY <1>1, <1>2, <1>3, <1>5, <2>1, UnlinkAllJob
       DEF IInv, UnlinkOK, Restored, Returns, Lock, Binary, PreviousLock
  <2> QED
    BY <1>1, <1>2, <1>3, <1>5, <2>2, UnlinkBegins
<1>6. CASE Raise
  BY <1>1, <1>6, RaiseStep, RaiseType DEF IInv, TypeOK
<1> QED
  BY <1>4, <1>5, <1>6

(* An update stages no release older than the one in force.                *)
LEMMA QueryStep ==
  ASSUME IInv, NEW runs \in BOOLEAN, QueryFails(runs) \/ \E r \in Releases : Query(r, runs)
  PROVE  IInv'
<1>1. /\ pc = "query" /\ faults' \in 0..MaxFaults
      /\ UNCHANGED <<disk, journal, role, crashes>>
      /\ rejected' \in Releases \cup {Absent}
      /\ InFlight' = InFlight /\ NothingStaged' = NothingStaged
  BY ProbeType DEF QueryFails, Query, IInv, TypeOK, InFlight, NothingStaged
<1>2. job.cmd = "update" /\ ~InFlight
  BY <1>1 DEF IInv, PlaceOK, CommandOK, StagingOK
<1>3. CASE \E code \in {"zero", "nonzero"} : Quit(code)
  <2>1. PICK code \in {"zero", "nonzero"} : Quit(code)
    BY <1>3
  <2> QED
    BY <1>1, <1>2, <2>1, QuitStep, QuitType DEF IInv, TypeOK
<1>4. ASSUME NEW r \in Releases, ~Refused(r), NEW healthy \in BOOLEAN,
             job' = [job EXCEPT !.release = r, !.healthy = healthy],
             Goto("stage"), UNCHANGED exit
      PROVE  IInv'
  <2>1. job' = [cmd |-> job.cmd, release |-> r, healthy |-> healthy, unlink |-> job.unlink,
                at |-> job.at, then |-> job.then]
    BY <1>4 DEF IInv, TypeOK, Job
  <2>2. job' \in Job
    <3>1. /\ job.cmd \in Commands \cup {"none"} /\ job.unlink \in DOMAIN Unlinks \cup {"none"}
          /\ job.at \in Nat /\ job.then \in Steps
      BY DEF IInv, TypeOK, Job
    <3> QED
      BY <2>1, <3>1 DEF Job
  <2>3. TypeOK'
    BY <1>1, <1>4, <2>2 DEF IInv, TypeOK, Steps, Goto
  <2>4. CommandOK' /\ ExitOK'
    BY <1>1, <1>2, <1>4, <2>1
       DEF IInv, PlaceOK, CommandOK, ExitOK, RollingBack, Staging, Activating, Goto
  <2>5. r >= Lock
    <3>1. r \in Nat /\ Lock \in Nat
      BY ContentOf, ReleasesAssumption DEF IInv, Lock, Files
    <3> QED
      BY <1>4, <3>1 DEF Refused, Lock, Absent
  <2>6. StagingOK' /\ ActivatingOK' /\ RollbackOK' /\ UnlinkOK'
    BY <1>1, <1>2, <1>4, <2>1, <2>5
       DEF StagingOK, ActivatingOK, RollbackOK, UnlinkOK, Staging, Chosen, Lock, Goto
  <2> QED
    BY <1>1, <2>3, <2>4, <2>6, Still DEF IInv, PlaceOK
<1>5. CASE QueryFails(runs)
  BY <1>3, <1>5 DEF QueryFails
<1>6. ASSUME NEW r \in Releases, Query(r, runs)
      PROVE  IInv'
  <2>1. Healthy("lock", runs) \in BOOLEAN
    BY DEF Healthy
  <2> QED
    BY <1>3, <1>4, <1>6, <2>1 DEF Query
<1> QED
  BY <1>5, <1>6

(* A candidate is staged over a stale one.                                 *)
LEMMA StageStep ==
  ASSUME IInv, NEW runs \in BOOLEAN, Stage(runs)
  PROVE  IInv'
<1>1. /\ pc = "stage" /\ faults' \in 0..MaxFaults
      /\ UNCHANGED <<disk, journal, rejected, role, crashes>>
      /\ InFlight' = InFlight
  BY ProbeType DEF Stage, IInv, InFlight
<1>2. job.cmd \in {"update", "guest-stage"} /\ ~InFlight /\ Chosen
  BY <1>1 DEF IInv, PlaceOK, CommandOK, StagingOK, Staging
<1>3. CASE Quit("zero")
  BY <1>1, <1>2, <1>3, QuitStep, QuitType DEF IInv, TypeOK
<1>4. CASE UnlinkAll("restaging", "extract") /\ UNCHANGED exit
  <2>1. "restaging" \in DOMAIN Unlinks /\ "extract" \in Steps
    BY DEF Unlinks, Steps
  <2>2. UnlinkOK'
    BY <1>1, <1>2, <1>4, <2>1, UnlinkAllJob DEF IInv, UnlinkOK, Restaging, Chosen, Lock
  <2> QED
    BY <1>1, <1>4, <2>1, <2>2, UnlinkBegins
<1> QED
  BY <1>3, <1>4 DEF Stage

(* Only a guest asks again for what it has activated.                      *)
LEMMA FinalizeStep ==
  ASSUME IInv, NEW runs \in BOOLEAN, FinalizeActivation(runs)
  PROVE  IInv'
<1>1. /\ pc = "activate" /\ NothingStaged /\ faults' \in 0..MaxFaults
      /\ UNCHANGED <<disk, journal, rejected, role, crashes>>
      /\ InFlight' = InFlight /\ NothingStaged' = NothingStaged
  BY ProbeType DEF FinalizeActivation, IInv, InFlight, NothingStaged
<1>2. job.cmd = "guest-activate"
  <2>1. role # "user"
    BY <1>1, ReleasesAssumption
       DEF IInv, PlaceOK, StagingOK, Chosen, NothingStaged, CandidateLock, Absent
  <2> QED
    BY <1>1, <2>1 DEF IInv, PlaceOK, CommandOK, Activating
<1>3. CASE Quit("zero")
  BY <1>1, <1>3, <1>2, QuitStep, QuitType DEF IInv, TypeOK
<1>4. CASE InFlight /\ Healthy("lock", runs) /\ UnlinkAll("finalized", "done") /\ UNCHANGED exit
  <2>1. "finalized" \in DOMAIN Unlinks /\ "done" \in Steps
    BY DEF Unlinks, Steps
  <2>2. UnlinkOK'
    BY <1>1, <1>2, <1>4, <2>1, UnlinkAllJob
       DEF IInv, UnlinkOK, Finalized, Healthy, Lock, Binary
  <2> QED
    BY <1>1, <1>4, <2>1, <2>2, UnlinkBegins
<1>5. CASE Raise
  BY <1>1, <1>5, RaiseStep, RaiseType DEF IInv, TypeOK
<1> QED
  BY <1>3, <1>4, <1>5 DEF FinalizeActivation

(* A healthy activation is committed, an unhealthy one is rolled back.     *)
LEMMA ProveStep ==
  ASSUME IInv, NEW runs \in BOOLEAN, Prove(runs)
  PROVE  IInv'
<1>1. /\ pc = "probe" /\ faults' \in 0..MaxFaults
      /\ UNCHANGED <<disk, journal, rejected, exit, role, crashes>>
      /\ InFlight' = InFlight /\ Prior' = Prior
  BY ProbeType DEF Prove, IInv, InFlight, Prior
<1>2. /\ job.cmd \in {"update", "guest-activate"}
      /\ job.cmd = "update" => role = "user"
      /\ InFlight /\ Lock = CandidateLock /\ Binary = Lock /\ Lock # Absent /\ Candidate = Absent
      /\ role = "user" => Lock >= Prior
  BY <1>1 DEF IInv, PlaceOK, CommandOK, ActivatingOK, Activating
<1>3. CASE job.cmd = "update" /\ UnlinkAll("committed", "done")
  <2>1. "committed" \in DOMAIN Unlinks /\ "done" \in Steps
    BY DEF Unlinks, Steps
  <2>2. UnlinkOK'
    BY <1>1, <1>2, <1>3, <2>1, UnlinkAllJob DEF IInv, UnlinkOK, Committed, Lock, Binary
  <2> QED
    BY <1>1, <1>3, <2>1, <2>2, UnlinkBegins
<1>4. CASE job.cmd # "update" /\ UnlinkAll("activated", "done")
  <2>1. "activated" \in DOMAIN Unlinks /\ "done" \in Steps
    BY DEF Unlinks, Steps
  <2>2. UnlinkOK'
    BY <1>1, <1>2, <1>4, <2>1, UnlinkAllJob DEF IInv, UnlinkOK, Activated, Candidate
  <2> QED
    BY <1>1, <1>4, <2>1, <2>2, UnlinkBegins
<1>5. CASE job' = [job EXCEPT !.then = "raise"] /\ Goto("rollback")
  <2>1. job' \in Job /\ job'.cmd = job.cmd /\ job'.release = job.release /\ job'.then = "raise"
    <3>1. job \in Job
      BY DEF IInv, TypeOK
    <3> QED
      BY <1>5, <3>1 DEF Job, Steps
  <2>2. TypeOK'
    BY <1>1, <1>5, <2>1 DEF IInv, TypeOK, Steps, Goto
  <2>3. CommandOK' /\ ExitOK'
    BY <1>1, <1>2, <1>5, <2>1
       DEF IInv, PlaceOK, CommandOK, ExitOK, RollingBack, Staging, Activating, Goto
  <2>4. StagingOK' /\ ActivatingOK' /\ RollbackOK' /\ UnlinkOK'
    BY <1>5 DEF StagingOK, ActivatingOK, RollbackOK, UnlinkOK, Staging, Goto
  <2> QED
    BY <1>1, <2>2, <2>3, <2>4, Still DEF IInv, PlaceOK
<1> QED
  BY <1>3, <1>4, <1>5 DEF Prove

-----------------------------------------------------------------------------
(* Staging a candidate                                                     *)

LEMMA DownloadStep ==
  ASSUME IInv, DownloadFails
  PROVE  IInv'
<1>1. /\ Raise /\ UNCHANGED <<disk, journal, role, crashes>>
      /\ rejected' \in {rejected, job.release}
      /\ faults' \in 0..MaxFaults
  BY BoundsAssumption DEF DownloadFails, RejectAndQuit, IInv, TypeOK
<1>2. job.release \in Releases \cup {Absent}
  BY DEF IInv, TypeOK, Job
<1> QED
  BY <1>1, <1>2, RaiseStep, RaiseType DEF IInv, TypeOK

(* The candidate is written, and may be left torn.                         *)
LEMMA ExtractStep ==
  ASSUME IInv, Extract
  PROVE  IInv'
<1>1. Write("candidate", Torn) /\ "candidate" \in Files /\ Torn \in Content /\ TypeOK
  BY DEF Extract, Files, Content, IInv
<1>2. /\ disk' \in [Files -> Content] /\ \A g \in Files \ {"candidate"} : disk'[g] = disk[g]
  BY <1>1, WriteFile
<1>3. /\ pc = "extract" /\ pc' = "validate"
      /\ UNCHANGED <<journal, rejected, job, exit, role, crashes, faults>>
      /\ InFlight' = InFlight
  BY DEF Extract, Goto, bounds, InFlight
<1>4. TypeOK'
  BY <1>2, <1>3 DEF IInv, TypeOK, Steps
<1>5. FilesOK'
  BY <1>2, <1>3 DEF IInv, FilesOK, LocksWhole, SettledCoherent, FlightOK, Files,
                    Binary, Lock, Previous, PreviousLock
<1>6. CommandOK' /\ ExitOK'
  BY <1>3 DEF IInv, PlaceOK, CommandOK, ExitOK, RollingBack, Staging, Activating
<1>7. StagingOK' /\ ActivatingOK' /\ RollbackOK' /\ UnlinkOK'
  BY <1>2, <1>3 DEF IInv, PlaceOK, StagingOK, ActivatingOK, RollbackOK, UnlinkOK, Staging,
                    Chosen, Lock, Files
<1> QED
  BY <1>4, <1>5, <1>6, <1>7 DEF IInv, PlaceOK

(* A candidate that does not validate has no lock yet.                     *)
LEMMA ValidateStep ==
  ASSUME IInv, Validate
  PROVE  IInv'
<1>1. pc = "validate" /\ job.cmd \in {"update", "guest-stage"} /\ job.release \in Releases
  BY DEF Validate, IInv, PlaceOK, CommandOK, StagingOK, Staging, Chosen
<1>2. Write("candidate", job.release) /\ "candidate" \in Files /\ job.release \in Content
  BY <1>1 DEF Validate, Files, Content
<1>3. /\ disk' \in [Files -> Content] /\ \A g \in Files \ {"candidate"} : disk'[g] = disk[g]
  BY <1>2, WriteFile DEF IInv
<1>4. UNCHANGED <<journal, role, crashes>> /\ InFlight' = InFlight
  BY DEF Validate, InFlight
<1>5. FilesOK'
  BY <1>3, <1>4 DEF IInv, FilesOK, LocksWhole, SettledCoherent, FlightOK, Files,
                    Binary, Lock, Previous, PreviousLock
<1>6. CASE Goto("stage_lock") /\ UNCHANGED <<rejected, job, exit, faults>>
  <2>1. TypeOK'
    BY <1>3, <1>4, <1>6 DEF IInv, TypeOK, Steps, Goto
  <2>2. CommandOK' /\ ExitOK'
    BY <1>1, <1>4, <1>6
       DEF IInv, PlaceOK, CommandOK, ExitOK, RollingBack, Staging, Activating, Goto
  <2>3. StagingOK' /\ ActivatingOK' /\ RollbackOK' /\ UnlinkOK'
    BY <1>1, <1>3, <1>4, <1>6
       DEF IInv, PlaceOK, StagingOK, ActivatingOK, RollbackOK, UnlinkOK, Staging, Chosen,
           Lock, Files, Goto
  <2> QED
    BY <1>5, <2>1, <2>2, <2>3 DEF IInv, PlaceOK
<1>7. CASE /\ Raise /\ rejected' \in {rejected, job.release}
           /\ faults < MaxFaults /\ faults' = faults + 1
  <2>1. TypeOK'
    BY <1>1, <1>3, <1>4, <1>7, RaiseType, BoundsAssumption DEF IInv, TypeOK
  <2>2. /\ pc' = "idle" /\ job' = NoJob
        /\ exit'.code # "staged" /\ exit'.cmd \in {"update", "guest-stage"}
    BY <1>1, <1>7 DEF Raise, Quit
  <2>3. CommandOK' /\ ExitOK'
    BY <1>4, <2>2 DEF CommandOK, ExitOK, NoJob, RollingBack, Staging, Activating
  <2>4. StagingOK' /\ ActivatingOK' /\ RollbackOK' /\ UnlinkOK'
    BY <2>2 DEF StagingOK, ActivatingOK, RollbackOK, UnlinkOK, Staging
  <2> QED
    BY <1>5, <2>1, <2>3, <2>4 DEF IInv, PlaceOK
<1> QED
  BY <1>6, <1>7 DEF Validate, RejectAndQuit

(* The lock of the candidate is written when the candidate is whole.       *)
LEMMA StageLockStep ==
  ASSUME IInv, StageLock
  PROVE  IInv'
<1>1. /\ pc = "stage_lock" /\ job.cmd \in {"update", "guest-stage"} /\ ~InFlight
      /\ job.release \in Releases /\ job.release \in Content \ {Torn} /\ Chosen
      /\ job.cmd = "guest-stage" => role = "guest"
  BY ReleasesAssumption
     DEF StageLock, IInv, PlaceOK, CommandOK, StagingOK, Staging, Chosen, Content, Torn
<1>2. Write("candidate_lock", job.release) /\ "candidate_lock" \in Files
  BY DEF StageLock, Files
<1>3. /\ disk' \in [Files -> Content] /\ disk'["candidate_lock"] = job.release
      /\ \A g \in Files \ {"candidate_lock"} : disk'[g] = disk[g]
  BY <1>1, <1>2, WriteFile DEF IInv
<1>4. /\ UNCHANGED <<journal, rejected, job, exit, role, crashes, faults>>
      /\ InFlight' = InFlight
      /\ \/ pc' = "activate" /\ job.cmd = "update"
         \/ pc' = "done" /\ job.cmd = "guest-stage"
  BY <1>1 DEF StageLock, bounds, InFlight, Goto
<1>5. TypeOK'
  BY <1>3, <1>4 DEF IInv, TypeOK, Steps
<1>6. FilesOK'
  BY <1>1, <1>3, <1>4 DEF IInv, FilesOK, LocksWhole, SettledCoherent, FlightOK, Files,
                          Binary, Lock, Previous, PreviousLock
<1>7. CommandOK' /\ ExitOK'
  BY <1>1, <1>4 DEF IInv, PlaceOK, CommandOK, ExitOK, RollingBack, Staging, Activating
<1>8. StagingOK' /\ ActivatingOK' /\ RollbackOK' /\ UnlinkOK'
  BY <1>1, <1>3, <1>4
     DEF StagingOK, ActivatingOK, RollbackOK, UnlinkOK, Staging, Chosen, Lock,
         CandidateLock, Files
<1> QED
  BY <1>5, <1>6, <1>7, <1>8 DEF IInv, PlaceOK

-----------------------------------------------------------------------------
(* Activating it                                                           *)

LEMMA ActivateStep ==
  ASSUME IInv, Activate
  PROVE  IInv'
<1>1. /\ pc = "activate" /\ ~NothingStaged /\ UNCHANGED <<disk, journal, rejected>>
      /\ UNCHANGED <<role, crashes, faults>> /\ InFlight' = InFlight
      /\ faults' \in 0..MaxFaults
  BY DEF Activate, InFlight, bounds, IInv, TypeOK
<1>2. /\ job.cmd \in {"update", "guest-activate"} /\ ~InFlight
      /\ role = "user" => CandidateLock >= Lock
  BY <1>1 DEF IInv, PlaceOK, CommandOK, StagingOK, Activating, Chosen
<1>3. CASE Staged /\ UnlinkAll("making_room", "prepare") /\ UNCHANGED exit
  <2>1. "making_room" \in DOMAIN Unlinks /\ "prepare" \in Steps
    BY DEF Unlinks, Steps
  <2>2. UnlinkOK'
    BY <1>1, <1>2, <1>3, <2>1, UnlinkAllJob
       DEF IInv, UnlinkOK, MakingRoom, Staged, Candidate, CandidateLock, Lock
  <2> QED
    BY <1>1, <1>3, <2>1, <2>2, UnlinkBegins
<1>4. CASE Raise
  BY <1>1, <1>4, RaiseStep, RaiseType DEF IInv, TypeOK
<1> QED
  BY <1>3, <1>4 DEF Activate, Staged, Candidate, CandidateLock

(* The journal records whether there was a release, which is then whole.   *)
LEMMA PrepareStep ==
  ASSUME IInv, Prepare
  PROVE  IInv'
<1>1. /\ pc = "prepare" /\ pc' = "backup_lock"
      /\ UNCHANGED <<disk, rejected, job, exit, role, crashes, faults>>
  BY DEF Prepare, Goto, bounds
<1>2. /\ job.cmd \in {"update", "guest-activate"} /\ ~InFlight /\ Binary = Lock
      /\ Staged /\ Previous = Absent /\ PreviousLock = Absent
      /\ role = "user" => CandidateLock >= Lock
  BY <1>1 DEF IInv, FilesOK, SettledCoherent, PlaceOK, CommandOK, StagingOK, Activating,
              Binary, Lock
<1>3. journal' = [phase |-> "prepared", release |-> CandidateLock,
                  had_binary |-> (Binary # Absent), had_lock |-> (Lock # Absent)]
  BY DEF Prepare, NewTransaction, CandidateLock, Binary, Lock
<1>4. CandidateLock \in Releases
  BY <1>2, ContentOf DEF IInv, FilesOK, LocksWhole, Staged, CandidateLock, Files, Content
<1>5. journal' \in Journal /\ InFlight'
  BY <1>3, <1>4 DEF Journal, InFlight, NoJournal, Phases
<1>6. /\ journal'.phase = "prepared" /\ journal'.had_binary = journal'.had_lock
      /\ journal'.had_lock <=> Lock # Absent
  BY <1>2, <1>3
<1>7. TypeOK'
  BY <1>1, <1>5 DEF IInv, TypeOK, Steps
<1>8. FilesOK'
  BY <1>1, <1>2, <1>5, <1>6
     DEF IInv, FilesOK, LocksWhole, SettledCoherent, FlightOK, Binary, Lock, Previous,
         PreviousLock
<1>9. CommandOK' /\ ExitOK'
  BY <1>1, <1>2 DEF IInv, PlaceOK, CommandOK, ExitOK, RollingBack, Staging, Activating
<1>10. role = "user" => CandidateLock >= Prior'
  <2>1. Prior' = IF Lock # Absent THEN Lock ELSE Absent
    BY <1>1, <1>2, <1>6 DEF Prior, Lock, PreviousLock
  <2> QED
    BY <1>2, <2>1 DEF Absent
<1>11. StagingOK' /\ ActivatingOK' /\ RollbackOK' /\ UnlinkOK'
  BY <1>1, <1>2, <1>5, <1>6, <1>10
     DEF StagingOK, ActivatingOK, RollbackOK, UnlinkOK, Staging, Staged,
         Candidate, CandidateLock, Binary, Lock, Previous, PreviousLock
<1> QED
  BY <1>7, <1>8, <1>9, <1>11 DEF IInv, PlaceOK

(* The steps between prepared and swapped keep the candidate staged.       *)
LEMMA BackupLockStep ==
  ASSUME IInv, BackupLock
  PROVE  IInv'
<1>1. /\ pc = "backup_lock" /\ UNCHANGED <<journal, rejected, job, exit, role, crashes, faults>>
      /\ InFlight' = InFlight
      /\ pc' = IF Binary # Absent THEN "backup" ELSE "backed_up"
  BY DEF BackupLock, Goto, bounds, InFlight, Binary
<1>2. /\ job.cmd \in {"update", "guest-activate"} /\ InFlight /\ Binary = Lock
      /\ Staged /\ Previous = Absent /\ PreviousLock = Absent
      /\ journal.phase = "prepared" /\ (journal.had_lock <=> Lock # Absent)
      /\ role = "user" => CandidateLock >= Prior
  BY <1>1 DEF IInv, PlaceOK, CommandOK, ActivatingOK, Activating
<1>3. /\ Lock \in Content /\ Lock # Torn /\ {"lock", "previous_lock"} \subseteq Files
  BY ContentOf DEF IInv, FilesOK, LocksWhole, Lock, Files
<1>4. /\ disk' \in [Files -> Content] /\ disk'["previous_lock"] = Lock
      /\ \A g \in Files \ {"previous_lock"} : disk'[g] = disk[g]
  <2>1. CASE Lock # Absent
    BY <1>3, <2>1, WriteFile DEF BackupLock, IInv, Lock
  <2>2. CASE Lock = Absent
    BY <1>2, <2>2 DEF BackupLock, IInv, TypeOK, Lock, PreviousLock
  <2> QED
    BY <2>1, <2>2
<1>5. TypeOK'
  BY <1>1, <1>4 DEF IInv, TypeOK, Steps
<1>6. FilesOK'
  BY <1>1, <1>2, <1>3, <1>4
     DEF IInv, FilesOK, LocksWhole, SettledCoherent, FlightOK, Files, Binary, Lock, Previous,
         PreviousLock
<1>7. CommandOK' /\ ExitOK'
  BY <1>1, <1>2 DEF IInv, PlaceOK, CommandOK, ExitOK, RollingBack, Staging, Activating
<1>8. Prior' = Prior
  BY <1>1, <1>2, <1>4 DEF Prior, Lock, PreviousLock, Files
<1>9. StagingOK' /\ ActivatingOK' /\ RollbackOK' /\ UnlinkOK'
  BY <1>1, <1>2, <1>4, <1>8
     DEF StagingOK, ActivatingOK, RollbackOK, UnlinkOK, Staging, Staged, BackedUpWhole,
         Candidate, CandidateLock, Binary, Lock, Previous, PreviousLock, Files
<1> QED
  BY <1>5, <1>6, <1>7, <1>9 DEF IInv, PlaceOK

(* The copy of the binary is written, and may be left torn.                *)
LEMMA BackupStep ==
  ASSUME IInv, Backup
  PROVE  IInv'
<1>1. /\ pc = "backup" /\ UNCHANGED <<journal, rejected, job, exit, role, crashes, faults>>
      /\ InFlight' = InFlight /\ pc' = "backup_check"
  BY DEF Backup, Goto, bounds, InFlight
<1>2. /\ job.cmd \in {"update", "guest-activate"} /\ InFlight /\ Binary = Lock
      /\ Staged /\ Lock # Absent /\ PreviousLock = Lock
      /\ journal.phase = "prepared" /\ (journal.had_lock <=> Lock # Absent)
      /\ role = "user" => CandidateLock >= Prior
  BY <1>1 DEF IInv, PlaceOK, CommandOK, ActivatingOK, Activating
<1>3. Write("previous", Torn) /\ "previous" \in Files /\ Torn \in Content
  BY DEF Backup, Files, Content
<1>4. disk' \in [Files -> Content] /\ \A g \in Files \ {"previous"} : disk'[g] = disk[g]
  BY <1>3, WriteFile DEF IInv
<1>5. TypeOK'
  BY <1>1, <1>4 DEF IInv, TypeOK, Steps
<1>6. FilesOK'
  BY <1>1, <1>2, <1>4
     DEF IInv, FilesOK, LocksWhole, SettledCoherent, FlightOK, Files, Binary, Lock, Previous,
         PreviousLock
<1>7. CommandOK' /\ ExitOK'
  BY <1>1, <1>2 DEF IInv, PlaceOK, CommandOK, ExitOK, RollingBack, Staging, Activating
<1>8. Prior' = Prior
  BY <1>1, <1>4 DEF Prior, Files
<1>9. StagingOK' /\ ActivatingOK' /\ RollbackOK' /\ UnlinkOK'
  BY <1>1, <1>2, <1>4, <1>8
     DEF StagingOK, ActivatingOK, RollbackOK, UnlinkOK, Staging, Staged, BackedUpWhole,
         Candidate, CandidateLock, Binary, Lock, Previous, PreviousLock, Files
<1> QED
  BY <1>5, <1>6, <1>7, <1>9 DEF IInv, PlaceOK

(* The backup is verified to be what the lock names, which it is.          *)
LEMMA BackupCheckStep ==
  ASSUME IInv, BackupCheck
  PROVE  IInv'
<1>1. /\ pc = "backup_check" /\ Write("previous", Binary) /\ UNCHANGED <<journal, bounds>>
      /\ InFlight' = InFlight
  BY DEF BackupCheck, InFlight, Binary
<1>2. /\ job.cmd \in {"update", "guest-activate"} /\ InFlight /\ Binary = Lock
      /\ Staged /\ Lock # Absent /\ PreviousLock = Lock
      /\ journal.phase = "prepared" /\ (journal.had_lock <=> Lock # Absent)
      /\ role = "user" => CandidateLock >= Prior
  BY <1>1 DEF IInv, PlaceOK, CommandOK, ActivatingOK, Activating
<1>3. /\ pc' = "backed_up" /\ UNCHANGED <<journal, rejected, job, exit, role, crashes, faults>>
  BY <1>2 DEF BackupCheck, Goto, bounds, Binary, Lock
<1>4. /\ disk' \in [Files -> Content] /\ disk'["previous"] = Binary
      /\ \A g \in Files \ {"previous"} : disk'[g] = disk[g]
  <2>1. "previous" \in Files /\ Binary \in Content
    BY ContentOf DEF IInv, Files, Binary
  <2> QED
    BY <1>1, <2>1, WriteFile DEF IInv
<1>5. TypeOK'
  BY <1>3, <1>4 DEF IInv, TypeOK, Steps
<1>6. FilesOK'
  BY <1>1, <1>2, <1>3, <1>4
     DEF IInv, FilesOK, LocksWhole, SettledCoherent, FlightOK, Files, Binary, Lock, Previous,
         PreviousLock
<1>7. CommandOK' /\ ExitOK'
  BY <1>2, <1>3 DEF IInv, PlaceOK, CommandOK, ExitOK, RollingBack, Staging, Activating
<1>8. Prior' = Prior
  BY <1>3, <1>4 DEF Prior, Files
<1>9. StagingOK' /\ ActivatingOK' /\ RollbackOK' /\ UnlinkOK'
  BY <1>1, <1>2, <1>3, <1>4, <1>8
     DEF StagingOK, ActivatingOK, RollbackOK, UnlinkOK, Staging, Staged, BackedUpWhole,
         Candidate, CandidateLock, Binary, Lock, Previous, PreviousLock, Files
<1> QED
  BY <1>5, <1>6, <1>7, <1>9 DEF IInv, PlaceOK

(* The journal enters a later phase, which the files allow.                *)
LEMMA Entered ==
  ASSUME TypeOK, InFlight, NEW phase \in Phases, Enter(phase)
  PROVE  /\ journal' \in Journal /\ InFlight'
         /\ journal'.phase = phase /\ journal'.release = journal.release
         /\ journal'.had_lock = journal.had_lock /\ journal'.had_binary = journal.had_binary
<1>1. journal \in Journal
  BY DEF TypeOK, InFlight
<1>2. journal' = [journal EXCEPT !.phase = phase]
  BY DEF Enter
<1>3. journal' \in Journal /\ journal'.phase = phase
  BY <1>1, <1>2 DEF Journal
<1>4. /\ journal'.release = journal.release
      /\ journal'.had_lock = journal.had_lock /\ journal'.had_binary = journal.had_binary
  BY <1>1, <1>2 DEF Journal
<1>5. journal' # NoJournal
  BY <1>3 DEF NoJournal, Phases
<1> QED
  BY <1>3, <1>4, <1>5 DEF InFlight

(* The three steps that only move the journal to a later phase             *)
LEMMA PhaseStep ==
  ASSUME IInv, BackedUp \/ MarkHost \/ Verify
  PROVE  IInv'
<1>1. /\ UNCHANGED <<disk, rejected, job, exit, role, crashes, faults>>
      /\ \/ pc = "backed_up" /\ Enter("backed_up") /\ pc' = "swap"
         \/ pc = "mark_host" /\ Enter("activating_host") /\ pc' = "publish"
         \/ pc = "verify" /\ Enter("verifying") /\ pc' = "probe"
  BY DEF BackedUp, MarkHost, Verify, Goto, bounds
<1>2. InFlight /\ job.cmd \in {"update", "guest-activate"}
  BY <1>1 DEF IInv, PlaceOK, CommandOK, ActivatingOK, Activating
<1>3. /\ journal' \in Journal /\ InFlight' /\ journal'.phase # "prepared"
      /\ journal'.had_lock = journal.had_lock /\ journal'.had_binary = journal.had_binary
  BY <1>1, <1>2, Entered DEF IInv, Phases
<1>4. TypeOK'
  BY <1>1, <1>3 DEF IInv, TypeOK, Steps
<1>5. FilesOK'
  BY <1>1, <1>2, <1>3
     DEF IInv, FilesOK, LocksWhole, SettledCoherent, FlightOK, Binary, Lock, Previous,
         PreviousLock
<1>6. CommandOK' /\ ExitOK'
  BY <1>1, <1>2 DEF IInv, PlaceOK, CommandOK, ExitOK, RollingBack, Staging, Activating
<1>7. Prior' = Prior
  BY <1>1, <1>3 DEF Prior
<1>8. StagingOK' /\ RollbackOK' /\ UnlinkOK'
  BY <1>1 DEF StagingOK, RollbackOK, UnlinkOK, Staging
<1>9. ActivatingOK'
  BY <1>1, <1>3, <1>7
     DEF IInv, PlaceOK, ActivatingOK, Staged, BackedUpWhole,
         Candidate, CandidateLock, Binary, Lock, Previous, PreviousLock
<1> QED
  BY <1>4, <1>5, <1>6, <1>8, <1>9 DEF IInv, PlaceOK

(* The candidate is moved into place: the prior binary is backed up.       *)
LEMMA SwapStep ==
  ASSUME IInv, Swap
  PROVE  IInv'
<1>1. /\ pc = "swap" /\ pc' = "mark_host" /\ Rename("candidate", "binary")
      /\ UNCHANGED <<journal, rejected, job, exit, role, crashes, faults>>
      /\ InFlight' = InFlight
  BY DEF Swap, Goto, bounds, InFlight
<1>2. /\ job.cmd \in {"update", "guest-activate"} /\ InFlight /\ Staged /\ BackedUpWhole
      /\ journal.phase # "prepared"
      /\ role = "user" => CandidateLock >= Prior
  BY <1>1 DEF IInv, PlaceOK, CommandOK, ActivatingOK, Activating
<1>3. /\ disk' \in [Files -> Content] /\ disk'["binary"] = Candidate
      /\ disk'["candidate"] = Absent
      /\ \A g \in Files \ {"binary", "candidate"} : disk'[g] = disk[g]
  BY <1>1, RenameFile DEF IInv, Files, Candidate
<1>4. TypeOK'
  BY <1>1, <1>3 DEF IInv, TypeOK, Steps
<1>5. FilesOK'
  BY <1>1, <1>2, <1>3
     DEF IInv, FilesOK, LocksWhole, SettledCoherent, FlightOK, BackedUpWhole, Files, Binary,
         Lock, Previous, PreviousLock
<1>6. CommandOK' /\ ExitOK'
  BY <1>1, <1>2 DEF IInv, PlaceOK, CommandOK, ExitOK, RollingBack, Staging, Activating
<1>7. Prior' = Prior
  BY <1>1, <1>3 DEF Prior, Files
<1>8. StagingOK' /\ ActivatingOK' /\ RollbackOK' /\ UnlinkOK'
  BY <1>1, <1>2, <1>3, <1>7
     DEF StagingOK, ActivatingOK, RollbackOK, UnlinkOK, Staging, Staged, BackedUpWhole,
         Candidate, CandidateLock, Binary, Lock, Previous, PreviousLock, Files
<1> QED
  BY <1>4, <1>5, <1>6, <1>8 DEF IInv, PlaceOK

(* The lock of the candidate becomes the release lock: the prior one is    *)
(* backed up, so the prior release stays named.                            *)
LEMMA PublishStep ==
  ASSUME IInv, Publish
  PROVE  IInv'
<1>1. /\ pc = "publish" /\ pc' \in {"verify", "probe"} /\ Write("lock", CandidateLock)
      /\ UNCHANGED <<journal, rejected, job, exit, role, crashes, faults>>
      /\ InFlight' = InFlight
  BY DEF Publish, Goto, bounds, InFlight, CandidateLock
<1>2. /\ job.cmd \in {"update", "guest-activate"} /\ InFlight /\ BackedUpWhole
      /\ journal.phase # "prepared"
      /\ role = "user" => CandidateLock >= Prior
      /\ CandidateLock # Absent /\ Binary = CandidateLock /\ Candidate = Absent
  BY <1>1 DEF IInv, PlaceOK, CommandOK, ActivatingOK, Activating
<1>3. /\ disk' \in [Files -> Content] /\ disk'["lock"] = CandidateLock
      /\ \A g \in Files \ {"lock"} : disk'[g] = disk[g]
  <2>1. "lock" \in Files /\ CandidateLock \in Content
    BY ContentOf DEF IInv, Files, CandidateLock
  <2> QED
    BY <1>1, <2>1, WriteFile DEF IInv
<1>4. TypeOK'
  BY <1>1, <1>3 DEF IInv, TypeOK, Steps
<1>5. FilesOK'
  BY <1>1, <1>2, <1>3
     DEF IInv, FilesOK, LocksWhole, SettledCoherent, FlightOK, BackedUpWhole, Files, Binary,
         Lock, Previous, PreviousLock, CandidateLock
<1>6. CommandOK' /\ ExitOK'
  BY <1>1, <1>2 DEF IInv, PlaceOK, CommandOK, ExitOK, RollingBack, Staging, Activating
<1>7. Prior' = Prior
  BY <1>1, <1>2, <1>3 DEF Prior, BackedUpWhole, PreviousLock, Files
<1>8. StagingOK' /\ ActivatingOK' /\ RollbackOK' /\ UnlinkOK'
  BY <1>1, <1>2, <1>3, <1>7
     DEF StagingOK, ActivatingOK, RollbackOK, UnlinkOK, Staging, BackedUpWhole,
         Candidate, CandidateLock, Binary, Lock, Previous, PreviousLock, Files
<1> QED
  BY <1>4, <1>5, <1>6, <1>8 DEF IInv, PlaceOK

-----------------------------------------------------------------------------
(* Rolling back                                                            *)

LEMMA SetAsideStep ==
  ASSUME IInv, SetAside
  PROVE  IInv'
<1>1. /\ pc = "set_aside" /\ pc' = "put_back"
      /\ UNCHANGED <<journal, rejected, job, exit, role, crashes, faults>>
      /\ InFlight' = InFlight
  BY DEF SetAside, Goto, bounds, InFlight
<1>2. InFlight /\ journal.had_lock /\ PreviousLock # Absent /\ Previous = PreviousLock
  BY <1>1 DEF IInv, PlaceOK, RollbackOK
<1>3. /\ disk' \in [Files -> Content]
      /\ \A g \in Files \ {"binary", "failed"} : disk'[g] = disk[g]
  <2>1. CASE disk["binary"] # Absent
    BY <2>1, RenameFile DEF SetAside, IInv, Files
  <2>2. CASE disk["binary"] = Absent
    BY <2>2 DEF SetAside, IInv, TypeOK
  <2> QED
    BY <2>1, <2>2
<1>4. TypeOK'
  BY <1>1, <1>3 DEF IInv, TypeOK, Steps
<1>5. FilesOK'
  BY <1>1, <1>2, <1>3
     DEF IInv, FilesOK, LocksWhole, SettledCoherent, FlightOK, Files, Binary, Lock, Previous,
         PreviousLock
<1>6. CommandOK' /\ ExitOK'
  BY <1>1, <1>2, <1>3
     DEF IInv, PlaceOK, CommandOK, ExitOK, RollingBack, Staging, Activating, NothingStaged,
         Files
<1>7. StagingOK' /\ ActivatingOK' /\ RollbackOK' /\ UnlinkOK'
  BY <1>1, <1>2, <1>3
     DEF StagingOK, ActivatingOK, RollbackOK, UnlinkOK, Staging, Previous, PreviousLock, Files
<1> QED
  BY <1>4, <1>5, <1>6, <1>7 DEF IInv, PlaceOK

(* The previous binary is moved back: it is the one its lock names.        *)
LEMMA PutBackStep ==
  ASSUME IInv, PutBack
  PROVE  IInv'
<1>1. /\ pc = "put_back" /\ pc' = "republish" /\ Rename("previous", "binary")
      /\ UNCHANGED <<journal, rejected, job, exit, role, crashes, faults>>
      /\ InFlight' = InFlight
  BY DEF PutBack, Goto, bounds, InFlight
<1>2. InFlight /\ journal.had_lock /\ PreviousLock # Absent /\ Previous = PreviousLock
  BY <1>1 DEF IInv, PlaceOK, RollbackOK
<1>3. /\ disk' \in [Files -> Content] /\ disk'["binary"] = Previous
      /\ \A g \in Files \ {"binary", "previous"} : disk'[g] = disk[g]
  BY <1>1, RenameFile DEF IInv, Files, Previous
<1>4. TypeOK'
  BY <1>1, <1>3 DEF IInv, TypeOK, Steps
<1>5. FilesOK'
  BY <1>1, <1>2, <1>3
     DEF IInv, FilesOK, LocksWhole, SettledCoherent, FlightOK, Files, Binary, Lock, Previous,
         PreviousLock
<1>6. CommandOK' /\ ExitOK'
  BY <1>1, <1>2, <1>3
     DEF IInv, PlaceOK, CommandOK, ExitOK, RollingBack, Staging, Activating, NothingStaged,
         Files
<1>7. StagingOK' /\ ActivatingOK' /\ RollbackOK' /\ UnlinkOK'
  BY <1>1, <1>2, <1>3
     DEF StagingOK, ActivatingOK, RollbackOK, UnlinkOK, Staging, Binary, Previous,
         PreviousLock, Files
<1> QED
  BY <1>4, <1>5, <1>6, <1>7 DEF IInv, PlaceOK

(* And its lock is published again.                                        *)
LEMMA RepublishStep ==
  ASSUME IInv, Republish
  PROVE  IInv'
<1>1. /\ pc = "republish" /\ pc' = "check_back" /\ Write("lock", PreviousLock)
      /\ UNCHANGED <<journal, rejected, job, exit, role, crashes, faults>>
      /\ InFlight' = InFlight
  BY DEF Republish, Goto, bounds, InFlight, PreviousLock
<1>2. InFlight /\ journal.had_lock /\ PreviousLock # Absent /\ Binary = PreviousLock
  BY <1>1 DEF IInv, PlaceOK, RollbackOK
<1>3. /\ disk' \in [Files -> Content] /\ disk'["lock"] = PreviousLock
      /\ \A g \in Files \ {"lock"} : disk'[g] = disk[g]
  <2>1. "lock" \in Files /\ PreviousLock \in Content
    BY ContentOf DEF IInv, Files, PreviousLock
  <2> QED
    BY <1>1, <2>1, WriteFile DEF IInv
<1>4. TypeOK'
  BY <1>1, <1>3 DEF IInv, TypeOK, Steps
<1>5. FilesOK'
  BY <1>1, <1>2, <1>3
     DEF IInv, FilesOK, LocksWhole, SettledCoherent, FlightOK, Files, Binary, Lock, Previous,
         PreviousLock
<1>6. CommandOK' /\ ExitOK'
  BY <1>1, <1>2, <1>3
     DEF IInv, PlaceOK, CommandOK, ExitOK, RollingBack, Staging, Activating, NothingStaged,
         Files
<1>7. StagingOK' /\ ActivatingOK' /\ RollbackOK' /\ UnlinkOK'
  BY <1>1, <1>2, <1>3
     DEF StagingOK, ActivatingOK, RollbackOK, UnlinkOK, Staging, Binary, Lock,
         PreviousLock, Files
<1> QED
  BY <1>4, <1>5, <1>6, <1>7 DEF IInv, PlaceOK

-----------------------------------------------------------------------------
(* Unlinking                                                               *)

(* One file of the list is gone, or the journal, and nothing else.         *)
Gone(f) ==
  /\ disk' \in [Files -> Content]
  /\ f # "journal" => /\ disk'[f] = Absent /\ journal' = journal
                      /\ \A g \in Files \ {f} : disk'[g] = disk[g]
  /\ f = "journal" => journal' = NoJournal /\ disk' = disk

(* What unlinking leaves alone                                             *)
Rest == UNCHANGED <<rejected, exit, role, crashes, faults>>

(* The command goes on to the next file of its list.                       *)
Advances ==
  /\ pc' = "unlink" /\ job' \in Job
  /\ job'.cmd = job.cmd /\ job'.release = job.release
  /\ job'.unlink = job.unlink /\ job'.at = job.at + 1 /\ job'.then = job.then

(* One step of unlinking, given the file at its place in the list          *)
LEMMA UnlinkEffect ==
  ASSUME IInv, Unlink, NEW f \in Files \cup {"journal"}, NEW n \in Nat,
         Unlinks[job.unlink][job.at] = f, Len(Unlinks[job.unlink]) = n
  PROVE  /\ Gone(f) /\ Rest
         /\ job.at < n => Advances
         /\ ~(job.at < n) => pc' = job.then /\ job' = job
<1>1. Rest
  BY DEF Unlink, Rest, bounds
<1>2. Gone(f)
  <2>1. "journal" \notin Files /\ Absent \in Content
    BY DEF Files, Content
  <2>2. CASE f = "journal"
    BY <2>2 DEF Unlink, Gone, IInv, TypeOK
  <2>3. CASE f # "journal"
    <3>1. Write(f, Absent) /\ journal' = journal /\ f \in Files
      BY <2>3 DEF Unlink
    <3> QED
      BY <2>1, <2>3, <3>1, WriteFile DEF IInv, Gone
  <2> QED
    BY <2>2, <2>3
<1>3. ASSUME job.at < n PROVE Advances
  <2>1. /\ job \in Job /\ job' = [job EXCEPT !.at = @ + 1] /\ pc' = "unlink"
    BY <1>3 DEF IInv, TypeOK, Unlink
  <2>2. job' = [cmd |-> job.cmd, release |-> job.release, healthy |-> job.healthy,
                unlink |-> job.unlink, at |-> job.at + 1, then |-> job.then]
    BY <2>1 DEF Job
  <2>3. job' \in Job
    <3>1. /\ job.cmd \in Commands \cup {"none"} /\ job.release \in Releases \cup {Absent}
          /\ job.healthy \in BOOLEAN /\ job.unlink \in DOMAIN Unlinks \cup {"none"}
          /\ job.at \in Nat /\ job.then \in Steps
      BY <2>1 DEF Job
    <3> QED
      BY <2>2, <3>1 DEF Job
  <2> QED
    BY <2>1, <2>2, <2>3 DEF Advances
<1>4. ~(job.at < n) => pc' = job.then /\ job' = job
  BY DEF Unlink
<1> QED
  BY <1>1, <1>2, <1>3, <1>4

(* Going on to the next file of the list.                                  *)
LEMMA UnlinkGoesOn ==
  ASSUME IInv, pc = "unlink", NEW f \in Files \cup {"journal"}, Gone(f), Rest, Advances,
         FilesOK', UnlinkOK'
  PROVE  IInv'
<1>1. /\ InFlight' => InFlight
      /\ NothingStaged => NothingStaged'
  BY DEF Gone, InFlight, NothingStaged, Files
<1>2. TypeOK'
  BY DEF IInv, TypeOK, Gone, Rest, Advances, Steps
<1>3. CommandOK' /\ ExitOK'
  BY <1>1 DEF IInv, PlaceOK, CommandOK, ExitOK, Rest, Advances, RollingBack, Staging, Activating
<1>4. StagingOK' /\ ActivatingOK' /\ RollbackOK'
  BY DEF Advances, StagingOK, ActivatingOK, RollbackOK, Staging
<1> QED
  BY <1>2, <1>3, <1>4 DEF IInv, PlaceOK

(* Returning from a rollback, or from the removal of a stale candidate.    *)
LEMMA UnlinkReturns ==
  ASSUME IInv, pc = "unlink", NEW f \in Files \cup {"journal"}, Gone(f), Rest,
         pc' = job.then, job' = job, Returns, ~InFlight', FilesOK'
  PROVE  IInv'
<1>1. NothingStaged => NothingStaged'
  BY DEF Gone, NothingStaged, Files
<1>2. TypeOK'
  BY DEF IInv, TypeOK, Gone, Rest, Returns, Steps
<1>3. CommandOK' /\ ExitOK'
  BY <1>1 DEF IInv, PlaceOK, CommandOK, ExitOK, Rest, Returns, RollingBack, Staging, Activating
<1>4. StagingOK' /\ ActivatingOK' /\ RollbackOK' /\ UnlinkOK'
  BY DEF IInv, PlaceOK, CommandOK, Rest, Returns, StagingOK, ActivatingOK, RollbackOK,
         UnlinkOK, Staging, Chosen
<1> QED
  BY <1>2, <1>3, <1>4 DEF IInv, PlaceOK

(* An activation whose last file is gone has nothing staged.               *)
LEMMA UnlinkDone ==
  ASSUME IInv, pc = "unlink", NEW f \in Files \cup {"journal"}, Gone(f), Rest,
         pc' = "done", job' = job, job.cmd \in {"update", "guest-activate"},
         job.cmd = "guest-activate" => NothingStaged', FilesOK'
  PROVE  IInv'
<1>1. TypeOK'
  BY DEF IInv, TypeOK, Gone, Rest, Steps
<1>2. CommandOK' /\ ExitOK'
  BY DEF IInv, PlaceOK, CommandOK, ExitOK, Rest, RollingBack, Staging, Activating
<1>3. StagingOK' /\ ActivatingOK' /\ RollbackOK' /\ UnlinkOK'
  BY DEF StagingOK, ActivatingOK, RollbackOK, UnlinkOK, Staging
<1> QED
  BY <1>1, <1>2, <1>3 DEF IInv, PlaceOK

(* The files of a transaction do not need a candidate.                     *)
LEMMA CandidateGone ==
  ASSUME IInv, NEW f \in {"candidate", "candidate_lock", "failed"}, Gone(f)
  PROVE  /\ FilesOK' /\ InFlight' = InFlight /\ journal' = journal
         /\ Binary' = Binary /\ Lock' = Lock /\ PreviousLock' = PreviousLock
<1>1. /\ journal' = journal /\ InFlight' = InFlight
      /\ \A g \in Files \ {f} : disk'[g] = disk[g]
      /\ disk'[f] = Absent
  BY DEF Gone, InFlight
<1>2. FilesOK'
  BY <1>1 DEF IInv, FilesOK, LocksWhole, SettledCoherent, FlightOK, Files, Binary, Lock,
              Previous, PreviousLock, Absent, Torn
<1> QED
  BY <1>1, <1>2 DEF Binary, Lock, PreviousLock, Files

(* The stale candidate goes.                                               *)
LEMMA RestagingStep ==
  ASSUME IInv, Unlink, job.unlink = "restaging", job.at \in 1..2, Restaging
  PROVE  IInv'
<1> DEFINE f == IF job.at = 1 THEN "candidate" ELSE "candidate_lock"
<1>1. /\ Unlinks[job.unlink][job.at] = f /\ Len(Unlinks[job.unlink]) = 2
      /\ f \in {"candidate", "candidate_lock"} /\ pc = "unlink"
  BY DEF Unlinks, Unlink
<1> HIDE DEF f
<1>2. f \in Files
  BY <1>1 DEF Files
<1>3. /\ Gone(f) /\ Rest
      /\ job.at < 2 => Advances
      /\ ~(job.at < 2) => pc' = job.then /\ job' = job
  BY <1>1, <1>2, UnlinkEffect
<1>4. FilesOK' /\ InFlight' = InFlight /\ Lock' = Lock
  BY <1>1, <1>3, CandidateGone
<1>5. CASE job.at = 1
  <2>1. UnlinkOK'
    BY <1>3, <1>4, <1>5 DEF UnlinkOK, Advances, Restaging, Returns, Chosen, Rest
  <2> QED
    BY <1>1, <1>2, <1>3, <1>4, <1>5, <2>1, UnlinkGoesOn
<1>6. CASE job.at = 2 /\ Returns
  BY <1>1, <1>2, <1>3, <1>4, <1>6, UnlinkReturns DEF Restaging
<1>7. CASE /\ job.at = 2
           /\ job.then = "extract" /\ job.cmd \in {"update", "guest-stage"} /\ Chosen
  <2>1. pc' = "extract" /\ job' = job /\ ~InFlight'
    BY <1>3, <1>4, <1>7 DEF Restaging
  <2>2. TypeOK'
    BY <1>3, <2>1 DEF IInv, TypeOK, Gone, Rest, Steps
  <2>3. CommandOK' /\ ExitOK'
    BY <1>3, <1>7, <2>1
       DEF IInv, PlaceOK, CommandOK, ExitOK, Rest, RollingBack, Staging, Activating
  <2>4. StagingOK' /\ ActivatingOK' /\ RollbackOK' /\ UnlinkOK'
    BY <1>3, <1>4, <1>7, <2>1
       DEF StagingOK, ActivatingOK, RollbackOK, UnlinkOK, Staging, Chosen, Rest
  <2> QED
    BY <1>4, <2>2, <2>3, <2>4 DEF IInv, PlaceOK
<1> QED
  BY <1>5, <1>6, <1>7 DEF Restaging

(* The generation before the last goes, and the activation is prepared.    *)
LEMMA MakingRoomStep ==
  ASSUME IInv, Unlink, job.unlink = "making_room", job.at \in 1..2, MakingRoom
  PROVE  IInv'
<1> DEFINE f == IF job.at = 1 THEN "previous" ELSE "previous_lock"
<1>1. /\ Unlinks[job.unlink][job.at] = f /\ Len(Unlinks[job.unlink]) = 2
      /\ f \in {"previous", "previous_lock"} /\ pc = "unlink"
  BY DEF Unlinks, Unlink
<1>2. f \in Files
  BY <1>1 DEF Files
<1>3. job.at = 1 => f = "previous"
  OBVIOUS
<1>4. job.at = 2 => f = "previous_lock"
  OBVIOUS
<1> HIDE DEF f
<1>5. /\ Gone(f) /\ Rest
      /\ job.at < 2 => Advances
      /\ ~(job.at < 2) => pc' = job.then /\ job' = job
  BY <1>1, <1>2, UnlinkEffect
<1>6. /\ journal' = journal /\ InFlight' = InFlight /\ ~InFlight
      /\ disk'[f] = Absent /\ \A g \in Files \ {f} : disk'[g] = disk[g]
  BY <1>1, <1>5 DEF Gone, InFlight, MakingRoom
<1>7. FilesOK'
  BY <1>1, <1>6 DEF IInv, FilesOK, LocksWhole, SettledCoherent, FlightOK, Files, Absent, Torn
<1>8. /\ Staged' /\ Lock' = Lock /\ CandidateLock' = CandidateLock
  BY <1>1, <1>6 DEF MakingRoom, Staged, Lock, Candidate, CandidateLock, Files
<1>9. CASE job.at = 1
  <2>1. UnlinkOK'
    BY <1>3, <1>5, <1>6, <1>8, <1>9 DEF UnlinkOK, Advances, MakingRoom, Rest, Previous
  <2> QED
    BY <1>1, <1>2, <1>5, <1>7, <1>9, <2>1, UnlinkGoesOn
<1>10. CASE job.at = 2
  <2>1. /\ pc' = "prepare" /\ job' = job /\ job.cmd \in {"update", "guest-activate"}
        /\ Previous' = Absent /\ PreviousLock' = Absent
    BY <1>4, <1>5, <1>6, <1>10 DEF MakingRoom, Previous, PreviousLock, Files
  <2>2. TypeOK'
    BY <1>5, <2>1 DEF IInv, TypeOK, Gone, Rest, Steps
  <2>3. CommandOK' /\ ExitOK'
    BY <1>5, <2>1 DEF IInv, PlaceOK, CommandOK, ExitOK, Rest, RollingBack, Staging, Activating
  <2>4. StagingOK' /\ ActivatingOK' /\ RollbackOK' /\ UnlinkOK'
    BY <1>5, <1>6, <1>8, <2>1
       DEF MakingRoom, StagingOK, ActivatingOK, RollbackOK, UnlinkOK, Staging, Rest
  <2> QED
    BY <1>7, <2>2, <2>3, <2>4 DEF IInv, PlaceOK
<1> QED
  BY <1>9, <1>10

(* With no prior release everything goes, the journal last.                *)
LEMMA BootstrapStep ==
  ASSUME IInv, Unlink, job.unlink = "bootstrap", job.at \in 1..5, Bootstrap
  PROVE  IInv'
<1> DEFINE f == <<"binary", "lock", "candidate", "candidate_lock", "journal">>[job.at]
<1>1. /\ Unlinks[job.unlink][job.at] = f /\ Len(Unlinks[job.unlink]) = 5 /\ pc = "unlink"
  BY DEF Unlinks, Unlink
<1>2. /\ job.at = 1 => f = "binary"
      /\ job.at = 2 => f = "lock"
      /\ job.at \in 3..4 => f \in {"candidate", "candidate_lock"}
      /\ job.at = 5 => f = "journal"
  OBVIOUS
<1>3. f \in Files \cup {"journal"}
  BY <1>2 DEF Files
<1> HIDE DEF f
<1>4. /\ Gone(f) /\ Rest
      /\ job.at < 5 => Advances
      /\ ~(job.at < 5) => pc' = job.then /\ job' = job
  BY <1>1, <1>3, UnlinkEffect
<1>5. CASE job.at < 5
  <2>1. /\ f # "journal" /\ journal' = journal /\ InFlight' /\ InFlight
        /\ disk'[f] = Absent /\ \A g \in Files \ {f} : disk'[g] = disk[g]
    BY <1>2, <1>4, <1>5 DEF Gone, InFlight, Bootstrap
  <2>2. FilesOK'
    BY <1>3, <2>1 DEF IInv, FilesOK, LocksWhole, SettledCoherent, FlightOK, Bootstrap, Files,
                      Absent, Torn
  <2>3. /\ job.at >= 1 => Binary' = Absent
        /\ job.at >= 2 => Lock' = Absent
    BY <1>2, <1>5, <2>1 DEF Bootstrap, Binary, Lock, Files
  <2>4. UnlinkOK'
    BY <1>4, <1>5, <2>1, <2>3 DEF UnlinkOK, Advances, Bootstrap, Returns
  <2> QED
    BY <1>1, <1>3, <1>4, <1>5, <2>2, <2>4, UnlinkGoesOn
<1>6. CASE job.at = 5
  <2>1. disk' = disk /\ ~InFlight' /\ Binary = Absent /\ Lock = Absent
    BY <1>2, <1>4, <1>6 DEF Gone, InFlight, Bootstrap
  <2>2. FilesOK'
    BY <2>1 DEF IInv, FilesOK, LocksWhole, SettledCoherent, FlightOK, Binary, Lock
  <2> QED
    BY <1>1, <1>3, <1>4, <1>6, <2>1, <2>2, UnlinkReturns DEF Bootstrap
<1> QED
  BY <1>5, <1>6

(* An activation that had not touched the release is abandoned.            *)
LEMMA UntouchedStep ==
  ASSUME IInv, Unlink, job.unlink = "untouched", job.at \in 1..5, UntouchedFiles
  PROVE  IInv'
<1> DEFINE f == <<"previous", "previous_lock", "candidate", "candidate_lock", "journal">>[job.at]
<1>1. /\ Unlinks[job.unlink][job.at] = f /\ Len(Unlinks[job.unlink]) = 5 /\ pc = "unlink"
  BY DEF Unlinks, Unlink
<1>2. /\ job.at = 1 => f = "previous"
      /\ job.at = 2 => f = "previous_lock"
      /\ job.at \in 3..4 => f \in {"candidate", "candidate_lock"}
      /\ job.at = 5 => f = "journal"
  OBVIOUS
<1>3. f \in Files \cup {"journal"}
  BY <1>2 DEF Files
<1> HIDE DEF f
<1>4. /\ Gone(f) /\ Rest
      /\ job.at < 5 => Advances
      /\ ~(job.at < 5) => pc' = job.then /\ job' = job
  BY <1>1, <1>3, UnlinkEffect
<1>5. CASE job.at < 5
  <2>1. /\ f \notin {"journal", "binary", "lock"} /\ journal' = journal /\ InFlight' /\ InFlight
        /\ disk'[f] = Absent /\ \A g \in Files \ {f} : disk'[g] = disk[g]
    BY <1>2, <1>4, <1>5 DEF Gone, InFlight, UntouchedFiles
  <2>2. Binary' = Binary /\ Lock' = Lock /\ PreviousLock' \in {Absent, PreviousLock}
    BY <2>1 DEF Binary, Lock, PreviousLock, Files
  <2>3. FilesOK'
    <3>1. LocksWhole'
      BY <1>3, <2>1 DEF IInv, FilesOK, LocksWhole, Files, Absent, Torn
    <3> QED
      BY <2>1, <2>2, <3>1 DEF IInv, FilesOK, SettledCoherent, FlightOK, UntouchedFiles
  <2>4. job.at >= 2 => PreviousLock' = Absent
    BY <1>2, <1>5, <2>1, <2>2 DEF UntouchedFiles, PreviousLock
  <2>5. UnlinkOK'
    BY <1>4, <1>5, <2>1, <2>2, <2>4 DEF UnlinkOK, Advances, UntouchedFiles, Returns
  <2> QED
    BY <1>1, <1>3, <1>4, <1>5, <2>3, <2>5, UnlinkGoesOn
<1>6. CASE job.at = 5
  <2>1. disk' = disk /\ ~InFlight' /\ Binary = Lock
    BY <1>2, <1>4, <1>6 DEF Gone, InFlight, UntouchedFiles
  <2>2. FilesOK'
    BY <2>1 DEF IInv, FilesOK, LocksWhole, SettledCoherent, FlightOK, Binary, Lock
  <2> QED
    BY <1>1, <1>3, <1>4, <1>6, <2>1, <2>2, UnlinkReturns DEF UntouchedFiles
<1> QED
  BY <1>5, <1>6

(* The prior release is back and healthy: its backup lock goes first.      *)
LEMMA RestoredStep ==
  ASSUME IInv, Unlink, job.unlink = "restored", job.at \in 1..5, Restored
  PROVE  IInv'
<1> DEFINE f == <<"previous_lock", "failed", "journal", "candidate", "candidate_lock">>[job.at]
<1>1. /\ Unlinks[job.unlink][job.at] = f /\ Len(Unlinks[job.unlink]) = 5 /\ pc = "unlink"
  BY DEF Unlinks, Unlink
<1>2. /\ job.at = 1 => f = "previous_lock"
      /\ job.at = 2 => f = "failed"
      /\ job.at = 3 => f = "journal"
      /\ job.at \in 4..5 => f \in {"candidate", "candidate_lock"}
  OBVIOUS
<1>3. f \in Files \cup {"journal"}
  BY <1>2 DEF Files
<1> HIDE DEF f
<1>4. /\ Gone(f) /\ Rest
      /\ job.at < 5 => Advances
      /\ ~(job.at < 5) => pc' = job.then /\ job' = job
  BY <1>1, <1>3, UnlinkEffect
<1>5. CASE job.at = 1
  <2>1. /\ journal' = journal /\ InFlight' /\ InFlight
        /\ disk'["previous_lock"] = Absent
        /\ \A g \in Files \ {"previous_lock"} : disk'[g] = disk[g]
    BY <1>2, <1>4, <1>5 DEF Gone, InFlight, Restored
  <2>2. Binary' = Binary /\ Lock' = Lock /\ PreviousLock' = Absent
    BY <2>1 DEF Binary, Lock, PreviousLock, Files
  <2>3. FilesOK'
    <3>1. LocksWhole'
      BY <2>1 DEF IInv, FilesOK, LocksWhole, Files, Absent, Torn
    <3> QED
      BY <1>5, <2>1, <2>2, <3>1 DEF IInv, FilesOK, SettledCoherent, FlightOK, Restored
  <2>4. UnlinkOK'
    BY <1>4, <1>5, <2>1, <2>2 DEF UnlinkOK, Advances, Restored, Returns
  <2> QED
    BY <1>1, <1>3, <1>4, <1>5, <2>3, <2>4, UnlinkGoesOn
<1>6. CASE job.at \in {2, 4}
  <2>1. f \in {"candidate", "candidate_lock", "failed"}
    BY <1>2, <1>6
  <2>2. /\ FilesOK' /\ InFlight' = InFlight /\ journal' = journal
        /\ Binary' = Binary /\ Lock' = Lock /\ PreviousLock' = PreviousLock
    BY <1>4, <2>1, CandidateGone
  <2>3. UnlinkOK'
    BY <1>4, <1>6, <2>2 DEF UnlinkOK, Advances, Restored, Returns
  <2> QED
    BY <1>1, <1>3, <1>4, <1>6, <2>2, <2>3, UnlinkGoesOn
<1>7. CASE job.at = 3
  <2>1. disk' = disk /\ ~InFlight' /\ Binary = Lock
    BY <1>2, <1>4, <1>7 DEF Gone, InFlight, Restored
  <2>2. FilesOK'
    BY <2>1 DEF IInv, FilesOK, LocksWhole, SettledCoherent, FlightOK, Binary, Lock
  <2>3. UnlinkOK'
    BY <1>4, <1>7, <2>1 DEF UnlinkOK, Advances, Restored, Returns
  <2> QED
    BY <1>1, <1>3, <1>4, <1>7, <2>2, <2>3, UnlinkGoesOn
<1>8. CASE job.at = 5
  <2>1. FilesOK' /\ ~InFlight'
    BY <1>2, <1>4, <1>8, CandidateGone DEF Restored
  <2> QED
    BY <1>1, <1>3, <1>4, <1>8, <2>1, UnlinkReturns DEF Restored
<1> QED
  BY <1>5, <1>6, <1>7, <1>8

(* A guest's activation keeps its journal; a machine's own is committed.   *)
LEMMA ProvenStep ==
  ASSUME IInv, Unlink,
         \/ job.unlink = "activated" /\ job.at = 1 /\ Activated
         \/ job.unlink = "committed" /\ job.at = 1 /\ Committed
  PROVE  IInv'
<1> DEFINE n == IF job.unlink = "activated" THEN 1 ELSE 2
<1>1. /\ Unlinks[job.unlink][job.at] = "candidate_lock" /\ Len(Unlinks[job.unlink]) = n
      /\ pc = "unlink"
  <2>1. CASE job.unlink = "activated" /\ job.at = 1
    BY <2>1 DEF Unlinks, Unlink
  <2>2. CASE job.unlink = "committed" /\ job.at = 1
    BY <2>2 DEF Unlinks, Unlink
  <2> QED
    BY <2>1, <2>2
<1>2. n \in Nat /\ (n = 1 <=> job.unlink = "activated") /\ n \in {1, 2}
  OBVIOUS
<1> HIDE DEF n
<1>3. "candidate_lock" \in Files
  BY DEF Files
<1>4. /\ Gone("candidate_lock") /\ Rest
      /\ job.at < n => Advances
      /\ ~(job.at < n) => pc' = job.then /\ job' = job
  BY <1>1, <1>2, <1>3, UnlinkEffect
<1>5. /\ FilesOK' /\ InFlight' = InFlight /\ journal' = journal
      /\ Binary' = Binary /\ Lock' = Lock /\ PreviousLock' = PreviousLock
  BY <1>4, CandidateGone
<1>6. CASE job.unlink = "activated" /\ job.at = 1 /\ Activated
  <2>1. NothingStaged'
    BY <1>4, <1>6 DEF Activated, NothingStaged, Candidate, Gone, Files
  <2> QED
    BY <1>1, <1>2, <1>3, <1>4, <1>5, <1>6, <2>1, UnlinkDone DEF Activated
<1>7. CASE job.unlink = "committed" /\ job.at = 1 /\ Committed
  <2>1. Prior' = Prior
    BY <1>5 DEF Prior, PreviousLock, Lock
  <2>2. UnlinkOK'
    BY <1>2, <1>4, <1>5, <1>7, <2>1 DEF UnlinkOK, Advances, Committed
  <2> QED
    BY <1>1, <1>2, <1>3, <1>4, <1>5, <1>7, <2>2, UnlinkGoesOn
<1> QED
  BY <1>6, <1>7

(* The journal of a proven activation goes.                                *)
LEMMA CommitStep ==
  ASSUME IInv, Unlink,
         \/ job.unlink = "committed" /\ job.at = 2 /\ Committed
         \/ job.unlink = "finalized" /\ job.at = 1 /\ Finalized
  PROVE  IInv'
<1> DEFINE n == IF job.unlink = "finalized" THEN 1 ELSE 2
<1>1. /\ Unlinks[job.unlink][job.at] = "journal" /\ Len(Unlinks[job.unlink]) = n
      /\ pc = "unlink" /\ n \in Nat /\ ~(job.at < n)
  <2>1. CASE job.unlink = "committed" /\ job.at = 2
    BY <2>1 DEF Unlinks, Unlink
  <2>2. CASE job.unlink = "finalized" /\ job.at = 1
    BY <2>2 DEF Unlinks, Unlink
  <2> QED
    BY <2>1, <2>2
<1> HIDE DEF n
<1>2. Gone("journal") /\ Rest /\ pc' = job.then /\ job' = job
  BY <1>1, UnlinkEffect
<1>3. disk' = disk /\ ~InFlight' /\ NothingStaged' = NothingStaged /\ Binary = Lock
  BY <1>2 DEF Gone, InFlight, NothingStaged, Committed, Finalized
<1>4. FilesOK'
  BY <1>3 DEF IInv, FilesOK, LocksWhole, SettledCoherent, FlightOK, Binary, Lock
<1>5. /\ pc' = "done" /\ job.cmd \in {"update", "guest-activate"}
      /\ job.cmd = "guest-activate" => NothingStaged
  BY <1>2 DEF Committed, Finalized
<1> QED
  BY <1>1, <1>2, <1>3, <1>4, <1>5, UnlinkDone

(* Whichever list it is, unlinking its next file keeps the invariant.      *)
LEMMA UnlinkStep ==
  ASSUME IInv, Unlink
  PROVE  IInv'
<1>1. UnlinkOK /\ pc = "unlink"
  BY DEF IInv, PlaceOK, Unlink
<1>2. \A i \in 1..2 : i = 1 \/ i = 2
  OBVIOUS
<1> QED
  BY <1>1, <1>2, RestagingStep, MakingRoomStep, BootstrapStep, UntouchedStep, RestoredStep,
     ProvenStep, CommitStep
     DEF UnlinkOK

-----------------------------------------------------------------------------
(* The invariant                                                           *)

LEMMA InitIInv == Init => IInv
<1> SUFFICES ASSUME Init PROVE IInv
  OBVIOUS
<1>1. PICK r \in Releases \cup {Absent} :
         disk = [f \in Files |-> IF f \in {"binary", "lock"} THEN r ELSE Absent]
  BY DEF Init
<1>2. TypeOK
  <2>1. disk \in [Files -> Content]
    BY <1>1 DEF Content
  <2>2. job \in Job /\ exit \in Exit
    BY DEF Init, NoJob, Job, Exit, Steps, Absent
  <2> QED
    BY <2>1, <2>2, BoundsAssumption DEF Init, TypeOK, Steps
<1>3. \A f \in Files : disk[f] = IF f \in {"binary", "lock"} THEN r ELSE Absent
  BY <1>1
<1>4. FilesOK
  BY <1>3, ReleasesAssumption
     DEF Init, FilesOK, LocksWhole, SettledCoherent, FlightOK, InFlight, Files, Absent, Torn
<1>5. CommandOK /\ ExitOK
  BY DEF Init, CommandOK, ExitOK, NoJob, RollingBack, Staging, Activating
<1>6. StagingOK /\ ActivatingOK /\ RollbackOK /\ UnlinkOK
  BY DEF Init, StagingOK, ActivatingOK, RollbackOK, UnlinkOK, Staging
<1> QED
  BY <1>2, <1>4, <1>5, <1>6 DEF IInv, PlaceOK

(* Every step keeps the invariant.                                         *)
LEMMA NextIInv == IInv /\ [Next]_vars => IInv'
<1> SUFFICES ASSUME IInv, [Next]_vars PROVE IInv'
  OBVIOUS
<1>1. ASSUME NEW runs \in BOOLEAN, Probing(runs) PROVE IInv'
  BY <1>1, RecoverStep, RollbackStep, CheckBackStep, QueryStep, StageStep, FinalizeStep, ProveStep
     DEF Probing
<1>2. CASE Writing
  BY <1>2, SetAsideStep, PutBackStep, RepublishStep, EndStep, UnlinkStep, ExtractStep,
     ValidateStep, StageLockStep, ActivateStep, PrepareStep, BackupLockStep, BackupStep,
     BackupCheckStep, PhaseStep, SwapStep, PublishStep
     DEF Writing
<1>3. CASE UNCHANGED vars
  <2>1. InFlight' = InFlight /\ Prior' = Prior /\ NothingStaged' = NothingStaged
    BY <1>3 DEF vars, InFlight, Prior, NothingStaged
  <2>2. TypeOK' /\ FilesOK'
    BY <1>3, Still DEF vars, IInv, TypeOK
  <2>3. CommandOK' /\ ExitOK'
    BY <1>3, <2>1 DEF vars, IInv, PlaceOK, CommandOK, ExitOK
  <2>4. StagingOK' /\ ActivatingOK' /\ RollbackOK'
    BY <1>3, <2>1 DEF vars, IInv, PlaceOK, StagingOK, ActivatingOK, RollbackOK, Chosen, Staged,
                      BackedUpWhole, Binary, Lock, Candidate, CandidateLock, Previous,
                      PreviousLock
  <2>5. UnlinkOK'
    BY <1>3, <2>1 DEF vars, IInv, PlaceOK, UnlinkOK, Restaging, MakingRoom, Bootstrap,
                      UntouchedFiles, Restored, Activated, Committed, Finalized, Returns,
                      Chosen, Staged, Binary, Lock, Candidate, CandidateLock, Previous,
                      PreviousLock
  <2> QED
    BY <2>2, <2>3, <2>4, <2>5 DEF IInv, PlaceOK
<1> QED
  BY <1>1, <1>2, <1>3, BeginStep, DownloadStep, CrashStep DEF Next

(* The inductive invariant holds of every machine, whatever the releases   *)
(* and however many commands die or probes fail.                           *)
THEOREM UpdateInvariance == Spec => []IInv
  BY InitIInv, NextIInv, PTL DEF Spec

(* Files, journal, command and bounds stay within their types.             *)
THEOREM UpdateTypes == Spec => []TypeOK
<1>1. IInv => TypeOK
  BY DEF IInv
<1> QED
  BY <1>1, UpdateInvariance, PTL

(* Without a journal the binary is the one its release lock names: no      *)
(* death of update, recover_transaction, activate or rollback leaves one   *)
(* release's binary under the lock of another.                             *)
THEOREM Coherence == Spec => []SettledCoherent
<1>1. IInv => SettledCoherent
  BY DEF IInv, FilesOK
<1> QED
  BY <1>1, UpdateInvariance, PTL

(* As long as the journal stands the whole binary of the prior release is  *)
(* on disk, in place or backed up: rollback deletes nothing before         *)
(* "restored health is proven".                                            *)
THEOREM Retention == Spec => []PriorRetained
<1>1. IInv => PriorRetained
  BY DEF IInv, FilesOK, FlightOK, PriorRetained, Prior, Binary, Lock, Previous, PreviousLock
<1> QED
  BY <1>1, UpdateInvariance, PTL

-----------------------------------------------------------------------------
(* The release in force                                                    *)

(* The release in force, as the refinement maps it                         *)
Active == IF InFlight THEN Prior ELSE Lock

(* The release in force depends on the two locks, and on whether there was *)
(* a release when the journal was written.                                 *)
LEMMA ActiveKept ==
  ASSUME InFlight' = InFlight, Lock' = Lock, PreviousLock' = PreviousLock,
         InFlight => journal'.had_lock = journal.had_lock
  PROVE  Active' = Active
  BY DEF Active, Prior, Lock, PreviousLock

(* Most steps leave the locks, or whether there was one, as they are.      *)
LEMMA OtherFilesActive ==
  ASSUME IInv, NEW f \in Files, f \notin {"lock", "previous_lock"}, UNCHANGED journal,
         \/ \E c \in Content : Write(f, c)
         \/ \E g \in Files : g \notin {"lock", "previous_lock"} /\ f # g /\ Rename(f, g)
  PROVE  Active' = Active
<1>1. \A h \in {"lock", "previous_lock"} : h \in Files /\ disk'[h] = disk[h]
  BY WriteFile, RenameFile DEF IInv, Files
<1>2. InFlight' = InFlight
  BY DEF InFlight
<1> QED
  BY <1>1, <1>2, ActiveKept DEF Lock, PreviousLock

(* A step that writes nothing leaves the release in force.                 *)
LEMMA StillActive ==
  ASSUME UNCHANGED <<disk, journal>>
  PROVE  Active' = Active
  BY DEF Active, InFlight, Prior, Lock

(* Steps on the binary, the candidate and the copy leave it: what is in    *)
(* force is named by the locks.                                            *)
LEMMA StagingActive ==
  ASSUME IInv, \/ SetAside \/ PutBack \/ Extract \/ Validate \/ StageLock
               \/ Backup \/ BackupCheck \/ Swap
  PROVE  Active' = Active
<1>1. {"binary", "previous", "candidate", "candidate_lock", "failed"} \subseteq Files
  BY DEF Files
<1>2. Torn \in Content /\ Binary \in Content
  BY ContentOf, <1>1 DEF IInv, Content, Binary
<1>3. CASE SetAside
  BY <1>1, <1>3, OtherFilesActive, StillActive DEF SetAside
<1>4. CASE PutBack
  BY <1>1, <1>4, OtherFilesActive DEF PutBack
<1>5. CASE Swap
  BY <1>1, <1>5, OtherFilesActive DEF Swap
<1>6. CASE Extract
  BY <1>1, <1>2, <1>6, OtherFilesActive DEF Extract
<1>7. CASE Validate \/ StageLock
  <2>1. job.release \in Content
    BY DEF IInv, TypeOK, Job, Content
  <2> QED
    BY <1>1, <1>7, <2>1, OtherFilesActive DEF Validate, StageLock
<1>8. CASE Backup
  BY <1>1, <1>2, <1>8, OtherFilesActive DEF Backup
<1>9. CASE BackupCheck
  BY <1>1, <1>2, <1>9, OtherFilesActive DEF BackupCheck, Binary
<1> QED
  BY <1>3, <1>4, <1>5, <1>6, <1>7, <1>8, <1>9

(* Before the new lock is published the old one is in force, and after a   *)
(* rollback republished it: in between it is the backed up lock.           *)
LEMMA ActivatingActive ==
  ASSUME IInv, \/ Prepare \/ BackupLock \/ BackedUp \/ MarkHost \/ Publish \/ Verify
               \/ Republish
  PROVE  Active' = Active
<1>1. CASE Prepare
  <2>1. /\ disk' = disk /\ ~InFlight /\ PreviousLock = Absent
        /\ journal'.had_lock <=> Lock # Absent
        /\ journal'.phase = "prepared"
    BY <1>1 DEF Prepare, NewTransaction, IInv, PlaceOK, StagingOK, Lock
  <2>2. InFlight'
    BY <2>1 DEF InFlight, NoJournal
  <2> QED
    BY <2>1, <2>2 DEF Active, Prior, Lock, PreviousLock
<1>2. CASE BackupLock
  <2>1. /\ InFlight /\ PreviousLock = Absent /\ (journal.had_lock <=> Lock # Absent)
        /\ journal' = journal /\ InFlight' = InFlight
    BY <1>2 DEF BackupLock, IInv, PlaceOK, ActivatingOK, InFlight
  <2>2. CASE Lock = Absent
    BY <1>2, <2>1, <2>2, StillActive DEF BackupLock, Lock
  <2>3. CASE Lock # Absent
    <3>1. Lock \in Content /\ {"lock", "previous_lock"} \subseteq Files
      BY ContentOf DEF IInv, Lock, Files
    <3>2. Lock' = Lock /\ PreviousLock' = Lock
      BY <1>2, <2>3, <3>1, WriteFile DEF BackupLock, IInv, Lock, PreviousLock
    <3> QED
      BY <2>1, <2>3, <3>2 DEF Active, Prior, Lock, PreviousLock
  <2> QED
    BY <2>2, <2>3
<1>3. CASE BackedUp \/ MarkHost \/ Verify
  <2>1. InFlight /\ disk' = disk /\ \E phase \in Phases : Enter(phase)
    BY <1>3 DEF BackedUp, MarkHost, Verify, IInv, PlaceOK, ActivatingOK, Phases
  <2>2. InFlight' /\ journal'.had_lock = journal.had_lock
    BY <2>1, Entered DEF IInv
  <2> QED
    BY <2>1, <2>2, ActiveKept DEF Lock, PreviousLock
<1>4. CASE Publish \/ Republish
  <2>1. /\ InFlight /\ journal' = journal /\ InFlight' = InFlight
        /\ journal.had_lock => PreviousLock # Absent
    BY <1>4 DEF Publish, Republish, IInv, PlaceOK, ActivatingOK, RollbackOK, BackedUpWhole,
                InFlight
  <2>2. PreviousLock' = PreviousLock
    <3>1. /\ {"lock", "previous_lock", "candidate_lock"} \subseteq Files
          /\ CandidateLock \in Content /\ PreviousLock \in Content
      BY ContentOf DEF IInv, CandidateLock, PreviousLock, Files
    <3> QED
      BY <1>4, <3>1, WriteFile DEF Publish, Republish, IInv, CandidateLock, PreviousLock
  <2> QED
    BY <2>1, <2>2 DEF Active, Prior, PreviousLock
<1> QED
  BY <1>1, <1>2, <1>3, <1>4

(* The release in force changes when the journal of a proven activation is *)
(* removed, and then to a whole one, which is no older on a machine that   *)
(* updates itself.                                                         *)
LEMMA UnlinkActive ==
  ASSUME IInv, Unlink
  PROVE  \/ Active' = Active
         \/ /\ Active' \in Releases /\ UNCHANGED role
            /\ role # "guest" => Active' >= Active
<1>1. UnlinkOK /\ pc = "unlink" /\ UNCHANGED role
  BY DEF IInv, PlaceOK, Unlink, bounds
<1> DEFINE f == Unlinks[job.unlink][job.at]
<1>2. /\ f = "journal" => disk' = disk /\ ~InFlight'
      /\ f # "journal" => journal' = journal /\ InFlight' = InFlight /\ Write(f, Absent)
  BY DEF Unlink, InFlight
<1> HIDE DEF f
<1>3. /\ "lock" \in Files /\ "previous_lock" \in Files /\ Absent \in Content /\ TypeOK
  BY DEF Files, Content, IInv
<1>4. ASSUME f \in Files \ {"lock", "previous_lock"} PROVE Active' = Active
  <2>1. f # "journal"
    BY <1>4 DEF Files
  <2> QED
    BY <1>2, <1>3, <1>4, <2>1, OtherFilesActive
<1>5. CASE job.unlink = "restaging" /\ job.at \in 1..2
  BY <1>4, <1>5 DEF f, Unlinks, Files
<1>6. CASE job.unlink = "making_room" /\ job.at \in 1..2 /\ MakingRoom
  <2>1. f \in Files \ {"lock"} /\ f # "journal"
    BY <1>6 DEF f, Unlinks, Files
  <2>2. Lock' = Lock /\ ~InFlight /\ ~InFlight'
    BY <1>2, <1>3, <1>6, <2>1, WriteFile DEF Lock, MakingRoom
  <2> QED
    BY <2>2 DEF Active
<1>7. CASE job.unlink = "bootstrap" /\ job.at \in 1..5 /\ Bootstrap
  <2>1. CASE f = "journal"
    <3>1. job.at = 5
      BY <1>7, <2>1 DEF f, Unlinks
    <3> QED
      BY <1>2, <1>7, <2>1, <3>1 DEF Active, Prior, Bootstrap, Lock
  <2>2. CASE f # "journal"
    BY <1>2, <1>7, <2>2 DEF Active, Prior, Bootstrap
  <2> QED
    BY <2>1, <2>2
<1>8. CASE job.unlink = "untouched" /\ job.at \in 1..5 /\ UntouchedFiles
  <2>1. CASE f = "journal"
    <3>1. job.at = 5
      BY <1>8, <2>1 DEF f, Unlinks
    <3> QED
      BY <1>2, <1>8, <2>1, <3>1 DEF Active, Prior, UntouchedFiles, Lock, PreviousLock
  <2>2. CASE f = "previous_lock"
    <3>1. Lock' = Lock /\ PreviousLock' = Absent
      BY <1>2, <1>3, <2>2, WriteFile DEF Lock, PreviousLock
    <3>2. PreviousLock \in {Absent, Lock}
      BY <1>8 DEF IInv, FilesOK, FlightOK, UntouchedFiles
    <3> QED
      BY <1>2, <1>8, <2>2, <3>1, <3>2 DEF Active, Prior, UntouchedFiles, Lock, PreviousLock
  <2>3. CASE f \notin {"journal", "previous_lock"}
    <3>1. f \in Files \ {"lock", "previous_lock"}
      BY <1>8, <2>3 DEF f, Unlinks, Files
    <3> QED
      BY <1>4, <3>1
  <2> QED
    BY <2>1, <2>2, <2>3
<1>9. CASE job.unlink = "restored" /\ job.at \in 1..5 /\ Restored
  <2>1. CASE f = "journal"
    <3>1. job.at = 3
      BY <1>9, <2>1 DEF f, Unlinks
    <3> QED
      BY <1>2, <1>9, <2>1, <3>1 DEF Active, Prior, Restored, Lock, PreviousLock
  <2>2. CASE f = "previous_lock"
    <3>1. job.at = 1
      BY <1>9, <2>2 DEF f, Unlinks
    <3>2. Lock' = Lock /\ PreviousLock' = Absent
      BY <1>2, <1>3, <2>2, WriteFile DEF Lock, PreviousLock
    <3> QED
      BY <1>2, <1>9, <2>2, <3>1, <3>2 DEF Active, Prior, Restored, Lock, PreviousLock
  <2>3. CASE f \notin {"journal", "previous_lock"}
    <3>1. f \in Files \ {"lock", "previous_lock"}
      BY <1>9, <2>3 DEF f, Unlinks, Files
    <3> QED
      BY <1>4, <3>1
  <2> QED
    BY <2>1, <2>2, <2>3
<1>10. CASE \/ job.unlink = "activated" /\ job.at = 1 /\ Activated
            \/ job.unlink = "committed" /\ job.at = 1 /\ Committed
  <2>1. CASE job.unlink = "activated" /\ job.at = 1
    BY <1>4, <2>1 DEF f, Unlinks, Files
  <2>2. CASE job.unlink = "committed" /\ job.at = 1
    BY <1>4, <2>2 DEF f, Unlinks, Files
  <2> QED
    BY <1>10, <2>1, <2>2
<1>11. CASE \/ job.unlink = "committed" /\ job.at = 2 /\ Committed
            \/ job.unlink = "finalized" /\ job.at = 1 /\ Finalized
  <2>1. f = "journal"
    <3>1. CASE job.unlink = "committed" /\ job.at = 2
      BY <3>1 DEF f, Unlinks
    <3>2. CASE job.unlink = "finalized" /\ job.at = 1
      BY <3>2 DEF f, Unlinks
    <3> QED
      BY <1>11, <3>1, <3>2
  <2>2. InFlight /\ Lock # Absent /\ Active' = Lock /\ Active = Prior
    BY <1>2, <1>11, <2>1 DEF Active, Committed, Finalized, Lock
  <2>3. Lock \in Releases
    BY <2>2, ContentOf DEF IInv, FilesOK, LocksWhole, Lock, Files, Content
  <2>4. role # "guest" => Lock >= Prior
    BY <1>1, <1>11 DEF Committed, Finalized, IInv, PlaceOK, CommandOK
  <2> QED
    BY <1>1, <2>2, <2>3, <2>4
<1>12. \A i \in 1..2 : i = 1 \/ i = 2
  OBVIOUS
<1> QED
  BY <1>1, <1>5, <1>6, <1>7, <1>8, <1>9, <1>10, <1>11, <1>12 DEF UnlinkOK

(* Every step of the updater leaves the release in force, or replaces it   *)
(* as ReleaseSlot allows.                                                  *)
LEMMA SlotStep ==
  ASSUME IInv, [Next]_vars
  PROVE  UNCHANGED role /\ (Active' = Active \/ \E r \in Releases :
            r # Active /\ (role # "guest" => r > Active) /\ Active' = r)
<1>1. UNCHANGED role
  BY DEF Next, Begin, Update, RecoverLocal, GuestActivate, GuestRollback, GuestStage, Start,
         Writing, SetAside, PutBack, Republish, RaiseAgain, Done, Unlink, Extract, Validate,
         StageLock, Activate, Prepare, BackupLock, Backup, BackupCheck, BackedUp, Swap,
         MarkHost, Publish, Verify, Probing, Recover, Rollback, CheckBack, QueryFails, Query,
         Stage, FinalizeActivation, Prove, DownloadFails, Crash, bounds, vars
<1>2. CASE Begin \/ DownloadFails \/ Crash \/ RaiseAgain \/ Done \/ Activate \/ UNCHANGED vars
  <2>1. UNCHANGED <<disk, journal>>
    BY <1>2 DEF Begin, Update, RecoverLocal, GuestActivate, GuestRollback, GuestStage, Start,
                DownloadFails, Crash, RaiseAgain, Done, Activate, vars
  <2> QED
    BY <1>1, <2>1, StillActive
<1>3. ASSUME NEW runs \in BOOLEAN, Probing(runs) PROVE Active' = Active
  <2>1. UNCHANGED <<disk, journal>>
    BY <1>3 DEF Probing, Recover, Rollback, CheckBack, QueryFails, Query, Stage,
                FinalizeActivation, Prove
  <2> QED
    BY <2>1, StillActive
<1>4. CASE Unlink
  <2>1. Active \in Nat
    BY ContentOf DEF IInv, Active, Prior, Lock, Files, Absent
  <2>2. CASE Active' = Active
    BY <1>1, <2>2
  <2>3. CASE Active' # Active
    <3>1. Active' \in Releases /\ (role # "guest" => Active' >= Active)
      BY <1>4, <2>3, UnlinkActive
    <3>2. Active' \in Nat
      BY <3>1, ReleasesAssumption
    <3>3. role # "guest" => Active' > Active
      BY <2>1, <2>3, <3>1, <3>2
    <3> QED
      BY <1>1, <2>3, <3>1, <3>3
  <2> QED
    BY <2>2, <2>3
<1> QED
  BY <1>1, <1>2, <1>3, <1>4, StagingActive, ActivatingActive DEF Next, Writing

(* The updater implements ReleaseSlot: the release in force is replaced as *)
(* a whole, by the removal of the journal of a proven activation and by    *)
(* nothing else, and a machine that updates itself never goes back.        *)
THEOREM AtomicActivation == Spec => ActivationIsAtomic
<1>1. Init => Slot!Init
  BY DEF Init, Slot!Init, InFlight, Slot!Nothing, Files, Absent
<1>2. IInv /\ [Next]_vars
        => [Slot!Next]_<<IF InFlight THEN Prior ELSE disk["lock"], role = "guest">>
  BY SlotStep DEF Active, Lock, Slot!Next, Slot!Replace
<1> QED
  BY <1>1, <1>2, UpdateInvariance, PTL DEF Spec, ActivationIsAtomic, Slot!Spec
=============================================================================
