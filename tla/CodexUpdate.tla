----------------------------- MODULE CodexUpdate -----------------------------
(***************************************************************************)
(* codex-update-all on one machine: the active Codex binary and its        *)
(* release lock, the staged candidate, the previous generation kept for a  *)
(* rollback, and the transaction journal from which an interrupted         *)
(* activation is recovered.  The command may die between any two file      *)
(* operations; each of those is atomic (rename, unlink) except writing a   *)
(* binary, which may be left Torn.                                         *)
(*                                                                         *)
(* process_lock lets one command run at a time, so there is one program    *)
(* counter.  A remote-user machine updates itself; a guest is staged,      *)
(* activated and rolled back by its host; both recover before each launch  *)
(* of Codex.  A binary or a lock is represented by its release: a digest   *)
(* comparison is equality.                                                 *)
(***************************************************************************)
EXTENDS Naturals, Sequences

CONSTANTS Releases,    \* release numbers, in the order of their versions
          Roles,       \* what the machine may be
          MaxCrashes,  \* bound: commands that die
          MaxFaults    \* bound: health probes and validations that fail

ASSUME ReleasesAssumption == Releases \subseteq Nat \ {0, 1}
ASSUME RolesAssumption == Roles \subseteq {"user", "guest"}
ASSUME BoundsAssumption == MaxCrashes \in Nat /\ MaxFaults \in Nat

Absent == 0
Torn == 1
Content == Releases \cup {Absent, Torn}

Files == {"binary", "lock", "candidate", "candidate_lock", "previous", "previous_lock", "failed"}

Phases == {"prepared", "backed_up", "activating_host", "verifying"}
NoJournal == [phase |-> "none", had_binary |-> FALSE, had_lock |-> FALSE, release |-> Absent]
Journal == [phase : Phases, had_binary : BOOLEAN, had_lock : BOOLEAN, release : Releases]

Commands == {"update", "recover", "guest-stage", "guest-activate", "guest-rollback"}

VARIABLES disk,      \* content of each file of the package
          journal,   \* the private transaction
          rejected,  \* rejected-candidate.json
          pc,        \* next step of the running command
          job,       \* its arguments and local variables
          exit,      \* how the last command ended that was not a mere recovery
          role,      \* does the machine update itself, or is it a host's guest?
          crashes, faults

bounds == <<role, crashes, faults>>
vars == <<disk, journal, rejected, pc, job, exit, role, crashes, faults>>

(* Files a command unlinks one after the other, "journal" among them.       *)
Unlinks ==
  [restaging   |-> <<"candidate", "candidate_lock">>,
   making_room |-> <<"previous", "previous_lock">>,
   bootstrap   |-> <<"binary", "lock", "candidate", "candidate_lock", "journal">>,
   untouched   |-> <<"previous", "previous_lock", "candidate", "candidate_lock", "journal">>,
   restored    |-> <<"previous_lock", "failed", "journal", "candidate", "candidate_lock">>,
   activated   |-> <<"candidate_lock">>,
   committed   |-> <<"candidate_lock", "journal">>,
   finalized   |-> <<"journal">>]

Steps == {"idle", "recover", "rollback", "set_aside", "put_back", "republish", "check_back",
          "query", "stage", "extract", "validate", "stage_lock", "activate", "prepare",
          "backup_lock", "backup", "backup_check", "backed_up", "swap", "mark_host",
          "publish", "verify", "probe", "unlink", "raise", "done"}

Job == [cmd : Commands \cup {"none"}, release : Releases \cup {Absent}, healthy : BOOLEAN,
        unlink : DOMAIN Unlinks \cup {"none"}, at : Nat, then : Steps]
NoJob == [cmd |-> "none", release |-> Absent, healthy |-> FALSE, unlink |-> "none",
          at |-> 0, then |-> "idle"]
Exit == [cmd : Commands \cup {"none"}, code : {"zero", "staged", "nonzero"}]

Init ==
  /\ \E r \in Releases \cup {Absent} :
       disk = [f \in Files |-> IF f \in {"binary", "lock"} THEN r ELSE Absent]
  /\ journal = NoJournal
  /\ rejected = Absent
  /\ pc = "idle" /\ job = NoJob
  /\ exit = [cmd |-> "none", code |-> "zero"]
  /\ role \in Roles
  /\ crashes = 0 /\ faults = 0

-----------------------------------------------------------------------------
InFlight == journal # NoJournal

Goto(step) == pc' = step
Write(f, content) == disk' = [disk EXCEPT ![f] = content]
Rename(f, g) == disk' = [disk EXCEPT ![g] = disk[f], ![f] = Absent]

(* healthy compares the binary with a lock and runs it; the run may fail.   *)
Healthy(lock, runs) == disk[lock] # Absent /\ disk["binary"] = disk[lock] /\ runs
Probe(lock, runs) ==
  /\ ~runs => faults < MaxFaults /\ Healthy(lock, TRUE)
  /\ faults' = IF runs THEN faults ELSE faults + 1

Quit(code) ==
  /\ pc' = "idle" /\ job' = NoJob
  /\ exit' = IF job.cmd = "recover" THEN exit ELSE [cmd |-> job.cmd, code |-> code]

(* local_update turns an UpdateError into a soft outcome when the release   *)
(* was healthy at the start; the other commands end with a failure.         *)
Soft == job.cmd = "update" /\ job.healthy
Raise == Quit(IF Soft THEN "zero" ELSE "nonzero")

UnlinkAll(which, then) ==
  /\ job' = [job EXCEPT !.unlink = which, !.at = 1, !.then = then]
  /\ pc' = "unlink"

(* unlink(missing_ok): the next file of the list                            *)
Unlink ==
  LET files == Unlinks[job.unlink]
      f == files[job.at]
  IN  /\ pc = "unlink"
      /\ IF f = "journal"
         THEN journal' = NoJournal /\ UNCHANGED disk
         ELSE Write(f, Absent) /\ UNCHANGED journal
      /\ IF job.at < Len(files)
         THEN job' = [job EXCEPT !.at = @ + 1] /\ UNCHANGED pc
         ELSE pc' = job.then /\ UNCHANGED job
      /\ UNCHANGED <<rejected, exit, bounds>>

Crash ==
  /\ pc # "idle" /\ crashes < MaxCrashes
  /\ crashes' = crashes + 1
  /\ Quit("nonzero")
  /\ UNCHANGED <<disk, journal, rejected, role, faults>>

-----------------------------------------------------------------------------
(* Commands                                                                 *)

Start(cmd, step, r) ==
  /\ pc = "idle"
  /\ job' = [NoJob EXCEPT !.cmd = cmd, !.release = r]
  /\ pc' = step
  /\ UNCHANGED <<disk, journal, rejected, exit, bounds>>

RecoverLocal == Start("recover", "recover", Absent)
Update == role = "user" /\ Start("update", "recover", Absent)
GuestStage(r) == role = "guest" /\ Start("guest-stage", "recover", r)
GuestRollback == role = "guest" /\ Start("guest-rollback", "rollback", Absent)

(* The host activates what its guest answered to have staged (and not what  *)
(* it called current), and asks again to finish an answered activation.     *)
GuestActivate ==
  /\ role = "guest"
  /\ \/ exit = [cmd |-> "guest-stage", code |-> "staged"]
     \/ exit = [cmd |-> "guest-activate", code |-> "zero"]
  /\ Start("guest-activate", "activate", Absent)

(* Every command but guest-activate and guest-rollback first recovers; a    *)
(* guest asked again for the release it is activating has nothing to do.    *)
AfterRecovery ==
  CASE job.cmd = "update" -> "query"
    [] job.cmd = "guest-stage" -> "stage"
    [] OTHER -> "done"

Recover(runs) ==
  /\ pc = "recover"
  /\ Probe("lock", runs)
  /\ CASE ~InFlight -> Goto(AfterRecovery) /\ UNCHANGED <<job, exit>>
       [] /\ InFlight /\ job.cmd = "guest-stage"
          /\ journal.release = job.release /\ disk["lock"] = job.release
          /\ Healthy("lock", runs) -> Quit("zero")
       [] OTHER -> Goto("rollback") /\ UNCHANGED <<job, exit>>
  /\ UNCHANGED <<disk, journal, rejected, role, crashes>>

-----------------------------------------------------------------------------
(* rollback, called by recovery, by guest-rollback and by a failed          *)
(* activation, which raises its own error afterwards                        *)

AfterRollback ==
  CASE job.then = "raise" -> "raise"
    [] job.cmd = "guest-rollback" -> "done"
    [] OTHER -> AfterRecovery

(* Mutant: recovery always needs the previous generation.                   *)
NeverUntouched(runs) == FALSE

Untouched(runs) ==
  journal.had_binary /\ journal.had_lock /\ journal.phase = "prepared" /\ Healthy("lock", runs)

Rollback(runs) ==
  /\ pc = "rollback"
  /\ Probe("lock", runs)
  /\ CASE ~InFlight -> UnlinkAll("restaging", AfterRollback) /\ UNCHANGED exit
       [] InFlight /\ ~journal.had_binary /\ ~journal.had_lock ->
            UnlinkAll("bootstrap", AfterRollback) /\ UNCHANGED exit
       [] InFlight /\ journal.had_binary # journal.had_lock -> Raise
       [] InFlight /\ Untouched(runs) ->
            UnlinkAll("untouched", AfterRollback) /\ UNCHANGED exit
       [] OTHER ->
            IF disk["previous_lock"] # Absent /\ disk["previous"] = disk["previous_lock"]
            THEN Goto("set_aside") /\ UNCHANGED <<job, exit>>
            ELSE Raise
  /\ UNCHANGED <<disk, journal, rejected, role, crashes>>

SetAside ==
  /\ pc = "set_aside"
  /\ IF disk["binary"] # Absent THEN Rename("binary", "failed") ELSE UNCHANGED disk
  /\ Goto("put_back")
  /\ UNCHANGED <<journal, rejected, job, exit, bounds>>

PutBack ==
  /\ pc = "put_back"
  /\ Rename("previous", "binary")
  /\ Goto("republish")
  /\ UNCHANGED <<journal, rejected, job, exit, bounds>>

(* Mutant: the release lock is left as it is.                               *)
BinaryOnly ==
  /\ pc = "republish"
  /\ Goto("check_back")
  /\ UNCHANGED <<disk, journal, rejected, job, exit, bounds>>

Republish ==
  /\ pc = "republish"
  /\ Write("lock", disk["previous_lock"])
  /\ Goto("check_back")
  /\ UNCHANGED <<journal, rejected, job, exit, bounds>>

CheckBack(runs) ==
  /\ pc = "check_back"
  /\ Probe("previous_lock", runs)
  /\ IF Healthy("previous_lock", runs)
     THEN UnlinkAll("restored", AfterRollback) /\ UNCHANGED exit
     ELSE Raise
  /\ UNCHANGED <<disk, journal, rejected, role, crashes>>

RaiseAgain ==
  /\ pc = "raise"
  /\ Raise
  /\ UNCHANGED <<disk, journal, rejected, bounds>>

Done ==
  /\ pc = "done"
  /\ Quit(IF job.cmd = "guest-stage" THEN "staged" ELSE "zero")
  /\ UNCHANGED <<disk, journal, rejected, bounds>>
-----------------------------------------------------------------------------
(* local_update after recovery: look at the active release, query the      *)
(* latest one, and give up softly or stage it.                             *)

(* reject_candidate, for a candidate that is invalid or fails validation    *)
RejectAndQuit(r) == rejected' = r /\ Raise

QueryFails(runs) ==
  /\ pc = "query"
  /\ Probe("lock", runs)
  /\ Quit(IF Healthy("lock", runs) THEN "zero" ELSE "nonzero")
  /\ UNCHANGED <<disk, journal, rejected, role, crashes>>

(* Mutant: only a rejected candidate is refused.                            *)
RefusesRejected(r) == r = rejected

Refused(r) == r = rejected \/ (disk["lock"] # Absent /\ r < disk["lock"])

Query(r, runs) ==
  /\ pc = "query"
  /\ Probe("lock", runs)
  /\ IF Refused(r)
     THEN /\ rejected' = r
          /\ Quit(IF Healthy("lock", runs) THEN "zero" ELSE "nonzero")
     ELSE /\ job' = [job EXCEPT !.release = r, !.healthy = Healthy("lock", runs)]
          /\ Goto("stage")
          /\ UNCHANGED <<rejected, exit>>
  /\ UNCHANGED <<disk, journal, role, crashes>>

Stage(runs) ==
  /\ pc = "stage"
  /\ Probe("lock", runs)
  /\ IF disk["lock"] = job.release /\ Healthy("lock", runs)
     THEN Quit("zero")
     ELSE UnlinkAll("restaging", "extract") /\ UNCHANGED exit
  /\ UNCHANGED <<disk, journal, rejected, role, crashes>>

(* The asset is out of reach, or it is not what the metadata announced.     *)
DownloadFails ==
  /\ pc = "extract" /\ faults < MaxFaults
  /\ faults' = faults + 1
  /\ \/ Raise /\ UNCHANGED rejected
     \/ job.cmd = "update" /\ RejectAndQuit(job.release)
  /\ UNCHANGED <<disk, journal, role, crashes>>

Extract ==
  /\ pc = "extract"
  /\ Write("candidate", Torn)
  /\ Goto("validate")
  /\ UNCHANGED <<journal, rejected, job, exit, bounds>>

Validate ==
  /\ pc = "validate"
  /\ Write("candidate", job.release)
  /\ \/ Goto("stage_lock") /\ UNCHANGED <<rejected, job, exit, faults>>
     \/ /\ faults < MaxFaults
        /\ faults' = faults + 1
        /\ IF job.cmd = "update" THEN RejectAndQuit(job.release)
           ELSE Raise /\ UNCHANGED rejected
  /\ UNCHANGED <<journal, role, crashes>>

StageLock ==
  /\ pc = "stage_lock"
  /\ Write("candidate_lock", job.release)
  /\ Goto(IF job.cmd = "update" THEN "activate" ELSE "done")
  /\ UNCHANGED <<journal, rejected, job, exit, bounds>>

-----------------------------------------------------------------------------
(* activate.  A guest's activation is not finalized: its journal stays      *)
(* until the host asks a second time and the staged files are gone.         *)

NothingStaged == disk["candidate"] = Absent /\ disk["candidate_lock"] = Absent

FinalizeActivation(runs) ==
  /\ pc = "activate" /\ NothingStaged
  /\ Probe("lock", runs)
  /\ CASE ~InFlight -> Quit("zero")
       [] InFlight /\ Healthy("lock", runs) -> UnlinkAll("finalized", "done") /\ UNCHANGED exit
       [] OTHER -> Raise
  /\ UNCHANGED <<disk, journal, rejected, role, crashes>>

Activate ==
  /\ pc = "activate" /\ ~NothingStaged
  /\ IF disk["candidate_lock"] # Absent /\ disk["candidate"] = disk["candidate_lock"]
     THEN UnlinkAll("making_room", "prepare") /\ UNCHANGED exit
     ELSE Raise
  /\ UNCHANGED <<disk, journal, rejected, bounds>>

(* Mutant: the journal names the release that is to be replaced.            *)
OfCurrent == [phase |-> "prepared", release |-> disk["lock"],
              had_binary |-> disk["binary"] # Absent, had_lock |-> disk["lock"] # Absent]

NewTransaction == [phase |-> "prepared", release |-> disk["candidate_lock"],
                   had_binary |-> disk["binary"] # Absent, had_lock |-> disk["lock"] # Absent]

Prepare ==
  /\ pc = "prepare"
  /\ journal' = NewTransaction
  /\ Goto("backup_lock")
  /\ UNCHANGED <<disk, rejected, job, exit, bounds>>

(* Mutant: the binary is not backed up.                                     *)
LockOnly ==
  /\ pc = "backup_lock"
  /\ IF disk["lock"] # Absent THEN Write("previous_lock", disk["lock"]) ELSE UNCHANGED disk
  /\ Goto("backed_up")
  /\ UNCHANGED <<journal, rejected, job, exit, bounds>>

BackupLock ==
  /\ pc = "backup_lock"
  /\ IF disk["lock"] # Absent THEN Write("previous_lock", disk["lock"]) ELSE UNCHANGED disk
  /\ Goto(IF disk["binary"] # Absent THEN "backup" ELSE "backed_up")
  /\ UNCHANGED <<journal, rejected, job, exit, bounds>>

Backup ==
  /\ pc = "backup"
  /\ Write("previous", Torn)
  /\ Goto("backup_check")
  /\ UNCHANGED <<journal, rejected, job, exit, bounds>>

BackupCheck ==
  /\ pc = "backup_check"
  /\ Write("previous", disk["binary"])
  /\ IF disk["lock"] # Absent /\ disk["binary"] = disk["lock"]
     THEN Goto("backed_up") /\ UNCHANGED <<rejected, job, exit>>
     ELSE IF job.cmd = "update" THEN RejectAndQuit(job.release)
     ELSE Raise /\ UNCHANGED rejected
  /\ UNCHANGED <<journal, bounds>>

Enter(phase) == journal' = [journal EXCEPT !.phase = phase]

BackedUp ==
  /\ pc = "backed_up"
  /\ Enter("backed_up")
  /\ Goto("swap")
  /\ UNCHANGED <<disk, rejected, job, exit, bounds>>

Swap ==
  /\ pc = "swap"
  /\ Rename("candidate", "binary")
  /\ Goto("mark_host")
  /\ UNCHANGED <<journal, rejected, job, exit, bounds>>

MarkHost ==
  /\ pc = "mark_host"
  /\ Enter("activating_host")
  /\ Goto("publish")
  /\ UNCHANGED <<disk, rejected, job, exit, bounds>>

Publish ==
  /\ pc = "publish"
  /\ Write("lock", disk["candidate_lock"])
  /\ Goto(IF job.cmd = "update" THEN "verify" ELSE "probe")
  /\ UNCHANGED <<journal, rejected, job, exit, bounds>>

Verify ==
  /\ pc = "verify"
  /\ Enter("verifying")
  /\ Goto("probe")
  /\ UNCHANGED <<disk, rejected, job, exit, bounds>>

Prove(runs) ==
  /\ pc = "probe"
  /\ Probe("candidate_lock", runs)
  /\ IF Healthy("candidate_lock", runs)
     THEN UnlinkAll(IF job.cmd = "update" THEN "committed" ELSE "activated", "done")
     ELSE job' = [job EXCEPT !.then = "raise"] /\ Goto("rollback")
  /\ UNCHANGED <<disk, journal, rejected, exit, role, crashes>>

-----------------------------------------------------------------------------
Begin ==
  \/ Update \/ RecoverLocal \/ GuestActivate \/ GuestRollback
  \/ \E r \in Releases : GuestStage(r)

Probing(runs) ==
  \/ Recover(runs) \/ Rollback(runs) \/ CheckBack(runs)
  \/ QueryFails(runs) \/ (\E r \in Releases : Query(r, runs))
  \/ Stage(runs) \/ FinalizeActivation(runs) \/ Prove(runs)

Writing ==
  \/ SetAside \/ PutBack \/ Republish \/ RaiseAgain \/ Done \/ Unlink
  \/ Extract \/ Validate \/ StageLock \/ Activate \/ Prepare
  \/ BackupLock \/ Backup \/ BackupCheck \/ BackedUp \/ Swap
  \/ MarkHost \/ Publish \/ Verify

Next ==
  \/ Begin \/ Writing \/ (\E runs \in BOOLEAN : Probing(runs))
  \/ DownloadFails \/ Crash

Spec == Init /\ [][Next]_vars

(* A started command runs on until it ends or dies, and Codex is launched   *)
(* again and again, each launch recovering first.                           *)
Fairness ==
  /\ WF_vars(Writing \/ \E runs \in BOOLEAN : Probing(runs))
  /\ SF_vars(RecoverLocal)

FairSpec == Spec /\ Fairness

-----------------------------------------------------------------------------
TypeOK ==
  /\ disk \in [Files -> Content]
  /\ journal \in Journal \cup {NoJournal}
  /\ rejected \in Releases \cup {Absent}
  /\ pc \in Steps /\ job \in Job /\ exit \in Exit
  /\ role \in Roles
  /\ crashes \in 0..MaxCrashes /\ faults \in 0..MaxFaults

(* The release active before the journalled activation: its lock is in      *)
(* place until the new one is published, and backed up before that.         *)
Prior ==
  IF ~journal.had_lock THEN Absent
  ELSE IF disk["previous_lock"] # Absent THEN disk["previous_lock"] ELSE disk["lock"]

(* Whenever no activation is under way, whatever died before, the binary is *)
(* the one the release lock names, or both are absent.                      *)
SettledCoherent == ~InFlight => disk["binary"] = disk["lock"]

(* "artifacts are not deleted until restored health is proven": as long as  *)
(* the journal stands, the whole binary of the prior release is on disk.    *)
PriorRetained ==
  InFlight /\ journal.had_lock =>
    Prior # Absent /\ Prior \in {disk["binary"], disk["previous"]}

(* Every activation is all or nothing: the release in force only changes    *)
(* when the journal of a proven activation is removed.                      *)
Slot == INSTANCE ReleaseSlot WITH
          active <- IF InFlight THEN Prior ELSE disk["lock"],
          chosen <- role = "guest"
ActivationIsAtomic == Slot!Spec

(* Interrupted activations are rolled back before another query: an         *)
(* activation does not stay unfinished, since each launch of Codex recovers.*)
RecoverySettles == InFlight ~> ~InFlight

(* A rollback that ended, died or failed after it had moved the previous    *)
(* binary back, and before it removed the journal: the next one finds no    *)
(* previous binary and fails.                                               *)
CutOff ==
  /\ pc = "idle" /\ InFlight /\ journal.had_lock
  /\ journal.phase # "prepared" /\ disk["previous"] = Absent

(* Unless a rollback is so cut off, every other death or failed probe of an *)
(* activation, of its recovery, or of both is recovered from.               *)
UncutSettles == []~CutOff => RecoverySettles

(* Only a command that leaves no activation to recover reports success to   *)
(* whoever applies the update ("Failed rollback exits nonzero").            *)
SuccessIsSettled ==
  pc = "idle" /\ exit.cmd = "update" /\ exit.code = "zero" => ~InFlight
=============================================================================
