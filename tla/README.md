# TLA+ specifications of dotfiles-ai

This repository manages a workstation, its coding agents and the delivery process
they follow.  Most of it is installation scripts, templates, policies and texts.  Its
own logic sits in a few long Python programs and in the JavaScript of the JFrog skills,
which share state through files, locks, Git, SQLite and command-line tools with other
copies of themselves, with editors, agents and people.  This directory holds TLA+ models of the parts of that logic where order, overlap and death
decide whether the result is right, the TLC runs that check them and the TLAPS proofs
about them.

Paths below are relative to the repository; `dbsctrctl` is
`dot_local/bin/executable_dbsctrctl`, `codex-update-all` is
`dot_local/bin/executable_codex-update-all` and `runner.py` is
`private_dot_config/dotfiles-ai/continuous_validation/runner.py`.  The JFrog scripts are
those of `dot_agents/skills/jfrog*/scripts/`; a name like `jfrog-state-file.mjs` stands
for the file in `jfrog-init/scripts/`, and `lib/` for the directory below it.


## 1. The system

### 1.1 Inventory

| Component | State it keeps | Operations | What makes it correct | Here |
|---|---|---|---|---|
| **DBSCTR cycle lifecycle** (`dbsctrctl`) | a Cycle Record per cycle (JSON: state, gates, evidence, commits, profile binding, reviews), an active pointer per worktree, locks per cycle and per delivery target, the Git branch | `start-cycle`, `record-evidence`, `set-gate`, `set-applicability`, `approve-exception`, `update-plan`/`raise-risk`, `review-artifact`, `gate-commit`, `final-push`, `complete-local` | gates pass in order, each on stored evidence about what was committed; what is delivered is what is recorded; completion is final; an interrupted delivery can be finished | modelled, except as section 6 says |
| DBSCTR registration, portability, cleanup | registry of cycles and worktrees | `begin`, discovery import, `cycle-portabilize`, cleanup, `retire-worktree` | one open cycle per worktree; cleanup removes only what is retired | planned |
| DBSCTR initiatives, amendments, lineage recovery | Initiative records, approval digests, amendment checkpoints | approve, amend, resume, recover lineage | an approval covers exactly what it was given for | planned |
| DBSCTR batches | batch record, integration branch | add, integrate, recover a merge | members are integrated once and only when complete | planned |
| DBSCTR continuation | hand-over records, private transport | offer, accept, resume | one session owns a cycle | planned |
| DBSCTR history, review, feedback, incidents | SQLite ledgers | projections, retention, queues | sanitised, bounded, replayable | data transformation and SQL; not planned first |
| DBSCTR external delivery | draft pull requests | Forgejo and GitHub calls | one request per cycle | remote services, not under version control here |
| **Codex rolling updater** (`codex-update-all`) | active binary and release lock, staged candidate and its lock, previous generation, private transaction, rejected candidate | update (no argument), `recover-local`, `guest-stage`, `guest-activate`, `guest-rollback` | binary and lock always agree or the transaction explains the difference; the prior release survives until the new one is proven | modelled for a remote-user machine and for a guest |
| **Continuous validation, budget** (`runner.py`, `Budget`) | `index.json` of queued, running and unknown entries, a lease file per entry, `index.lock` | `slot` | total work within shared limits whatever dies; aged work is not overtaken; unknown work blocks | modelled |
| Continuous validation, requests and observation (`runner.py`) | request journal, snapshots, observation reservations | `_run_request`, reserve, settle | a request runs at most once; a reservation is spent once | planned |
| Continuous validation, checkpoint queue (`checkpoints.py`) | registry of bindings, event files `queued`, `attempting`, `terminal` | `register`, `enqueue_gate_commit`, `drain_one` | an uncertain attempt is never replayed; one attempt at a time | planned |
| Continuous validation backends, review, feedback | external jobs | Dagger, local engine, review agent | mapping of results | mostly external |
| OpenCode updater and maintenance | same pattern as the Codex updater, idle window | `opencode-update-all`, maintenance | as for Codex | planned |
| Research and development agents (`dbsctr-rnd`) | leases, budgets | scheduled runs | one run per slot | planned last |
| Herdr host, supervisor, session restore | process tree, session files | supervise, restore | one server owner, sessions restored once | planned last |
| **JFrog setup record** (`jfrog-state-file.mjs`) | `setup.json`, its lock file, a temporary file per PID | `set`, `get` | overlapping walks lose no record; an abandoned lock goes | modelled |
| **JFrog setup walk, MCP configuration** (`jfrog-detect-all.mjs`, `jfrog-resolve-mcp-config.mjs`, `jfrog-detect-jfrog-mcp.mjs`, ...) | the MCP file of the harness, `jf config`, memos of one process | a walk, a detector by itself | one server per walk; nothing of the user's is lost; hints are kept | modelled, except as section 6 says |
| **JFrog probes** (`jfrog-detect-server-ping.mjs`, `-jfrog-mcp-responding`, `-project`, `-catalog-runtime`) | none of their own | ping, MCP, projects, catalog | a verdict fits the platform on every deployment | modelled |
| **JFrog web login** (`jfrog-login-register-session.mjs`, `-save-credentials`) | accounts in `jf config`, a session at the platform | register, save | no account is lost to an unfinished login; an id keeps its platform | modelled |
| **JFrog marketplace of Claude Code** (`jfrog-add-claude-marketplace.mjs`, `lib/claude-config.mjs`) | `known_marketplaces.json`, `settings.json` | register | all or nothing, file by file, and it says what it could not put back; no token stays in the files; each helper asks for the token of its own platform | modelled, except as section 6 says |
| **JFrog agent guard** (`jfrog-mcp-management/scripts/jfrog-agent-guard-check.mjs`) | none of its own | check | the verdict is about the platform the caller means | modelled |
| **JFrog CLI freshness** (`jfrog/scripts/check-environment.mjs`, `cli-newer-version-offer.mjs`) | a cache of versions and of the pending offer | check, offer, `--clear` | one offer per release | modelled |
| **JFrog policies listing** (`jfrog-ai-catalog/scripts/list-skill-policies.mjs`) | none of its own | list | what may be incomplete says so | modelled |
| **JFrog CLI installation** (`jfrog-install-jf-cli.mjs`, `lib/command.mjs`) | `~/.jfrog/bin`, npm's bin, `PATH` | plans A, B and C | success means a recent `jf`; what is installed is what was published | modelled |
| Security audit validators (`security-audit/*.cjs`) | none | validate a document | the rules of the schema | one pass over a document, no protocol |
| OpenCode plugin runtime and tools, maintenance observer | none, or a sample of sessions | start the Python programs | the result is passed on | not planned first |
| Control plane, worktrees, databases, sandbox, policies, wrappers | configuration projections, PostgreSQL, virtual machines | thin clients | guarantees rest on the tools they drive | not planned |

`PROJECT.json` lists the same components with their sources and status.

### 1.2 How they interact

* **Through one file, whole.** `dbsctrctl` loads a Cycle Record, changes its private
  copy and replaces the whole file (`atomic_json`: temporary file, fsync, rename).
  Two invocations that overlap therefore lose each other's changes unless a lock keeps
  them apart.  Cycles with an Initiative, and local-only cycles, hold
  `local-mutation-<cycle>` around each command (`local_cli_mutation_guard`); standalone
  cycles do not, and only `record-evidence` and `final-push` take a lock of their own.
* **Through Git.** The helper, an editor and a person at the prompt change one working
  tree, index and branch.  Evidence names Git objects; a Gate Commit binds it.
* **Through the kernel.** Every lock is an `flock`, so a death releases it.  The budget
  also reads a lock as a sign of life: each slot keeps a lease file locked.
* **Through a journal.** The updater writes a private transaction before it touches the
  active release; the launcher (`executable_codex.tmpl`) runs
  `codex-update-all recover-local` before each start of Codex, and each update recovers
  first.
* **Through a dialogue.** A host stages, activates and rolls back its guest by commands
  whose answers decide the next command.
* **Through `jf config`.** Every JFrog script asks `jf` for the configured servers, some
  once and some at each use, while logins, other scripts and the user change them.  The
  MCP file, Claude Code's two files and the caches are read, changed in memory and replaced
  as a whole, like the Cycle Records, but with no lock except that of `setup.json`, which
  is a file created exclusively and taken for abandoned when it is old.
* **Between components.** A successful `gate-commit` may enqueue a checkpoint event; the
  checkpoint worker asks the request runner, which admits work through the budget.  These
  links are advisory: a lost event does not change the cycle.

### 1.3 What is hard in it

`PROJECT.json` lists each hazard at its line, with the properties that would catch it.
In short:

* overlapping commands on one record, and copies made stale while a helper waits for a
  lock, runs a program or talks to a remote;
* an edit or a commit between validation, staging, commit and push;
* death between two file operations of a commit, a delivery, an activation, a rollback
  or a slot's release, and death of the recovery itself;
* a push whose answer is lost; a lock that is not obtained in time;
* a long sequence of results, exceptions and re-runs that must keep the ledger in order;
* processes with different configured limits that share one budget;
* files of the user, of a harness and of these scripts that are read, completed and
  replaced while another hand writes them, and a lock that time can take away;
* server ids that mean another platform later than when they were checked, and requests
  whose answers come from different worlds;
* an install, a login or a registration of several steps of which one fails.

Hazards that no property covers, because the text of the repository does not say what should
hold or because the model leaves the data out:

* a project passed by the user is recorded without asking the platform
  (`jfrog-detect-project.mjs:70`), and a recorded one is carried over when a server id is
  set up for another platform (`jfrog-state-file.mjs:216`);
* a firewall that answers 401 behind `/bridge-client` passes for a catalog
  (`jfrog-detect-catalog-runtime.mjs:124`); `VerdictWasRight` leaves that world out;
* `restore` writes what register read over what Claude Code or the user wrote since
  (`lib/claude-config.mjs:58`), and a registration that is killed leaves one file declared;
  the properties on registrations leave out files that others wrote, and kills;
* after a new login an older token stays in `~/.netrc`
  (`jfrog-add-claude-marketplace.mjs:207`);
* `--clear` marks as offered a release that appeared since the offer
  (`cli-newer-version-offer.mjs:76`);
* a downloaded release that does not run stays in `~/.jfrog/bin`
  (`jfrog-install-jf-cli.mjs:452`), and plans A and B put npm's directory on the `PATH` of
  the script only;
* an aged expensive call that host pressure holds back stays first (`runner.py:820`), and a
  binary damaged by something else than the updater fails its rollback
  (`codex-update-all:665`).


## 2. The modules

```
GateLedger            the gates and evidence of a record, as pure operators
  CycleRecord         the record and the changes commands make to a copy
    CycleContract     abstract: a record that advances one operation at a time
    DbsctrCycle       the cycle, its helpers, locks, Git, deaths  --implements--> CycleContract
      MCDbsctrCycle       instances for TLC
        MCCycleEnds         three scenes for liveness
      DbsctrCycle_proofs  lemmas on the operators; every record is sound
        DbsctrCommits_proofs    what a record says of Git is true
          DbsctrDelivery_proofs   the contract, and deliveries

ReleaseSlot           abstract: one release, replaced whole or not at all
CodexUpdate           the updater, one file operation a step  --implements--> ReleaseSlot
  MCCodexUpdate
  CodexUpdate_proofs    theorems on the updater, with the refinement

AdmissionBudget       Budget.slot and Budget._read
  MCAdmissionBudget
  AdmissionBudget_proofs  theorems on the budget

JfServers             jf config as printed, and how one server is picked
  McpConfig           step 5 of a walk: the jfrog entry of the MCP file
    SetupWalk         the whole walk, around it
      MCSetupWalk
      SetupWalk_proofs    theorems on the walk
  JfAccounts          jf config as kept: accounts, changed by hand
    AccountLogin      the web login
    ClaudeMarketplace the registration of the marketplace
    AgentGuard        the gate
      JfrogAccounts         the three on one jf config, with changes by hand
        MCJfrogAccounts       the login beside the registration or the gate
        JfrogAccounts_proofs  theorems on the composition

SetupState            setup.json and its lock
RemoteProbes          the four probes of a platform
CliFreshness          the cache and the offer to upgrade
PolicyListing         paging through the policies
CliInstall            the three ways to install jf
  MCJfrogTools          these five side by side
  JfrogTools_proofs     theorems on each of the five
```

### 2.1 The cycle: GateLedger, CycleRecord, DbsctrCycle

`GateLedger` holds the functions that `dbsctrctl` applies to the `gates` dictionary:
`validate_plan` (`PlannedGates`), `disposed`, `invalidate_later`, `apply_gate_result`,
`apply_stricter_plan` (`Tighten`) and the two readings of "complete" that differ in the
code: `gate-commit` and `final-push` accept an exception key whatever the result beside
it, `complete-local` wants a failed result.  A gate is its position in `GATES`.  The
results `failed` and `unavailable` are one.

`CycleRecord` adds the record itself.  Fields that no modelled command changes (identity,
risk, workspace, authorization) are left out.

`DbsctrCycle` has one helper process per concurrent invocation.

| Variable | Code |
|---|---|
| `rec`, `pointer` | the record file and the worktree's active pointer |
| `log`, `remote`, `wt`, `index` | commits since the baseline, how many the target has, one modelled path in the working tree and in the index |
| `guard`, `elock`, `tlock` | `local-mutation-<cycle>`, the evidence lock, the target lock |
| `pc`, `copy`, `arg` | where each invocation is, its private record, its arguments and what it observed |
| `issued`, `crashes` | fresh evidence ids, deaths so far |

Commands of the load, check, save kind take two steps (`Prepare`, `Save`), so that
another helper may save in between.  The longer ones are cut where the code reads or
writes shared state:

* `record-evidence`: read the path identities, wait for the evidence lock, load the
  record, run the program, read HEAD, save;
* `update-plan` and `raise-risk`: load, tighten and rebind the profile, list the branch and
  adopt its commits, save;
* `gate-commit`: verify against working tree and HEAD, `git add`, compare the index,
  `git commit`, compare HEAD, bind, save;
* `final-push`: load, try the target lock, check the completion source, compare the
  ahead commits and save `finalizing`, push HEAD, compare the target and save
  `completed`, save `source_sync`, unlink the pointer;
* `complete-local`: check the completion source, compare the commits since the baseline
  with the recorded ones, read HEAD and validate the completed record, reobserve and save,
  unlink.

`complete-local` reads the branch at two times (`dbsctrctl:20150` and `20156`), and a
profile may be committed in between.  Such a HEAD does become the head of the completion it
prepares (`tip` in the model's record), but not of one it saves: `validate_schema6_record`
refuses a completed record whose completion head is not its last recorded commit
(`dbsctrctl:3377`).  `ValidCompletion` is that check, and without it
`DeliveredExactlyRecorded`, which compares what the record lists with the branch up to
`tip`, is violated.

`Crash` can strike at each of these points; the kernel then drops the helper's locks.
`PushFails` covers a failed push whose commits may or may not have arrived.  `Edit`,
`Unstage` and `CommitProfile` are the editor and the person; they take no lock.

`ranHead` in an evidence envelope is the one history field: the HEAD at which the program
was started.  The code does not store it, only properties read it.

`CycleContract` is what a reader of the record may rely on: every saved version is the
last one advanced by one operation whose precondition held in it.  It has no processes,
copies or locks.  Its operations relate a saved record to the next one, so that the proofs
can also speak of the operation a helper has prepared in its copy and not saved yet.  A
serialized cycle implements it with `rec` as is; a standalone one does not, which is what
serialization is for.

### 2.2 The updater: CodexUpdate

`process_lock` lets one invocation run at a time, so there is one program counter, and the
state is the disk.

| Variable | Code |
|---|---|
| `disk` | content of `codex`, the release lock, candidate, candidate lock, previous generation and its lock, and the set-aside binary of a rollback |
| `journal` | the private transaction: phase, `had_binary`, `had_lock`, release |
| `rejected` | `rejected-candidate.json` |
| `pc`, `job` | the running command, its local variables and its pending `unlink`s |
| `exit` | how the last command other than a recovery ended |
| `role` | is the machine a remote user, or its host's guest? |

Each `rename`, `unlink`, JSON write and copy is a step; a copy or an extraction is first
`Torn`, so that a death can leave it so.  A file's content is the release it belongs to,
and comparing digests is comparing releases.  Lists of files that one call removes in
turn are `Unlinks`; the order in each list is the order in the code.  A health probe
compares the binary with a lock and then runs it; the run may fail (`runs = FALSE`),
`MaxFaults` times.

Rollback is modelled with all its callers, because what follows it differs: recovery goes
on to query or stage, `guest-rollback` ends, a failed activation raises its own error.
`local_update` turns an error into a soft outcome when the release was healthy at the
start (`Soft`).

`ReleaseSlot` is the abstraction: one active release, replaced as a whole; a machine that
updates itself never goes back.  The refinement mapping reads the release in force from
the backed-up lock while an activation is in flight and from the active lock otherwise,
so an activation takes effect when its journal is removed.

### 2.3 The budget: AdmissionBudget

A call is one use of `Budget.slot`.  A section under `index.lock` is one step: it reads
the index and raises or replaces it.  Between those steps the process holds its lease
and nothing else.

| Variable | Code |
|---|---|
| `entries`, `limits` | `index.json`: state of each entry, the first configured limits |
| `lease` | the lease file of each call: absent, locked, or present and unlocked |
| `born`, `aged` | the order of `created` times, and how many of them lie more than five seconds back |
| `pc`, `kept` | where each call is, `retain_unknown` |
| `work` | the calls whose work may be going on, whatever became of their process |
| `unmarked` | history: calls whose marking as unknown timed out |
| `capacity` | the number of entries `_read` accepts, 256 in the code |

`Readable` is the conjunction of the conditions under which `_read` does not raise.
`Read` is what it returns: it drops queued entries whose process died, and only those.
`Before` is the sort key, `Eligible` and `Admissible` the admission test with the lesser
of the caller's own limits and the stored ones.  Host pressure and giving up are free
choices.  `Crash` unlocks the lease of a dead process but leaves its work running;
`WorkEnds` may end it at any later time.

### 2.4 The setup record: SetupState

A walk is a process that calls `setStateForServer`.  Each system call that others can see
is a step: creating the lock, looking at its age, removing it, creating it again, reading
the file, writing the temporary file, renaming it, removing the lock.

| Variable | Code |
|---|---|
| `setup`, `readable` | `setup.json`: the record of each server, and whether it parses |
| `lock` | `setup.json.lock`: its creator, and whether it is older than `STALE_LOCK_MS` |
| `leftover` | PIDs whose temporary file a killed run left |
| `at`, `ask`, `loaded` | where each walk is, its arguments, what it read |
| `aged` | history: have locks of dead, or of living, walks become stale? |

`Age` is the clock; it makes any lock stale, that of a merely slow walk too.  A walk that
dies is a free slot again: a later process may have its PID, which is when `WriteRefused`
happens.

### 2.5 The walk: JfServers, McpConfig, SetupWalk

`McpConfig` is step 5, one action per read or write of the MCP file.  Three kinds of file
stand for the harnesses: the ones whose own global file a walk may create (`"own"`), the
ones whose file the JFrog plugin ships (`"plugin"`), and OpenCode, with its two layers.
Of a file's content only two things matter: does it hold entries of the user's own, and
what is the `url` of the jfrog entry.  OpenCode's two layers are read one after the other
(`Look`, `LookGlobal`).  A file that vanishes before the substituter resolves its path ends
the process with an exception (`"thrown"`), and with it the walk around it.  `seen` is what a process last read before it
writes; `memo` is `jfConfigShow`'s cache, which `resolveJfServer` works on; `used` is a
history of the servers a process has used.  `EditFile` and `Reconfigure` are everybody
else.

`SetupWalk` puts the other steps around it.  A probe's outcome is a free choice here
(what it makes of answers is `RemoteProbes`), and saving the hint is one step, which may
fail when another process has the lock (how it is done is `SetupState`).

### 2.6 One jf config: JfAccounts, AccountLogin, ClaudeMarketplace, AgentGuard

`JfAccounts` has the accounts: which platform an id points at and what its credential is
worth.  `jf config add` and `remove` are modelled from how the scripts use them.
`unpinned` is a history of ids whose meaning was changed by hand, lost by a login that
failed after it had removed the old account, or taken by a login whose check could not read
the configuration; the guarantees below hold for the others.

* `AccountLogin`: one action per call of `save-credentials`.  `deriveServerId` is a
  constant, so that two platforms can derive one id.  `CheckCollision` fails open, as
  `jfConfigShow` does: when `jf config show` fails every id looks free.
* `ClaudeMarketplace`: `was` is what `declareMarketplace` read, and what `restore` puts
  back, one file at a time; `stuck` are the files it could not put back, `told` those the
  registration named when it ended.  `pinned` is the server resolved at the start.
  `touched` is a history of files that somebody else wrote since.  A helper is the server
  id its command line names; older entries get it by `origin`, which platforms that differ
  in their path share.
* `AgentGuard`: `gate` holds the credentials as they were exported, `Target` whom a
  request reaches in the end.  `meant` is a history of what the caller meant at any
  moment of the run, by the rule of the script's own comments.

`JfrogAccounts` composes them: a login, a registration, a gate and changes by hand, any of
them at any time; this is the system of the theorems.  `MCJfrogAccounts` explores it in two
scenes, the login and changes by hand beside the registration and beside the gate.

### 2.7 The tools: RemoteProbes, CliFreshness, PolicyListing, CliInstall

* `RemoteProbes`: a world is a platform, the way to it and the credential; each request
  is a step, and one thing may change between two requests.  `saw` is a history of the
  worlds a probe has run in, `Verdicts` what is right to say of each.
* `CliFreshness`: the check holds the cache in `read` from its first line to `writeCache`.
  `overtaken` is a history of scripts whose copy is out of date, `settled` of releases
  whose offer was cleared.
* `PolicyListing`: `catalog` is the server's list, into which administrators insert and
  from which they remove; `throughout` is a history of the policies that were there all
  along.
* `CliInstall`: `bin` is what lies in each place, `path` the order in which they are
  looked at; a version that GET returned is compared with the one HEAD spoke of.


## 3. The runs

| Run | Instance | Question and answer |
|---|---|---|
| `cycle_initiative` | serialized; 2 helpers, 2 gates (one optional), 2 evidence ids, 2 contents, 2 commits, 1 death; every command but `complete-local` | Type, ledger, evidence and delivery invariants, finality, retention, and that it implements `CycleContract`.  All hold; 1.6 million states. |
| `cycle_standalone` | the same without serialization, with delivery commands and exceptions, 1 commit | What survives overlapping helpers: evidence is bound only to what it is about, completion rests on current evidence; 3.0 million states.  (That the ledger stays in order and evidenced is proved for this case too, section 4.) |
| `cycle_local` | local-only; 1 gate, 2 profiles, 2 commits, 1 death | `complete-local` completes exactly the recorded lineage, up to the head it names, also when a profile is committed between its two reads; `update-plan` adopts nothing but profile commits, also after `gate-commit` died between commit and save; 1.0 million states. |
| `cycle_ends` | 1 gate, 1 profile, fairness; three scenes: 1 standalone helper, 2 deaths; 2 standalone helpers with `record-evidence` and `final-push`, 1 death; 2 guarded helpers, 1 death | Every command ends, though helpers contend for the evidence lock and the target lock, with or without the guard taken before, and may die holding them; a push cut off anywhere is completed by repeating it; the worktree is released; 28 thousand states. |
| `lost_evidence` | standalone | **Violated** `EvidenceRetained`, see 3.2. |
| `unrecorded_pushed` | standalone | **Violated** `DeliveredExactlyRecorded`. |
| `codex_update` | 2 releases, both roles, 2 deaths, 2 faults, fairness | A settled machine is coherent, the prior release is retained while an activation is in flight, activations are atomic (`ReleaseSlot`), and every interruption settles unless a rollback itself was cut off at one place; 121 thousand states. |
| `admission` | 3 calls (1 cheap, 2 expensive, one with lower limits), room for 2 or 3 entries, 1 death, 1 lock timeout | Work stays within the limits, the budget blocks only for a cause, aged calls are not overtaken; 2.3 million states. |
| `jfrog_walk` | 2 processes, 2 servers, 1 project, 1 change from outside; a walk, or two detectors at once | A walk uses one server; files change only by addition unless somebody else wrote them in between; hints are for the server used and not erased; 2.8 million states. |
| `jfrog_accounts` | 2 ids, 3 platforms that derive the same id, two of them on one origin, 1 change of `jf config` by hand, 1 edit of a file, 1 fault; two scenes | Helpers send tokens to their own origin, accounts survive unfinished logins, a registration that succeeds leaves no token, one that fails leaves each file as it was unless it could not put it back, the gate's verdict is about a platform that was meant; 3.7 million states. |
| `jfrog_tools` | six scenes: 2 walks on `setup.json` with 1 death, or with 2 servers and 2 URLs; every world of the probes and one change; 2 agents, 3 releases, 3 turns; 4 policies, pages of 2, 2 pages; 3 versions of jf, 1 kill; fairness in the first | Records are kept while no lock is stale, abandoned locks go, verdicts fit, an offer is made once, unmarked listings are complete, what is installed is what was published and success means usable; 1.0 million states. |
| `not_a_mutex` | 2 walks, 1 death | **Violated** `MutualExclusion`, see 3.2. |

The scenes of `cycle_ends`, `jfrog_accounts` and `jfrog_tools` share no state with each
other; they stand in one run because each is small.

Each property of a passing run has a mutant of a mapped definition in `PROJECT.json`
(a dropped guard, a missing save, a swapped order) under which TLC finds the property
violated; mutants sit next to the definition they change and are marked as such.

### 3.1 Bounds

* **Two helpers.** Every interference on a record is between one load and one save, and
  what a helper does depends on others only through `rec`, Git and the locks.  Three
  helpers add longer chains of the same overlaps.  Helpers are symmetric where no
  liveness property is checked.
* **Two gates** are a gate and a predecessor, enough for order, invalidation and
  tightening; the proofs cover any number.  **Two evidence ids** are a first and a second
  run.
* **Two contents of one path** tell "what was validated" from "anything else"; one
  profile is enough where profile commits play no part.
* **Two commits** let one be unrecorded, or later than the recorded one.
* **One death** in the safety runs of the cycle reaches every crash point beside a living
  helper; **two deaths** in `cycle_ends` and `codex_update` let the repair die too.
* **Two releases** are a newer and an older one, and either may be rejected.
* **Two faults** let an activation and the rollback after it fail.
* **Three calls** are one running, one queued and one that overtakes; **room for two
  entries** lets the index overflow, room for three does not.
* **Two processes, two servers** in `jfrog_walk`: a file is lost, or a server mixed up,
  between one read and one write.  The constraint `WalkAlone` lets no second process run
  beside a whole walk; what two processes do to one file is explored with two detectors,
  which take all the steps that touch it.  The outside may change the file or the
  configuration once, at any moment.
* **Platforms with one derived id** are what the collision check is for; in the marketplace
  scene two of the three share an origin, so that a JPD is more than its origin.  There a
  change by hand removes an id or points it at the third platform while the registration
  works, and a login may overwrite one whose check fails.  In the gate's scene the login is
  for one platform and anything may change by hand.
* **One fault** in `jfrog_accounts` is a failed write, a failed putting back, a failed call
  of `jf` or a kill; the rest must then hold.
* **Pages of two policies and two pages** let a policy be inserted before the offset between
  the pages of a listing that ends without a note, and let the cap, a full last page and an
  empty one happen; the proof covers every size.
* **Two servers and two URLs** let each walk set its own record of `setup.json` while the
  other holds a copy of the file.  In that scene nobody dies and no lock becomes stale: the
  lock of a dead walk goes only by becoming stale, after which `RecordsKept` says nothing.
  Deaths and stale locks are in a scene with one record, for `AbandonedLockGoes`.
* **Three releases of jf** with the minimum in the middle let an offer be made above the
  minimum, cleared, and made again for the next one.
* **Two helpers** in `cycle_ends` are a holder and a waiter of each lock.  `PushSettles` and
  `PointerReleased` are about a person who repeats a command, hence the scene with one
  helper and two deaths.  The guarded scene leaves out the death that leaves the pointer
  for good (3.2).
* **One death of two walks** is a lock left behind and two walks that reclaim it.
* **Three versions of jf** are one below the minimum, the minimum and a newer one, which
  may not run on the machine.

Bounded counters: `MaxCommits`, `MaxCrashes`, `MaxFaults`, `MaxTimeouts`, evidence ids,
`MaxChanges`, `MaxDeaths`, `MaxTurns`, `NewestRelease`, `Newest`, and the one turn of the
world (`Turning`).
`CHECK_DEADLOCK FALSE` is set where the system may stop: in `admission`, all calls end.

### 3.2 Where the code does not do what the text says

The runs marked **violated** each check one sentence of the documentation or one assertion
of a test against the code.  `PROJECT.json` quotes the sentence with its line.

* `lost_evidence`: the evidence lock excludes two `record-evidence` runs but not
  `record-evidence` and another writer of a standalone cycle; the later save drops the
  stored envelope.  The same overlap lets a helper write a completed record back as
  active.
* `unrecorded_pushed`: `finish_push` checks which commits are ahead and later pushes
  `HEAD` by name; a commit made in between is delivered, recorded by nobody.
* `not_a_mutex`: `reclaimIfStale` looks at the age of the lock file and then removes
  whatever is there.  Two walks that find an abandoned lock may both get past it, the
  second by removing the lock the first has just made.  `RecordsKept` is therefore stated
  for behaviours in which no lock has become stale.

Seven more were found in the same way.  They are not among the runs; each is reproduced by
the configuration of a run that is, changed as the last column says, with the property in
place of its own.

| Property | What the code does | Start from | Change |
|---|---|---|---|
| `PointerReleased` | For a cycle with an Initiative the guard (`dbsctrctl:9904`) refuses `final-push` on a completed record, so the code that releases the pointer after a death between completion and unlink is out of reach, although a test of the standalone case asserts that it is released (`tests/test_dbsctrctl.py:4306`).  A standalone cycle passes in `cycle_ends`. | `cycle_ends` | module `MCDbsctrCycle`, `SPECIFICATION FairSpec`, `Serialized = TRUE`, `Procs <- OneHelper` |
| `DeliveredOnEvidence` | HEAD is read for the envelope after the program has run (`dbsctrctl:17826`), so a commit made meanwhile counts as validated. | `cycle_initiative` | `NGates = 1`, `Optional = {}`, `Procs <- OneHelper`, `Profiles <- TwoProfiles`, `Commands <- ProfileCommands`, no `SYMMETRY` |
| `RecoverySettles` | `rollback` moves the previous binary back early (`codex-update-all:744`) and removes the transaction late, and insists on the previous binary at the start; a death in between makes every later recovery fail although the restored binary is whole.  `UncutSettles` shows that this is the only such place. | `codex_update` | `Roles <- UserMachine`, `MaxFaults = 0` |
| `UnknownBlocks` | If marking a slot unknown times out on the lock (`runner.py:832`), the `finally` clause removes the entry, and other work is admitted beside what may still run.  `WorkBounded` excepts exactly that case, which `unmarked` records. | `admission` | `MaxCrashes = 0` |
| `RefusesToOverwrite` | A login looks at `jf config show` before it removes an id and is "refusing to overwrite it" if the id points at another platform (`jfrog-login-save-credentials.mjs:163`); but a failure of that call reads as an empty configuration (`lib/jf.mjs:199`), the id looks free, and the account is removed.  `HelperStaysHome` and `VerdictIsMeant` except such ids. | `jfrog_accounts` | `MaxChanges = 0` |
| `HelperStaysOnItsPlatform` | An older entry for a JPD on the declared one's host, under another path, is given the declared one's helper, because origins are compared (`lib/claude-config.mjs:108`), although the comment says that an entry on another JPD is not, "since the helper would send this server's token there" (`:86`).  `HelperStaysHome` is therefore about origins. | `jfrog_accounts` | `MaxChanges = 0`, `MaxFaults = 0`, an `INVARIANT` |
| `SaysWhatIsStuck` | `restore` "returns the files it could not put back, so the caller can say so" (`lib/claude-config.mjs:52`); when the second file cannot be written `declareMarketplace` drops them (`:160`) and the user is not told that the first is left declared. | `jfrog_accounts` | `MaxChanges = 0`, `MaxFaults = 2` |

Without a run: the comment at `jfrog-install-jf-cli.mjs:358` says that the download goes on
unverified if the HEAD request fails; the code at line 393 refuses it, and `Verified` models
the code.

One more thing a reader should know, though no text speaks of it: `slot` appends its entry
without looking at the limit that `_read` enforces.  One entry beyond 256 makes every later
read raise, those that would release entries included, so the budget stays blocked until
somebody edits the index.  `BlockedForCause` names that cause (`~Fits`).

### 3.3 Fairness

* `DbsctrCycle!Fairness`, which `cycle_ends` assumes in each scene: weak fairness of a
  started helper, since a process runs on until it ends or dies.  Strong fairness of starting
  `final-push`, since the person delivering repeats it, and of the push getting through,
  since a remote that never answers cannot be made up for.  `PushSettles` further assumes
  that the working tree and branch are left alone at last.
* `CodexUpdate!Fairness`: weak fairness of the running command; strong fairness of
  `RecoverLocal`, because the launcher runs it before each start of Codex.  Nothing is
  assumed about updates, guests or hosts.
* `SetupState!StateFairness`: weak fairness of a walk that has begun and of the clock, and
  strong fairness of beginning one: the skill is run again and again.  Without another walk
  an abandoned lock stays, and harms nobody.
* `AdmissionBudget` has none: a call gives up after its timeout, and whether it is ever
  admitted depends on host pressure.


## 4. The proofs

TLAPS proves these for every value of the constants, from the `ASSUME`s of the modules
only (which TLC evaluates on every run).  The second column is the hypothesis besides the
specification, if there is one.  With them every safety property of a passing run, state or
action, and both refinements are theorems; `PROJECT.json` says in words what each
establishes.

| Theorem | If | Statement |
|---|---|---|
| `DbsctrCycle_proofs!Invariance` | | `Spec => []IInv` |
| `DbsctrCycle_proofs!TypeCorrect` | | `Spec => []TypeOK` |
| `DbsctrCycle_proofs!OrderKept` | | `Spec => []LedgerInOrder` |
| `DbsctrCycle_proofs!EvidenceKept` | | `Spec => []LedgerEvidenced` |
| `DbsctrCommits_proofs!Truthfulness` | | `Spec => [](IInv /\ TruthfulRecords)` |
| `DbsctrCommits_proofs!BindingIsTrue` | | `Spec => []BoundEvidenceIsCommitted` |
| `DbsctrCommits_proofs!AdoptionIsProfileOnly` | | `Spec => []AdoptedIsProfileOnly` |
| `DbsctrDelivery_proofs!ContractKept` | serialized | `Spec => ImplementsContract` |
| `DbsctrDelivery_proofs!EvidenceStays` | serialized | `Spec => EvidenceRetained` |
| `DbsctrDelivery_proofs!CompletedStays` | serialized | `Spec => CompletedIsFinal` |
| `DbsctrDelivery_proofs!FinalizingStays` | serialized | `Spec => FinalizingNeverReopens` |
| `DbsctrDelivery_proofs!DeliveryOnEvidence` | undisturbed | `Spec => []DeliveredOnEvidence` |
| `DbsctrDelivery_proofs!DeliveryExact` | local-only or undisturbed | `Spec => []DeliveredExactlyRecorded` |
| `CodexUpdate_proofs!UpdateInvariance` | | `Spec => []IInv` |
| `CodexUpdate_proofs!UpdateTypes` | | `Spec => []TypeOK` |
| `CodexUpdate_proofs!Coherence` | | `Spec => []SettledCoherent` |
| `CodexUpdate_proofs!Retention` | | `Spec => []PriorRetained` |
| `CodexUpdate_proofs!AtomicActivation` | | `Spec => ActivationIsAtomic` |
| `AdmissionBudget_proofs!Invariance` | | `Spec => []IInv` |
| `AdmissionBudget_proofs!Bounded` | | `Spec => []WorkBounded` |
| `AdmissionBudget_proofs!Blocked` | | `Spec => []BlockedForCause` |
| `AdmissionBudget_proofs!NotOvertaken` | | `Spec => AgedNotOvertaken` |
| `SetupWalk_proofs!WalkInvariance` | | `WalkSpec => []WalkIInv` |
| `SetupWalk_proofs!WalksAgree` | | `WalkSpec => []OneServerPerWalk` |
| `SetupWalk_proofs!WalksAddOnly` | | `WalkSpec => AdditiveUnlessRaced` |
| `SetupWalk_proofs!HintsAreKept` | | `WalkSpec => HintsKept` |
| `JfrogAccounts_proofs!AccountsInvariance` | | `AccountsSpec => []AccountsIInv` |
| `JfrogAccounts_proofs!HelpersStayHome` | | `AccountsSpec => []HelperStaysHome` |
| `JfrogAccounts_proofs!NothingIsLost` | | `AccountsSpec => NothingLostWithoutToken` |
| `JfrogAccounts_proofs!TokensAreGone` | | `AccountsSpec => TokensGone` |
| `JfrogAccounts_proofs!RegistersAllOrNothing` | | `AccountsSpec => AllOrNothing` |
| `JfrogAccounts_proofs!VerdictsAreMeant` | | `AccountsSpec => VerdictIsMeant` |
| `JfrogTools_proofs!SetupInvariance` | | `StateSpec => []StateIInv` |
| `JfrogTools_proofs!RecordsAreKept` | | `StateSpec => RecordsKept` |
| `JfrogTools_proofs!ProbeInvariance` | | `ProbeSpec => []ProbeIInv` |
| `JfrogTools_proofs!VerdictIsRight` | | `ProbeSpec => [](ProbeTypeOK /\ VerdictWasRight)` |
| `JfrogTools_proofs!FreshInvariance` | | `FreshSpec => []FreshIInv` |
| `JfrogTools_proofs!NeverOfferedAgain` | | `FreshSpec => []OfferedOnce` |
| `JfrogTools_proofs!ListingInvariance` | | `ListSpec => []ListIInv` |
| `JfrogTools_proofs!ListingComplete` | | `ListSpec => []CompleteWithoutNote` |
| `JfrogTools_proofs!InstallInvariance` | | `InstallSpec => []InstallIInv` |
| `JfrogTools_proofs!InstalledWhole` | | `InstallSpec => []InstalledIsPublished` |
| `JfrogTools_proofs!SuccessUsable` | | `InstallSpec => ZeroMeansUsable` |

*Serialized* is `Serialized`, the local mutation guard of a cycle with an Initiative or a
local-only one.  *Undisturbed* is that and `Profiles = {BirthProfile}`: nobody commits a
change of the Engineering Profile beside the commands.  None of the hypotheses is there for
the proof's sake; each comes from behaviours TLC finds without it:

* without serialization `lost_evidence` and `unrecorded_pushed` violate two of the
  properties, and the contract is broken by the same overlap of two saves;
* with serialization and profile commits, a profile committed while a program runs becomes
  the HEAD that its evidence names (`DeliveredOnEvidence`, section 3.2), and one committed
  between the comparison of `fp_ahead` and the push is delivered unrecorded
  (`DeliveredExactlyRecorded`), because neither commit needs the guard.  A local-only cycle
  pushes nothing; what its completion names is checked against what it lists once more
  before it is saved, so the theorem needs no hypothesis there.

Each inductive invariant was checked by TLC on the instance of the component's run before it
was proved.

**The cycle: sound records.** `LedgerInOrder` and `LedgerEvidenced` are about the record on
disk, but the record on disk is written from a copy some helper made long before, so neither
is inductive.  The invariant says that *every* record in the system, on disk and in each
helper's copy, is `Good`: well typed, in order, evidenced, and not using evidence ids that
have not been issued.  The last part is needed because a helper about to store evidence
`issued + 1` must find that id unused in *its* copy, which may be old.  A save may then
lose what another helper saved, but what it writes is sound.  This is why the two
properties hold with and without serialization.  The first half of `DbsctrCycle_proofs`
shows once for each operator on records (`EvidenceAdded`, `ApplyGateResult`, `Tighten`,
`Excepted`, `Bound`) that it keeps a record sound; the second has one lemma per action.

**The cycle: true records.** `TruthfulRecords` ties every record to Git in the same way,
stale copies included, which works because the branch only grows: evidence called committed
was produced from the content of that commit, before it was made; listed commits exist, in
order, and one listed for no gate changes the profile alone.  `Standing` says what a
`gate-commit` has established and still relies on at each step: its gates are ready, their
evidence is older than the commit about to be made, and after the commit every listed
commit is older than it.  So the binding that is saved last, by a helper that compared HEAD
twice, is true also when others have committed in between.

**The cycle: the contract.** Under the guard a copy is not stale.  `OneCommand` says that
only the guard's holder is between two steps, and `InStep` how its copy stands to the record
on disk at each step: equal to it, or advanced by the one operation of `CycleContract` that
it is about to save.  Every save is then a step of the contract and everything else a
stutter; retention, finality and the delivery's one-way street follow from the contract's
operations, not from the helpers.

**The cycle: deliveries.** `Deliveries` adds what is pushed.  `Settled`: nothing is pushed
of an active cycle; once a delivery has begun the record lists the whole branch, every
required gate rests on evidence, and the target has all of it or none, all if completed.
`Pending` says what a command that has compared HEAD with its lineage may rely on until it
saves.  A push whose answer is lost, a death between push and save and a repeated
`final-push` all stay inside `Settled`.

**The updater.** The journal is the heart of the invariant (`FlightOK`): as long as it
stands, the whole binary of the prior release is in place under its own lock, or backed up
under the backed-up lock; and phase `prepared` means that the release in force is untouched.
The rest says where the command stands: `ActivatingOK` and `RollbackOK` what an activation or
a rollback has done by each of its steps, `UnlinkOK` how far a list of files has been
removed, since a command may die between any two of them, `StagingOK` that nothing is staged
over a journal that stands.  A death is the easy case: the files satisfy
`FlightOK` after every step, and an idle machine relies on nothing else.  `AtomicActivation`
then shows that the release in force, read through the refinement mapping, changes in one
step only, the removal of the journal of a proven activation, to the release that was
staged, and on a machine that updates itself to no older one.

**The budget.** `WorkBounded` counts work, `Budget` counts entries.  The invariant links
them: `WorkCharged`, work that may be going on has a running or unknown entry (`Charged`);
`ChargeBounded`, the charged entries are within the limits; `Placed`, where a process is
tells its entry, lease and work.  Two lemmas carry it: `ReadRunning`, a reader of a
readable index keeps every running entry, and `UnreadableStays`, an unreadable index is
not rewritten and never becomes readable, so an entry somebody could not release does no
harm.  An admission needs a readable index, hence no unknown entry, hence as many charged
entries as `slot` counts running, hence room for one more.  `Left` (calls that are over
have left no entry behind) serves `BlockedForCause`; `BornOnce` (one creation per call)
turns the sort order into `AgedNotOvertaken`.

**The walk.** `OneServer`: what a walk has used is what it would resolve now, and once it
has used a server its memo of `jf config show` is set and is not read again; so changes of
the configuration cannot reach it.  `Pinged`: whatever comes after step 4 was preceded by a
use of the server, which is whose hint is saved.  `Holding`: a process about to write holds a
document that had a place for the entry, so what it overwrites of the user's it had not seen.
The theorems are about any number of whole walks and detectors at once; the run lets only
detectors overlap (`WalkAlone`).

**The accounts.** The three scripts share nothing but `jf config`, and what each of them
holds is a server id whose account the others may replace.  `Homed(h, jpd)` is what they can
rely on: id `h` points at `jpd`, or has just been removed by a login for `jpd` that is about
to add it again, unless its meaning was changed by hand or lost (`unpinned`).  Every step
keeps it, for any id and platform (`HomesKept`): a login adds and removes its own id only,
and only after it found that the id is free or its platform's, or after it failed to look,
which `unpinned` records.  The helpers in the files, the
server `register` has pinned and the server the gate has resolved are homed from the moment
they are chosen.  `RegisterSound` follows each of the two files as long as nobody else
writes it and it could be put back, `GuardSound` keeps a platform in `meant` for wherever the gate is going.  The run
explores two scenes; the theorem has login, registration, gate and user at once.

**The setup record.** `RecordsKept` is about one step, the rename, but whether it is sound
depends on what was read three steps earlier.  The invariant `Calm` says what holds as long
as no lock has become stale: a walk inside the critical section is the owner of the lock
file, no walk is about to remove one, and what a walk between its read and its rename has
loaded is what the file says now.  Since there is one lock file it has one owner, so the
others cannot rename in between.  The proof needs no bound on walks, servers or deaths, and
shows that the age of the lock is the only way in: `aged = {}` is its one hypothesis.

**The probes.** `VerdictWasRight` must follow from requests of which some were answered by
another world.  `Ran`: a probe has seen the present world and at most one other, which
differs only in what can change.  `Answered`: if the world has not changed, each earlier
request was answered in it, so the probe is where one world would have led it.  `Followed`
covers the change: a probe that asks behind `/bridge-client` although the catalog is at the
root has run in a world without one.  The verdict is then right for one of the two.

**The listing.** An insertion shifts policies to the right, so what was behind the offset
may come again but nothing behind it is skipped.  The invariant `Progress` says so: unless
something was removed, every policy that applied throughout has been fetched or stands
behind the offset, and behind nothing when the listing ended without a note.  `Inserted` is
the lemma on shifting, `FetchProgress` that of a page: what it does not take starts at the
next offset, and a page that is not full was the last.

**The installation.** `Downloads` says what the answers of the network can be, `Whole` what
follows where: between the check of the digest and the rename the bytes are a release of
the past, and so is the binary when it is tried.  That the check refuses the damaged bytes
rests on no checksum being that of a damaged file, which is what a digest is for.
`ZeroMeansUsable` has two arguments: by npm or at the start, the look-up that decides it is
made on the final PATH and files, after the memo was reset; by download, `FirstWins` says
that the directory put first on PATH hides every other jf, and `Whole` that what is there
is recent.

**The offer.** Nothing orders the writers of the cache, so the invariant is about what each
of them knows.  `Agreement`: a script that no other overtook holds the release and the flag
as they are on disk.  `Known`: what it learns of the latest release is no older than what
it read, because releases are never withdrawn.  `Cleared`: cleared releases are no newer
than the one on record, and if that one was cleared it is not on offer.  A write by a script
that was overtaken empties `settled`, so the theorem is silent about it, as the property is.

**Assumptions.** Three were added for the proofs, and say of values of the model what holds
of the things they stand for: `UrlAssumption` and `HintAssumption`, that the marks for "no
URL", "a placeholder" and "no hint" are not server URLs or projects; `FiniteAssumption`, that
`jf config` has finitely many ids, which the gate counts.  The others bound counters and
give constants their types.

**Only model-checked.** Liveness and everything under fairness (`CommandsEnd`,
`PushSettles`, `PointerReleased`, `UncutSettles`, `AbandonedLockGoes`), which is out of this
prover's reach, as `ENABLED` is.  `DeliveredOnEvidence` of a standalone cycle, which
`cycle_standalone` checks for one modelled commit: without the guard it depends on which
commits fall into the run of a program, and no invariant short of those bounds was found.
The violated properties are, of course, not theorems; that they are violated shows
where the hypotheses above come from.


## 5. Plan

Done: the cycle and its contract, the updater with its abstraction, the admission budget
and the scripts of the JFrog skills; theorems for every safety property and both
refinements that the runs check.  Next, in this order:

1. **Checkpoint queue** (`checkpoints.py`): `enqueue_gate_commit` and `drain_one` over the
   event files, with the lock released between claim and settlement, a changing
   enrollment and HEAD, and deaths.  An event is attempted at most once; a death after the
   claim leaves an `attempting` event that stops every later drain.  Theorem: at most one
   attempt.
2. **Requests and observation reservations** (`runner.py`): the request journal and the
   reservation ledger, composed with `AdmissionBudget` (a request's work is a call of the
   budget).  Abstract specification: each request takes effect at most once.
3. **Initiatives and amendments** over `CycleRecord`: approvals bound to digests, the
   amendment checkpoint; the guard's dispatch selection in full.
4. **Registration, retirement and cleanup**: more than one cycle and worktree; one open
   cycle per worktree as an invariant.
5. **Batches and continuation**: integration of completed cycles, merge recovery,
   hand-over of a cycle between sessions.
6. **OpenCode updater**: a second instance of `ReleaseSlot`, with its idle window.
7. **Proofs**: the same for each new component.  For a standalone cycle,
   `DeliveredOnEvidence` without profile commits under a hypothesis weaker than
   `Serialized`; the types and the joint invariant of two walks on one `setup.json` and one
   MCP file, once item 8 composes them.
8. **A probe inside a walk**: `SetupWalk` composed with `RemoteProbes` and with
   `SetupState` step by step, where both now leave a free choice.

The passing runs of the cycle may then be joined by making the kind of cycle part of
the initial state, as `role` is in `CodexUpdate`.


## 6. What is not modelled, and why

* **In the cycle:** delivery by draft pull request and `reconcile-delivery` (remote
  services); the DVC and Graphify checks of `final-push`; records of older schemas; the
  retired cleanup command; rebasing or force-pushing by hand.  A changed target is
  visible only as a failing push.  Reviews are one flag.
* **In the updater:** `host_update` and `recover_host`, which `main` never reaches on the
  only platform that has a host role (it returns 75 first); adoption of a binary that has
  no lock; the metadata and archive checks beyond their outcome; damage by anything but
  the updater itself.  Guests are driven in the order the host's code drives them.
* **In the budget:** the file-format checks of `_read` (a malformed index raises like an
  unknown entry), and the clock beyond the order of creation and the aging threshold.
* **In the JFrog scripts:** how the harness is recognised (process ancestors, environment
  variables, versions of an installed plugin) beyond which file is found; temporary files
  that killed runs leave beside MCP files and caches, which later runs overwrite or which
  carry another PID; file modes; the suggestions of project names; the installation of the
  helper file and the old token in `~/.netrc`; the user agent; the tunnel through a proxy;
  the line added to the shell's start file; the reinstallation of a plugin, which is a
  sequence of calls of other programs.
* **Not at all:** the validators of the security audit, which read a document once and keep
  nothing; the OpenCode adapters, which start the Python programs.
* **External code** (Git, editor, remote, `jf`, npm, the JFrog platform, Claude Code) is
  modelled from how the scripts use it and is marked `external` in `PROJECT.json`.

An error path is the step on which a helper ends (`Exit`, `Raise`, `Quit`); messages, exit
texts and log lines are left out everywhere.


## 7. Running it

```
tlc -workers 2 -config cycle_initiative.cfg MCDbsctrCycle.tla
tlapm AdmissionBudget_proofs.tla
```

`PROJECT.json` names the module of each `.cfg`.  The largest runs take about two minutes.
The proofs take from half a minute to a few minutes a module; `DbsctrDelivery_proofs` and
`CodexUpdate_proofs` are the longest.
