----------------------------- MODULE SetupWalk ------------------------------
(***************************************************************************)
(* The whole jfrog-init walk (jfrog-detect-all.mjs): steps 1 to 4, of      *)
(* which the setup is green only if all pass; step 5 (McpConfig), the      *)
(* probes of the MCP server, the project and the catalog, which may leave  *)
(* gaps or stop the walk; and the hint in setup.json.  Walks and           *)
(* stand-alone detectors overlap.  What each probe makes of the answers it *)
(* gets is RemoteProbes; saving the hint is one step here, as SetupState   *)
(* shows it is while no lock goes stale.                                   *)
(***************************************************************************)
EXTENDS McpConfig

CONSTANTS Full,      \* the processes that run the whole walk
          Projects,  \* project keys a user passes
          NoProject  \* none passed, none resolved, none on record

ASSUME FullAssumption == Full \subseteq Walks

VARIABLES hint,      \* setup.json: the project recorded for each server it knows
          project,   \* the project argument of each walk
          passed,    \* steps1To4Passed
          red        \* overall # 0

walkVars == <<mcpVars, hint, project, passed, red>>

NoHint == "no hint"

\* A server that is not in setup.json differs from one recorded with any project or none.
ASSUME HintAssumption == NoHint \notin Projects \cup {NoProject}

WalkInit ==
  /\ McpInit
  /\ hint = [s \in Servers |-> NoHint]
  /\ project = [w \in Walks |-> NoProject]
  /\ passed = [w \in Walks |-> FALSE]
  /\ red = [w \in Walks |-> FALSE]

unchangedMcp == <<kind, files, config, file, seen, mcp, changes>>

\* jfrog-detect-all.mjs [server] [project]
StartWalk(w, s, p) ==
  /\ w \in Full
  /\ step[w] = "idle"
  /\ server' = [server EXCEPT ![w] = s]
  /\ project' = [project EXCEPT ![w] = p]
  /\ Goto(w, "prerequisites")
  /\ UNCHANGED <<unchangedMcp, memo, retry, used, hint, passed, red>>

\* jfrog-detect-jfrog-mcp.mjs [server]
StartDetector(w, s) ==
  /\ step[w] = "idle"
  /\ server' = [server EXCEPT ![w] = s]
  /\ BeginMcp(w)
  /\ UNCHANGED <<unchangedMcp, memo, used, hint, project, passed, red>>

Stops(w) == red' = [red EXCEPT ![w] = TRUE] /\ Goto(w, "summary")

\* Steps 1 to 3: Node, a recent jf and a configured server; the configuration is read here.
Prerequisites(w) ==
  /\ step[w] = "prerequisites"
  /\ \/ Stops(w) /\ UNCHANGED memo                     \* Node or jf missing or too old
     \/ /\ memo' = [memo EXCEPT ![w] = jfConfigShow(w)]
        /\ IF config.known = {} THEN Stops(w) ELSE Goto(w, "ping") /\ UNCHANGED red
  /\ UNCHANGED <<unchangedMcp, server, retry, used, hint, project, passed>>

\* Step 4: the resolved server must have a URL and answer `jf rt ping`.
Ping(w) ==
  /\ step[w] = "ping"
  /\ UsesServer(w)
  /\ \/ Stops(w) /\ UNCHANGED <<passed, retry>>        \* ambiguous, unknown or no answer
     \/ /\ Resolved(w) # NoServer /\ HasUrl(Resolved(w), jfConfigShow(w))
        /\ passed' = [passed EXCEPT ![w] = TRUE]
        /\ BeginMcp(w)
        /\ UNCHANGED red
  /\ UNCHANGED <<unchangedMcp, server, hint, project>>

\* After step 5: a walk goes on, unless the server is ambiguous; a stand-alone detector ends,
\* and so does everything when a file vanished under the substituter.
AfterMcp(w) ==
  /\ step[w] = "after_mcp"
  /\ \/ /\ ~passed[w] \/ mcp[w] = "thrown"
        /\ Forget(w)
        /\ project' = [project EXCEPT ![w] = NoProject]
        /\ passed' = [passed EXCEPT ![w] = FALSE]
        /\ UNCHANGED <<kind, files, config, changes>>
     \/ /\ passed[w] /\ mcp[w] \notin {"ask", "thrown"}
        /\ Goto(w, "probe_project")
        /\ UNCHANGED <<unchangedMcp, server, memo, retry, used, project, passed>>
  /\ UNCHANGED <<hint, red>>

\* The MCP server's own answer is only reported.  Step 6: a project passed is accepted as it
\* is; without one the walk asks, after listing the projects of the server.
ProbeProject(w) ==
  /\ step[w] = "probe_project"
  /\ UsesServer(w)
  /\ \/ /\ project[w] # NoProject
        /\ Goto(w, "probe_catalog")
        /\ UNCHANGED red
     \/ /\ project[w] = NoProject
        /\ red' = [red EXCEPT ![w] = TRUE]
        /\ Goto(w, "record")
  /\ UNCHANGED <<unchangedMcp, server, retry, hint, project, passed>>

\* Step 7: not hosted, unreachable or not entitled is reported; an error (3) stops the walk.
ProbeCatalog(w) ==
  /\ step[w] = "probe_catalog"
  /\ UsesServer(w)
  /\ \E code \in {0, 1, 3, 4} : red' = [red EXCEPT ![w] = code = 3]
  /\ Goto(w, "record")
  /\ UNCHANGED <<unchangedMcp, server, retry, hint, project, passed>>

\* Mutant: the hint is saved for the server jf now calls the default.
RecordDefault(w) ==
  /\ step[w] = "record"
  /\ UsesServer(w)
  /\ LET s == resolveJfServer(server[w], config) IN
     hint' = IF s = NoServer THEN hint
             ELSE [hint EXCEPT ![s] = IF project[w] # NoProject THEN project[w]
                                      ELSE IF @ = NoHint THEN NoProject ELSE @]
  /\ Goto(w, "summary")
  /\ UNCHANGED <<unchangedMcp, server, retry, project, passed, red>>

\* Whatever became of steps 5 to 7, the hint is saved: SetupState, in one step, or not at all
\* if another process has the lock.
RecordHint(w) ==
  /\ step[w] = "record"
  /\ UsesServer(w)
  /\ \/ hint' = [hint EXCEPT ![Resolved(w)] =
                   IF project[w] # NoProject THEN project[w]
                   ELSE IF @ = NoHint THEN NoProject ELSE @]
     \/ UNCHANGED hint
  /\ Goto(w, "summary")
  /\ UNCHANGED <<unchangedMcp, server, retry, project, passed, red>>

Summary(w) ==
  /\ step[w] = "summary"
  /\ Forget(w)
  /\ project' = [project EXCEPT ![w] = NoProject]
  /\ passed' = [passed EXCEPT ![w] = FALSE]
  /\ red' = [red EXCEPT ![w] = FALSE]
  /\ UNCHANGED <<kind, files, config, changes, hint>>

WalkStep(w) ==
  \/ McpStep(w) /\ UNCHANGED <<hint, project, passed, red>>
  \/ Prerequisites(w) \/ Ping(w) \/ AfterMcp(w) \/ ProbeProject(w) \/ ProbeCatalog(w)
  \/ RecordHint(w) \/ Summary(w)

Outside ==
  /\ \/ \E f \in Files, content \in Foreign : EditFile(f, content)
     \/ \E next \in JfConfig : Reconfigure(next)
  /\ UNCHANGED <<hint, project, passed, red>>

Begin(w) ==
  \/ \E s \in Servers \cup {NoServer}, p \in Projects \cup {NoProject} : StartWalk(w, s, p)
  \/ \E s \in Servers \cup {NoServer} : StartDetector(w, s)

WalkNext == Outside \/ \E w \in Walks : Begin(w) \/ WalkStep(w)

WalkSpec == WalkInit /\ [][WalkNext]_walkVars

-----------------------------------------------------------------------------
WalkTypeOK ==
  /\ kind \in {"own", "plugin", "opencode"}
  /\ files \in [Files -> Content]
  /\ config \in JfConfig
  /\ step \in [Walks -> McpSteps \cup {"idle", "prerequisites", "ping", "after_mcp",
                                      "probe_project", "probe_catalog", "record", "summary"}]
  /\ server \in [Walks -> Servers \cup {NoServer}]
  /\ memo \in [Walks -> Memo]
  /\ file \in [Walks -> Files]
  /\ seen \in [Walks -> Content]
  /\ retry \in [Walks -> BOOLEAN]
  /\ mcp \in [Walks -> {"none", "green", "red", "error", "thrown", "ask"}]
  /\ used \in [Walks -> SUBSET Servers]
  /\ changes \in 0..MaxChanges
  /\ hint \in [Servers -> Projects \cup {NoProject, NoHint}]
  /\ project \in [Walks -> Projects \cup {NoProject}]
  /\ passed \in [Walks -> BOOLEAN] /\ red \in [Walks -> BOOLEAN]

\* Every step of a walk agrees on which server is the server (jfrog-resolve-jf-server.mjs:9),
\* though jf config may change under way: the ping, the MCP entry, the probes and the hint.
OneServerPerWalk == \A w \in Walks : Cardinality(used[w]) <= 1

\* "Additive only" (jfrog-resolve-mcp-config.mjs:433): a walk changes nothing but the jfrog
\* entry, and that only if it is missing or a placeholder, unless the file was written by
\* another hand since the walk read it.  Exclusive creation never replaces a file.
AdditiveUnlessRaced ==
  [][\A f \in Files, w \in Walks :
       (files'[f] # files[f] /\ step'[w] # step[w]) =>
         \/ files[f].is = "absent" /\ step[w] = "create"
         \/ files[f].is = "empty" /\ files'[f].jfrog = Placeholder
         \/ /\ files[f].is = "object" /\ files'[f].is = "object"
            /\ files'[f].others = files[f].others
            /\ files[f].jfrog \notin Servers
         \/ step[w] \in {"replace", "publish"} /\ files[f] # seen[w]]_walkVars

\* A walk that stops early leaves no hint, and a walk without a project erases none.
HintsKept ==
  [][\A s \in Servers : hint'[s] # hint[s] =>
       /\ hint'[s] # NoHint
       /\ hint'[s] = NoProject => hint[s] = NoHint
       /\ \E w \in Walks : passed[w] /\ used[w] = {s}]_walkVars

=============================================================================
