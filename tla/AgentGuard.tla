----------------------------- MODULE AgentGuard -----------------------------
(***************************************************************************)
(* jfrog-agent-guard-check.mjs, the gate before anything MCP is done: is   *)
(* the MCP registry on at the platform the caller means?  It resolves      *)
(* credentials (a named server, else the environment, else jf's default,   *)
(* else the only server) and asks that platform's setting, at the root and *)
(* after a 404 behind /bridge-client.  jf reads its configuration again    *)
(* for each request.                                                       *)
(***************************************************************************)
EXTENDS JfAccounts

CONSTANT Machines   \* the environments and jf's the gate meets: MachineType

VARIABLES machine,   \* jf, and what the environment says
          registry,  \* the setting of each platform, and where it is served
          gate,      \* the run of the gate
          meant,     \* history: what the caller meant while the gate ran: a platform and its
                     \* setting, or that there was a choice
          verdict    \* what the last run said

guardVars == <<machine, registry, gate, meant, verdict>>

\* env: the platform JFROG_URL names; complete: is there a token or a user and password?
\* jf without `api` is a jf older than 2.100.0.
MachineType == [jf : {"api", "old"}, env : Jpds \cup {NoJpd}, complete : BOOLEAN,
                force : SUBSET {"disable", "enable"}]

ASSUME MachinesAssumption == Machines \subseteq MachineType

Setting == {"on", "off", "odd"}
Registry == [setting : Setting, at : {"root", "bridge", "nowhere"}]

\* id NoServer: no server id, the request goes directly to `url` with `credential`.
Idle == [at |-> "idle", named |-> NoServer, id |-> NoServer, url |-> NoJpd, credential |-> "none"]
Choice == [jpd |-> NoJpd, setting |-> "odd"]

GuardInit ==
  /\ machine \in Machines
  /\ registry \in [Jpds -> Registry]
  /\ gate = Idle
  /\ meant = {}
  /\ verdict = "none"

Usable(s) == account[s].credential # "none"
EnvComplete == machine.env # NoJpd /\ machine.complete

\* What the caller means right now.
Means(named) ==
  LET s == resolveJfServer(named, Shown)
      jpd == IF named = NoServer /\ EnvComplete THEN machine.env
             ELSE IF s \in Known THEN account[s].jpd ELSE NoJpd
  IN (IF jpd # NoJpd THEN {[jpd |-> jpd, setting |-> registry[jpd].setting]} ELSE {})
     \cup (IF named = NoServer /\ ~EnvComplete /\ s = NoServer /\ Known # {} THEN {Choice} ELSE {})

\* Remembered through a run: what is meant, and what becomes of a platform that was meant.
Witnessed(named) ==
  meant \cup Means(named) \cup {[jpd |-> p, setting |-> registry[p].setting] : p \in {m.jpd : m \in meant} \ {NoJpd}}

Running == gate.at # "idle"
Says(answer) ==
  /\ gate' = Idle
  /\ meant' = {}
  /\ verdict' = answer

Continues(next) ==
  /\ gate' = next
  /\ meant' = Witnessed(gate.named)
  /\ UNCHANGED verdict

guardWorld == <<accountVars, machine, registry>>

\* The overrides come first, "disable" before "enable".
StartGate(named) ==
  /\ ~Running
  /\ \/ machine.force # {}
        /\ gate' = Idle /\ meant' = {}
        /\ verdict' = IF "disable" \in machine.force THEN "disabled" ELSE "enabled"
     \/ /\ machine.force = {}
        /\ gate' = [Idle EXCEPT !.at = "resolve", !.named = named]
        /\ meant' = Means(named)
        /\ verdict' = "none"
  /\ UNCHANGED guardWorld

\* resolveFromCliConfig: the url and the credential are exported once, the id is kept.
Exported(s) == [gate EXCEPT !.at = "root", !.id = s, !.url = account[s].jpd, !.credential = account[s].credential]

\* A named server or nothing; the environment; jf's default.
resolveCredentials ==
  /\ gate.at = "resolve"
  /\ \/ gate.named # NoServer /\ gate.named \in Known /\ Usable(gate.named) /\ Continues(Exported(gate.named))
     \/ gate.named # NoServer /\ ~(gate.named \in Known /\ Usable(gate.named)) /\ Says("unknown")
     \/ /\ gate.named = NoServer /\ EnvComplete
        /\ Continues([gate EXCEPT !.at = "root", !.url = machine.env, !.credential = "good"])
     \/ /\ gate.named = NoServer /\ ~EnvComplete
        /\ IF default # NoServer /\ Usable(default) THEN Continues(Exported(default))
           ELSE Continues([gate EXCEPT !.at = "list"])
  /\ UNCHANGED guardWorld

\* The servers are listed by a second call of jf.
listConfiguredServers ==
  /\ gate.at = "list"
  /\ \/ /\ Cardinality(Known) = 1
        /\ Continues([gate EXCEPT !.at = "only", !.id = CHOOSE s \in Known : TRUE])
     \/ Cardinality(Known) > 1 /\ default = NoServer /\ Says("ambiguous")
     \/ Cardinality(Known) # 1 /\ (Known = {} \/ default # NoServer) /\ Says("unknown")
  /\ UNCHANGED guardWorld

\* The only server of that list is exported by a third.
UseOnlyServer ==
  /\ gate.at = "only"
  /\ IF gate.id \in Known /\ Usable(gate.id) THEN Continues(Exported(gate.id)) ELSE Says("unknown")
  /\ UNCHANGED guardWorld

\* Mutant: the variables of the environment reach jf, whose URL they replace.
AmbientTarget ==
  IF gate.id # NoServer /\ machine.jf = "api"
  THEN [jpd |-> IF machine.env # NoJpd THEN machine.env ELSE account[gate.id].jpd,
        credential |-> account[gate.id].credential]
  ELSE [jpd |-> gate.url, credential |-> gate.credential]

\* Whom a request reaches, and with what: `jf api` asks its configuration for the id, the
\* variables of the environment unset; without an id or without `jf api` it goes directly.
Target ==
  IF gate.id # NoServer /\ machine.jf = "api"
  THEN account[gate.id]
  ELSE [jpd |-> gate.url, credential |-> gate.credential]

\* What that platform answers at the path: its setting, a 404, or a refusal (another status,
\* no connection, a timeout).  A stale credential is refused where the setting is served.
Answer(path) ==
  IF Target.jpd = NoJpd THEN "refused"
  ELSE IF registry[Target.jpd].at # path THEN "404"
  ELSE IF Target.credential # "good" THEN "refused"
  ELSE registry[Target.jpd].setting

\* Only a value true is enabled, and only a value false is disabled.
GatewaySetting(answer) ==
  IF answer = "on" THEN "enabled" ELSE IF answer = "off" THEN "disabled" ELSE "unknown"

AskRoot ==
  /\ gate.at = "root"
  /\ \/ Answer("root") = "404" /\ Continues([gate EXCEPT !.at = "bridge"]) /\ Succeeds
     \/ Answer("root") # "404" /\ Says(GatewaySetting(Answer("root"))) /\ Succeeds
     \/ Fails /\ Says("unknown")
  /\ UNCHANGED <<account, default, unpinned, changes, machine, registry>>

\* The bridge may only upgrade the verdict of the root.
AskBridge ==
  /\ gate.at = "bridge"
  /\ Says(GatewaySetting(Answer("bridge")))
  /\ UNCHANGED guardWorld

\* An administrator turns the registry on or off while the gate runs.
ToggleRegistry(jpd) ==
  /\ Running
  /\ changes < MaxChanges
  /\ registry' = [registry EXCEPT ![jpd].setting = IF @ = "on" THEN "off" ELSE "on"]
  /\ changes' = changes + 1
  /\ UNCHANGED <<account, default, unpinned, faults, machine, gate, verdict>>
  /\ meant' = meant \cup Means(gate.named)' \cup {[jpd |-> p, setting |-> registry'[p].setting] :
                                                 p \in {m.jpd : m \in meant} \ {NoJpd}}

GuardStep == resolveCredentials \/ listConfiguredServers \/ UseOnlyServer \/ AskRoot \/ AskBridge

GuardNext ==
  \/ \E s \in Servers \cup {NoServer} : StartGate(s)
  \/ GuardStep
  \/ \E jpd \in Jpds : ToggleRegistry(jpd)

\* The accounts change by another process; the history goes on.
GuardWatches ==
  /\ UNCHANGED <<machine, registry, gate, verdict>>
  /\ meant' = IF Running THEN meant \cup Means(gate.named)' ELSE meant

-----------------------------------------------------------------------------
GuardTypeOK ==
  /\ machine \in MachineType /\ registry \in [Jpds -> Registry]
  /\ gate \in [at : {"idle", "resolve", "list", "only", "root", "bridge"},
               named : Servers \cup {NoServer}, id : Servers \cup {NoServer},
               url : Jpds \cup {NoJpd}, credential : Credentials]
  /\ meant \subseteq [jpd : Jpds \cup {NoJpd}, setting : Setting]
  /\ verdict \in {"none", "enabled", "disabled", "unknown", "ambiguous"}

\* Never "a different JPD" (jfrog-agent-guard-check.mjs:166): whatever happens to the accounts
\* and to the platforms under way, an answer of the gate is the setting that a platform had
\* which the caller meant during the run, unless the account of the server it asked was
\* lost, overwritten or changed by hand; and it asks for a choice only if there was one.
VerdictIsMeant ==
  [][Running /\ verdict' \in {"enabled", "disabled", "ambiguous"} /\ gate.id \notin unpinned =>
       \E m \in Witnessed(gate.named) :
         \/ verdict' = "ambiguous" /\ m = Choice
         \/ verdict' = GatewaySetting(m.setting) /\ m # Choice]_<<accountVars, guardVars>>
=============================================================================
