---------------------------- MODULE RemoteProbes ----------------------------
(***************************************************************************)
(* The four probes of a JPD in the jfrog-init walk: the ping of step 4, the*)
(* MCP server, the projects of step 6 and the AI Catalog of step 7.  A     *)
(* probe is a few requests and a verdict from the status codes of all of   *)
(* them; the platform, the way to it and the credential may change between *)
(* two requests.  The platform is external: what it answers is modelled    *)
(* from what the comments of the probes say of SaaS and self-hosted JPDs,  *)
(* proxies and captive portals.                                            *)
(***************************************************************************)
EXTENDS Naturals

CONSTANT Turning   \* bound: does the world change while a probe runs?

ASSUME TurningAssumption == Turning \in BOOLEAN

VARIABLES world,   \* the platform, the way to it and the credential in jf config
          probe,   \* which probe runs
          request, \* what it sends next
          saw,     \* history: the worlds in which it ran
          exit     \* its exit code; NoExit while it runs

probeVars == <<world, probe, request, saw, exit>>

(***************************************************************************)
(* way: "clear"; "portal": a captive portal answers everything with 200;   *)
(* "proxied": Node's fetch gets no connection, jf does; "down"; "failing"  *)
(* (5xx).  guarded: whoever has no valid credential gets a 401 at any path.*)
(* waf: a 401 to any request below /bridge-client that no service takes.   *)
(***************************************************************************)
Ways == {"clear", "portal", "proxied", "down", "failing"}
World == [way : Ways, guarded : BOOLEAN, catalog : {"root", "bridge", "nowhere"}, waf : BOOLEAN, entitled : BOOLEAN,
          mcp : BOOLEAN, credential : {"none", "stale", "good"}]

NoExit == 9
Probes == {"ping", "mcp", "project", "catalog"}
Requests == {"none", "ping", "jf ping", "mcp", "project", "root", "bridge",
             "authed root", "authed bridge", "authed retry"}

ProbeInit ==
  /\ world \in World
  /\ probe \in Probes
  /\ request = "none"
  /\ saw = {}
  /\ exit = NoExit

\* What Node's fetch gets at a path where `served` would answer: "000" is no connection,
\* "page" a 2xx of another shape.
Reached(served, valid) ==
  IF world.way \in {"down", "proxied"} THEN "000"
  ELSE IF world.way = "failing" THEN "500"
  ELSE IF world.way = "portal" THEN "page"
  ELSE IF world.guarded /\ ~valid THEN "401"
  ELSE served

Valid == world.credential = "good"

\* The catalog's API, asked anonymously or with the credential.
AtCatalog(prefix, valid) ==
  Reached(IF world.catalog # prefix THEN IF prefix = "bridge" /\ world.waf THEN "401" ELSE "404"
          ELSE IF ~valid THEN "401"
          ELSE IF world.entitled THEN "catalog" ELSE "403", valid)

Sends(next) == request' = next /\ UNCHANGED <<world, probe, saw, exit>>
Exits(code) == request' = "none" /\ exit' = code /\ UNCHANGED <<world, probe, saw>>

BeginProbe ==
  /\ request = "none"
  /\ request' = IF probe = "catalog" THEN "root" ELSE probe
  /\ saw' = {world}
  /\ exit' = NoExit
  /\ UNCHANGED <<world, probe>>

\* Part A of the ping: "no connection" may be Node's alone, so jf decides.
PingAnonymously ==
  /\ request = "ping"
  /\ IF Reached("page", FALSE) \in {"000", "page", "401", "403"} THEN Sends("jf ping") ELSE Exits(1)

\* `jf rt ping`, over jf's own connection.
PingWithJf ==
  /\ request = "jf ping"
  /\ Exits(IF world.way \in {"clear", "proxied"} /\ Valid THEN 0 ELSE 1)

\* A Bearer challenge or a 2xx means enabled.
ProbeMcp ==
  /\ request = "mcp"
  /\ LET answer == Reached(IF world.mcp THEN "challenge" ELSE "404", world.mcp) IN
     Exits(IF answer \in {"challenge", "page"} THEN 0 ELSE IF answer \in {"404", "403"} THEN 4 ELSE 1)

\* The projects, when none was passed: the walk asks (2), with the list if it got one.
ProbeProjects ==
  /\ request = "project"
  /\ Exits(IF world.credential = "none" \/ Reached(IF Valid THEN "page" ELSE "401", Valid) = "401" THEN 3 ELSE 2)

\* Part A of the catalog: anonymous, at the root and after a 404 behind /bridge-client, whose
\* answer counts if it is reachable; otherwise the root's 404 stands.
partAReachable(code) == code \in {"catalog", "page", "401", "403"}

ProbeRoot ==
  /\ request = "root"
  /\ LET code == AtCatalog("root", FALSE) IN
     IF code = "404" THEN Sends("bridge")
     ELSE IF partAReachable(code) THEN Sends("authed root") ELSE Exits(1)

ProbeBridge ==
  /\ request = "bridge"
  /\ IF partAReachable(AtCatalog("bridge", FALSE)) THEN Sends("authed bridge") ELSE Exits(1)

\* Part B: what an authenticated answer comes to.
PartB(code) ==
  IF code = "catalog" THEN 0 ELSE IF code \in {"page", "401"} THEN 3 ELSE IF code = "403" THEN 4 ELSE 1

AuthedCall ==
  /\ request \in {"authed root", "authed bridge"}
  /\ LET code == AtCatalog(IF request = "authed root" THEN "root" ELSE "bridge", Valid) IN
     IF world.credential = "none" THEN Exits(1)
     ELSE IF code = "404" /\ request = "authed root" THEN Sends("authed retry")
     ELSE Exits(PartB(code))

\* Mutant: any answer behind /bridge-client replaces the root's 404.
RetriedAlways(code) == PartB(code)

\* Only a catalog, or the 403 of one, replaces the root's 404.
Retried(code) == IF code \in {"catalog", "403"} THEN PartB(code) ELSE PartB("404")

AuthedRetry ==
  /\ request = "authed retry"
  /\ Exits(Retried(AtCatalog("bridge", Valid)))

\* One thing changes once: the platform goes down or comes back, the network changes, the
\* catalog is deployed, an administrator acts, the token is revoked.
WorldTurns ==
  /\ request # "none"
  /\ Turning
  /\ saw = {world}
  /\ \/ \E way \in Ways : world' = [world EXCEPT !.way = way]
     \/ \E at \in {"root", "bridge"} : world.catalog = "nowhere" /\ world' = [world EXCEPT !.catalog = at]
     \/ world' = [world EXCEPT !.entitled = ~@]
     \/ world' = [world EXCEPT !.mcp = ~@]
     \/ Valid /\ world' = [world EXCEPT !.credential = "stale"]
  /\ saw' = saw \cup {world'}
  /\ UNCHANGED <<probe, request, exit>>

ProbeStep ==
  \/ PingAnonymously \/ PingWithJf \/ ProbeMcp \/ ProbeProjects
  \/ ProbeRoot \/ ProbeBridge \/ AuthedCall \/ AuthedRetry

ProbeNext == BeginProbe \/ ProbeStep \/ WorldTurns

ProbeSpec == ProbeInit /\ [][ProbeNext]_probeVars

-----------------------------------------------------------------------------
ProbeTypeOK ==
  /\ world \in World /\ saw \subseteq World
  /\ probe \in Probes /\ request \in Requests /\ exit \in {NoExit} \cup 0..4

\* What is right to say of a world.
Verdicts(w) ==
  LET working == w.way = "clear" IN
  CASE probe = "ping" -> {IF (working \/ w.way = "proxied") /\ w.credential = "good" THEN 0 ELSE 1}
    [] probe = "mcp" -> IF w.way = "portal" THEN 0..4 ELSE IF ~working THEN {1} ELSE IF w.mcp THEN {0} ELSE {1, 4}
    [] probe = "project" -> IF w.credential = "good" THEN {2} ELSE {2, 3}
    [] probe = "catalog" ->
         IF w.credential = "none" THEN {1}
         ELSE IF w.way = "portal" THEN {3}
         ELSE IF ~working THEN {1}
         ELSE IF w.credential = "stale" /\ (w.guarded \/ w.catalog # "nowhere") THEN {3}
         ELSE IF w.catalog = "nowhere" THEN {1}
         ELSE IF w.entitled THEN {0} ELSE {4}

\* A verdict is right for a world in which the probe ran, on every kind of JPD and though its
\* requests may meet different worlds: a catalog is not called missing, nor good credentials
\* rejected, because of a request at the wrong prefix, a proxy or a portal.  In doubt, that is
\* when the world changed under way, the verdict may be 1, which stops no walk at the catalog.
\* One world is left out: no catalog is hosted and a firewall answers 401 behind /bridge-client.
VerdictWasRight ==
  exit # NoExit =>
    \/ \E w \in saw : exit \in Verdicts(w) \/ (~w.guarded /\ w.waf /\ w.catalog = "nowhere")
    \/ exit = 1 /\ saw # {world}
=============================================================================
