---------------------------- MODULE MCJfrogTools ----------------------------
\* Five parts that share no state, checked side by side: each behaviour is one scene.
EXTENDS SetupState, RemoteProbes, CliFreshness, PolicyListing, CliInstall

VARIABLE scene

toolVars == <<stateVars, probeVars, freshVars, listVars, installVars, scene>>

\* A scene starts anywhere; the parts that are not on start in one of their states.
Init ==
  /\ scene \in {"state", "records", "probes", "fresh", "listing", "install"}
  /\ StateInit /\ (scene \in {"state", "records"} \/ readable)
  /\ ProbeInit /\ (scene = "probes" \/ (probe = "ping" /\ world = CHOOSE w \in World : TRUE))
  /\ FreshInit /\ (scene = "fresh" \/ (jf = Absent /\ writable))
  /\ ListInit
  /\ InstallInit /\ (scene = "install" \/ (/\ unrunnable = {} /\ path = <<>>
                                           /\ \A p \in Places : bin[p] = NoFile
                                           /\ npm = [there |-> FALSE, public |-> FALSE, prefix |-> FALSE]))

\* setup.json in two scenes.  In "state" processes die and locks become stale, and one record
\* is enough; in "records" neither happens, after which RecordsKept would say nothing.
OneRecord ==
  \A w \in Walks : ask'[w] \in {ask[w], NoRequest} \/ (ask'[w].server = "s" /\ ask'[w].url = "u")

StateSteps ==
  /\ StateNext
  /\ \/ scene = "state" /\ OneRecord
     \/ scene = "records" /\ UNCHANGED <<aged, deaths>>

Next ==
  \/ scene \in {"state", "records"} /\ StateSteps /\ UNCHANGED <<probeVars, freshVars, listVars, installVars>>
  \/ scene = "probes" /\ ProbeNext /\ UNCHANGED <<stateVars, freshVars, listVars, installVars>>
  \/ scene = "fresh" /\ FreshNext /\ UNCHANGED <<stateVars, probeVars, listVars, installVars>>
  \/ scene = "listing" /\ ListNext /\ UNCHANGED <<stateVars, probeVars, freshVars, installVars>>
  \/ scene = "install" /\ InstallNext /\ UNCHANGED <<stateVars, probeVars, freshVars, listVars>>

Spec ==
  /\ Init /\ [][Next /\ UNCHANGED scene]_toolVars
  /\ scene = "state" => StateFairness
=============================================================================
