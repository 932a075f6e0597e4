----------------------------- MODULE JfAccounts -----------------------------
(***************************************************************************)
(* The accounts that `jf config` keeps, shared by the web login, the agent *)
(* guard and the Claude marketplace: each server id has the JPD it points  *)
(* at and a credential.  jf is not under src/: its operations are modelled *)
(* from how the scripts call it, and a user may run it at any time too.    *)
(***************************************************************************)
EXTENDS JfServers

CONSTANTS Jpds,        \* JFrog platforms
          NoJpd,       \* what an id that is not configured points at
          MaxChanges,  \* bound: changes the user makes by hand
          MaxFaults    \* bound: calls that fail, processes that are killed

ASSUME FiniteAssumption == IsFiniteSet(Servers)
ASSUME JpdsAssumption == NoJpd \notin Jpds
ASSUME AccountBounds == MaxChanges \in Nat /\ MaxFaults \in Nat

VARIABLES account,   \* what each id points at, and its credential
          default,   \* the id marked default
          unpinned,  \* history: ids lost by a failed login, overwritten by one, or changed by hand
          changes,   \* changes made by hand so far
          faults     \* faults so far

accountVars == <<account, default, unpinned, changes, faults>>

Credentials == {"none", "stale", "good"}
Account == [jpd : Jpds \cup {NoJpd}, credential : Credentials]
NoAccount == [jpd |-> NoJpd, credential |-> "none"]

Known == {s \in Servers : account[s].jpd # NoJpd}
Shown == [known |-> Known, default |-> default]

AccountInit ==
  /\ account \in [Servers -> {a \in Account : a.jpd = NoJpd => a = NoAccount}]
  /\ default \in Known \cup {NoServer}
  /\ unpinned = {}
  /\ changes = 0
  /\ faults = 0

\* jf config remove; jf may make another server the default then.
Remove(s) ==
  /\ account' = [account EXCEPT ![s] = NoAccount]
  /\ default' \in IF s = default THEN {NoServer} \cup (Known \ {s}) ELSE {default}

\* jf config add; the first server may become the default.
Add(s, a) ==
  /\ account' = [account EXCEPT ![s] = a]
  /\ default' \in IF Known = {} THEN {NoServer, s} ELSE {default}

Fails == faults < MaxFaults /\ faults' = faults + 1
Succeeds == UNCHANGED faults

\* The user adds, edits or removes a server, or chooses another default, by hand.
ChangeByHand ==
  /\ changes < MaxChanges
  /\ changes' = changes + 1
  /\ \/ \E s \in Servers, a \in Account :
          /\ a.jpd # NoJpd /\ a # account[s]
          /\ Add(s, a)
          /\ unpinned' = IF account[s].jpd = a.jpd THEN unpinned ELSE unpinned \cup {s}
     \/ \E s \in Known : Remove(s) /\ unpinned' = unpinned \cup {s}
     \/ default' \in Known \ {default} /\ UNCHANGED <<account, unpinned>>
  /\ UNCHANGED faults
=============================================================================
