------------------------ MODULE JfrogAccounts_proofs ------------------------
(***************************************************************************)
(* Theorems about JfrogAccounts, for any accounts, platforms, environments *)
(* and files, any number of changes by hand and faults, with a login, a    *)
(* registration, the guard and the user at work at the same time: that a   *)
(* login loses no account before it has a token, that no helper leaves     *)
(* home and no token stays behind, that a registration is all or nothing,  *)
(* and that the guard speaks of a platform that was meant.                 *)
(***************************************************************************)
EXTENDS JfrogAccounts, FiniteSetTheorems, TLAPS

\* Server h still points at jpd, unless its account was lost, overwritten or changed by hand, or
\* a login that has just removed it is about to add it again.
Homed(h, jpd) ==
  h \notin unpinned =>
    \/ account[h].jpd = jpd
    \/ account[h].jpd = NoJpd /\ loginAt = "add" /\ h = Id /\ platform = jpd

\* The type of the accounts.
AccountTypeOK ==
  /\ account \in [Servers -> Account]
  /\ default \in Servers \cup {NoServer}
  /\ default # NoServer => account[default].jpd # NoJpd
  /\ unpinned \subseteq Servers
  /\ changes \in 0..MaxChanges /\ faults \in 0..MaxFaults

\* The token is in hand before anything is removed, and what is removed is the account of the
\* platform the token is for.
LoginSound ==
  /\ loginAt \in {"check", "remove", "add", "verify"} => session = "burned"
  /\ loginAt \in {"remove", "add"} => account[Id].jpd \in {NoJpd, platform} \/ Id \in unpinned

\* The entries in the files, those register holds, and what it pinned.
Entries(c) == {c.named, c.older}
HomedNear(h, jpd) == \E j \in Jpds : origin[j] = origin[jpd] /\ Homed(h, j)
AllHomed(c) == \A e \in Entries(c) : e.helper # NoServer => HomedNear(e.helper, e.jpd)
HelpersHomed ==
  /\ \A f \in Files : AllHomed(claude[f]) /\ AllHomed(was[f])
  /\ step # "idle" => pinned.server \in Servers /\ pinned.jpd \in Jpds /\ Homed(pinned.server, pinned.jpd)

\* How far register is, in files that nobody else wrote and that could be put back.
Tokenless(c) == \A e \in Entries(c) : ~e.token
RegisterSound ==
  /\ step # "idle" => ended = "none"
  /\ step \in {"find", "read", "write_cache", "write_settings", "put_back", "update", "restore_cache"} => stuck = {}
  /\ step = "write_cache" => \A f \in Files \ touched : claude[f] = was[f]
  /\ step \in {"write_settings", "put_back"} /\ "settings" \notin touched => claude["settings"] = was["settings"]
  /\ step = "write_settings" /\ touched = {} => Tokenless(claude["cache"])
  /\ step = "update" /\ touched = {} => \A f \in Files : Tokenless(claude[f])
  /\ step = "restore_settings" /\ "cache" \notin touched \cup stuck => claude["cache"] = was["cache"]

\* Where the guard is going was meant while it ran.
GuardSound ==
  /\ Running => verdict = "none"
  /\ gate.at = "resolve" => gate.id = NoServer
  /\ gate.at = "list" => gate.named = NoServer /\ ~EnvComplete
  /\ gate.at = "only" => gate.named = NoServer /\ ~EnvComplete /\ gate.id # NoServer
  /\ gate.at \in {"only", "root", "bridge"} /\ gate.id \notin unpinned =>
       \E m \in meant : /\ m.jpd # NoJpd
                        /\ gate.id # NoServer => Homed(gate.id, m.jpd)
                        /\ gate.at # "only" => gate.url = m.jpd

\* A registration and the guard, and all together: the inductive invariant.
MarketSound == MarketTypeOK /\ RegisterSound /\ HelpersHomed
GuardFine == GuardTypeOK /\ GuardSound

AccountsIInv == AccountTypeOK /\ LoginTypeOK /\ LoginSound /\ MarketSound /\ GuardFine

-----------------------------------------------------------------------------
\* Servers that still point where they did, or were lost, still do.
HomesKept ==
  /\ unpinned \subseteq unpinned'
  /\ \A h \in Servers, jpd \in Jpds : Homed(h, jpd) => Homed(h, jpd)'

\* The id a platform derives is a server's.
LEMMA IdType == LoginTypeOK => Id \in Servers
  BY DerivedAssumption DEF LoginTypeOK, Id

\* Faults are counted up to their bound.
LEMMA FaultStep == AccountTypeOK /\ (Fails \/ Succeeds) => faults' \in 0..MaxFaults
  BY AccountBounds DEF AccountTypeOK, Fails, Succeeds

\* What `jf config remove` leaves.
LEMMA RemoveStep ==
  ASSUME AccountTypeOK, NEW s \in Servers, Remove(s)
  PROVE  /\ account' \in [Servers -> Account]
         /\ account' = [account EXCEPT ![s] = NoAccount]
         /\ default' \in Servers \cup {NoServer}
         /\ default' # NoServer => account'[default'].jpd # NoJpd
<1>1. account' \in [Servers -> Account] /\ account' = [account EXCEPT ![s] = NoAccount]
  BY DEF Remove, AccountTypeOK, Account, NoAccount, Credentials
<1>2. default' \in Servers \cup {NoServer}
  BY DEF Remove, AccountTypeOK, Known
<1>3. default' # NoServer => default' # s /\ account[default'].jpd # NoJpd
  BY NoServerAssumption DEF Remove, AccountTypeOK, Known
<1> QED
  BY <1>1, <1>2, <1>3 DEF AccountTypeOK

\* What `jf config add` leaves.
LEMMA AddStep ==
  ASSUME AccountTypeOK, NEW s \in Servers, NEW a \in Account, a.jpd # NoJpd, Add(s, a)
  PROVE  /\ account' \in [Servers -> Account]
         /\ account' = [account EXCEPT ![s] = a]
         /\ default' \in Servers \cup {NoServer}
         /\ default' # NoServer => account'[default'].jpd # NoJpd
<1>1. account' \in [Servers -> Account] /\ account' = [account EXCEPT ![s] = a]
  BY DEF Add, AccountTypeOK
<1>2. default' \in Servers \cup {NoServer}
  BY DEF Add, AccountTypeOK
<1>3. default' # NoServer => default' = s \/ default' = default
  BY DEF Add
<1> QED
  BY <1>1, <1>2, <1>3 DEF AccountTypeOK

\* The accounts and the login, in a step of the login.
LEMMA LoginKeeps ==
  ASSUME AccountTypeOK, LoginTypeOK, LoginSound, LoginNext
  PROVE  AccountTypeOK' /\ LoginTypeOK' /\ LoginSound' /\ HomesKept
<1>0. Id \in Servers /\ NoJpd \notin Jpds
  BY IdType, JpdsAssumption
<1> USE DEF LoginGoto
<1>1. CASE \/ \E p \in Jpds : RegisterSession(p)
           \/ Approve \/ BeginSave \/ Verify
  <2>1. UNCHANGED accountVars
    BY <1>1 DEF RegisterSession, Approve, BeginSave, Verify
  <2>2. LoginTypeOK' /\ AccountTypeOK'
    BY <1>1, <2>1 DEF RegisterSession, Approve, BeginSave, Verify, LoginTypeOK, AccountTypeOK, accountVars
  <2>3. LoginSound'
    BY <1>1, <2>1 DEF RegisterSession, Approve, BeginSave, Verify, LoginSound, Id, accountVars
  <2>4. HomesKept
    <3>1. loginAt # "add"
      BY <1>1 DEF RegisterSession, Approve, BeginSave, Verify, LoginSound
    <3> QED
      BY <2>1, <3>1 DEF HomesKept, Homed, accountVars
  <2> QED
    BY <2>2, <2>3, <2>4
<1>2. CASE FetchToken
  <2>1. LoginTypeOK' /\ AccountTypeOK'
    BY <1>2, FaultStep DEF FetchToken, LoginTypeOK, AccountTypeOK
  <2>2. LoginSound'
    BY <1>2 DEF FetchToken, LoginSound
  <2>3. HomesKept
    BY <1>2 DEF FetchToken, HomesKept, Homed
  <2> QED
    BY <2>1, <2>2, <2>3
<1>3. CASE RemoveOld
  <2>1. CASE Remove(Id) /\ Succeeds
    <3>1. AccountTypeOK' /\ account' = [account EXCEPT ![Id] = NoAccount]
      BY <1>0, <1>3, <2>1, RemoveStep DEF AccountTypeOK, RemoveOld, Succeeds
    <3>2. LoginTypeOK' /\ LoginSound'
      BY <1>0, <1>3, <3>1 DEF RemoveOld, LoginTypeOK, LoginSound, Id, AccountTypeOK, NoAccount
    <3>3. HomesKept
      BY <1>0, <1>3, <3>1 DEF RemoveOld, HomesKept, Homed, Id, AccountTypeOK, NoAccount, LoginSound
    <3> QED
      BY <3>1, <3>2, <3>3
  <2>2. CASE Fails /\ UNCHANGED <<account, default>>
    <3>1. AccountTypeOK'
      BY <1>3, <2>2, FaultStep DEF RemoveOld, AccountTypeOK
    <3>2. LoginTypeOK' /\ LoginSound'
      BY <1>3, <2>2 DEF RemoveOld, LoginTypeOK, LoginSound, Id
    <3>3. HomesKept
      BY <1>3, <2>2 DEF RemoveOld, HomesKept, Homed, Id
    <3> QED
      BY <3>1, <3>2, <3>3
  <2> QED
    BY <1>3, <2>1, <2>2 DEF RemoveOld
<1>4. CASE AddNew
  <2>1. CASE /\ account[Id].jpd = NoJpd /\ Add(Id, [jpd |-> platform, credential |-> "good"])
             /\ loginAt' = "verify" /\ Succeeds /\ UNCHANGED unpinned
    <3> DEFINE a == [jpd |-> platform, credential |-> "good"]
    <3>0. a \in Account /\ a.jpd # NoJpd
      BY <1>0 DEF LoginTypeOK, Account, Credentials
    <3>1. AccountTypeOK' /\ account' = [account EXCEPT ![Id] = a]
      <4> HIDE DEF a
      <4>1. Add(Id, a)
        BY <2>1 DEF a
      <4> QED
        BY <1>0, <1>4, <2>1, <3>0, <4>1, AddStep DEF AccountTypeOK, AddNew, Succeeds
    <3>2. LoginTypeOK' /\ LoginSound'
      BY <1>4, <2>1 DEF AddNew, LoginTypeOK, LoginSound
    <3>3. HomesKept
      BY <1>0, <1>4, <2>1, <3>1 DEF AddNew, HomesKept, Homed, Id, AccountTypeOK
    <3> QED
      BY <3>1, <3>2, <3>3
  <2>2. CASE /\ account[Id].jpd # NoJpd \/ faults < MaxFaults
             /\ faults' = IF account[Id].jpd # NoJpd THEN faults ELSE faults + 1
             /\ unpinned' = IF account[Id].jpd # NoJpd THEN unpinned ELSE unpinned \cup {Id}
             /\ loginAt' = "idle" /\ UNCHANGED <<account, default>>
    <3>1. AccountTypeOK'
      BY <1>0, <1>4, <2>2, AccountBounds DEF AddNew, AccountTypeOK
    <3>2. LoginTypeOK' /\ LoginSound'
      BY <1>4, <2>2 DEF AddNew, LoginTypeOK, LoginSound
    <3>3. HomesKept
      BY <1>0, <1>4, <2>2 DEF AddNew, HomesKept, Homed, Id
    <3> QED
      BY <3>1, <3>2, <3>3
  <2> QED
    BY <1>4, <2>1, <2>2 DEF AddNew
<1>5. CASE KillLogin
  <2>1. AccountTypeOK'
    BY <1>0, <1>5, AccountBounds DEF KillLogin, Fails, AccountTypeOK
  <2>2. LoginTypeOK' /\ LoginSound'
    BY <1>5 DEF KillLogin, LoginTypeOK, LoginSound
  <2>3. HomesKept
    BY <1>0, <1>5 DEF KillLogin, HomesKept, Homed, Id
  <2> QED
    BY <2>1, <2>2, <2>3
<1>6. CASE CheckCollision
  <2>1. /\ loginAt = "check" /\ loginAt' \in {"remove", "idle"}
        /\ UNCHANGED <<account, default, changes, platform, session>>
        /\ unpinned \subseteq unpinned' /\ unpinned' \subseteq unpinned \cup {Id}
        /\ loginAt' = "remove" => account[Id].jpd \in {NoJpd, platform} \/ Id \in unpinned'
    BY <1>6 DEF CheckCollision
  <2>2. AccountTypeOK' /\ LoginTypeOK'
    BY <1>0, <1>6, <2>1, FaultStep DEF CheckCollision, AccountTypeOK, LoginTypeOK
  <2>3. LoginSound'
    BY <2>1 DEF LoginSound, Id
  <2>4. HomesKept
    BY <2>1 DEF HomesKept, Homed
  <2> QED
    BY <2>2, <2>3, <2>4
<1> QED
  BY <1>1, <1>2, <1>3, <1>4, <1>5, <1>6 DEF LoginNext, LoginStep

\* The accounts and the login, when the user changes the accounts.
LEMMA HandKeeps ==
  ASSUME AccountTypeOK, LoginTypeOK, LoginSound, ChangeByHand, UNCHANGED loginVars
  PROVE  AccountTypeOK' /\ LoginTypeOK' /\ LoginSound' /\ HomesKept
<1>0. Id \in Servers /\ Id' = Id /\ NoJpd \notin Jpds
  BY IdType, JpdsAssumption DEF Id, loginVars
<1>1. LoginTypeOK' /\ changes' \in 0..MaxChanges /\ faults' \in 0..MaxFaults
  BY AccountBounds DEF LoginTypeOK, loginVars, ChangeByHand, AccountTypeOK
<1>2. ASSUME NEW s \in Servers, NEW a \in Account, a.jpd # NoJpd, Add(s, a),
             unpinned' = IF account[s].jpd = a.jpd THEN unpinned ELSE unpinned \cup {s}
      PROVE  AccountTypeOK' /\ LoginSound' /\ HomesKept
  <2>1. AccountTypeOK' /\ account' = [account EXCEPT ![s] = a]
    BY <1>1, <1>2, AddStep DEF AccountTypeOK
  <2>2. LoginSound'
    BY <1>0, <1>2, <2>1 DEF LoginSound, loginVars, AccountTypeOK
  <2>3. HomesKept
    BY <1>0, <1>2, <2>1 DEF HomesKept, Homed, loginVars, AccountTypeOK
  <2> QED
    BY <2>1, <2>2, <2>3
<1>3. ASSUME NEW s \in Servers, Remove(s), unpinned' = unpinned \cup {s}
      PROVE  AccountTypeOK' /\ LoginSound' /\ HomesKept
  <2>1. AccountTypeOK' /\ account' = [account EXCEPT ![s] = NoAccount]
    BY <1>1, <1>3, RemoveStep DEF AccountTypeOK
  <2>2. LoginSound'
    BY <1>0, <1>3, <2>1 DEF LoginSound, loginVars, AccountTypeOK
  <2>3. HomesKept
    BY <1>0, <1>3, <2>1 DEF HomesKept, Homed, loginVars, AccountTypeOK
  <2> QED
    BY <2>1, <2>2, <2>3
<1>4. ASSUME default' \in Known, UNCHANGED <<account, unpinned>>
      PROVE  AccountTypeOK' /\ LoginSound' /\ HomesKept
  BY <1>0, <1>1, <1>4 DEF AccountTypeOK, Known, LoginSound, HomesKept, Homed, loginVars
<1> QED
  BY <1>1, <1>2, <1>3, <1>4 DEF ChangeByHand, Known

-----------------------------------------------------------------------------
(* The registration                                                        *)

\* Nothing a registration does changes an account.
Steady == UNCHANGED <<account, unpinned, loginAt, platform>>

\* So helpers that are at home stay there.
LEMMA SteadyHelpers ==
  ASSUME Steady, \A f \in Files : AllHomed(claude'[f]) /\ AllHomed(was'[f]),
         step' # "idle" => /\ pinned'.server \in Servers /\ pinned'.jpd \in Jpds
                           /\ Homed(pinned'.server, pinned'.jpd)
  PROVE  HelpersHomed'
<1>1. \A h, j : Homed(h, j) => Homed(h, j)'
  BY DEF Steady, Homed, Id
<1>2. ASSUME NEW c, AllHomed(c) PROVE AllHomed(c)'
  BY <1>1, <1>2 DEF AllHomed, Entries, HomedNear
<1> QED
  BY <1>1, <1>2 DEF HelpersHomed

\* The parts of a file.
LEMMA ContentParts ==
  ASSUME NEW c \in Content
  PROVE  /\ c.is \in {"object", "absent", "invalid"} /\ c.mark \in BOOLEAN
         /\ c.named \in JFrogEntry \cup {Nothing, Foreign}
         /\ c.older \in JFrogEntry \cup {Nothing}
BY DEF Content

\* What is declared is a content without tokens whose helpers are at home.
LEMMA Declared ==
  ASSUME NEW c \in Content, AllHomed(c), pinned.server \in Servers, pinned.jpd \in Jpds,
         Homed(pinned.server, pinned.jpd)
  PROVE  /\ declareMarketplace(c) \in Content
         /\ AllHomed(declareMarketplace(c)) /\ Tokenless(declareMarketplace(c))
<1> DEFINE d == declareMarketplace(c)
           n == [from |-> "jfrog", jpd |-> pinned.jpd, token |-> FALSE, helper |-> pinned.server]
           o == scrubToken(c.older)
<1>0. d = [is |-> "object", named |-> n, older |-> o, mark |-> c.mark]
  BY DEF declareMarketplace
<1>1. n \in JFrogEntry /\ ~n.token /\ HomedNear(n.helper, n.jpd)
  BY DEF JFrogEntry, HomedNear
<1>2. /\ o \in JFrogEntry \cup {Nothing} /\ ~o.token
      /\ o.helper # NoServer => HomedNear(o.helper, o.jpd)
  <2>1. CASE c.older = Nothing
    <3>1. o = Nothing
      BY <2>1 DEF scrubToken
    <3> QED
      BY <3>1 DEF Nothing, Without
  <2>2. CASE c.older # Nothing
    <3>0. c.older \in JFrogEntry
      BY <2>2, ContentParts
    <3> DEFINE h == IF c.older.helper = NoServer /\ origin[c.older.jpd] = origin[pinned.jpd]
                    THEN pinned.server ELSE c.older.helper
    <3>1. o = [c.older EXCEPT !.token = FALSE, !.helper = h]
      BY <2>2 DEF scrubToken
    <3>2. h \in Servers \cup {NoServer}
      BY <3>0 DEF JFrogEntry
    <3>3. h # NoServer => HomedNear(h, c.older.jpd)
      BY DEF AllHomed, Entries, HomedNear
    <3> HIDE DEF h
    <3>4. /\ o \in JFrogEntry /\ ~o.token /\ o.helper = h /\ o.jpd = c.older.jpd
      BY <3>0, <3>1, <3>2 DEF JFrogEntry
    <3> QED
      BY <3>3, <3>4
  <2> QED
    BY <2>1, <2>2
<1> HIDE DEF n, o, d
<1>3. d.named = n /\ d.older = o
  BY <1>0
<1>4. d \in Content
  BY <1>0, <1>1, <1>2, ContentParts DEF Content
<1>5. AllHomed(d) /\ Tokenless(d)
  BY <1>1, <1>2, <1>3 DEF AllHomed, Tokenless, Entries
<1> QED
  BY <1>4, <1>5 DEF d

\* A registration that ends leaves files with helpers that are at home.
LEMMA ReturnStep ==
  ASSUME MarketSound, Steady, NEW how \in {"done", "failed", "killed"}, NEW names \in SUBSET Files,
         Return(how, names), stuck' \subseteq Files, UNCHANGED edits,
         claude' \in [Files -> Content], \A f \in Files : AllHomed(claude'[f])
  PROVE  MarketSound'
<1>1. Absent \in Content /\ AllHomed(Absent)
  BY DEF Absent, Content, Nothing, Without, AllHomed, Entries
<1>2. MarketTypeOK'
  BY <1>1 DEF MarketSound, MarketTypeOK, Return, Goto, NoPin
<1>3. RegisterSound'
  BY DEF RegisterSound, Return, Goto
<1>4. HelpersHomed'
  BY <1>1, SteadyHelpers DEF Return, Goto
<1> QED
  BY <1>2, <1>3, <1>4 DEF MarketSound

\* A registration that goes on.
LEMMA GoesStep ==
  ASSUME MarketSound, Steady, step # "idle",
         NEW next \in {"read", "write_settings", "put_back", "update", "restore_cache", "restore_settings"},
         Goes(next), stuck' \subseteq Files, UNCHANGED edits,
         claude' \in [Files -> Content], \A f \in Files : AllHomed(claude'[f]), RegisterSound'
  PROVE  MarketSound'
<1>1. MarketTypeOK'
  BY DEF MarketSound, MarketTypeOK, Goes, Goto
<1>2. HelpersHomed'
  BY SteadyHelpers DEF MarketSound, HelpersHomed, Goes, Goto
<1> QED
  BY <1>1, <1>2 DEF MarketSound

\* The server is pinned with the platform it points at.
LEMMA ResolveStep ==
  ASSUME MarketSound, Steady, AccountTypeOK, NEW s \in Servers \cup {NoServer}, ResolveServer(s)
  PROVE  MarketSound'
<1> DEFINE r == resolveJfServer(s, Shown)
<1>1. /\ r \in Servers /\ account[r].jpd \in Jpds /\ Homed(r, account[r].jpd)
      /\ pinned' = [server |-> r, jpd |-> account[r].jpd]
  BY DEF ResolveServer, Known, AccountTypeOK, Account, Homed
<1> HIDE DEF r
<1>2. /\ step' = "find" /\ ended' = "none" /\ stuck' = {} /\ told' = {}
      /\ UNCHANGED <<claude, was, touched, edits>>
  BY DEF ResolveServer, Goto
<1>3. MarketTypeOK'
  BY <1>1, <1>2 DEF MarketSound, MarketTypeOK
<1>4. RegisterSound'
  BY <1>2 DEF RegisterSound
<1>5. HelpersHomed'
  BY <1>1, <1>2, SteadyHelpers DEF MarketSound, HelpersHomed
<1> QED
  BY <1>3, <1>4, <1>5 DEF MarketSound

\* The catalog is asked.
LEMMA FindStep == ASSUME MarketSound, Steady, FindMarketplace PROVE MarketSound'
<1>1. claude' \in [Files -> Content] /\ UNCHANGED <<claude, stuck, edits>> /\ step = "find" /\ stuck' \subseteq Files
  BY DEF MarketSound, MarketTypeOK, FindMarketplace
<1>2. \A f \in Files : AllHomed(claude'[f])
  BY DEF MarketSound, HelpersHomed, FindMarketplace
<1>3. CASE Goes("read")
  <2>1. RegisterSound'
    BY <1>1, <1>3 DEF MarketSound, RegisterSound, Goes, Goto
  <2> QED
    BY <1>1, <1>2, <1>3, <2>1, GoesStep
<1>4. CASE Return("failed", {})
  BY <1>1, <1>2, <1>4, ReturnStep
<1> QED
  BY <1>3, <1>4 DEF FindMarketplace

\* The two files are read.
LEMMA ReadStep == ASSUME MarketSound, Steady, ReadConfigs PROVE MarketSound'
<1>1. claude' \in [Files -> Content] /\ UNCHANGED <<edits, claude, stuck>> /\ step = "read" /\ stuck' \subseteq Files
  BY DEF MarketSound, MarketTypeOK, ReadConfigs
<1>2. \A f \in Files : AllHomed(claude'[f])
  BY <1>1 DEF MarketSound, HelpersHomed
<1>3. CASE was' = claude /\ touched' = {} /\ Goto("write_cache") /\ UNCHANGED <<pinned, ended, told>>
  <2>1. MarketTypeOK'
    BY <1>1, <1>3 DEF MarketSound, MarketTypeOK, Goto
  <2>2. RegisterSound'
    BY <1>1, <1>3 DEF MarketSound, RegisterSound, Goto
  <2>3. HelpersHomed'
    BY <1>1, <1>3, <1>2, SteadyHelpers DEF MarketSound, HelpersHomed, Goto
  <2> QED
    BY <2>1, <2>2, <2>3 DEF MarketSound
<1>4. CASE Return("failed", {})
  BY <1>1, <1>2, <1>4, ReturnStep
<1> QED
  BY <1>3, <1>4 DEF ReadConfigs

\* What a file holds once it is declared, from what was read of it.
LEMMA DeclaredFile ==
  ASSUME MarketSound, step # "idle", NEW f \in Files
  PROVE  /\ declareMarketplace(was[f]) \in Content
         /\ AllHomed(declareMarketplace(was[f])) /\ Tokenless(declareMarketplace(was[f]))
<1>1. was[f] \in Content
  BY DEF MarketSound, MarketTypeOK
<1>2. /\ pinned.server \in Servers /\ pinned.jpd \in Jpds /\ Homed(pinned.server, pinned.jpd)
      /\ AllHomed(was[f])
  BY DEF MarketSound, HelpersHomed
<1> QED
  BY <1>1, <1>2, Declared

\* The two files are written, or one cannot be.
LEMMA WriteStep == ASSUME MarketSound, Steady, WriteCache \/ WriteSettings PROVE MarketSound'
<1>0. /\ UNCHANGED <<edits, stuck>> /\ step \in {"write_cache", "write_settings"}
      /\ claude \in [Files -> Content] /\ stuck' \subseteq Files
  BY DEF WriteCache, WriteSettings, MarketSound, MarketTypeOK
<1>1. ASSUME NEW f \in Files, claude' = [claude EXCEPT ![f] = declareMarketplace(was[f])]
      PROVE  /\ claude' \in [Files -> Content] /\ \A g \in Files : AllHomed(claude'[g])
             /\ Tokenless(claude'[f])
  BY <1>0, <1>1, DeclaredFile DEF MarketSound, HelpersHomed
<1>2. CASE step = "write_cache" /\ Goes("write_settings")
           /\ claude' = [claude EXCEPT !["cache"] = declareMarketplace(was["cache"])]
  <2>1. /\ claude' \in [Files -> Content] /\ \A g \in Files : AllHomed(claude'[g])
        /\ Tokenless(claude'["cache"])
    BY <1>1, <1>2 DEF Files
  <2>2. "settings" \notin touched => claude'["settings"] = was["settings"]
    BY <1>0, <1>2 DEF MarketSound, RegisterSound, Files
  <2>3. RegisterSound'
    BY <1>0, <1>2, <2>1, <2>2 DEF MarketSound, RegisterSound, Goes, Goto, Tokenless, Entries
  <2> QED
    BY <1>0, <1>2, <2>1, <2>3, GoesStep
<1>3. CASE step = "write_settings" /\ Goes("update")
           /\ claude' = [claude EXCEPT !["settings"] = declareMarketplace(was["settings"])]
  <2>1. /\ claude' \in [Files -> Content] /\ \A g \in Files : AllHomed(claude'[g])
        /\ Tokenless(claude'["settings"])
    BY <1>1, <1>3 DEF Files
  <2>2. touched = {} => Tokenless(claude'["cache"])
    BY <1>0, <1>3 DEF MarketSound, RegisterSound, Files
  <2>3. RegisterSound'
    BY <1>0, <1>3, <2>1, <2>2 DEF MarketSound, RegisterSound, Goes, Goto, Tokenless, Entries, Files
  <2> QED
    BY <1>0, <1>3, <2>1, <2>3, GoesStep
<1>4. CASE Return("failed", {}) /\ UNCHANGED claude
  BY <1>0, <1>4, ReturnStep DEF MarketSound, HelpersHomed
<1>5. CASE step = "write_settings" /\ Goes("put_back") /\ UNCHANGED claude
  <2>1. RegisterSound'
    BY <1>0, <1>5 DEF MarketSound, RegisterSound, Goes, Goto
  <2> QED
    BY <1>0, <1>5, <2>1, GoesStep DEF MarketSound, HelpersHomed
<1> QED
  BY <1>2, <1>3, <1>4, <1>5 DEF WriteCache, WriteSettings

\* `claude` takes the declaration, or not.
LEMMA UpdateStep == ASSUME MarketSound, Steady, MarketplaceUpdate PROVE MarketSound'
<1>1. claude' \in [Files -> Content] /\ UNCHANGED <<edits, claude, stuck>> /\ step = "update" /\ stuck' \subseteq Files
  BY DEF MarketSound, MarketTypeOK, MarketplaceUpdate
<1>2. \A f \in Files : AllHomed(claude'[f])
  BY <1>1 DEF MarketSound, HelpersHomed
<1>3. CASE Goes("restore_cache")
  <2>1. RegisterSound'
    BY <1>1, <1>3 DEF MarketSound, RegisterSound, Goes, Goto
  <2> QED
    BY <1>1, <1>2, <1>3, <2>1, GoesStep
<1>4. CASE Return("done", {})
  BY <1>1, <1>2, <1>4, ReturnStep
<1> QED
  BY <1>3, <1>4 DEF MarketplaceUpdate

\* A file that is put back is as it was read; if it cannot be, it is stuck.
LEMMA PutBackStep ==
  ASSUME MarketSound, NEW f \in Files, PutBack(f)
  PROVE  /\ claude' \in [Files -> Content] /\ \A g \in Files : AllHomed(claude'[g])
         /\ stuck \subseteq stuck' /\ stuck' \subseteq Files /\ UNCHANGED edits
         /\ f \notin stuck' => claude' = [claude EXCEPT ![f] = was[f]]
         /\ \A g \in Files \ {f} : claude'[g] = claude[g]
<1>0. /\ claude \in [Files -> Content] /\ was[f] \in Content /\ stuck \subseteq Files
      /\ AllHomed(was[f]) /\ \A g \in Files : AllHomed(claude[g])
  BY DEF MarketSound, MarketTypeOK, HelpersHomed
<1>1. UNCHANGED edits /\ stuck \subseteq stuck' /\ stuck' \subseteq stuck \cup {f}
  BY DEF PutBack
<1>2. CASE claude' = [claude EXCEPT ![f] = was[f]]
  BY <1>0, <1>1, <1>2
<1>3. CASE UNCHANGED claude /\ f \in stuck'
  BY <1>0, <1>1, <1>3
<1> QED
  BY <1>2, <1>3 DEF PutBack

\* The files are put back as they were read, as far as that succeeds.
LEMMA RestoreStep ==
  ASSUME MarketSound, Steady, UndoCache \/ RestoreCache \/ RestoreSettings
  PROVE  MarketSound'
<1>0. "cache" \in Files /\ "settings" \in Files /\ claude \in [Files -> Content] /\ was \in [Files -> Content]
  BY DEF MarketSound, MarketTypeOK, Files
<1>1. CASE RestoreCache
  <2>0. step = "restore_cache" /\ PutBack("cache") /\ Goes("restore_settings")
    BY <1>1 DEF RestoreCache
  <2>1. /\ claude' \in [Files -> Content] /\ \A g \in Files : AllHomed(claude'[g])
        /\ stuck' \subseteq Files /\ UNCHANGED edits
        /\ "cache" \notin stuck' => claude' = [claude EXCEPT !["cache"] = was["cache"]]
    BY <1>0, <2>0, PutBackStep
  <2>2. UNCHANGED <<was, touched, ended>> /\ step' = "restore_settings"
    BY <2>0 DEF Goes, Goto
  <2>3. RegisterSound'
    BY <1>0, <2>0, <2>1, <2>2 DEF MarketSound, RegisterSound
  <2> QED
    BY <2>0, <2>1, <2>3, GoesStep
<1>2. CASE UndoCache \/ RestoreSettings
  <2>0. PICK f \in Files, names \in {{}, stuck'} : PutBack(f) /\ Return("failed", names)
    BY <1>0, <1>2 DEF UndoCache, RestoreSettings
  <2>1. /\ claude' \in [Files -> Content] /\ \A g \in Files : AllHomed(claude'[g])
        /\ stuck' \subseteq Files /\ UNCHANGED edits
    BY <2>0, PutBackStep
  <2>2. names \in SUBSET Files
    BY <2>0, <2>1
  <2> QED
    BY <2>0, <2>1, <2>2, ReturnStep
<1> QED
  BY <1>1, <1>2

\* A registration is killed.
LEMMA KillStep == ASSUME MarketSound, Steady, KillRegister PROVE MarketSound'
<1>1. claude' \in [Files -> Content] /\ UNCHANGED <<edits, claude>> /\ Return("killed", {}) /\ stuck' \subseteq Files
  BY DEF MarketSound, MarketTypeOK, KillRegister
<1>2. \A f \in Files : AllHomed(claude'[f])
  BY <1>1 DEF MarketSound, HelpersHomed
<1> QED
  BY <1>1, <1>2, ReturnStep

\* Somebody else edits a file.
LEMMA EditStep == ASSUME MarketSound, Steady, NEW f \in Files, EditByOthers(f) PROVE MarketSound'
<1>0. /\ claude \in [Files -> Content] /\ claude[f] \in Content /\ claude[f].is = "object"
      /\ claude' = [claude EXCEPT ![f].mark = ~@] /\ touched' = touched \cup {f}
      /\ UNCHANGED <<was, pinned, stuck, told, step, ended>>
  BY DEF MarketSound, MarketTypeOK, EditByOthers
<1>1. /\ claude' \in [Files -> Content] /\ claude'[f].named = claude[f].named
      /\ claude'[f].older = claude[f].older
  <2> DEFINE c == [claude[f] EXCEPT !.mark = ~@]
  <2>1. c \in Content /\ c.named = claude[f].named /\ c.older = claude[f].older
    BY <1>0 DEF Content
  <2>2. claude' = [claude EXCEPT ![f] = c]
    BY <1>0
  <2> HIDE DEF c
  <2> QED
    BY <1>0, <2>1, <2>2
<1>2. MarketTypeOK'
  BY <1>0, <1>1, AccountBounds DEF MarketSound, MarketTypeOK, EditByOthers
<1>3. RegisterSound'
  <2>1. f \in touched' /\ touched \subseteq touched' /\ \A g \in Files \ touched' : claude'[g] = claude[g]
    BY <1>0
  <2> QED
    BY <1>0, <2>1 DEF MarketSound, RegisterSound, Files
<1>4. \A g \in Files : AllHomed(claude'[g])
  BY <1>0, <1>1 DEF MarketSound, HelpersHomed, AllHomed, Entries
<1>5. HelpersHomed'
  BY <1>0, <1>4, SteadyHelpers DEF MarketSound, HelpersHomed
<1> QED
  BY <1>2, <1>3, <1>5 DEF MarketSound

\* The accounts and the registration, in a step of the registration.
LEMMA RegisterKeeps ==
  ASSUME AccountTypeOK, MarketSound, MarketNext, UNCHANGED loginVars
  PROVE  AccountTypeOK' /\ MarketSound' /\ Steady
<1>1. UNCHANGED <<account, default, unpinned, changes>> /\ faults' \in 0..MaxFaults
  <2>1. CASE Declares
    BY <2>1, FaultStep DEF Declares, FindMarketplace, ReadConfigs, WriteCache, WriteSettings,
                           MarketplaceUpdate, PutBack, UndoCache, RestoreCache, RestoreSettings,
                           accountVars, AccountTypeOK
  <2>2. CASE \/ \E s \in Servers \cup {NoServer} : ResolveServer(s)
             \/ KillRegister \/ \E f \in Files : EditByOthers(f)
    BY <2>2, FaultStep DEF ResolveServer, KillRegister, EditByOthers, accountVars, AccountTypeOK
  <2> QED
    BY <2>1, <2>2 DEF MarketNext
<1>2. AccountTypeOK' /\ Steady
  BY <1>1 DEF AccountTypeOK, Steady, loginVars
<1>3. MarketSound'
  BY <1>2, ResolveStep, FindStep, ReadStep, WriteStep, UpdateStep, RestoreStep, KillStep, EditStep
     DEF MarketNext, Declares
<1> QED
  BY <1>2, <1>3

\* A registration stands still while others change the accounts.
LEMMA RegistrationWaits ==
  ASSUME AccountTypeOK, MarketSound, HomesKept, UNCHANGED marketVars
  PROVE  MarketSound'
<1>1. MarketTypeOK' /\ RegisterSound'
  BY DEF MarketSound, MarketTypeOK, RegisterSound, marketVars, Tokenless, Entries
<1>2. ASSUME NEW h \in Servers, NEW jpd \in Jpds, Homed(h, jpd) PROVE Homed(h, jpd)'
  BY <1>2 DEF HomesKept
<1>3. ASSUME NEW c \in Content, AllHomed(c) PROVE AllHomed(c)'
  <2>1. \A e \in Entries(c) : e.helper \in Servers \cup {NoServer}
    BY ContentParts DEF Entries, JFrogEntry, Nothing, Foreign, Without
  <2> QED
    BY <1>2, <1>3, <2>1 DEF AllHomed, Entries, HomedNear
<1>4. HelpersHomed'
  <2>1. \A f \in Files : claude[f] \in Content /\ was[f] \in Content
    BY DEF MarketSound, MarketTypeOK
  <2> QED
    BY <1>2, <1>3, <2>1 DEF MarketSound, HelpersHomed, marketVars
<1> QED
  BY <1>1, <1>4 DEF MarketSound

-----------------------------------------------------------------------------
(* The guard                                                               *)

\* The types of what is meant, and of a run.
Meanings == [jpd : Jpds \cup {NoJpd}, setting : Setting]
GateRun == [at : {"idle", "resolve", "list", "only", "root", "bridge"},
            named : Servers \cup {NoServer}, id : Servers \cup {NoServer},
            url : Jpds \cup {NoJpd}, credential : Credentials]
USE DEF GateRun

\* What the caller means is a platform with its setting, or a choice.
LEMMA MeansType ==
  ASSUME AccountTypeOK, machine \in MachineType, registry \in [Jpds -> Registry],
         NEW named
  PROVE  Means(named) \subseteq Meanings
<1>1. Choice \in Meanings
  BY DEF Choice, Meanings, Setting
<1>2. \A s \in Known : account[s].jpd \in Jpds
  BY DEF Known, AccountTypeOK, Account
<1>3. ASSUME NEW jpd \in Jpds PROVE [jpd |-> jpd, setting |-> registry[jpd].setting] \in Meanings
  BY <1>3 DEF Meanings, Registry
<1>4. machine.env \in Jpds \cup {NoJpd}
  BY DEF MachineType
<1> QED
  BY <1>1, <1>2, <1>3, <1>4 DEF Means, EnvComplete

\* What the guard remembers has a type, and it remembers every platform that was meant, with
\* its setting.
LEMMA WitnessedType ==
  ASSUME AccountTypeOK, GuardTypeOK, NEW named
  PROVE  /\ Witnessed(named) \subseteq Meanings
         /\ meant \subseteq Witnessed(named) /\ Means(named) \subseteq Witnessed(named)
<1>1. \A p \in {m.jpd : m \in meant} \ {NoJpd} : [jpd |-> p, setting |-> registry[p].setting] \in Meanings
  BY DEF GuardTypeOK, Meanings, Registry
<1> QED
  BY <1>1, MeansType DEF Witnessed, GuardTypeOK, Meanings

\* A run of the guard that ends with an answer.
LEMMA SaysStep ==
  ASSUME GuardTypeOK, UNCHANGED <<machine, registry>>,
         NEW answer \in {"none", "enabled", "disabled", "unknown", "ambiguous"}, Says(answer)
  PROVE  GuardFine'
<1>1. Idle.at = "idle" /\ Idle \in GateRun
  BY DEF Idle, Credentials
<1>2. GuardTypeOK'
  BY <1>1 DEF GuardTypeOK, Says
<1>3. GuardSound'
  BY <1>1 DEF GuardSound, Says, Running
<1> QED
  BY <1>2, <1>3 DEF GuardFine

\* The guard's own steps change no account.
LEMMA ContinuesStep ==
  ASSUME AccountTypeOK, GuardFine, Running, UNCHANGED <<machine, registry>>,
         NEW next, Continues(next),
         next \in GateRun,
         next.at \in {"list", "only"} => next.named = NoServer /\ ~EnvComplete,
         next.at = "only" => next.id # NoServer, next.at # "resolve",
         UNCHANGED <<account, unpinned, loginAt, platform>>,
         next.at \in {"only", "root", "bridge"} /\ next.id \notin unpinned =>
           \E m \in Witnessed(gate.named) :
             /\ m.jpd # NoJpd
             /\ next.id # NoServer => Homed(next.id, m.jpd)
             /\ next.at # "only" => next.url = m.jpd
  PROVE  GuardFine'
<1>1. gate' = next /\ meant' = Witnessed(gate.named) /\ verdict' = verdict /\ verdict = "none"
  BY DEF Continues, GuardFine, GuardSound
<1>2. GuardTypeOK'
  BY <1>1, WitnessedType DEF GuardFine, GuardTypeOK, Meanings
<1>3. GuardSound'
  BY <1>1 DEF GuardSound, Running, EnvComplete, Homed, Id
<1> QED
  BY <1>2, <1>3 DEF GuardFine

\* A run of the guard begins, or is decided by an override.
LEMMA StartStep ==
  ASSUME AccountTypeOK, GuardFine, NEW s \in Servers \cup {NoServer}, StartGate(s)
  PROVE  GuardFine'
<1>1. CASE machine.force # {} /\ gate' = Idle /\ meant' = {}
            /\ verdict' = IF "disable" \in machine.force THEN "disabled" ELSE "enabled"
  <2> DEFINE answer == IF "disable" \in machine.force THEN "disabled" ELSE "enabled"
  <2>1. Says(answer)
    BY <1>1 DEF Says
  <2>2. answer \in {"none", "enabled", "disabled", "unknown", "ambiguous"}
    OBVIOUS
  <2> HIDE DEF answer
  <2> QED
    BY <2>1, <2>2, SaysStep DEF GuardFine, StartGate, guardWorld
<1>2. CASE gate' = [Idle EXCEPT !.at = "resolve", !.named = s] /\ meant' = Means(s) /\ verdict' = "none"
  <2>1. gate' = [at |-> "resolve", named |-> s, id |-> NoServer, url |-> NoJpd, credential |-> "none"]
    BY <1>2 DEF Idle
  <2>2. GuardTypeOK'
    BY <1>2, <2>1, MeansType DEF GuardFine, GuardTypeOK, StartGate, guardWorld, Meanings, Credentials
  <2>3. GuardSound'
    <3>1. gate'.at = "resolve" /\ gate'.id = NoServer
      BY <2>1
    <3>2. verdict' = "none"
      BY <1>2
    <3> QED
      BY <3>1, <3>2 DEF GuardSound, Running, EnvComplete, Homed, Id
  <2> QED
    BY <2>2, <2>3 DEF GuardFine
<1> QED
  BY <1>1, <1>2 DEF StartGate

\* A server whose platform is meant is exported.
LEMMA ExportStep ==
  ASSUME AccountTypeOK, GuardFine, Running, UNCHANGED <<machine, registry>>,
         UNCHANGED <<account, unpinned, loginAt, platform>>,
         NEW s \in Servers, Continues(Exported(s)),
         s \notin unpinned =>
           \E m \in Witnessed(gate.named) : m.jpd = account[s].jpd /\ m.jpd # NoJpd
  PROVE  GuardFine'
<1> DEFINE next == Exported(s)
<1>1. /\ gate \in GateRun
      /\ account[s].jpd \in Jpds \cup {NoJpd} /\ account[s].credential \in Credentials
  BY DEF GuardFine, GuardTypeOK, AccountTypeOK, Account
<1>2. /\ next \in GateRun
      /\ next.at = "root" /\ next.id = s /\ next.url = account[s].jpd
  BY <1>1 DEF Exported
<1>3. s \notin unpinned => \E m \in Witnessed(gate.named) :
             m.jpd # NoJpd /\ Homed(s, m.jpd) /\ next.url = m.jpd
  BY <1>2 DEF Homed
<1> HIDE DEF next
<1>4. Continues(next)
  BY DEF next
<1> QED
  BY <1>2, <1>3, <1>4, ContinuesStep

\* A named server, the environment or jf's default is what the caller means.
LEMMA ResolveCredentialsStep ==
  ASSUME AccountTypeOK, GuardFine, resolveCredentials, UNCHANGED <<loginAt, platform>>
  PROVE  GuardFine'
<1>0. /\ gate.at = "resolve" /\ Running /\ GuardTypeOK /\ UNCHANGED <<machine, registry, account, unpinned>>
      /\ gate.named \in Servers \cup {NoServer}
  BY DEF resolveCredentials, Running, GuardFine, GuardTypeOK, guardWorld, accountVars
<1>a. ASSUME NEW jpd \in Jpds, [jpd |-> jpd, setting |-> registry[jpd].setting] \in Means(gate.named)
      PROVE  \E m \in Witnessed(gate.named) : m.jpd = jpd /\ m.jpd # NoJpd
  BY <1>0, <1>a, WitnessedType, JpdsAssumption DEF GuardFine
<1>1. CASE gate.named # NoServer /\ gate.named \in Known /\ Continues(Exported(gate.named))
  <2>1. account[gate.named].jpd \in Jpds
    BY <1>1 DEF Known, AccountTypeOK, Account
  <2>2. [jpd |-> account[gate.named].jpd, setting |-> registry[account[gate.named].jpd].setting]
          \in Means(gate.named)
    BY <1>1, <2>1, JpdsAssumption DEF Means, resolveJfServer
  <2> QED
    BY <1>0, <1>1, <1>a, <2>1, <2>2, ExportStep
<1>2. CASE Says("unknown")
  BY <1>0, <1>2, SaysStep
<1>3. CASE /\ gate.named = NoServer /\ EnvComplete
           /\ Continues([gate EXCEPT !.at = "root", !.url = machine.env, !.credential = "good"])
  <2> DEFINE next == [gate EXCEPT !.at = "root", !.url = machine.env, !.credential = "good"]
  <2>1. machine.env \in Jpds
    BY <1>0, <1>3 DEF EnvComplete, GuardTypeOK, MachineType
  <2>2. /\ next \in GateRun
        /\ next.at = "root" /\ next.id = gate.id /\ next.url = machine.env
    BY <1>0, <2>1 DEF GuardTypeOK, Credentials
  <2>3. [jpd |-> machine.env, setting |-> registry[machine.env].setting] \in Means(gate.named)
    BY <1>3, <2>1, JpdsAssumption DEF Means
  <2>4. PICK m \in Witnessed(gate.named) : m.jpd = machine.env /\ m.jpd # NoJpd
    BY <1>a, <2>1, <2>3
  <2>5. gate.id = NoServer
    BY <1>0 DEF GuardFine, GuardSound
  <2> HIDE DEF next
  <2>6. Continues(next)
    BY <1>3 DEF next
  <2> QED
    BY <1>0, <2>2, <2>4, <2>5, <2>6, ContinuesStep
<1>4. CASE gate.named = NoServer /\ ~EnvComplete /\ default # NoServer /\ Continues(Exported(default))
  <2>1. default \in Servers /\ default \in Known /\ account[default].jpd \in Jpds
    BY <1>4 DEF Known, AccountTypeOK, Account
  <2>2. [jpd |-> account[default].jpd, setting |-> registry[account[default].jpd].setting]
          \in Means(gate.named)
    BY <1>4, <2>1, JpdsAssumption DEF Means, resolveJfServer, Shown
  <2> QED
    BY <1>0, <1>4, <1>a, <2>1, <2>2, ExportStep
<1>5. CASE gate.named = NoServer /\ ~EnvComplete /\ Continues([gate EXCEPT !.at = "list"])
  <2> DEFINE next == [gate EXCEPT !.at = "list"]
  <2>1. /\ next \in GateRun
        /\ next.at = "list" /\ next.named = gate.named
    BY <1>0 DEF GuardTypeOK
  <2> HIDE DEF next
  <2>2. Continues(next)
    BY <1>5 DEF next
  <2> QED
    BY <1>0, <1>5, <2>1, <2>2, ContinuesStep
<1> QED
  BY <1>1, <1>2, <1>3, <1>4, <1>5 DEF resolveCredentials

\* The only server there is is what the caller means.
LEMMA ListStep ==
  ASSUME AccountTypeOK, GuardFine, listConfiguredServers, UNCHANGED <<loginAt, platform>>
  PROVE  GuardFine'
<1>0. /\ gate.at = "list" /\ Running /\ GuardTypeOK /\ UNCHANGED <<machine, registry, account, unpinned>>
      /\ gate.named = NoServer /\ ~EnvComplete
  BY DEF listConfiguredServers, Running, GuardFine, GuardSound, guardWorld, accountVars
<1>1. CASE \E answer \in {"ambiguous", "unknown"} : Says(answer)
  BY <1>0, <1>1, SaysStep
<1>2. CASE /\ Cardinality(Known) = 1
           /\ Continues([gate EXCEPT !.at = "only", !.id = CHOOSE s \in Known : TRUE])
  <2>1. PICK only \in Servers : Known = {only} /\ account[only].jpd # NoJpd
    <3>1. IsFiniteSet(Known)
      BY FiniteAssumption, FS_Subset DEF Known
    <3>2. PICK only : Known = {only}
      BY <1>2, <3>1, FS_Singleton
    <3> QED
      BY <3>2 DEF Known
  <2> DEFINE next == [gate EXCEPT !.at = "only", !.id = CHOOSE s \in Known : TRUE]
             jpd == account[only].jpd
  <2>2. (CHOOSE s \in Known : TRUE) = only
    BY <2>1
  <2>3. /\ next \in GateRun
        /\ next.at = "only" /\ next.named = NoServer /\ next.id = only
    <3>1. next = [gate EXCEPT !.at = "only", !.id = only]
      BY <2>2
    <3> HIDE DEF next
    <3> QED
      BY <1>0, <2>1, <3>1 DEF GuardTypeOK
  <2>4. jpd \in Jpds
    BY <2>1 DEF AccountTypeOK, Account
  <2>5. resolveJfServer(NoServer, Shown) = only
    <3>1. default # NoServer => default = only
      BY <2>1 DEF AccountTypeOK, Known
    <3> QED
      BY <1>2, <2>2, <3>1 DEF resolveJfServer, Shown
  <2>6. [jpd |-> jpd, setting |-> registry[jpd].setting] \in Means(gate.named)
    BY <1>0, <2>1, <2>5 DEF Means
  <2>7. PICK m \in Witnessed(gate.named) : m.jpd = jpd
    BY <1>0, <2>6, WitnessedType
  <2>8. m.jpd # NoJpd /\ Homed(only, m.jpd)
    BY <2>1, <2>7 DEF Homed
  <2> HIDE DEF next
  <2>9. Continues(next)
    BY <1>2 DEF next
  <2>10. only # NoServer
    BY NoServerAssumption
  <2> QED
    BY <1>0, <2>3, <2>8, <2>9, <2>10, ContinuesStep
<1> QED
  BY <1>1, <1>2 DEF listConfiguredServers

\* It is exported, if it is still there.
LEMMA OnlyStep ==
  ASSUME AccountTypeOK, GuardFine, UseOnlyServer, UNCHANGED <<loginAt, platform>>
  PROVE  GuardFine'
<1>0. /\ gate.at = "only" /\ Running /\ GuardTypeOK /\ UNCHANGED <<machine, registry, account, unpinned>>
  BY DEF UseOnlyServer, Running, GuardFine, guardWorld, accountVars
<1>1. CASE Says("unknown")
  BY <1>0, <1>1, SaysStep
<1>2. CASE gate.id \in Known /\ Continues(Exported(gate.id))
  <2>1. gate.id \in Servers /\ gate.id # NoServer /\ account[gate.id].jpd # NoJpd
    BY <1>2, NoServerAssumption DEF Known
  <2>2. ASSUME gate.id \notin unpinned
        PROVE  \E m \in Witnessed(gate.named) : m.jpd = account[gate.id].jpd /\ m.jpd # NoJpd
    <3>1. PICK m \in meant : m.jpd # NoJpd /\ Homed(gate.id, m.jpd)
      BY <1>0, <2>1, <2>2 DEF GuardFine, GuardSound
    <3>2. m \in Witnessed(gate.named)
      BY <1>0, WitnessedType
    <3> QED
      BY <2>1, <2>2, <3>1, <3>2 DEF Homed
  <2> QED
    BY <1>0, <1>2, <2>1, <2>2, ExportStep
<1> QED
  BY <1>1, <1>2 DEF UseOnlyServer

\* The platform is asked.
LEMMA AskStep ==
  ASSUME AccountTypeOK, GuardFine, AskRoot \/ AskBridge, UNCHANGED <<loginAt, platform>>
  PROVE  GuardFine'
<1>0. /\ gate.at \in {"root", "bridge"} /\ Running /\ GuardTypeOK
      /\ UNCHANGED <<machine, registry, account, unpinned>>
  BY DEF AskRoot, AskBridge, Running, GuardFine, guardWorld, accountVars
<1>1. CASE \E answer : Says(GatewaySetting(answer))
  <2>1. \A answer : GatewaySetting(answer) \in {"none", "enabled", "disabled", "unknown", "ambiguous"}
    BY DEF GatewaySetting
  <2> QED
    BY <1>0, <1>1, <2>1, SaysStep
<1>2. CASE Says("unknown")
  BY <1>0, <1>2, SaysStep
<1>3. CASE gate.at = "root" /\ Continues([gate EXCEPT !.at = "bridge"])
  <2> DEFINE next == [gate EXCEPT !.at = "bridge"]
  <2>1. /\ next \in GateRun
        /\ next.at = "bridge" /\ next.id = gate.id /\ next.url = gate.url
    BY <1>0 DEF GuardTypeOK
  <2>2. gate.id \notin unpinned =>
          \E m \in Witnessed(gate.named) :
            m.jpd # NoJpd /\ (gate.id # NoServer => Homed(gate.id, m.jpd)) /\ gate.url = m.jpd
    BY <1>0, <1>3, WitnessedType DEF GuardFine, GuardSound
  <2> HIDE DEF next
  <2>3. Continues(next)
    BY <1>3 DEF next
  <2> QED
    BY <1>0, <2>1, <2>2, <2>3, ContinuesStep
<1> QED
  BY <1>1, <1>2, <1>3 DEF AskRoot, AskBridge

\* An administrator acts, or the accounts change, while the guard is under way: it goes on to
\* remember.
LEMMA RemembersStep ==
  ASSUME AccountTypeOK', GuardFine, HomesKept, UNCHANGED <<machine, gate, verdict>>,
         registry' \in [Jpds -> Registry], meant \subseteq meant', meant' \subseteq Meanings
  PROVE  GuardFine'
<1>1. GuardTypeOK'
  BY DEF GuardFine, GuardTypeOK, Meanings
<1>2. GuardSound'
  <2>1. ASSUME NEW h \in Servers, NEW jpd \in Jpds, Homed(h, jpd) PROVE Homed(h, jpd)'
    BY <2>1 DEF HomesKept
  <2>2. \A m \in meant : m.jpd \in Jpds \cup {NoJpd}
    BY DEF GuardFine, GuardTypeOK
  <2>3. gate.id \in Servers \cup {NoServer}
    BY DEF GuardFine, GuardTypeOK
  <2>4. ASSUME gate.at \in {"only", "root", "bridge"}, gate.id \notin unpinned'
        PROVE  \E m \in meant' : /\ m.jpd # NoJpd
                                 /\ gate.id # NoServer => Homed(gate.id, m.jpd)'
                                 /\ gate.at # "only" => gate.url = m.jpd
    <3>1. gate.id \notin unpinned
      BY <2>4 DEF HomesKept
    <3>2. PICK m \in meant : /\ m.jpd # NoJpd
                             /\ gate.id # NoServer => Homed(gate.id, m.jpd)
                             /\ gate.at # "only" => gate.url = m.jpd
      BY <2>4, <3>1 DEF GuardFine, GuardSound
    <3> QED
      BY <2>1, <2>2, <2>3, <3>2
  <2> QED
    BY <2>4 DEF GuardFine, GuardSound, Running, EnvComplete
<1> QED
  BY <1>1, <1>2 DEF GuardFine

\* The same of what is meant after a step.
LEMMA MeansTypeAfter ==
  ASSUME AccountTypeOK', machine' \in MachineType, registry' \in [Jpds -> Registry],
         NEW named
  PROVE  Means(named)' \subseteq Meanings
<1>1. Choice \in Meanings
  BY DEF Choice, Meanings, Setting
<1>2. \A s \in Known' : account'[s].jpd \in Jpds
  BY DEF Known, AccountTypeOK, Account
<1>3. ASSUME NEW jpd \in Jpds PROVE [jpd |-> jpd, setting |-> registry'[jpd].setting] \in Meanings
  BY <1>3 DEF Meanings, Registry
<1>4. machine'.env \in Jpds \cup {NoJpd}
  BY DEF MachineType
<1> QED
  BY <1>1, <1>2, <1>3, <1>4 DEF Means, EnvComplete

\* The accounts change while the guard runs.
LEMMA WatchesStep ==
  ASSUME AccountTypeOK', GuardFine, HomesKept, GuardWatches
  PROVE  GuardFine'
<1>1. machine' \in MachineType /\ registry' \in [Jpds -> Registry] /\ UNCHANGED <<machine, gate, verdict>>
  BY DEF GuardWatches, GuardFine, GuardTypeOK
<1>2. Means(gate.named)' \subseteq Meanings
  <2> DEFINE named == gate.named
  <2>1. \A n : Means(n)' \subseteq Meanings
    BY <1>1, MeansTypeAfter
  <2> QED
    BY <1>1, <2>1
<1>3. meant \subseteq meant' /\ meant' \subseteq Meanings
  BY <1>2 DEF GuardWatches, GuardFine, GuardTypeOK, Meanings
<1> QED
  BY <1>1, <1>3, RemembersStep

\* An administrator turns a registry on or off.
LEMMA ToggleStep ==
  ASSUME AccountTypeOK, GuardFine, NEW jpd \in Jpds, ToggleRegistry(jpd), UNCHANGED <<loginAt, platform>>
  PROVE  GuardFine' /\ AccountTypeOK'
<1>1. AccountTypeOK'
  BY AccountBounds DEF ToggleRegistry, AccountTypeOK
<1>2. registry' \in [Jpds -> Registry]
  BY DEF ToggleRegistry, GuardFine, GuardTypeOK, Registry, Setting
<1>3. UNCHANGED <<machine, gate, verdict>> /\ machine' \in MachineType
  BY DEF ToggleRegistry, GuardFine, GuardTypeOK
<1>4. Means(gate.named)' \subseteq Meanings
  <2>1. \A n : Means(n)' \subseteq Meanings
    BY <1>1, <1>2, <1>3, MeansTypeAfter
  <2> QED
    BY <1>3, <2>1
<1>5. \A p \in {m.jpd : m \in meant} \ {NoJpd} : [jpd |-> p, setting |-> registry'[p].setting] \in Meanings
  BY <1>2 DEF GuardFine, GuardTypeOK, Meanings, Registry
<1>6. meant \subseteq meant' /\ meant' \subseteq Meanings
  BY <1>4, <1>5 DEF ToggleRegistry, GuardFine, GuardTypeOK, Meanings
<1>7. HomesKept
  BY DEF HomesKept, Homed, Id, ToggleRegistry
<1> QED
  BY <1>1, <1>2, <1>3, <1>6, <1>7, RemembersStep

\* The accounts and the guard, in a step of the guard.
LEMMA GuardKeeps ==
  ASSUME AccountTypeOK, GuardFine, GuardNext, UNCHANGED loginVars
  PROVE  AccountTypeOK' /\ GuardFine' /\ HomesKept
<1>0. UNCHANGED <<loginAt, platform>>
  BY DEF loginVars
<1>1. CASE \E s \in Servers \cup {NoServer} : StartGate(s)
  BY <1>0, <1>1, StartStep DEF StartGate, guardWorld, accountVars, AccountTypeOK, HomesKept, Homed, Id
<1>2. CASE resolveCredentials \/ listConfiguredServers \/ UseOnlyServer \/ AskBridge
  <2>1. UNCHANGED accountVars
    BY <1>2 DEF resolveCredentials, listConfiguredServers, UseOnlyServer, AskBridge, guardWorld
  <2>2. AccountTypeOK' /\ HomesKept
    BY <1>0, <2>1 DEF accountVars, AccountTypeOK, HomesKept, Homed, Id
  <2> QED
    BY <1>0, <1>2, <2>2, ResolveCredentialsStep, ListStep, OnlyStep, AskStep
<1>3. CASE AskRoot
  <2>1. AccountTypeOK' /\ HomesKept
    BY <1>0, <1>3, FaultStep DEF AskRoot, AccountTypeOK, HomesKept, Homed, Id
  <2> QED
    BY <1>0, <1>3, <2>1, AskStep
<1>4. CASE \E jpd \in Jpds : ToggleRegistry(jpd)
  <2>1. HomesKept
    BY <1>0, <1>4 DEF HomesKept, Homed, Id, ToggleRegistry
  <2> QED
    BY <1>0, <1>4, <2>1, ToggleStep
<1> QED
  BY <1>1, <1>2, <1>3, <1>4 DEF GuardNext, GuardStep

-----------------------------------------------------------------------------
(* The theorems                                                            *)

\* Nothing runs at first, and no entry has a helper.
LEMMA AccountsInitIInv == AccountsInit => AccountsIInv
<1> SUFFICES ASSUME AccountsInit PROVE AccountsIInv
  OBVIOUS
<1> USE DEF AccountsInit
<1>1. AccountTypeOK
  BY AccountBounds DEF AccountInit, AccountTypeOK, Known
<1>2. LoginTypeOK /\ LoginSound
  BY DEF LoginInit, LoginTypeOK, LoginSound
<1>3. MarketSound
  <2>1. Absent \in Content /\ NoPin \in [server : Servers \cup {NoServer}, jpd : Jpds \cup {NoJpd}]
    BY DEF Absent, Content, NoPin
  <2>2. MarketTypeOK /\ RegisterSound
    BY <2>1, AccountBounds DEF MarketInit, MarketTypeOK, RegisterSound
  <2>3. \A f \in Files : claude[f].named.helper = NoServer /\ claude[f].older.helper = NoServer
    BY DEF MarketInit, Helperless
  <2>4. \A f \in Files : was[f].named.helper = NoServer /\ was[f].older.helper = NoServer
    BY DEF MarketInit, Absent, Nothing, Without
  <2>5. HelpersHomed
    BY <2>3, <2>4 DEF HelpersHomed, AllHomed, Entries, MarketInit
  <2> QED
    BY <2>2, <2>5 DEF MarketSound
<1>4. GuardFine
  <2>1. gate = Idle /\ Idle.at = "idle" /\ meant = {} /\ verdict = "none"
    BY DEF GuardInit, Idle
  <2>2. GuardTypeOK
    BY <2>1, MachinesAssumption DEF GuardInit, GuardTypeOK, Idle, Credentials
  <2>3. GuardSound
    BY <2>1 DEF GuardSound, Running
  <2> QED
    BY <2>2, <2>3 DEF GuardFine
<1> QED
  BY <1>1, <1>2, <1>3, <1>4 DEF AccountsIInv

\* Every step preserves the invariant.
LEMMA AccountsNextStep == ASSUME AccountsIInv, [AccountsNext]_allVars PROVE AccountsIInv'
<1> USE DEF AccountsIInv
<1>1. CASE ByLogin
  BY <1>1, LoginKeeps, RegistrationWaits, WatchesStep DEF ByLogin
<1>2. CASE ByHand
  BY <1>2, HandKeeps, RegistrationWaits, WatchesStep DEF ByHand
<1>3. CASE ByRegister
  <2>1. AccountTypeOK' /\ MarketSound' /\ Steady
    BY <1>3, RegisterKeeps DEF ByRegister
  <2>2. LoginTypeOK' /\ LoginSound'
    BY <1>3, <2>1 DEF ByRegister, Steady, loginVars, LoginTypeOK, LoginSound, Id
  <2>3. GuardFine'
    BY <1>3, <2>1 DEF ByRegister, Steady, guardVars, GuardFine, GuardTypeOK, GuardSound, Running,
                      EnvComplete, Homed, Id
  <2> QED
    BY <2>1, <2>2, <2>3
<1>4. CASE ByGuard
  <2>1. AccountTypeOK' /\ GuardFine' /\ HomesKept /\ UNCHANGED <<loginVars, marketVars>>
    BY <1>4, GuardKeeps DEF ByGuard
  <2>2. MarketSound'
    BY <2>1, RegistrationWaits
  <2>3. UNCHANGED <<account, unpinned>>
    BY <1>4 DEF ByGuard, GuardNext, GuardStep, StartGate, resolveCredentials, listConfiguredServers,
                UseOnlyServer, AskRoot, AskBridge, ToggleRegistry, guardWorld, accountVars
  <2>4. LoginTypeOK' /\ LoginSound'
    BY <2>1, <2>3 DEF loginVars, LoginTypeOK, LoginSound, Id
  <2> QED
    BY <2>1, <2>2, <2>4
<1>5. CASE UNCHANGED allVars
  <2>1. AccountTypeOK' /\ LoginTypeOK' /\ LoginSound' /\ HomesKept /\ UNCHANGED marketVars
    BY <1>5 DEF allVars, accountVars, loginVars, AccountTypeOK, LoginTypeOK, LoginSound, HomesKept,
                Homed, Id
  <2>2. MarketSound'
    BY <2>1, RegistrationWaits
  <2>3. GuardFine'
    BY <1>5 DEF allVars, accountVars, loginVars, guardVars, GuardFine, GuardTypeOK, GuardSound,
                Running, EnvComplete, Homed, Id
  <2> QED
    BY <2>1, <2>2, <2>3
<1> QED
  BY <1>1, <1>2, <1>3, <1>4, <1>5 DEF AccountsNext

\* The inductive invariant of the accounts and all that works on them.
THEOREM AccountsInvariance == AccountsSpec => []AccountsIInv
  BY AccountsInitIInv, AccountsNextStep, PTL DEF AccountsSpec

\* Whatever logins, registrations, failures and changes by hand come in between, no helper of
\* a marketplace asks for the token of a server that points at another origin, unless that
\* server's account was lost by a failed login, overwritten by one that could not read the
\* configuration, or changed by hand (claude-config.mjs:86).
THEOREM HelpersStayHome == AccountsSpec => []HelperStaysHome
<1>1. AccountsIInv => HelperStaysHome
  <2> SUFFICES ASSUME AccountsIInv, NEW f \in Files, NEW e \in Entries(claude[f]),
                      e.helper \notin unpinned \cup {NoServer}, account[e.helper].jpd # NoJpd
               PROVE  origin[account[e.helper].jpd] = origin[e.jpd]
    BY DEF HelperStaysHome, Entries
  <2>1. PICK j \in Jpds : origin[j] = origin[e.jpd] /\ Homed(e.helper, j)
    BY DEF AccountsIInv, MarketSound, HelpersHomed, AllHomed, HomedNear
  <2> QED
    BY <2>1 DEF Homed
<1> QED
  BY <1>1, AccountsInvariance, PTL

\* An account is removed, and put back, only with a token in hand, and only the one of the
\* login's own id.
THEOREM NothingIsLost == AccountsSpec => NothingLostWithoutToken
<1>1. ASSUME AccountsIInv, [AccountsNext]_allVars, loginAt' # loginAt, account' # account
      PROVE  session = "burned" /\ \A s \in Servers : account'[s] # account[s] => s = Id
  <2>1. RemoveOld \/ AddNew
    <3>1. ~ByHand /\ ~ByRegister /\ ~ByGuard /\ ~UNCHANGED allVars
      BY <1>1 DEF ByHand, ByRegister, ByGuard, loginVars, allVars
    <3>2. LoginNext
      BY <1>1, <3>1 DEF AccountsNext, ByLogin
    <3> QED
      BY <1>1, <3>2 DEF LoginNext, LoginStep, RegisterSession, Approve, BeginSave, FetchToken, CheckCollision,
                  Verify, KillLogin, accountVars
  <2>2. session = "burned"
    BY <1>1, <2>1 DEF AccountsIInv, LoginSound, RemoveOld, AddNew
  <2>3. \E a : account' = [account EXCEPT ![Id] = a]
    BY <1>1, <2>1 DEF RemoveOld, AddNew, Remove, Add
  <2>4. account \in [Servers -> Account]
    BY <1>1 DEF AccountsIInv, AccountTypeOK
  <2> QED
    BY <2>2, <2>3, <2>4
<1>2. AccountsIInv /\ [AccountsNext]_allVars =>
        [loginAt' # loginAt /\ account' # account =>
           /\ session = "burned"
           /\ \A s \in Servers : account'[s] # account[s] => s = Id]_<<accountVars, loginVars>>
  BY <1>1
<1> QED
  BY <1>2, AccountsInvariance, PTL DEF AccountsSpec, NothingLostWithoutToken

\* Steps that are not the registration's own leave it as it is.
LEMMA NotRegistering ==
  ASSUME [AccountsNext]_allVars, ~ByRegister
  PROVE  UNCHANGED marketVars
BY DEF AccountsNext, ByLogin, ByHand, ByGuard, allVars

\* Once `claude` has taken the declaration, neither file holds a token any more.
THEOREM TokensAreGone == AccountsSpec => TokensGone
<1>1. ASSUME AccountsIInv, [AccountsNext]_allVars, ended' = "done", ended = "none", touched = {}
      PROVE  \A f \in Files : \A e \in {claude[f].named, claude[f].older} : ~e.token
  <2>1. ByRegister
    BY <1>1, NotRegistering DEF marketVars
  <2>2. MarketplaceUpdate
    BY <1>1, <2>1 DEF ByRegister, MarketNext, ResolveServer, Declares, FindMarketplace, ReadConfigs,
                      WriteCache, WriteSettings, UndoCache, RestoreCache, RestoreSettings, KillRegister,
                      EditByOthers, Goes, Return
  <2> QED
    BY <1>1, <2>2 DEF MarketplaceUpdate, AccountsIInv, MarketSound, RegisterSound, Tokenless, Entries
<1>2. AccountsIInv /\ [AccountsNext]_allVars =>
        [ended' = "done" /\ ended = "none" /\ touched = {} =>
           \A f \in Files : \A e \in {claude[f].named, claude[f].older} : ~e.token]_<<accountVars, marketVars>>
  BY <1>1
<1> QED
  BY <1>2, AccountsInvariance, PTL DEF AccountsSpec, TokensGone

\* A registration that fails after it has read the two files leaves each as it found it, unless
\* somebody else wrote that file meanwhile or that file could not be put back.
THEOREM RegistersAllOrNothing == AccountsSpec => AllOrNothing
<1> DEFINE Late == {"write_cache", "write_settings", "put_back", "restore_cache", "restore_settings"}
<1>1. ASSUME AccountsIInv, [AccountsNext]_allVars, ended' = "failed", step \in Late,
             NEW f \in Files \ (touched \cup stuck')
      PROVE  claude'[f] = was[f]
  <2>0. ended = "none" /\ MarketSound /\ claude \in [Files -> Content]
    BY <1>1 DEF AccountsIInv, MarketSound, RegisterSound, MarketTypeOK
  <2>1. ByRegister
    BY <1>1, <2>0, NotRegistering DEF marketVars
  <2>2. WriteCache \/ UndoCache \/ RestoreSettings
    BY <1>1, <2>0, <2>1 DEF ByRegister, MarketNext, ResolveServer, Declares, FindMarketplace, ReadConfigs,
                      WriteSettings, MarketplaceUpdate, RestoreCache, KillRegister, EditByOthers, Goes, Return
  <2>3. CASE WriteCache
    <3>1. step = "write_cache" /\ UNCHANGED claude
      BY <1>1, <2>0, <2>3 DEF WriteCache, Goes
    <3> QED
      BY <2>0, <3>1 DEF MarketSound, RegisterSound
  <2>4. CASE UndoCache
    <3>1. step = "put_back" /\ PutBack("cache")
      BY <2>4 DEF UndoCache
    <3>2. /\ "cache" \notin stuck' => claude' = [claude EXCEPT !["cache"] = was["cache"]]
          /\ claude'["settings"] = claude["settings"]
      BY <2>0, <3>1, PutBackStep DEF Files
    <3> QED
      BY <2>0, <3>1, <3>2 DEF MarketSound, RegisterSound, Files
  <2>5. CASE RestoreSettings
    <3>1. step = "restore_settings" /\ PutBack("settings")
      BY <2>5 DEF RestoreSettings
    <3>2. /\ "settings" \notin stuck' => claude' = [claude EXCEPT !["settings"] = was["settings"]]
          /\ claude'["cache"] = claude["cache"] /\ stuck \subseteq stuck'
      BY <2>0, <3>1, PutBackStep DEF Files
    <3> QED
      BY <2>0, <3>1, <3>2 DEF MarketSound, RegisterSound, Files
  <2> QED
    BY <2>2, <2>3, <2>4, <2>5
<1>2. AccountsIInv /\ [AccountsNext]_allVars =>
        [ended' = "failed" /\ step \in Late =>
           \A f \in Files \ (touched \cup stuck') : claude'[f] = was[f]]_<<accountVars, marketVars>>
  BY <1>1
<1> QED
  BY <1>2, AccountsInvariance, PTL DEF AccountsSpec, AllOrNothing

\* Where an answer of the guard comes from.
LEMMA VerdictStep ==
  ASSUME AccountsIInv, [AccountsNext]_allVars, Running, verdict' \in {"enabled", "disabled", "ambiguous"},
         gate.id \notin unpinned
  PROVE  \E m \in Witnessed(gate.named) :
           \/ verdict' = "ambiguous" /\ m = Choice
           \/ verdict' = GatewaySetting(m.setting) /\ m # Choice
<1>0. AccountTypeOK /\ GuardTypeOK /\ GuardSound /\ verdict = "none"
  BY DEF AccountsIInv, GuardFine, GuardSound
<1>1. GuardNext
  BY <1>0 DEF AccountsNext, ByLogin, ByHand, ByRegister, ByGuard, GuardWatches, guardVars, allVars
<1>2. listConfiguredServers \/ AskRoot \/ AskBridge
  BY <1>0, <1>1 DEF GuardNext, GuardStep, StartGate, resolveCredentials, UseOnlyServer, ToggleRegistry,
                    Says, Continues
<1>3. CASE listConfiguredServers
  <2>1. verdict' = "ambiguous" /\ Cardinality(Known) > 1 /\ default = NoServer
    BY <1>0, <1>3 DEF listConfiguredServers, Says, Continues
  <2>2. gate.named = NoServer /\ ~EnvComplete
    BY <1>0, <1>3 DEF listConfiguredServers, GuardSound
  <2>3. Known # {}
    BY <2>1, FS_EmptySet
  <2>4. resolveJfServer(NoServer, Shown) = NoServer
    BY <2>1 DEF resolveJfServer, Shown
  <2>5. Choice \in Means(gate.named)
    BY <2>2, <2>3, <2>4 DEF Means
  <2> QED
    BY <1>0, <2>1, <2>5, WitnessedType
<1>4. CASE AskRoot \/ AskBridge
  <2>1. PICK path \in {"root", "bridge"} : verdict' = GatewaySetting(Answer(path))
    BY <1>0, <1>4 DEF AskRoot, AskBridge, Says, Continues
  <2>2. /\ verdict' # "ambiguous" /\ Answer(path) \in {"on", "off"}
        /\ Target.jpd # NoJpd /\ Answer(path) = registry[Target.jpd].setting
    BY <2>1 DEF GatewaySetting, Answer
  <2>3. PICK m \in meant : /\ m.jpd # NoJpd
                           /\ gate.id # NoServer => Homed(gate.id, m.jpd)
                           /\ gate.url = m.jpd
    BY <1>0, <1>4 DEF GuardSound, AskRoot, AskBridge
  <2>4. Target.jpd = m.jpd
    BY <2>2, <2>3 DEF Target, Homed
  <2> DEFINE w == [jpd |-> m.jpd, setting |-> registry[m.jpd].setting]
  <2>5. w \in Witnessed(gate.named)
    BY <2>3 DEF Witnessed
  <2>6. w.setting = Answer(path) /\ w # Choice
    <3>1. w.jpd # Choice.jpd
      BY <2>3 DEF Choice
    <3> QED
      BY <2>2, <2>4, <3>1
  <2> HIDE DEF w
  <2> QED
    BY <2>1, <2>5, <2>6
<1> QED
  BY <1>2, <1>3, <1>4

\* An answer of the gate is the setting of a platform that the caller meant while it ran, and
\* it asks for a choice only if there was one, unless the account of the server it asked was
\* lost, overwritten or changed by hand (jfrog-agent-guard-check.mjs:166).
THEOREM VerdictsAreMeant == AccountsSpec => VerdictIsMeant
<1>1. AccountsIInv /\ [AccountsNext]_allVars =>
        [Running /\ verdict' \in {"enabled", "disabled", "ambiguous"} /\ gate.id \notin unpinned =>
           \E m \in Witnessed(gate.named) :
             \/ verdict' = "ambiguous" /\ m = Choice
             \/ verdict' = GatewaySetting(m.setting) /\ m # Choice]_<<accountVars, guardVars>>
  BY VerdictStep
<1> QED
  BY <1>1, AccountsInvariance, PTL DEF AccountsSpec, VerdictIsMeant
=============================================================================
