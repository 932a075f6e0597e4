---------------------------- MODULE AccountLogin ----------------------------
(***************************************************************************)
(* The web login: a session is registered at the platform, the user        *)
(* approves it in a browser, and save-credentials exchanges it for a       *)
(* one-time token which replaces the account of the id derived from the    *)
(* platform's URL.  The id drops scheme, port and path, so two platforms   *)
(* may derive the same one.                                                *)
(***************************************************************************)
EXTENDS JfAccounts

CONSTANT deriveServerId   \* the id of each platform

ASSUME DerivedAssumption == deriveServerId \in [Jpds -> Servers]

VARIABLES platform,   \* the platform of the current session
          session,    \* the session, at the platform
          loginAt     \* next step of save-credentials

loginVars == <<platform, session, loginAt>>

LoginInit == platform \in Jpds /\ session = "none" /\ loginAt = "idle"

Id == deriveServerId[platform]
LoginGoto(next) == loginAt' = next

\* register-session; if jf has no `jf api` or the platform does not answer, nothing happens.
RegisterSession(p) ==
  /\ loginAt = "idle"
  /\ platform' = p
  /\ session' = "pending"
  /\ UNCHANGED <<accountVars, loginAt>>

\* In the browser.
Approve ==
  /\ session = "pending"
  /\ session' = "approved"
  /\ UNCHANGED <<accountVars, platform, loginAt>>

\* Mutant: the account is removed first and the token fetched afterwards.
RemoveFirst ==
  /\ loginAt = "idle" /\ session # "none"
  /\ LoginGoto("check")
  /\ UNCHANGED <<accountVars, platform, session>>

\* save-credentials, whether or not the user has finished, and again after a failure.
BeginSave ==
  /\ loginAt = "idle" /\ session # "none"
  /\ LoginGoto("token")
  /\ UNCHANGED <<accountVars, platform, session>>

\* The token is given out once.  It may be lost on the way, or be empty or odd.
FetchToken ==
  /\ loginAt = "token"
  /\ \/ session = "approved" /\ session' = "burned" /\ LoginGoto("check") /\ Succeeds
     \/ session = "approved" /\ session' = "burned" /\ LoginGoto("idle") /\ Fails
     \/ session # "approved" /\ LoginGoto("idle") /\ Succeeds /\ UNCHANGED session
  /\ UNCHANGED <<account, default, unpinned, changes, platform>>

\* Mutant: the check is dropped.
NoCheck ==
  /\ loginAt = "check"
  /\ LoginGoto("remove")
  /\ UNCHANGED <<accountVars, platform, session>>

\* An id that points at another platform is not touched, unless `jf config show` fails: then
\* the configuration looks empty and the id free.
CheckCollision ==
  /\ loginAt = "check"
  /\ \/ /\ LoginGoto(IF account[Id].jpd \in {NoJpd, platform} THEN "remove" ELSE "idle")
        /\ Succeeds
        /\ UNCHANGED unpinned
     \/ /\ LoginGoto("remove")
        /\ Fails
        /\ unpinned' = IF account[Id].jpd \in {NoJpd, platform} THEN unpinned ELSE unpinned \cup {Id}
  /\ UNCHANGED <<account, default, changes, platform, session>>

\* A failure of `jf config remove` is ignored.
RemoveOld ==
  /\ loginAt = "remove"
  /\ \/ Remove(Id) /\ Succeeds
     \/ Fails /\ UNCHANGED <<account, default>>
  /\ LoginGoto("add")
  /\ UNCHANGED <<unpinned, changes, platform, session>>

\* `jf config add` refuses an id that is there, and may fail (a sandbox): then the old
\* account is gone, and the token with it.
AddNew ==
  /\ loginAt = "add"
  /\ \/ /\ account[Id].jpd = NoJpd
        /\ Add(Id, [jpd |-> platform, credential |-> "good"])
        /\ LoginGoto("verify")
        /\ Succeeds
        /\ UNCHANGED unpinned
     \/ /\ account[Id].jpd # NoJpd \/ faults < MaxFaults
        /\ faults' = IF account[Id].jpd # NoJpd THEN faults ELSE faults + 1
        /\ unpinned' = IF account[Id].jpd # NoJpd THEN unpinned ELSE unpinned \cup {Id}
        /\ LoginGoto("idle")
        /\ UNCHANGED <<account, default>>
  /\ UNCHANGED <<changes, platform, session>>

\* The verification only reports.
Verify ==
  /\ loginAt = "verify"
  /\ LoginGoto("idle")
  /\ UNCHANGED <<accountVars, platform, session>>

\* The script is killed; between the removal and the addition the account is lost.
KillLogin ==
  /\ loginAt # "idle"
  /\ Fails
  /\ LoginGoto("idle")
  /\ unpinned' = IF loginAt = "add" THEN unpinned \cup {Id} ELSE unpinned
  /\ UNCHANGED <<account, default, changes, platform, session>>

LoginStep == FetchToken \/ CheckCollision \/ RemoveOld \/ AddNew \/ Verify

LoginNext ==
  \/ \E p \in Jpds : RegisterSession(p)
  \/ Approve \/ BeginSave \/ LoginStep \/ KillLogin

-----------------------------------------------------------------------------
LoginTypeOK ==
  /\ platform \in Jpds
  /\ session \in {"none", "pending", "approved", "burned"}
  /\ loginAt \in {"idle", "token", "check", "remove", "add", "verify"}

\* A login that has not got its token (exit 2 or 3: the browser login is unfinished, the
\* session was used up before) leaves the account it would replace as it is: nothing is
\* removed before a token is in hand (jfrog-login-save-credentials.mjs:119-192).
NothingLostWithoutToken ==
  [][loginAt' # loginAt /\ account' # account =>
       /\ session = "burned"
       /\ \A s \in Servers : account'[s] # account[s] => s = Id]_<<accountVars, loginVars>>

\* "Refusing to overwrite it" (jfrog-login-save-credentials.mjs:163): a login never removes or
\* replaces the account of an id that points at another platform.
RefusesToOverwrite ==
  [][loginAt' # loginAt /\ account' # account =>
       account[Id].jpd \in {NoJpd, platform}]_<<accountVars, loginVars>>
=============================================================================
