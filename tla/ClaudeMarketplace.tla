-------------------------- MODULE ClaudeMarketplace -------------------------
(***************************************************************************)
(* The JFrog plugin marketplace of Claude Code: register pins a server,    *)
(* asks the catalog for the marketplace's name, declares it in two files   *)
(* of Claude Code (known_marketplaces.json, then settings.json) with a     *)
(* helper that asks jf for that server's token at every request, and lets  *)
(* `claude` fetch it; if that fails, both files are put back as they were  *)
(* read, as far as that succeeds.  Earlier versions stored the token       *)
(* itself in the entries.                                                  *)
(***************************************************************************)
EXTENDS JfAccounts

CONSTANT origin   \* scheme, host and port of each platform's URL; several may share them

VARIABLES claude,   \* the two files
          was,      \* what register read of them
          pinned,   \* the resolved server and the JPD it pointed at
          touched,  \* history: files written by somebody else since register read them
          stuck,    \* files that could not be put back
          told,     \* files the last registration said it could not put back
          step,     \* next step of register
          ended,    \* how the last registration ended
          edits     \* edits made by others so far

marketVars == <<claude, was, pinned, touched, stuck, told, step, ended, edits>>

Files == {"cache", "settings"}

\* A marketplace of a JPD, none, or one from another source.
JFrogEntry == [from : {"jfrog"}, jpd : Jpds, token : BOOLEAN, helper : Servers \cup {NoServer}]
Without(from) == [from |-> from, jpd |-> NoJpd, token |-> FALSE, helper |-> NoServer]
Nothing == Without("nowhere")
Foreign == Without("elsewhere")

\* `named` is the entry under the catalog's name, `older` one under another key.
Content == [is : {"object"}, named : JFrogEntry \cup {Nothing, Foreign}, older : JFrogEntry \cup {Nothing}, mark : BOOLEAN]
           \cup [is : {"absent", "invalid"}, named : {Nothing}, older : {Nothing}, mark : {FALSE}]

Absent == [is |-> "absent", named |-> Nothing, older |-> Nothing, mark |-> FALSE]
NoPin == [server |-> NoServer, jpd |-> NoJpd]

\* What earlier versions and the user leave: no entry has a helper yet.
Helperless(c) == c.named.helper = NoServer /\ c.older.helper = NoServer /\ ~c.mark

MarketInit ==
  /\ claude \in [Files -> {c \in Content : Helperless(c)}]
  /\ was = [f \in Files |-> Absent]
  /\ pinned = NoPin
  /\ touched = {} /\ stuck = {} /\ told = {}
  /\ step = "idle"
  /\ ended = "none"
  /\ edits = 0

Goto(next) == step' = next
Goes(next) == Goto(next) /\ UNCHANGED <<was, pinned, touched, ended, told>>

\* register ends, naming the files it could not put back.
Return(how, names) ==
  /\ Goto("idle")
  /\ ended' = how
  /\ told' = names
  /\ was' = [f \in Files |-> Absent]
  /\ pinned' = NoPin
  /\ touched' = {}

\* The id is resolved once and pinned; an id that is not configured fails.
ResolveServer(override) ==
  LET s == resolveJfServer(override, Shown) IN
  /\ step = "idle"
  /\ s \in Known
  /\ pinned' = [server |-> s, jpd |-> account[s].jpd]
  /\ Goto("find")
  /\ ended' = "none"
  /\ stuck' = {} /\ told' = {}
  /\ UNCHANGED <<accountVars, claude, was, touched, edits>>

\* Asked through jf, at the root and then behind /bridge-client; without an answer nothing has
\* happened yet.  The helper is installed next.
FindMarketplace ==
  /\ step = "find"
  /\ \/ account[pinned.server].credential = "good" /\ Goes("read")
     \/ Return("failed", {})
  /\ UNCHANGED <<accountVars, claude, stuck, edits>>

\* Only a JFrog marketplace may be replaced, on this or on another JPD.
sameMarketplace(existing) == existing # Foreign

ReadConfigs ==
  /\ step = "read"
  /\ \/ /\ \A f \in Files : claude[f].is # "invalid" /\ sameMarketplace(claude[f].named)
        /\ was' = claude
        /\ touched' = {}
        /\ Goto("write_cache")
        /\ UNCHANGED <<pinned, ended, told>>
     \/ /\ \E f \in Files : claude[f].is = "invalid" \/ ~sameMarketplace(claude[f].named)
        /\ Return("failed", {})
  /\ UNCHANGED <<accountVars, claude, stuck, edits>>

\* Mutant: only the entry declared loses its token.
KeepOlder(entry) == entry

\* Every other JFrog entry loses its token; one on the same origin gets the helper instead.
scrubToken(entry) ==
  IF entry = Nothing THEN entry
  ELSE [entry EXCEPT !.token = FALSE,
                     !.helper = IF @ = NoServer /\ origin[entry.jpd] = origin[pinned.jpd] THEN pinned.server ELSE @]

declareMarketplace(content) ==
  [is |-> "object",
   named |-> [from |-> "jfrog", jpd |-> pinned.jpd, token |-> FALSE, helper |-> pinned.server],
   older |-> scrubToken(content.older),
   mark |-> content.mark]

WriteCache ==
  /\ step = "write_cache"
  /\ \/ /\ claude' = [claude EXCEPT !["cache"] = declareMarketplace(was["cache"])]
        /\ Goes("write_settings")
        /\ Succeeds
     \/ Fails /\ Return("failed", {}) /\ UNCHANGED claude
  /\ UNCHANGED <<account, default, unpinned, changes, stuck, edits>>

\* When the second file cannot be written the first is put back.
WriteSettings ==
  /\ step = "write_settings"
  /\ \/ /\ claude' = [claude EXCEPT !["settings"] = declareMarketplace(was["settings"])]
        /\ Goes("update")
        /\ Succeeds
     \/ Fails /\ Goes("put_back") /\ UNCHANGED claude
  /\ UNCHANGED <<account, default, unpinned, changes, stuck, edits>>

\* restore, of one file: as it was read, over what anybody wrote since; or it cannot be written.
PutBack(f) ==
  /\ \/ claude' = [claude EXCEPT ![f] = was[f]] /\ UNCHANGED stuck /\ Succeeds
     \/ Fails /\ stuck' = stuck \cup {f} /\ UNCHANGED claude
  /\ UNCHANGED <<account, default, unpinned, changes, edits>>

\* What could not be put back is not reported here.
UndoCache ==
  /\ step = "put_back"
  /\ PutBack("cache")
  /\ Return("failed", {})

\* `claude` fetches the marketplace with the helper's token and must list it afterwards; an
\* old token in ~/.netrc is removed then.
MarketplaceUpdate ==
  /\ step = "update"
  /\ \/ /\ account[pinned.server] = [jpd |-> pinned.jpd, credential |-> "good"]
        /\ Return("done", {})
     \/ Goes("restore_cache")
  /\ UNCHANGED <<accountVars, claude, stuck, edits>>

\* Mutant: the first file that cannot be put back ends it.
GiveUpRestoring ==
  /\ step = "restore_cache"
  /\ PutBack("cache")
  /\ IF stuck' = {} THEN Goes("restore_settings") ELSE Return("failed", stuck')

\* The declaration is undone: one file, then, whether or not that succeeded, the other.
RestoreCache ==
  /\ step = "restore_cache"
  /\ PutBack("cache")
  /\ Goes("restore_settings")

RestoreSettings ==
  /\ step = "restore_settings"
  /\ PutBack("settings")
  /\ Return("failed", stuck')

KillRegister ==
  /\ step # "idle"
  /\ Fails
  /\ Return("killed", {})
  /\ UNCHANGED <<account, default, unpinned, changes, claude, stuck, edits>>

\* Claude Code or the user changes something else in a file.
EditByOthers(f) ==
  /\ edits < MaxChanges
  /\ claude[f].is = "object"
  /\ claude' = [claude EXCEPT ![f].mark = ~@]
  /\ touched' = touched \cup {f}
  /\ edits' = edits + 1
  /\ UNCHANGED <<accountVars, was, pinned, stuck, told, step, ended>>

Declares ==
  \/ FindMarketplace \/ ReadConfigs \/ WriteCache \/ WriteSettings \/ MarketplaceUpdate
  \/ UndoCache \/ RestoreCache \/ RestoreSettings

MarketNext ==
  \/ \E s \in Servers \cup {NoServer} : ResolveServer(s)
  \/ Declares \/ KillRegister
  \/ \E f \in Files : EditByOthers(f)

-----------------------------------------------------------------------------
MarketTypeOK ==
  /\ claude \in [Files -> Content] /\ was \in [Files -> Content]
  /\ pinned \in [server : Servers \cup {NoServer}, jpd : Jpds \cup {NoJpd}]
  /\ touched \subseteq Files /\ stuck \subseteq Files /\ told \subseteq Files
  /\ step \in {"idle", "find", "read", "write_cache", "write_settings", "put_back", "update",
               "restore_cache", "restore_settings"}
  /\ ended \in {"none", "done", "failed", "killed"}
  /\ edits \in 0..MaxChanges

\* "The helper would send this server's token there" (claude-config.mjs:86): whatever logins,
\* registrations and failures come in between, no entry's helper asks for the token of a server
\* that points at another origin, unless that server's account was lost by a failed login,
\* overwritten by one that could not read the configuration, or changed by hand.
HelperStaysHome ==
  \A f \in Files : \A e \in {claude[f].named, claude[f].older} :
    e.helper \notin unpinned \cup {NoServer} /\ account[e.helper].jpd # NoJpd =>
      origin[account[e.helper].jpd] = origin[e.jpd]

\* "One on another JPD does not" get the helper (claude-config.mjs:85-86), to the letter.
HelperStaysOnItsPlatform ==
  \A f \in Files : \A e \in {claude[f].named, claude[f].older} :
    e.helper \notin unpinned \cup {NoServer} => account[e.helper].jpd \in {e.jpd, NoJpd}

\* Once `claude` has taken the declaration, neither file holds a token any more: not under
\* the catalog's name and not under an older one.
TokensGone ==
  [][ended' = "done" /\ ended = "none" /\ touched = {} =>
       \A f \in Files : \A e \in {claude[f].named, claude[f].older} : ~e.token]_<<accountVars, marketVars>>

\* A registration that fails after it has read the two files leaves each as it found it, unless
\* somebody else wrote that file meanwhile or that file could not be put back; "one file that
\* cannot be put back must not keep the other from it" (claude-config.mjs:60).
AllOrNothing ==
  [][ended' = "failed" /\ step \in {"write_cache", "write_settings", "put_back", "restore_cache", "restore_settings"} =>
       \A f \in Files \ (touched \cup stuck') : claude'[f] = was[f]]_<<accountVars, marketVars>>

\* "Returns the files it could not put back, so the caller can say so" (claude-config.mjs:52):
\* a registration that fails names every file it leaves behind.
SaysWhatIsStuck ==
  [][ended' = "failed" /\ ended = "none" => stuck' \subseteq told']_<<accountVars, marketVars>>
=============================================================================
