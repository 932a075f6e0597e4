----------------------------- MODULE McpConfig ------------------------------
(***************************************************************************)
(* Step 5 of the jfrog-init walk: the jfrog entry of the MCP file of the   *)
(* current harness is found, created or completed.  Three kinds of file:   *)
(*   "own"       Kiro CLI, Junie: the tool's own global file, which a walk *)
(*               creates or adds the entry to, with a placeholder URL      *)
(*   "plugin"    Cursor, VS Code, Claude, Codex, Kiro, Devin: shipped by   *)
(*               the JFrog plugin with a placeholder URL                   *)
(*   "opencode"  the user's file, to which the entry is added outright; a  *)
(*               second, global layer may already have one                 *)
(* Each file is read, changed in memory and replaced as a whole, with no   *)
(* lock, while the harness, the user or another walk may write it too.     *)
(***************************************************************************)
EXTENDS JfServers

CONSTANTS Walks,     \* processes that may overlap: walks and stand-alone detectors
          MaxChanges \* bound: changes made to the files or to jf config from outside

ASSUME MaxChangesAssumption == MaxChanges \in Nat

VARIABLES kind,      \* which kind of file this machine's harness has
          files,     \* its content, and that of OpenCode's global layer
          config,    \* jf config
          step,      \* where each walk is
          server,    \* the server argument it was started with
          memo,      \* jfConfigShow's cache: the configuration it has read, if any
          file,      \* the file it works on
          seen,      \* what it last read of it
          retry,     \* retryAfterRace
          mcp,       \* how its step 5 ended
          used,      \* history: the servers it has used
          changes    \* outside changes so far

mcpVars == <<kind, files, config, step, server, memo, file, seen, retry, mcp, used, changes>>

Files == {"target", "global"}
Unset == "unset"             \* no jfrog entry
Bare == "bare"               \* an entry without a url
Placeholder == "placeholder" \* a url that names JFROG_PLATFORM_URL
EntryUrl == {Unset, Bare, Placeholder} \cup Servers

\* The URL of a server is neither empty nor names a variable.
ASSUME UrlAssumption == Servers \cap {Unset, Bare, Placeholder} = {}

\* `others`: does the file hold entries of the user's own?
Content == [is : {"object"}, others : BOOLEAN, jfrog : EntryUrl]
           \cup [is : {"absent", "dangling", "empty", "invalid"}, others : {FALSE}, jfrog : {Unset}]

\* What somebody other than a walk leaves there.
Foreign == {c \in Content : c.is = "object" => c.others}

Only(is) == [is |-> is, others |-> FALSE, jfrog |-> Unset]
Document(others, jfrog) == [is |-> "object", others |-> others, jfrog |-> jfrog]

Unread == [known |-> {}, default |-> NoServer, read |-> FALSE]
Memo == [known : SUBSET Servers, default : Servers \cup {NoServer}, read : BOOLEAN]

McpSteps == {"resolve", "create", "replace", "look", "look_global", "substitute", "add", "publish",
             "reread"}

McpInit ==
  /\ kind \in {"own", "plugin", "opencode"}
  /\ files \in [Files -> Foreign]
  /\ kind # "opencode" => files["global"].is = "absent"
  /\ config \in {c \in JfConfig : c.known # {}}
  /\ step = [w \in Walks |-> "idle"]
  /\ server = [w \in Walks |-> NoServer]
  /\ memo = [w \in Walks |-> Unread]
  /\ file = [w \in Walks |-> "target"]
  /\ seen = [w \in Walks |-> Only("absent")]
  /\ retry = [w \in Walks |-> FALSE]
  /\ mcp = [w \in Walks |-> "none"]
  /\ used = [w \in Walks |-> {}]
  /\ changes = 0

Goto(w, next) == step' = [step EXCEPT ![w] = next]

\* detectJfrogMcp returns.
Ends(w, result) ==
  /\ mcp' = [mcp EXCEPT ![w] = result]
  /\ Goto(w, "after_mcp")

\* What w holds of its file; nothing any more once it has written it.
Looked(w, content) == seen' = [seen EXCEPT ![w] = content]

machine == <<kind, config, changes>>
walkArgs == <<server, retry>>

\* Mutant: every use asks jf again.
NoMemo(w) == [known |-> config.known, default |-> config.default, read |-> TRUE]

-----------------------------------------------------------------------------
\* jfConfigShow: the first answer of jf serves the whole process.
jfConfigShow(w) ==
  IF memo[w].read THEN memo[w] ELSE [known |-> config.known, default |-> config.default, read |-> TRUE]

Resolved(w) == resolveJfServer(server[w], jfConfigShow(w))

\* A step that needs the server: remembers the configuration, and which server it used.
UsesServer(w) ==
  /\ memo' = [memo EXCEPT ![w] = jfConfigShow(w)]
  /\ used' = [used EXCEPT ![w] = @ \cup ({Resolved(w)} \ {NoServer})]

-----------------------------------------------------------------------------
(* jfrog-resolve-mcp-config.mjs *)

\* kiro-cli and Junie: ensureOwnGlobalMcpJfrogEntry reads its file and decides.
EnsureOwn(w) ==
  /\ step[w] = "resolve" /\ kind = "own"
  /\ LET now == files["target"] IN
     /\ Looked(w, IF now.is \in {"empty", "object"} /\ now.jfrog \in {Unset, Bare} THEN now ELSE Only("absent"))
     /\ \/ now.is \in {"absent", "dangling"} /\ Goto(w, "create") /\ UNCHANGED mcp
        \/ now.is = "empty" /\ Goto(w, "replace") /\ UNCHANGED mcp
        \/ now.is = "invalid" /\ Ends(w, "red")
        \/ now.is = "object" /\ now.jfrog \in {Unset, Bare} /\ Goto(w, "replace") /\ UNCHANGED mcp
        \/ now.is = "object" /\ now.jfrog \notin {Unset, Bare} /\ Goto(w, "look") /\ UNCHANGED mcp
  /\ UNCHANGED <<machine, files, walkArgs, memo, file, used>>

\* Mutant: the file is created without "wx".
PlainCreate(w) ==
  /\ step[w] = "create"
  /\ files' = [files EXCEPT !["target"] = Document(FALSE, Placeholder)]
  /\ Goto(w, "look")
  /\ UNCHANGED <<machine, walkArgs, memo, file, seen, mcp, used>>

\* Exclusive creation; when something is there after all, the file is looked at once more.
Create(w) ==
  /\ step[w] = "create"
  /\ \/ /\ files["target"].is = "absent"
        /\ files' = [files EXCEPT !["target"] = Document(FALSE, Placeholder)]
        /\ Goto(w, "look")
        /\ UNCHANGED <<retry, mcp>>
     \/ /\ files["target"].is # "absent" /\ retry[w]
        /\ retry' = [retry EXCEPT ![w] = FALSE]
        /\ Goto(w, "resolve")
        /\ UNCHANGED <<files, mcp>>
     \/ /\ files["target"].is # "absent" /\ ~retry[w]
        /\ Ends(w, "red")
        /\ UNCHANGED <<files, retry>>
  /\ UNCHANGED <<machine, server, memo, file, seen, used>>

\* The document as it was read, with a placeholder entry added, replaces the file by a
\* rename; realpath fails on a file that is gone.
Replace(w) ==
  /\ step[w] = "replace"
  /\ \/ /\ files["target"].is \notin {"absent", "dangling"}
        /\ files' = [files EXCEPT !["target"] = Document(seen[w].others, Placeholder)]
        /\ Goto(w, "look")
        /\ UNCHANGED mcp
     \/ /\ files["target"].is \in {"absent", "dangling"}
        /\ Ends(w, "red")
        /\ UNCHANGED files
  /\ Looked(w, Only("absent"))
  /\ UNCHANGED <<machine, walkArgs, memo, file, used>>

\* The other harnesses: the path of the plugin's or the user's file, if it is there.
ResolvePath(w) ==
  /\ step[w] = "resolve" /\ kind # "own"
  /\ IF files["target"].is \in {"absent", "dangling"}
     THEN Ends(w, "red")
     ELSE Goto(w, "look") /\ UNCHANGED mcp
  /\ UNCHANGED <<machine, files, walkArgs, memo, file, seen, used>>

-----------------------------------------------------------------------------
(* jfrog-detect-jfrog-mcp.mjs *)

\* jfrogMcpEntry: an object without a url is no entry.
Entry(content) == IF content.jfrog = Bare THEN Unset ELSE content.jfrog

Look(w) ==
  /\ step[w] = "look"
  /\ LET now == files["target"]
         found == Entry(now) IN
     \/ now.is \in {"absent", "dangling", "empty"} /\ Ends(w, "red")
     \/ now.is = "invalid" /\ Ends(w, "error")
     \/ /\ now.is = "object"
        /\ \/ found = Placeholder /\ Goto(w, "substitute") /\ UNCHANGED mcp
           \/ found = Unset /\ kind = "opencode" /\ Goto(w, "look_global") /\ UNCHANGED mcp
           \/ found = Unset /\ kind # "opencode" /\ Ends(w, "red")
           \/ found \in Servers /\ Ends(w, "green")
  /\ UNCHANGED <<machine, files, walkArgs, memo, file, seen, used>>

\* The target has no entry: that of OpenCode's global layer is used, if it has one.
LookGlobal(w) ==
  /\ step[w] = "look_global"
  /\ LET found == Entry(files["global"]) IN
     /\ file' = [file EXCEPT ![w] = IF found = Unset THEN "target" ELSE "global"]
     /\ \/ found = Placeholder /\ Goto(w, "substitute") /\ UNCHANGED mcp
        \/ found = Unset /\ Goto(w, "add") /\ UNCHANGED mcp
        \/ found \in Servers /\ Ends(w, "green")
  /\ UNCHANGED <<machine, files, walkArgs, memo, seen, used>>

\* What the substituter and the OpenCode writer do once they need the URL: with no server
\* resolved they stop (red without any server, ask with several).
WithServer(w) ==
  /\ UsesServer(w)
  /\ \/ /\ Resolved(w) = NoServer
        /\ Ends(w, NoServerExit(jfConfigShow(w)))
     \/ /\ Resolved(w) # NoServer /\ ~HasUrl(Resolved(w), jfConfigShow(w))
        /\ Ends(w, "red")
     \/ /\ Resolved(w) # NoServer /\ HasUrl(Resolved(w), jfConfigShow(w))
        /\ Goto(w, "publish")
        /\ UNCHANGED mcp

\* jfrog-substitute-mcp-placeholders.mjs reads the file again.
Substitute(w) ==
  /\ step[w] = "substitute"
  /\ LET now == files[file[w]] IN
     /\ Looked(w, now)
     /\ \/ now.is # "object" /\ Ends(w, "error") /\ UNCHANGED <<memo, used>>
        \/ /\ now.is = "object" /\ now.jfrog # Placeholder
           /\ Goto(w, "reread") /\ UNCHANGED <<mcp, memo, used>>
        \/ now.is = "object" /\ now.jfrog = Placeholder /\ WithServer(w)
  /\ UNCHANGED <<machine, files, walkArgs, file>>

\* jfrog-write-opencode-mcp.mjs reads the file again; an entry of any form is left alone.
Add(w) ==
  /\ step[w] = "add"
  /\ LET now == files["target"] IN
     /\ Looked(w, now)
     /\ \/ now.is # "object" /\ Ends(w, "error") /\ UNCHANGED <<memo, used>>
        \/ /\ now.is = "object" /\ now.jfrog # Unset
           /\ Goto(w, "reread") /\ UNCHANGED <<mcp, memo, used>>
        \/ now.is = "object" /\ now.jfrog = Unset /\ WithServer(w)
  /\ UNCHANGED <<machine, files, walkArgs, file>>

\* The document as it was read, with the server's URL, replaces the file.  On a file that is
\* gone realpath fails: outside the substituter's try, inside that of the OpenCode writer.
Publish(w) ==
  /\ step[w] = "publish"
  /\ \/ /\ files[file[w]].is \notin {"absent", "dangling"}
        /\ files' = [files EXCEPT ![file[w]] = Document(seen[w].others, Resolved(w))]
        /\ Goto(w, "reread")
        /\ UNCHANGED mcp
     \/ /\ files[file[w]].is \in {"absent", "dangling"}
        /\ Ends(w, IF seen[w].jfrog = Placeholder THEN "thrown" ELSE "error")
        /\ UNCHANGED files
  /\ Looked(w, Only("absent"))
  /\ UNCHANGED <<machine, walkArgs, memo, file, used>>

\* The last look only asks for a url that is not empty.
Reread(w) ==
  /\ step[w] = "reread"
  /\ LET now == files[file[w]] IN
     Ends(w, IF now.is # "object" THEN "error" ELSE IF Entry(now) = Unset THEN "red" ELSE "green")
  /\ UNCHANGED <<machine, files, walkArgs, memo, file, seen, used>>

McpStep(w) ==
  \/ EnsureOwn(w) \/ Create(w) \/ Replace(w) \/ ResolvePath(w)
  \/ Look(w) \/ LookGlobal(w) \/ Substitute(w) \/ Add(w) \/ Publish(w) \/ Reread(w)

-----------------------------------------------------------------------------
\* The plugin is installed or removed, the harness or the user writes a file.
EditFile(f, content) ==
  /\ changes < MaxChanges
  /\ f = "global" => kind = "opencode"
  /\ files[f] # content
  /\ files' = [files EXCEPT ![f] = content]
  /\ changes' = changes + 1
  /\ UNCHANGED <<kind, config, step, server, memo, file, seen, retry, mcp, used>>

\* `jf config use`, `add` or `remove` in another terminal.
Reconfigure(next) ==
  /\ changes < MaxChanges
  /\ config # next
  /\ config' = next
  /\ changes' = changes + 1
  /\ UNCHANGED <<kind, files, step, server, memo, file, seen, retry, mcp, used>>

\* A detector that runs by itself, or step 5 of a walk, begins.
BeginMcp(w) ==
  /\ Goto(w, "resolve")
  /\ retry' = [retry EXCEPT ![w] = TRUE]

\* A process ends; its variables are gone.
Forget(w) ==
  /\ Goto(w, "idle")
  /\ server' = [server EXCEPT ![w] = NoServer]
  /\ memo' = [memo EXCEPT ![w] = Unread]
  /\ file' = [file EXCEPT ![w] = "target"]
  /\ seen' = [seen EXCEPT ![w] = Only("absent")]
  /\ retry' = [retry EXCEPT ![w] = FALSE]
  /\ mcp' = [mcp EXCEPT ![w] = "none"]
  /\ used' = [used EXCEPT ![w] = {}]
=============================================================================
