-------------------------- MODULE SetupWalk_proofs ---------------------------
(***************************************************************************)
(* Theorems about SetupWalk and McpConfig, for any number of processes,    *)
(* servers and projects and with every change of jf config and of the      *)
(* files: its types, that a walk works on one server, that it adds no more *)
(* than the jfrog entry, and that it keeps the hints of setup.json.        *)
(***************************************************************************)
EXTENDS SetupWalk, FiniteSetTheorems, TLAPS

\* What a walk has used is what it resolves, and only from a configuration it keeps.
OneServer(w) ==
  /\ used[w] \subseteq {Resolved(w)}
  /\ used[w] # {} => memo[w].read
  /\ step[w] = "idle" => used[w] = {}

\* Steps 1 to 4 passed by using the server; the probes and the hint come after them.
Pinged(w) ==
  /\ passed[w] => Resolved(w) \in used[w]
  /\ step[w] \in {"probe_project", "probe_catalog", "record"} => passed[w]

\* A document about to be written was read from a file that had a place for the entry.
Holding(w) ==
  /\ step[w] = "replace" => seen[w].is \in {"empty", "object"} /\ seen[w].jfrog \in {Unset, Bare}
  /\ step[w] = "publish" => /\ seen[w].is = "object" /\ seen[w].jfrog \in {Placeholder, Unset}
                            /\ Resolved(w) \in used[w]

Sound(w) == OneServer(w) /\ Pinged(w) /\ Holding(w)

\* The inductive invariant.
WalkIInv == WalkTypeOK /\ \A w \in Walks : Sound(w)

-----------------------------------------------------------------------------
\* What a walk reads of jf config is a configuration, and what it resolves a server or none.
LEMMA ResolvedType ==
  ASSUME WalkTypeOK, NEW w \in Walks
  PROVE  jfConfigShow(w) \in Memo /\ jfConfigShow(w).read /\ Resolved(w) \in Servers \cup {NoServer}
<1>1. memo[w] \in Memo /\ config \in JfConfig /\ server[w] \in Servers \cup {NoServer}
  BY DEF WalkTypeOK
<1>2. jfConfigShow(w) \in Memo /\ jfConfigShow(w).read
  BY <1>1 DEF jfConfigShow, Memo, JfConfig
<1> DEFINE c == jfConfigShow(w)
<1>3. c.known \subseteq Servers /\ c.default \in Servers \cup {NoServer}
  BY <1>2 DEF Memo
<1>4. ASSUME Cardinality(c.known) = 1 PROVE (CHOOSE s \in c.known : TRUE) \in Servers
  <2>1. c.known # {}
    BY <1>4, FS_EmptySet
  <2> QED
    BY <1>3, <2>1
<1> QED
  BY <1>1, <1>2, <1>3, <1>4 DEF Resolved, resolveJfServer

\* A walk resolves the same server as long as its arguments and what it knows of jf config stay.
LEMMA ResolvedStable ==
  ASSUME NEW v \in Walks, server'[v] = server[v], memo'[v] = memo[v],
         memo[v].read \/ config' = config
  PROVE  Resolved(v)' = Resolved(v)
BY DEF Resolved, jfConfigShow

\* Once jfConfigShow has answered, it answers the same.
LEMMA Remembered ==
  ASSUME WalkTypeOK, NEW w \in Walks, memo' = [memo EXCEPT ![w] = jfConfigShow(w)],
         server'[w] = server[w]
  PROVE  Resolved(w)' = Resolved(w) /\ memo'[w].read /\ memo' \in [Walks -> Memo]
<1>1. memo'[w] = jfConfigShow(w) /\ memo' \in [Walks -> Memo] /\ memo'[w].read
  BY ResolvedType DEF WalkTypeOK
<1> QED
  BY <1>1 DEF Resolved, jfConfigShow

\* A step that uses the server uses the one used before, and remembers the configuration.
LEMMA UsesServerStep ==
  ASSUME WalkTypeOK, NEW w \in Walks, UsesServer(w), server'[w] = server[w], OneServer(w)
  PROVE  /\ Resolved(w)' = Resolved(w) /\ memo'[w].read /\ memo' \in [Walks -> Memo]
         /\ used' \in [Walks -> SUBSET Servers]
         /\ used'[w] = used[w] \cup ({Resolved(w)} \ {NoServer})
         /\ used'[w] \subseteq {Resolved(w)'}
         /\ used[w] \subseteq used'[w]
<1>1. Resolved(w)' = Resolved(w) /\ memo'[w].read /\ memo' \in [Walks -> Memo]
  BY Remembered DEF UsesServer
<1>2. used'[w] = used[w] \cup ({Resolved(w)} \ {NoServer})
  BY DEF UsesServer, WalkTypeOK
<1>3. used' \in [Walks -> SUBSET Servers]
  BY ResolvedType DEF UsesServer, WalkTypeOK
<1> QED
  BY <1>1, <1>2, <1>3 DEF OneServer

\* What a process does changes nothing of another one.
Others(w) ==
  /\ config' = config
  /\ \A v \in Walks \ {w} : /\ step'[v] = step[v] /\ server'[v] = server[v] /\ memo'[v] = memo[v]
                            /\ seen'[v] = seen[v] /\ used'[v] = used[v] /\ passed'[v] = passed[v]

\* What a process does leaves every other one sound.
LEMMA OthersSound ==
  ASSUME NEW w \in Walks, \A v \in Walks : Sound(v), Others(w), Sound(w)'
  PROVE  \A v \in Walks : Sound(v)'
<1> SUFFICES ASSUME NEW v \in Walks \ {w} PROVE Sound(v)'
  OBVIOUS
<1>1. Sound(v) /\ Resolved(v)' = Resolved(v)
  BY ResolvedStable DEF Others
<1> QED
  BY <1>1 DEF Sound, OneServer, Pinged, Holding, Others

\* What walks and others write are contents of a file.
LEMMA ContentFacts ==
  /\ \A is \in {"absent", "dangling", "empty", "invalid"} : Only(is) \in Content
  /\ \A others \in BOOLEAN, jfrog \in EntryUrl : Document(others, jfrog) \in Content
  /\ \A c \in Content : c.others \in BOOLEAN /\ c.jfrog \in EntryUrl
  /\ Foreign \subseteq Content
BY DEF Only, Document, Content, EntryUrl, Foreign

\* The places of a walk and the outcomes of step 5, as WalkTypeOK has them.
Steps == McpSteps \cup {"idle", "prerequisites", "ping", "after_mcp", "probe_project",
                        "probe_catalog", "record", "summary"}
Results == {"none", "green", "red", "error", "thrown", "ask"}

\* Every part of the type invariant that an action of a walk leaves alone or types.
LEMMA TypesKept ==
  ASSUME WalkTypeOK, UNCHANGED <<kind, config, changes>>,
         files' \in [Files -> Content], step' \in [Walks -> Steps],
         server' \in [Walks -> Servers \cup {NoServer}], memo' \in [Walks -> Memo],
         file' \in [Walks -> Files], seen' \in [Walks -> Content],
         retry' \in [Walks -> BOOLEAN], mcp' \in [Walks -> Results],
         used' \in [Walks -> SUBSET Servers],
         hint' \in [Servers -> Projects \cup {NoProject, NoHint}],
         project' \in [Walks -> Projects \cup {NoProject}],
         passed' \in [Walks -> BOOLEAN], red' \in [Walks -> BOOLEAN]
  PROVE  WalkTypeOK'
BY DEF WalkTypeOK, Steps, Results

\* The parts of the type invariant.
LEMMA WalkTypes ==
  ASSUME WalkTypeOK
  PROVE  /\ files \in [Files -> Content] /\ step \in [Walks -> Steps]
         /\ server \in [Walks -> Servers \cup {NoServer}] /\ memo \in [Walks -> Memo]
         /\ file \in [Walks -> Files] /\ seen \in [Walks -> Content]
         /\ retry \in [Walks -> BOOLEAN] /\ mcp \in [Walks -> Results]
         /\ used \in [Walks -> SUBSET Servers]
         /\ hint \in [Servers -> Projects \cup {NoProject, NoHint}]
         /\ project \in [Walks -> Projects \cup {NoProject}]
         /\ passed \in [Walks -> BOOLEAN] /\ red \in [Walks -> BOOLEAN]
BY DEF WalkTypeOK, Steps, Results

\* A walk that goes on to another step.
LEMMA GotoStep ==
  ASSUME WalkTypeOK, NEW w \in Walks, NEW next \in Steps, Goto(w, next)
  PROVE  /\ step' \in [Walks -> Steps] /\ step'[w] = next
         /\ \A v \in Walks \ {w} : step'[v] = step[v]
BY WalkTypes DEF Goto

\* A detector that ends.
LEMMA EndsStep ==
  ASSUME WalkTypeOK, NEW w \in Walks, NEW result \in Results, Ends(w, result)
  PROVE  /\ step' \in [Walks -> Steps] /\ step'[w] = "after_mcp"
         /\ \A v \in Walks \ {w} : step'[v] = step[v]
         /\ mcp' \in [Walks -> Results]
<1>1. Goto(w, "after_mcp") /\ "after_mcp" \in Steps
  BY DEF Ends, Steps
<1> QED
  BY <1>1, GotoStep, WalkTypes DEF Ends

\* A walk that looks at its file.
LEMMA LookedStep ==
  ASSUME WalkTypeOK, NEW w \in Walks, NEW content \in Content, Looked(w, content)
  PROVE  /\ seen' \in [Walks -> Content] /\ seen'[w] = content
         /\ \A v \in Walks \ {w} : seen'[v] = seen[v]
BY WalkTypes DEF Looked

\* Steps of the MCP detector that use no server: only where it is, what it holds of its file
\* and how it ended changes.
LEMMA Serverless ==
  ASSUME WalkIInv, NEW w \in Walks, step[w] # "idle",
         UNCHANGED <<kind, config, changes, server, memo, used, hint, project, passed, red>>,
         files' \in [Files -> Content], file' \in [Walks -> Files],
         seen' \in [Walks -> Content], \A v \in Walks \ {w} : seen'[v] = seen[v],
         retry' \in [Walks -> BOOLEAN], mcp' \in [Walks -> Results],
         step' \in [Walks -> Steps], \A v \in Walks \ {w} : step'[v] = step[v],
         step'[w] \in McpSteps \cup {"after_mcp"}, step'[w] # "publish",
         step'[w] = "replace" => /\ seen'[w].is \in {"empty", "object"}
                                 /\ seen'[w].jfrog \in {Unset, Bare}
  PROVE  WalkIInv'
<1>1. WalkTypeOK'
  <2> USE DEF WalkIInv
  <2> QED BY WalkTypes, TypesKept
<1>2. Others(w)
  BY DEF Others
<1>3. Resolved(w)' = Resolved(w) /\ Sound(w)
  BY ResolvedStable DEF WalkIInv
<1>4. Sound(w)'
  BY <1>3 DEF Sound, OneServer, Pinged, Holding, McpSteps
<1> QED
  BY <1>1, <1>2, <1>4, OthersSound DEF WalkIInv

\* ensureOwnGlobalMcpJfrogEntry decides on what it read.
LEMMA EnsureOwnStep ==
  ASSUME WalkIInv, NEW w \in Walks, EnsureOwn(w), UNCHANGED <<hint, project, passed, red>>
  PROVE  WalkIInv'
<1> DEFINE now == files["target"]
           content == IF now.is \in {"empty", "object"} /\ now.jfrog \in {Unset, Bare}
                      THEN now ELSE Only("absent")
<1>1. WalkTypeOK /\ step[w] = "resolve"
  BY DEF WalkIInv, EnsureOwn
<1>2. now \in Content /\ content \in Content
  BY <1>1, ContentFacts, WalkTypes DEF Files
<1>3. /\ seen' \in [Walks -> Content] /\ seen'[w] = content
      /\ \A v \in Walks \ {w} : seen'[v] = seen[v]
  BY <1>1, <1>2, LookedStep DEF EnsureOwn
<1>4. \/ \E next \in {"create", "look"} : Goto(w, next) /\ UNCHANGED mcp
      \/ now.is \in {"empty", "object"} /\ now.jfrog \in {Unset, Bare} /\ Goto(w, "replace") /\ UNCHANGED mcp
      \/ Ends(w, "red")
  <2>1. now.is = "empty" => now.jfrog = Unset
    BY <1>2 DEF Content
  <2> QED
    BY <2>1 DEF EnsureOwn
<1>5. /\ step' \in [Walks -> Steps] /\ \A v \in Walks \ {w} : step'[v] = step[v]
      /\ mcp' \in [Walks -> Results] /\ step'[w] \in {"create", "look", "replace", "after_mcp"}
      /\ step'[w] = "replace" => now.is \in {"empty", "object"} /\ now.jfrog \in {Unset, Bare}
  <2>1. ASSUME NEW next \in {"create", "look", "replace"}, Goto(w, next), UNCHANGED mcp
        PROVE  /\ step' \in [Walks -> Steps] /\ \A v \in Walks \ {w} : step'[v] = step[v]
               /\ mcp' \in [Walks -> Results] /\ step'[w] = next
    <3>1. next \in Steps
      BY DEF Steps, McpSteps
    <3> QED
      BY <1>1, <2>1, <3>1, GotoStep, WalkTypes
  <2>2. CASE \E next \in {"create", "look"} : Goto(w, next) /\ UNCHANGED mcp
    BY <2>1, <2>2
  <2>3. CASE Goto(w, "replace") /\ UNCHANGED mcp /\ now.is \in {"empty", "object"} /\ now.jfrog \in {Unset, Bare}
    BY <2>1, <2>3
  <2>4. CASE Ends(w, "red")
    BY <1>1, <2>4, EndsStep DEF Results
  <2> QED
    BY <1>4, <2>2, <2>3, <2>4
<1>6. UNCHANGED <<kind, config, changes, files, server, retry, memo, file, used, hint, project, passed, red>>
  BY DEF EnsureOwn, machine, walkArgs
<1>7. step'[w] = "replace" => content = now
  BY <1>5
<1> HIDE DEF now, content
<1> QED
  BY <1>1, <1>3, <1>5, <1>6, <1>7, WalkTypes, Serverless DEF McpSteps

\* One of the two ways a step of the detector goes on: to its next step, or to its end.
LEMMA Onward ==
  ASSUME WalkIInv, NEW w \in Walks,
         \/ \E next \in {"resolve", "look", "look_global", "substitute", "add", "reread"} : Goto(w, next) /\ UNCHANGED mcp
         \/ \E result \in {"green", "red", "error", "thrown", "ask"} : Ends(w, result)
  PROVE  /\ step' \in [Walks -> Steps] /\ \A v \in Walks \ {w} : step'[v] = step[v]
         /\ mcp' \in [Walks -> Results]
         /\ step'[w] \in McpSteps \cup {"after_mcp"} /\ step'[w] \notin {"publish", "replace"}
<1>0. WalkTypeOK
  BY DEF WalkIInv
<1>1. ASSUME NEW next \in {"resolve", "look", "look_global", "substitute", "add", "reread"}, Goto(w, next), UNCHANGED mcp
      PROVE  /\ step' \in [Walks -> Steps] /\ \A v \in Walks \ {w} : step'[v] = step[v]
             /\ mcp' \in [Walks -> Results] /\ step'[w] = next
  <2>1. next \in Steps
    BY DEF Steps, McpSteps
  <2> QED
    BY <1>0, <1>1, <2>1, GotoStep, WalkTypes
<1>2. ASSUME NEW result \in {"green", "red", "error", "thrown", "ask"}, Ends(w, result)
      PROVE  /\ step' \in [Walks -> Steps] /\ \A v \in Walks \ {w} : step'[v] = step[v]
             /\ mcp' \in [Walks -> Results] /\ step'[w] = "after_mcp"
  <2>1. result \in Results
    BY DEF Results
  <2> QED
    BY <1>0, <1>2, <2>1, EndsStep
<1> QED
  BY <1>1, <1>2 DEF McpSteps

\* Exclusive creation of a file that was not there.
LEMMA CreateStep ==
  ASSUME WalkIInv, NEW w \in Walks, Create(w), UNCHANGED <<hint, project, passed, red>>
  PROVE  WalkIInv'
<1>0. WalkTypeOK /\ step[w] = "create"
  BY DEF WalkIInv, Create
<1>1. /\ step' \in [Walks -> Steps] /\ \A v \in Walks \ {w} : step'[v] = step[v]
      /\ mcp' \in [Walks -> Results]
      /\ step'[w] \in McpSteps \cup {"after_mcp"} /\ step'[w] \notin {"publish", "replace"}
  BY Onward DEF Create
<1>2. Document(FALSE, Placeholder) \in Content
  BY ContentFacts DEF EntryUrl
<1>3. files' \in [Files -> Content] /\ retry' \in [Walks -> BOOLEAN]
  BY <1>0, <1>2, WalkTypes DEF Create, Files
<1>4. UNCHANGED <<kind, config, changes, server, memo, file, seen, used, hint, project, passed, red>>
  BY DEF Create, machine
<1> QED
  BY <1>0, <1>1, <1>3, <1>4, WalkTypes, Serverless

\* A file replaced by what was read of it, with a placeholder entry.
LEMMA ReplaceStep ==
  ASSUME WalkIInv, NEW w \in Walks, Replace(w), UNCHANGED <<hint, project, passed, red>>
  PROVE  WalkIInv'
<1>0. WalkTypeOK /\ step[w] = "replace"
  BY DEF WalkIInv, Replace
<1>1. /\ step' \in [Walks -> Steps] /\ \A v \in Walks \ {w} : step'[v] = step[v]
      /\ mcp' \in [Walks -> Results]
      /\ step'[w] \in McpSteps \cup {"after_mcp"} /\ step'[w] \notin {"publish", "replace"}
  BY Onward DEF Replace
<1>2. Document(seen[w].others, Placeholder) \in Content
  <2>1. seen[w] \in Content
    BY <1>0, WalkTypes
  <2> QED
    BY <2>1, ContentFacts DEF EntryUrl
<1>3. files' \in [Files -> Content]
  BY <1>0, <1>2, WalkTypes DEF Replace, Files
<1>4. /\ seen' \in [Walks -> Content] /\ \A v \in Walks \ {w} : seen'[v] = seen[v]
  BY <1>0, ContentFacts, LookedStep DEF Replace
<1>5. UNCHANGED <<kind, config, changes, server, retry, memo, file, used, hint, project, passed, red>>
  BY DEF Replace, machine, walkArgs
<1> QED
  BY <1>0, <1>1, <1>3, <1>4, <1>5, WalkTypes, Serverless

\* The steps that only look.
LEMMA LooksStep ==
  ASSUME WalkIInv, NEW w \in Walks, ResolvePath(w) \/ Look(w) \/ LookGlobal(w) \/ Reread(w),
         UNCHANGED <<hint, project, passed, red>>
  PROVE  WalkIInv'
<1>0. WalkTypeOK /\ step[w] # "idle"
  BY DEF WalkIInv, ResolvePath, Look, LookGlobal, Reread
<1>1. \/ \E next \in {"resolve", "look", "look_global", "substitute", "add", "reread"} : Goto(w, next) /\ UNCHANGED mcp
      \/ \E result \in {"green", "red", "error", "thrown", "ask"} : Ends(w, result)
  BY DEF ResolvePath, Look, LookGlobal, Reread
<1>2. /\ step' \in [Walks -> Steps] /\ \A v \in Walks \ {w} : step'[v] = step[v]
      /\ mcp' \in [Walks -> Results]
      /\ step'[w] \in McpSteps \cup {"after_mcp"} /\ step'[w] \notin {"publish", "replace"}
  BY <1>1, Onward
<1>3. UNCHANGED <<kind, config, changes, files, server, retry, memo, seen, used, hint, project, passed, red>>
  BY DEF ResolvePath, Look, LookGlobal, Reread, machine, walkArgs
<1>4. file' \in [Walks -> Files]
  BY <1>0, WalkTypes DEF ResolvePath, Look, LookGlobal, Reread, Files
<1> QED
  BY <1>0, <1>2, <1>3, <1>4, WalkTypes, Serverless

-----------------------------------------------------------------------------
\* The substituter and the OpenCode writer once they need the URL.
LEMMA WithServerStep ==
  ASSUME WalkIInv, NEW w \in Walks, step[w] # "idle", WithServer(w), NEW now \in Content, Looked(w, now),
         now.is = "object", now.jfrog \in {Placeholder, Unset},
         UNCHANGED <<kind, config, changes, files, server, retry, file, hint, project, passed, red>>
  PROVE  WalkIInv'
<1>0. WalkTypeOK /\ Sound(w)
  BY DEF WalkIInv
<1>1. /\ Resolved(w)' = Resolved(w) /\ memo'[w].read /\ memo' \in [Walks -> Memo]
      /\ used' \in [Walks -> SUBSET Servers]
      /\ used'[w] = used[w] \cup ({Resolved(w)} \ {NoServer})
      /\ used'[w] \subseteq {Resolved(w)'} /\ used[w] \subseteq used'[w]
  BY <1>0, UsesServerStep DEF WithServer, Sound
<1>2. /\ seen' \in [Walks -> Content] /\ seen'[w] = now
      /\ \A v \in Walks \ {w} : seen'[v] = seen[v]
  BY <1>0, LookedStep
<1>3. \/ Goto(w, "publish") /\ Resolved(w) # NoServer /\ UNCHANGED mcp
      \/ \E result \in Results : Ends(w, result)
  BY DEF WithServer, NoServerExit, Results
<1>4. /\ step' \in [Walks -> Steps] /\ \A v \in Walks \ {w} : step'[v] = step[v]
      /\ mcp' \in [Walks -> Results]
      /\ \/ step'[w] = "publish" /\ Resolved(w) # NoServer
         \/ step'[w] = "after_mcp"
  <2>1. "publish" \in Steps
    BY DEF Steps, McpSteps
  <2> QED
    BY <1>0, <1>3, <2>1, GotoStep, EndsStep, WalkTypes
<1>5. WalkTypeOK'
  BY <1>0, <1>1, <1>2, <1>4, WalkTypes, TypesKept
<1>6. Others(w)
  BY <1>0, <1>2, <1>4, WalkTypes DEF Others, WithServer, UsesServer
<1>7. Sound(w)'
  BY <1>0, <1>1, <1>2, <1>4 DEF Sound, OneServer, Pinged, Holding
<1> QED
  BY <1>5, <1>6, <1>7, OthersSound DEF WalkIInv

\* The substituter and the OpenCode writer read the file again.
LEMMA ReadAgainStep ==
  ASSUME WalkIInv, NEW w \in Walks, Substitute(w) \/ Add(w), UNCHANGED <<hint, project, passed, red>>
  PROVE  WalkIInv'
<1>0. WalkTypeOK /\ step[w] # "idle" /\ file[w] \in Files
  BY WalkTypes DEF WalkIInv, Substitute, Add
<1>1. PICK now \in Content :
        /\ Looked(w, now)
        /\ \/ UNCHANGED <<memo, used>> /\ (Ends(w, "error") \/ (Goto(w, "reread") /\ UNCHANGED mcp))
           \/ now.is = "object" /\ now.jfrog \in {Placeholder, Unset} /\ WithServer(w)
  <2>1. CASE Substitute(w)
    <3>1. files[file[w]] \in Content
      BY <1>0, WalkTypes
    <3> QED
      BY <2>1, <3>1 DEF Substitute
  <2>2. CASE Add(w)
    <3>1. files["target"] \in Content
      BY <1>0, WalkTypes DEF Files
    <3> QED
      BY <2>2, <3>1 DEF Add
  <2> QED
    BY <2>1, <2>2
<1>2. UNCHANGED <<kind, config, changes, files, server, retry, file, hint, project, passed, red>>
  BY DEF Substitute, Add, machine, walkArgs
<1>3. CASE UNCHANGED <<memo, used>> /\ (Ends(w, "error") \/ (Goto(w, "reread") /\ UNCHANGED mcp))
  <2>1. /\ step' \in [Walks -> Steps] /\ \A v \in Walks \ {w} : step'[v] = step[v]
        /\ mcp' \in [Walks -> Results]
        /\ step'[w] \in McpSteps \cup {"after_mcp"} /\ step'[w] \notin {"publish", "replace"}
    BY <1>3, Onward
  <2>2. /\ seen' \in [Walks -> Content] /\ \A v \in Walks \ {w} : seen'[v] = seen[v]
    BY <1>0, <1>1, LookedStep
  <2>3. files' \in [Files -> Content] /\ file' \in [Walks -> Files] /\ retry' \in [Walks -> BOOLEAN]
    BY <1>0, <1>2, WalkTypes
  <2> QED
    BY <1>0, <1>2, <1>3, <2>1, <2>2, <2>3, Serverless
<1>4. CASE now.is = "object" /\ now.jfrog \in {Placeholder, Unset} /\ WithServer(w)
  BY <1>0, <1>1, <1>2, <1>4, WithServerStep
<1> QED
  BY <1>1, <1>3, <1>4

\* A file replaced by what was read of it, with the server's URL.
LEMMA PublishStep ==
  ASSUME WalkIInv, NEW w \in Walks, Publish(w), UNCHANGED <<hint, project, passed, red>>
  PROVE  WalkIInv'
<1>0. WalkTypeOK /\ step[w] = "publish" /\ Resolved(w) \in Servers /\ seen[w] \in Content
  BY WalkTypes DEF WalkIInv, Publish, Sound, Holding
<1>1. /\ step' \in [Walks -> Steps] /\ \A v \in Walks \ {w} : step'[v] = step[v]
      /\ mcp' \in [Walks -> Results]
      /\ step'[w] \in McpSteps \cup {"after_mcp"} /\ step'[w] \notin {"publish", "replace"}
  BY Onward DEF Publish
<1>2. Document(seen[w].others, Resolved(w)) \in Content
  BY <1>0, ContentFacts DEF EntryUrl
<1>3. files' \in [Files -> Content]
  BY <1>0, <1>2, WalkTypes DEF Publish
<1>4. /\ seen' \in [Walks -> Content] /\ \A v \in Walks \ {w} : seen'[v] = seen[v]
  BY <1>0, ContentFacts, LookedStep DEF Publish
<1>5. UNCHANGED <<kind, config, changes, server, retry, memo, file, used, hint, project, passed, red>>
  BY DEF Publish, machine, walkArgs
<1> QED
  BY <1>0, <1>1, <1>3, <1>4, <1>5, WalkTypes, Serverless

-----------------------------------------------------------------------------
\* A whole walk, or a detector of its own, begins.
LEMMA BeginStep == ASSUME WalkIInv, NEW w \in Walks, Begin(w) PROVE WalkIInv'
<1>0. WalkTypeOK /\ Sound(w) /\ step[w] = "idle"
  BY DEF WalkIInv, Begin, StartWalk, StartDetector
<1>1. PICK s \in Servers \cup {NoServer}, next \in {"prerequisites", "resolve"} :
        server' = [server EXCEPT ![w] = s] /\ Goto(w, next)
  BY DEF Begin, StartWalk, StartDetector, BeginMcp
<1>2. next \in Steps
  BY DEF Steps, McpSteps
<1>3. /\ step' \in [Walks -> Steps] /\ step'[w] = next
      /\ \A v \in Walks \ {w} : step'[v] = step[v]
  BY <1>0, <1>1, <1>2, GotoStep
<1>4. UNCHANGED <<kind, files, config, file, seen, mcp, changes, memo, used, hint, passed, red>>
  BY DEF Begin, StartWalk, StartDetector, unchangedMcp
<1>5. /\ project' \in [Walks -> Projects \cup {NoProject}] /\ retry' \in [Walks -> BOOLEAN]
      /\ server' \in [Walks -> Servers \cup {NoServer}]
      /\ \A v \in Walks \ {w} : server'[v] = server[v]
  <2>1. project' \in [Walks -> Projects \cup {NoProject}]
    BY <1>0, WalkTypes DEF Begin, StartWalk, StartDetector
  <2>2. retry' \in [Walks -> BOOLEAN]
    BY <1>0, WalkTypes DEF Begin, StartWalk, StartDetector, BeginMcp
  <2> QED
    BY <1>0, <1>1, <2>1, <2>2, WalkTypes
<1>6. WalkTypeOK'
  BY <1>0, <1>3, <1>4, <1>5, WalkTypes, TypesKept
<1>7. Others(w)
  BY <1>3, <1>4, <1>5 DEF Others
<1>8. Sound(w)'
  <2>1. used[w] = {} /\ ~passed[w]
    BY <1>0 DEF Sound, OneServer, Pinged
  <2> QED
    BY <1>3, <1>4, <2>1 DEF Sound, OneServer, Pinged, Holding
<1> QED
  BY <1>6, <1>7, <1>8, OthersSound DEF WalkIInv

\* A process ends: nothing of it is left, and nothing was passed.
LEMMA ForgetStep ==
  ASSUME WalkIInv, NEW w \in Walks, Forget(w), passed'[w] = FALSE,
         \A v \in Walks \ {w} : passed'[v] = passed[v],
         project' \in [Walks -> Projects \cup {NoProject}],
         passed' \in [Walks -> BOOLEAN], red' \in [Walks -> BOOLEAN],
         UNCHANGED <<kind, files, config, changes, hint>>
  PROVE  WalkIInv'
<1>0. WalkTypeOK
  BY DEF WalkIInv
<1>1. /\ step' \in [Walks -> Steps] /\ step'[w] = "idle"
      /\ \A v \in Walks \ {w} : step'[v] = step[v]
  BY <1>0, GotoStep DEF Forget, Steps
<1>2. /\ server' \in [Walks -> Servers \cup {NoServer}] /\ file' \in [Walks -> Files]
      /\ retry' \in [Walks -> BOOLEAN] /\ mcp' \in [Walks -> Results]
      /\ used' \in [Walks -> SUBSET Servers] /\ used'[w] = {}
  BY <1>0, WalkTypes DEF Forget, Files, Results
<1>3. memo' \in [Walks -> Memo]
  <2>1. Unread \in Memo
    BY DEF Unread, Memo
  <2> QED
    BY <1>0, <2>1, WalkTypes DEF Forget
<1>4. seen' \in [Walks -> Content]
  BY <1>0, ContentFacts, WalkTypes DEF Forget
<1>5. WalkTypeOK'
  BY <1>0, <1>1, <1>2, <1>3, <1>4, WalkTypes, TypesKept
<1>6. Others(w)
  BY <1>0, <1>1, WalkTypes DEF Others, Forget
<1>7. Sound(w)'
  BY <1>1, <1>2 DEF Sound, OneServer, Pinged, Holding
<1> QED
  BY <1>5, <1>6, <1>7, OthersSound DEF WalkIInv

\* Steps 1 to 3, where the configuration is read.
LEMMA PrerequisitesStep == ASSUME WalkIInv, NEW w \in Walks, Prerequisites(w) PROVE WalkIInv'
<1>0. WalkTypeOK /\ Sound(w) /\ step[w] = "prerequisites"
  BY DEF WalkIInv, Prerequisites
<1>1. /\ step' \in [Walks -> Steps] /\ step'[w] \in {"summary", "ping"}
      /\ \A v \in Walks \ {w} : step'[v] = step[v]
  BY <1>0, GotoStep DEF Prerequisites, Stops, Steps
<1>2. UNCHANGED <<kind, files, config, file, seen, mcp, changes, server, retry, used, hint, project, passed>>
  BY DEF Prerequisites, unchangedMcp
<1>3. red' \in [Walks -> BOOLEAN]
  BY <1>0, WalkTypes DEF Prerequisites, Stops
<1>4. /\ Resolved(w)' = Resolved(w) /\ memo' \in [Walks -> Memo] /\ (memo[w].read => memo'[w].read)
      /\ \A v \in Walks \ {w} : memo'[v] = memo[v]
  <2>1. CASE UNCHANGED memo
    BY <1>0, <1>2, <2>1, WalkTypes, ResolvedStable
  <2>2. CASE memo' = [memo EXCEPT ![w] = jfConfigShow(w)]
    BY <1>0, <1>2, <2>2, WalkTypes, Remembered
  <2> QED
    BY <2>1, <2>2 DEF Prerequisites
<1>5. WalkTypeOK'
  BY <1>0, <1>1, <1>2, <1>3, <1>4, WalkTypes, TypesKept
<1>6. Others(w)
  BY <1>1, <1>2, <1>4 DEF Others
<1>7. Sound(w)'
  BY <1>0, <1>1, <1>2, <1>4 DEF Sound, OneServer, Pinged, Holding
<1> QED
  BY <1>5, <1>6, <1>7, OthersSound DEF WalkIInv

\* A step of the walk that uses the server.
LEMMA UsingStep ==
  ASSUME WalkIInv, NEW w \in Walks, step[w] # "idle", UsesServer(w),
         UNCHANGED <<kind, files, config, file, seen, mcp, changes, server, project>>,
         step' \in [Walks -> Steps], \A v \in Walks \ {w} : step'[v] = step[v],
         step'[w] \notin {"idle", "replace", "publish"}, retry' \in [Walks -> BOOLEAN],
         hint' \in [Servers -> Projects \cup {NoProject, NoHint}],
         red' \in [Walks -> BOOLEAN], passed' \in [Walks -> BOOLEAN],
         \A v \in Walks \ {w} : passed'[v] = passed[v],
         passed'[w] => passed[w] \/ Resolved(w) # NoServer,
         step'[w] \in {"probe_project", "probe_catalog", "record"} => passed'[w]
  PROVE  WalkIInv'
<1>0. WalkTypeOK /\ Sound(w)
  BY DEF WalkIInv
<1>1. /\ Resolved(w)' = Resolved(w) /\ memo'[w].read /\ memo' \in [Walks -> Memo]
      /\ used' \in [Walks -> SUBSET Servers]
      /\ used'[w] = used[w] \cup ({Resolved(w)} \ {NoServer})
      /\ used'[w] \subseteq {Resolved(w)'} /\ used[w] \subseteq used'[w]
  BY <1>0, UsesServerStep DEF Sound
<1>2. WalkTypeOK'
  BY <1>0, <1>1, WalkTypes, TypesKept
<1>3. Others(w)
  BY <1>0, WalkTypes DEF Others, UsesServer
<1>4. Sound(w)'
  BY <1>0, <1>1 DEF Sound, OneServer, Pinged, Holding
<1> QED
  BY <1>2, <1>3, <1>4, OthersSound DEF WalkIInv

\* Step 4: the server is used for the first time.
LEMMA PingStep == ASSUME WalkIInv, NEW w \in Walks, Ping(w) PROVE WalkIInv'
<1>0. WalkTypeOK /\ Sound(w) /\ step[w] = "ping"
  BY DEF WalkIInv, Ping
<1>1. /\ step' \in [Walks -> Steps] /\ step'[w] \in {"summary", "resolve"}
      /\ \A v \in Walks \ {w} : step'[v] = step[v]
  <2>1. CASE Goto(w, "summary")
    BY <1>0, <2>1, GotoStep DEF Steps
  <2>2. CASE Goto(w, "resolve")
    BY <1>0, <2>2, GotoStep DEF Steps, McpSteps
  <2> QED
    BY <2>1, <2>2 DEF Ping, Stops, BeginMcp
<1>2. /\ UNCHANGED <<kind, files, config, file, seen, mcp, changes, server, hint, project>>
      /\ UsesServer(w)
  BY DEF Ping, unchangedMcp
<1>3. red' \in [Walks -> BOOLEAN] /\ retry' \in [Walks -> BOOLEAN]
  BY <1>0, WalkTypes DEF Ping, Stops, BeginMcp
<1>4. /\ passed' \in [Walks -> BOOLEAN] /\ \A v \in Walks \ {w} : passed'[v] = passed[v]
      /\ passed'[w] => passed[w] \/ Resolved(w) # NoServer
  BY <1>0, WalkTypes DEF Ping
<1>5. hint' \in [Servers -> Projects \cup {NoProject, NoHint}]
  BY <1>0, <1>2, WalkTypes
<1> QED
  BY <1>0, <1>1, <1>2, <1>3, <1>4, <1>5, UsingStep

\* Steps 6 and 7 use the server that was pinged.
LEMMA ProbesStep ==
  ASSUME WalkIInv, NEW w \in Walks, ProbeProject(w) \/ ProbeCatalog(w) PROVE WalkIInv'
<1>0. /\ WalkTypeOK /\ Sound(w) /\ step[w] \in {"probe_project", "probe_catalog"}
      /\ passed[w]
  BY DEF WalkIInv, ProbeProject, ProbeCatalog, Sound, Pinged
<1>1. /\ step' \in [Walks -> Steps] /\ step'[w] \in {"probe_catalog", "record"}
      /\ \A v \in Walks \ {w} : step'[v] = step[v]
  <2>1. \E next \in {"probe_catalog", "record"} : Goto(w, next)
    BY DEF ProbeProject, ProbeCatalog
  <2> QED
    BY <1>0, <2>1, GotoStep DEF Steps
<1>2. /\ UNCHANGED <<kind, files, config, file, seen, mcp, changes, server, retry, hint, project, passed>>
      /\ UsesServer(w)
  BY DEF ProbeProject, ProbeCatalog, unchangedMcp
<1>3. red' \in [Walks -> BOOLEAN]
  BY <1>0, WalkTypes DEF ProbeProject, ProbeCatalog
<1>4. /\ hint' \in [Servers -> Projects \cup {NoProject, NoHint}] /\ retry' \in [Walks -> BOOLEAN]
      /\ passed' \in [Walks -> BOOLEAN]
  BY <1>0, <1>2, WalkTypes
<1> QED
  BY <1>0, <1>1, <1>2, <1>3, <1>4, UsingStep

\* The hint is saved for the server that was pinged.
LEMMA RecordStep == ASSUME WalkIInv, NEW w \in Walks, RecordHint(w) PROVE WalkIInv'
<1>0. WalkTypeOK /\ Sound(w) /\ step[w] = "record"
  BY DEF WalkIInv, RecordHint
<1>1. /\ step' \in [Walks -> Steps] /\ step'[w] = "summary"
      /\ \A v \in Walks \ {w} : step'[v] = step[v]
  BY <1>0, GotoStep DEF RecordHint, Steps
<1>2. /\ UNCHANGED <<kind, files, config, file, seen, mcp, changes, server, retry, project, passed, red>>
      /\ UsesServer(w)
  BY DEF RecordHint, unchangedMcp
<1>3. hint' \in [Servers -> Projects \cup {NoProject, NoHint}]
  BY <1>0, WalkTypes DEF RecordHint
<1>4. /\ red' \in [Walks -> BOOLEAN] /\ retry' \in [Walks -> BOOLEAN]
      /\ passed' \in [Walks -> BOOLEAN]
  BY <1>0, <1>2, WalkTypes
<1> QED
  BY <1>0, <1>1, <1>2, <1>3, <1>4, UsingStep

\* A walk whose steps 1 to 4 passed goes on after step 5; a detector ends.
LEMMA AfterMcpStep == ASSUME WalkIInv, NEW w \in Walks, AfterMcp(w) PROVE WalkIInv'
<1>0. WalkTypeOK /\ Sound(w) /\ step[w] = "after_mcp" /\ UNCHANGED <<hint, red>>
  BY DEF WalkIInv, AfterMcp
<1>1. CASE /\ Forget(w) /\ project' = [project EXCEPT ![w] = NoProject]
           /\ passed' = [passed EXCEPT ![w] = FALSE]
           /\ UNCHANGED <<kind, files, config, changes>>
  <2>1. /\ project' \in [Walks -> Projects \cup {NoProject}] /\ red' \in [Walks -> BOOLEAN]
        /\ passed' \in [Walks -> BOOLEAN] /\ passed'[w] = FALSE
        /\ \A v \in Walks \ {w} : passed'[v] = passed[v]
    BY <1>0, <1>1, WalkTypes
  <2> QED
    BY <1>0, <1>1, <2>1, ForgetStep
<1>2. CASE /\ passed[w] /\ Goto(w, "probe_project")
           /\ UNCHANGED <<kind, files, config, file, seen, mcp, changes, server, memo, retry, used,
                          project, passed>>
  <2>1. /\ step' \in [Walks -> Steps] /\ step'[w] = "probe_project"
        /\ \A v \in Walks \ {w} : step'[v] = step[v]
    BY <1>0, <1>2, GotoStep DEF Steps
  <2>2. WalkTypeOK'
    BY <1>0, <1>2, <2>1, WalkTypes, TypesKept
  <2>3. Others(w)
    BY <1>0, <1>2, <2>1 DEF Others
  <2>4. Resolved(w)' = Resolved(w)
    BY <1>0, <1>2, ResolvedStable
  <2>5. Sound(w)'
    BY <1>0, <1>2, <2>1, <2>4 DEF Sound, OneServer, Pinged, Holding
  <2> QED
    BY <2>2, <2>3, <2>5, OthersSound DEF WalkIInv
<1> QED
  BY <1>1, <1>2 DEF AfterMcp, unchangedMcp

\* A walk ends.
LEMMA SummaryStep == ASSUME WalkIInv, NEW w \in Walks, Summary(w) PROVE WalkIInv'
<1>0. WalkTypeOK /\ Forget(w) /\ UNCHANGED <<kind, files, config, changes, hint>>
  BY DEF WalkIInv, Summary
<1>1. /\ project' \in [Walks -> Projects \cup {NoProject}] /\ red' \in [Walks -> BOOLEAN]
      /\ passed' \in [Walks -> BOOLEAN] /\ passed'[w] = FALSE
      /\ \A v \in Walks \ {w} : passed'[v] = passed[v]
  BY <1>0, WalkTypes DEF Summary
<1> QED
  BY <1>0, <1>1, ForgetStep

\* Changes from outside: a walk that has used a server no longer asks jf.
LEMMA OutsideStep == ASSUME WalkIInv, Outside PROVE WalkIInv'
<1>0. WalkTypeOK /\ \A w \in Walks : Sound(w)
  BY DEF WalkIInv
<1>1. UNCHANGED <<kind, step, server, memo, file, seen, retry, mcp, used, hint, project, passed, red>>
  BY DEF Outside, EditFile, Reconfigure
<1>2. files' \in [Files -> Content] /\ config' \in JfConfig /\ changes' \in 0..MaxChanges
  <2>1. CASE \E f \in Files, content \in Foreign : EditFile(f, content)
    BY <1>0, <2>1, ContentFacts, MaxChangesAssumption DEF EditFile, WalkTypeOK
  <2>2. CASE \E next \in JfConfig : Reconfigure(next)
    BY <1>0, <2>2, MaxChangesAssumption DEF Reconfigure, WalkTypeOK
  <2> QED
    BY <2>1, <2>2 DEF Outside
<1>3. WalkTypeOK'
  BY <1>0, <1>1, <1>2 DEF WalkTypeOK
<1>4. ASSUME NEW w \in Walks PROVE Sound(w)'
  <2>1. CASE memo[w].read
    <3>1. Resolved(w)' = Resolved(w)
      BY <1>1, <2>1, ResolvedStable
    <3> QED
      BY <1>0, <1>1, <3>1 DEF Sound, OneServer, Pinged, Holding
  <2>2. CASE ~memo[w].read
    <3>1. used[w] = {}
      BY <1>0, <2>2 DEF Sound, OneServer
    <3> QED
      BY <1>0, <1>1, <3>1 DEF Sound, OneServer, Pinged, Holding
  <2> QED
    BY <2>1, <2>2
<1> QED
  BY <1>3, <1>4 DEF WalkIInv

\* No process runs at first.
LEMMA WalkInitIInv == WalkInit => WalkIInv
<1> SUFFICES ASSUME WalkInit PROVE WalkIInv
  OBVIOUS
<1>1. Unread \in Memo /\ Only("absent") \in Content
  BY ContentFacts DEF Unread, Memo
<1>2. files \in [Files -> Content] /\ config \in JfConfig
  BY ContentFacts DEF WalkInit, McpInit
<1>3. WalkTypeOK
  BY <1>1, <1>2, MaxChangesAssumption DEF WalkInit, McpInit, WalkTypeOK, Files
<1>4. ASSUME NEW w \in Walks PROVE Sound(w)
  BY DEF WalkInit, McpInit, Sound, OneServer, Pinged, Holding
<1> QED
  BY <1>3, <1>4 DEF WalkIInv

\* Every step of WalkNext preserves the invariant.
LEMMA WalkNextStep == ASSUME WalkIInv, [WalkNext]_walkVars PROVE WalkIInv'
<1>1. CASE UNCHANGED walkVars
  BY <1>1 DEF walkVars, mcpVars, WalkIInv, WalkTypeOK, Sound, OneServer, Pinged, Holding,
              Resolved, jfConfigShow
<1>2. ASSUME NEW w \in Walks, WalkStep(w) PROVE WalkIInv'
  BY <1>2, EnsureOwnStep, CreateStep, ReplaceStep, LooksStep, ReadAgainStep, PublishStep,
     PrerequisitesStep, PingStep, AfterMcpStep, ProbesStep, RecordStep, SummaryStep
     DEF WalkStep, McpStep
<1> QED
  BY <1>1, <1>2, OutsideStep, BeginStep DEF WalkNext

\* The inductive invariant of the walks of jfrog-detect-all.mjs and of the detectors that
\* run beside them holds throughout.
THEOREM WalkInvariance == WalkSpec => []WalkIInv
  BY WalkInitIInv, WalkNextStep, PTL DEF WalkSpec

\* Every step of a walk works on one server, though jf config may change under way.
THEOREM WalksAgree == WalkSpec => []OneServerPerWalk
<1>1. WalkIInv => OneServerPerWalk
  <2> SUFFICES ASSUME WalkIInv, NEW w \in Walks PROVE Cardinality(used[w]) <= 1
    BY DEF OneServerPerWalk
  <2>1. used[w] = {} \/ used[w] = {Resolved(w)}
    BY DEF WalkIInv, Sound, OneServer
  <2>2. Cardinality({}) = 0
    BY FS_EmptySet
  <2>3. Cardinality({Resolved(w)}) = 1
    BY FS_Singleton
  <2>4. CASE used[w] = {}
    BY <2>2, <2>4
  <2>5. CASE used[w] = {Resolved(w)}
    BY <2>3, <2>5
  <2> QED
    BY <2>1, <2>4, <2>5
<1> QED
  BY WalkInvariance, <1>1, PTL

\* The type invariant of SetupWalk.
THEOREM WalkTypesHold == WalkSpec => []WalkTypeOK
<1>1. WalkIInv => WalkTypeOK
  BY DEF WalkIInv
<1> QED
  BY WalkInvariance, <1>1, PTL

-----------------------------------------------------------------------------
(* What a walk writes *)

\* Which steps write the files, and what.
LEMMA Writers ==
  ASSUME WalkIInv, [WalkNext]_walkVars, NEW f \in Files, NEW w \in Walks,
         files'[f] # files[f], step'[w] # step[w]
  PROVE  \/ step[w] = "create" /\ Create(w)
         \/ step[w] = "replace" /\ Replace(w)
         \/ step[w] = "publish" /\ Publish(w)
<1>1. ASSUME NEW v \in Walks, Begin(v) PROVE FALSE
  BY <1>1 DEF Begin, StartWalk, StartDetector, unchangedMcp
<1>2. ASSUME Outside PROVE FALSE
  BY <1>2 DEF Outside, EditFile, Reconfigure
<1>3. ASSUME UNCHANGED walkVars PROVE FALSE
  BY <1>3 DEF walkVars, mcpVars
<1>4. PICK v \in Walks : WalkStep(v)
  BY <1>1, <1>2, <1>3 DEF WalkNext
<1>5. Create(v) \/ Replace(v) \/ Publish(v)
  <2>1. CASE EnsureOwn(v) \/ ResolvePath(v) \/ Look(v) \/ LookGlobal(v) \/ Substitute(v) \/ Add(v)
           \/ Reread(v)
    BY <2>1 DEF EnsureOwn, ResolvePath, Look, LookGlobal, Substitute, Add, Reread
  <2>2. CASE \/ Prerequisites(v) \/ Ping(v) \/ AfterMcp(v) \/ ProbeProject(v) \/ ProbeCatalog(v)
             \/ RecordHint(v) \/ Summary(v)
    BY <2>2 DEF Prerequisites, Ping, AfterMcp, ProbeProject, ProbeCatalog, RecordHint, Summary,
                unchangedMcp
  <2> QED
    BY <1>4, <2>1, <2>2 DEF WalkStep, McpStep
<1>6. v = w
  <2>1. step \in [Walks -> Steps]
    BY WalkTypes DEF WalkIInv
  <2>2. \E next : step' = [step EXCEPT ![v] = next]
    BY <1>5 DEF Create, Replace, Publish, Goto, Ends
  <2> QED
    BY <2>1, <2>2
<1> QED
  BY <1>5, <1>6 DEF Create, Replace, Publish

\* What AdditiveUnlessRaced says of a step of w that changes f.
Additive(f, w) ==
  \/ files[f].is = "absent" /\ step[w] = "create"
  \/ files[f].is = "empty" /\ files'[f].jfrog = Placeholder
  \/ /\ files[f].is = "object" /\ files'[f].is = "object"
     /\ files'[f].others = files[f].others
     /\ files[f].jfrog \notin Servers
  \/ step[w] \in {"replace", "publish"} /\ files[f] # seen[w]

\* Creation, replacement and publication add to what was read.
LEMMA AdditiveStep ==
  ASSUME WalkIInv, [WalkNext]_walkVars, NEW f \in Files, NEW w \in Walks,
         files'[f] # files[f], step'[w] # step[w]
  PROVE  Additive(f, w)
<1>0. files \in [Files -> Content] /\ Holding(w)
  BY WalkTypes DEF WalkIInv, Sound
<1>1. CASE step[w] = "create" /\ Create(w)
  BY <1>0, <1>1 DEF Create, Additive
<1>2. CASE step[w] = "replace" /\ Replace(w) /\ files[f] = seen[w]
  <2>1. files'[f] = Document(seen[w].others, Placeholder)
    BY <1>0, <1>2 DEF Replace
  <2>2. /\ files'[f].is = "object" /\ files'[f].others = files[f].others
        /\ files'[f].jfrog = Placeholder
    BY <1>2, <2>1 DEF Document
  <2>3. files[f].is \in {"empty", "object"} /\ files[f].jfrog \in {Unset, Bare}
    BY <1>0, <1>2 DEF Holding
  <2> QED
    BY <2>2, <2>3, UrlAssumption DEF Additive
<1>3. CASE step[w] = "publish" /\ Publish(w) /\ files[f] = seen[w]
  <2>1. files'[f] = Document(seen[w].others, Resolved(w))
    BY <1>0, <1>3 DEF Publish
  <2>2. files'[f].is = "object" /\ files'[f].others = files[f].others
    BY <1>3, <2>1 DEF Document
  <2>3. files[f].is = "object" /\ files[f].jfrog \in {Placeholder, Unset}
    BY <1>0, <1>3 DEF Holding
  <2> QED
    BY <2>2, <2>3, UrlAssumption DEF Additive
<1>4. CASE step[w] \in {"replace", "publish"} /\ files[f] # seen[w]
  BY <1>4 DEF Additive
<1> QED
  BY <1>1, <1>2, <1>3, <1>4, Writers

\* ensureOwnGlobalMcpJfrogEntry, the substituter and the OpenCode writer only ever add the
\* jfrog entry, unless another hand wrote the file since it was read.
THEOREM WalksAddOnly == WalkSpec => AdditiveUnlessRaced
<1>1. WalkIInv /\ [WalkNext]_walkVars
        => [\A f \in Files, w \in Walks :
              (files'[f] # files[f] /\ step'[w] # step[w]) => Additive(f, w)]_walkVars
  BY AdditiveStep
<1> QED
  BY <1>1, WalkInvariance, PTL DEF WalkSpec, AdditiveUnlessRaced, Additive

\* A hint is saved by RecordHint alone, for the server that was pinged.
LEMMA HintStep ==
  ASSUME WalkIInv, [WalkNext]_walkVars, NEW s \in Servers, hint'[s] # hint[s]
  PROVE  /\ hint'[s] # NoHint
         /\ hint'[s] = NoProject => hint[s] = NoHint
         /\ \E w \in Walks : passed[w] /\ used[w] = {s}
<1>1. PICK w \in Walks : RecordHint(w)
  <2>1. ASSUME NEW v \in Walks, Begin(v) PROVE FALSE
    BY <2>1 DEF Begin, StartWalk, StartDetector
  <2>2. ASSUME Outside \/ UNCHANGED walkVars PROVE FALSE
    BY <2>2 DEF Outside, walkVars
  <2>3. ASSUME NEW v \in Walks, WalkStep(v) PROVE RecordHint(v)
    BY <2>3 DEF WalkStep, Prerequisites, Ping, AfterMcp, ProbeProject, ProbeCatalog, Summary
  <2> QED
    BY <2>1, <2>2, <2>3 DEF WalkNext
<1>2. /\ hint \in [Servers -> Projects \cup {NoProject, NoHint}]
      /\ project[w] \in Projects \cup {NoProject}
      /\ passed[w] /\ used[w] = {Resolved(w)}
  <2>1. WalkTypeOK /\ Sound(w) /\ step[w] = "record"
    BY <1>1 DEF WalkIInv, RecordHint
  <2> QED
    BY <2>1, WalkTypes DEF Sound, Pinged, OneServer
<1>3. /\ s = Resolved(w)
      /\ hint'[s] = IF project[w] # NoProject THEN project[w]
                    ELSE IF hint[s] = NoHint THEN NoProject ELSE hint[s]
  BY <1>1, <1>2 DEF RecordHint
<1> QED
  BY <1>2, <1>3, HintAssumption

\* The hint in setup.json is saved for the server a walk has pinged, and never erased.
THEOREM HintsAreKept == WalkSpec => HintsKept
<1>1. WalkIInv /\ [WalkNext]_walkVars
        => [\A s \in Servers : hint'[s] # hint[s] =>
              /\ hint'[s] # NoHint
              /\ hint'[s] = NoProject => hint[s] = NoHint
              /\ \E w \in Walks : passed[w] /\ used[w] = {s}]_walkVars
  BY HintStep
<1> QED
  BY <1>1, WalkInvariance, PTL DEF WalkSpec, HintsKept
=============================================================================
