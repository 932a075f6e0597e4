--------------------------- MODULE MCJfrogAccounts --------------------------
\* One `jf config`, and what works on it: a web login beside the registration of the Claude
\* marketplace ("market"), or beside the agent guard ("guard").
EXTENDS JfrogAccounts

VARIABLE scene   \* "market" or "guard"

\* Platforms whose URLs differ in port or path only derive the same id; x and z have one origin.
SameId == [p \in Jpds |-> "s"]
OriginXZ == [p \in Jpds |-> IF p = "y" THEN "y.example" ELSE "x.example"]

\* No complete environment, a complete one, only a URL; an old jf; overrides that conflict.
Environments ==
  {[jf |-> jf, env |-> e[1], complete |-> e[2], force |-> {}] :
     jf \in {"api"}, e \in {<<NoJpd, FALSE>>, <<"x", TRUE>>, <<"y", FALSE>>}}
  \cup {[jf |-> "old", env |-> "y", complete |-> FALSE, force |-> {}]}
  \cup {[jf |-> "api", env |-> NoJpd, complete |-> FALSE, force |-> f] : f \in {{"enable"}, {"disable", "enable"}}}

At(jpd, credential) == [jpd |-> jpd, credential |-> credential]

\* In "guard": no, one or two servers, with and without a default, with good and bad
\* credentials; one platform's registry is on or odd and served anywhere, the other's is off.
GuardScene ==
  /\ scene = "guard"
  /\ account \in {[s \in Servers |-> IF s = "s" THEN a ELSE b] :
                    a \in {NoAccount, At("x", "good"), At("y", "none")},
                    b \in {NoAccount, At("y", "good")}}
  /\ registry \in {[p \in Jpds |-> IF p = "x" THEN r ELSE [setting |-> "off", at |-> "root"]] :
                    r \in [setting : {"on"}, at : {"root", "bridge", "nowhere"}] \cup [setting : {"odd"}, at : {"root"}]}
  /\ machine \in Machines
  /\ claude = [f \in Files |-> Absent]

\* In "market": two good accounts, one the default, and files as earlier versions or the user left them.
Left(named, older) == [is |-> "object", named |-> named, older |-> older, mark |-> FALSE]
Token(jpd) == [from |-> "jfrog", jpd |-> jpd, token |-> TRUE, helper |-> NoServer]

MarketScene ==
  /\ scene = "market"
  /\ account = [s \in Servers |-> At(IF s = "s" THEN "x" ELSE "y", "good")]
  /\ default = "s"
  /\ registry = [p \in Jpds |-> [setting |-> "on", at |-> "root"]]
  /\ machine = CHOOSE m \in Machines : m.force = {"enable"}
  /\ \E pair \in {<<Absent, Absent>>, <<Left(Token("x"), Token("z")), Left(Nothing, Token("y"))>>,
                  <<Left(Foreign, Nothing), Absent>>, <<Absent, [Absent EXCEPT !.is = "invalid"]>>} :
       claude = [f \in Files |-> IF f = "cache" THEN pair[1] ELSE pair[2]]

Init ==
  /\ MarketScene \/ GuardScene
  /\ platform = "x"
  /\ AccountsInit

\* In "market" the user re-points ids, or removes them, but leaves the default alone; in
\* "guard" there are two platforms.
Repoints ==
  /\ scene = "market" => account' # account
  /\ \A s \in Servers : account'[s] # account[s] =>
       IF scene = "market" THEN account'[s] \in {NoAccount, At("z", "good")} ELSE account'[s].jpd # "z"

Next ==
  /\ \/ ByLogin /\ platform' \in IF scene = "guard" THEN {"x"} ELSE {"x", "y"}
     \/ ByHand /\ Repoints
     \/ scene = "market" /\ ByRegister
     \/ scene = "guard" /\ ByGuard
  /\ UNCHANGED scene

Spec == Init /\ [][Next]_<<allVars, scene>>
=============================================================================
