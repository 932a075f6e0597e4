---------------------------- MODULE JfrogAccounts ---------------------------
(***************************************************************************)
(* One `jf config`, and all that works on it at the same time: a web login,*)
(* the registration of the Claude marketplace, the agent guard, and the    *)
(* user.  They share nothing but the accounts; the guard's history         *)
(* remembers what the others make of them while it runs.                   *)
(***************************************************************************)
EXTENDS AccountLogin, ClaudeMarketplace, AgentGuard

allVars == <<accountVars, loginVars, marketVars, guardVars>>

AccountsInit == AccountInit /\ LoginInit /\ MarketInit /\ GuardInit

ByLogin == LoginNext /\ UNCHANGED marketVars /\ GuardWatches
ByHand == ChangeByHand /\ UNCHANGED <<loginVars, marketVars>> /\ GuardWatches
ByRegister == MarketNext /\ UNCHANGED <<loginVars, guardVars>>
ByGuard == GuardNext /\ UNCHANGED <<loginVars, marketVars>>

AccountsNext == ByLogin \/ ByHand \/ ByRegister \/ ByGuard

AccountsSpec == AccountsInit /\ [][AccountsNext]_allVars
=============================================================================
