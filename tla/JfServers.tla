----------------------------- MODULE JfServers ------------------------------
(***************************************************************************)
(* The servers of `jf config` and the one way every jfrog-init script      *)
(* picks one of them (jfrog-resolve-jf-server.mjs, lib/jf.mjs).  A         *)
(* configuration is what `jf config show` prints; the URL of a server is   *)
(* named by its id.                                                        *)
(***************************************************************************)
EXTENDS Naturals, FiniteSets

CONSTANTS Servers,   \* server ids
          NoServer   \* the empty string: none resolved, none the default

ASSUME NoServerAssumption == NoServer \notin Servers

JfConfig == {c \in [known : SUBSET Servers, default : Servers \cup {NoServer}] :
               c.default \in c.known \cup {NoServer}}

\* An argument or JF_SERVER_ID, else the default, else the only one; never a guess.
resolveJfServer(override, config) ==
  IF override # NoServer THEN override
  ELSE IF config.default # NoServer THEN config.default
  ELSE IF Cardinality(config.known) = 1 THEN CHOOSE s \in config.known : TRUE
  ELSE NoServer

\* emitNoServerResolved: with no server at all it is red (1), with several it asks (2).
NoServerExit(config) == IF config.known = {} THEN "red" ELSE "ask"

\* urlForServer finds nothing for an id that is not configured.
HasUrl(server, config) == server \in config.known
=============================================================================
