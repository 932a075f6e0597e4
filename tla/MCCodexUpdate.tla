--------------------------- MODULE MCCodexUpdate ---------------------------
(* Small instances of CodexUpdate for TLC: two releases, the least that     *)
(* has a newer, an older and a rejected one.                                *)
EXTENDS CodexUpdate

MCReleases == {2, 3}
Machines == {"user", "guest"}
UserMachine == {"user"}
=============================================================================
