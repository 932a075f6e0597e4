----------------------------- MODULE ReleaseSlot -----------------------------
(***************************************************************************)
(* What the Codex updater promises of one machine: there is one active     *)
(* release, and it is replaced as a whole or not at all, whatever stops    *)
(* an update half way.  A machine that updates itself never goes back; a   *)
(* guest takes the release its host names.                                 *)
(***************************************************************************)
EXTENDS Naturals

CONSTANT Releases   \* release numbers, in the order of their versions

VARIABLES active,   \* the release in force
          chosen    \* does a host choose this machine's release?

Nothing == 0

Init == active \in Releases \cup {Nothing} /\ chosen \in BOOLEAN

Replace(r) ==
  /\ r # active
  /\ ~chosen => r > active
  /\ active' = r
  /\ UNCHANGED chosen

Next == \E r \in Releases : Replace(r)

Spec == Init /\ [][Next]_<<active, chosen>>
=============================================================================
