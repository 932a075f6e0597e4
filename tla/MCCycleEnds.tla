---------------------------- MODULE MCCycleEnds ----------------------------
(* What must happen at last, in three scenes of one cycle: a standalone     *)
(* cycle whose one helper may die twice; a standalone cycle whose two       *)
(* helpers overlap and contend for the evidence lock and the target lock;   *)
(* and a cycle whose two helpers take the guard first.  The .cfg describes  *)
(* a standalone cycle, the instances what the other scenes change of it.    *)
EXTENDS MCDbsctrCycle

VARIABLE scene

Overlap == INSTANCE DbsctrCycle WITH Commands <- LockCommands, MaxCommits <- 1
Guarded == INSTANCE DbsctrCycle WITH Serialized <- TRUE

(* A guarded cycle whose final-push dies once the record is completed keeps *)
(* its pointer for good; that death is left to the first scene.             *)
Deaths ==
  scene = "guarded" /\ rec.state = "completed" => UNCHANGED crashes

EndsInit == scene \in {"alone", "overlap", "guarded"} /\ Init

EndsNext ==
  /\ \/ scene = "alone" /\ Next /\ pc'[b] = "idle"
     \/ scene = "overlap" /\ Overlap!Next /\ crashes' < 2
     \/ scene = "guarded" /\ Guarded!Next /\ crashes' < 2 /\ Deaths
  /\ UNCHANGED scene

(* Fairness, of what is the same action in each scene and of final-push.   *)
Retries(p) ==
  \/ scene = "alone" /\ p = a /\ Retry(p)
  \/ scene = "overlap" /\ Retry(p)
  \/ scene = "guarded" /\ Guarded!Retry(p)

EndsSpec ==
  /\ EndsInit /\ [][EndsNext]_<<vars, scene>>
  /\ \A p \in Procs : WF_vars(Continues(p)) /\ SF_vars(Retries(p)) /\ SF_vars(PushSend(p))
=============================================================================
