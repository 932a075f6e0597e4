----------------------- MODULE AdmissionBudget_proofs -----------------------
(***************************************************************************)
(* Proofs about AdmissionBudget, for any finite set of calls, any classes  *)
(* and limits, and any number of deaths and lock timeouts.                 *)
(*                                                                         *)
(* The inductive invariant says who is charged for what.  A call whose     *)
(* work may be going on keeps a running or unknown entry, because nobody   *)
(* drops such an entry: a reader raises when its lease is free, and its    *)
(* own process releases it only when the work is over.  What an unreadable *)
(* index leaves behind is harmless, since it stays unreadable.             *)
(***************************************************************************)
EXTENDS AdmissionBudget, FiniteSetTheorems, TLAPS

Charged == {c \in Calls : entries[c] \in {"running", "unknown"}}

(* Work is charged, unless marking it unknown timed out.                    *)
WorkCharged == \A c \in work \ unmarked : c \in Charged

(* Where the process of a call is tells its entry, its lease and its work.  *)
Placed ==
  \A c \in Calls :
    /\ pc[c] \in {"idle", "opened"} => entries[c] = "none"
    /\ pc[c] = "idle" => lease[c] = "none"
    /\ pc[c] \in {"running", "marking"} => entries[c] = "running"
    /\ pc[c] \in {"opened", "queued", "running", "marking", "releasing", "closing"}
         => lease[c] = "held"
    /\ pc[c] \in {"unlinking", "dead"} => lease[c] = "free"
    /\ pc[c] \in {"idle", "opened", "queued"} => c \notin work
    /\ pc[c] = "releasing" /\ c \in work \ unmarked => ~Readable
    /\ c \in kept => pc[c] \in {"closing", "done", "dead"}
    /\ pc[c] = "done" /\ c \in kept => lease[c] = "free"

ChargeBounded ==
  /\ Cardinality(Charged) <= limits.running
  /\ Cardinality(OfKind("expensive", Charged)) <= limits.expensive

(* Over a readable index, calls that are over have left no entry behind,    *)
(* unless the lock timed out.                                               *)
Left ==
  /\ \A c \in Calls :
       pc[c] \in {"closing", "unlinking", "done"} /\ entries[c] # "none"
         => c \in kept \/ timeouts > 0 \/ ~Readable
  /\ \A c \in Calls : entries[c] = "unknown" => c \in kept

(* Every call is created once.                                              *)
BornOnce ==
  /\ \A i, j \in DOMAIN born : born[i] = born[j] => i = j
  /\ \A i \in DOMAIN born : pc[born[i]] # "idle"

IInv == TypeOK /\ WorkCharged /\ Placed /\ ChargeBounded /\ Left /\ BlockedForCause /\ BornOnce

-----------------------------------------------------------------------------
(* What a reader of a readable index gets: every running entry as it is,    *)
(* and of the queued ones those whose process lives.                        *)
LEMMA ReadRunning ==
  ASSUME TypeOK, Readable
  PROVE  /\ Read \in [Calls -> {"none", "queued", "running"}]
         /\ \A d \in Calls : Read[d] = "running" <=> entries[d] = "running"
         /\ \A d \in Calls : entries[d] = "none" => Read[d] = "none"
         /\ \A d \in Calls : Read[d] # "none" => lease[d] = "held"
         /\ Charged = Running
  BY DEF TypeOK, Readable, Listed, Read, Live, Charged, Running, In, States, Leases

(* An index that cannot be read stays as it is and stays unreadable: its    *)
(* entry is never rewritten, and a lease is not taken a second time.        *)
LEMMA UnreadableStays ==
  ASSUME TypeOK, Placed, [Next]_vars, ~Readable
  PROVE  ~Readable' /\ UNCHANGED entries /\ (~Fits => ~Fits')
  <1>1. UNCHANGED entries
    BY DEF Next, Step, vars, Open, Enqueue, GiveUp, Admit, Wait, Refuse, Finish, Uncertain,
           Mark, Release, Close, Unlink, LockTimeout, Crash, WorkEnds, Age, index, Keep
  <1>2. UNCHANGED capacity
    BY DEF Next, Step, vars, Open, Enqueue, GiveUp, Admit, Wait, Refuse, Finish, Uncertain,
           Mark, Release, Close, Unlink, LockTimeout, Crash, WorkEnds, Age, bounds
  <1>3. ~Fits => ~Fits'
    BY <1>1, <1>2 DEF Fits, Listed
  <1>4. CASE Fits
    <2>1. PICK c \in Listed : \/ entries[c] = "unknown" \/ lease[c] = "none"
                              \/ entries[c] = "running" /\ lease[c] # "held"
      BY <1>4 DEF Readable
    <2>2. c \in Calls /\ entries[c] # "none" /\ pc[c] # "idle"
      BY <2>1 DEF Listed, Placed
    <2>3. (lease'[c] = "held" => lease[c] = "held") /\ (lease[c] = "none" => lease'[c] = "none")
      <3>1. CASE \E d \in Calls : Open(d)
        BY <2>2, <3>1 DEF Open, TypeOK
      <3>2. CASE \E d \in Calls : Close(d) \/ Unlink(d) \/ Crash(d)
        BY <2>2, <3>2 DEF Close, Unlink, Crash, TypeOK, Placed, Leases
      <3>3. CASE UNCHANGED lease
        BY <3>3
      <3> QED BY <3>1, <3>2, <3>3
        DEF Next, Step, vars, Enqueue, GiveUp, Admit, Wait, Refuse, Finish, Uncertain, Mark,
            Release, LockTimeout, WorkEnds, Age
    <2> QED BY <1>1, <1>3, <2>1, <2>2, <2>3 DEF Readable, Listed
  <1> QED BY <1>1, <1>3, <1>4 DEF Readable
-----------------------------------------------------------------------------
(* Every step keeps the types.                                              *)
LEMMA TypeStep ==
  ASSUME TypeOK, [Next]_vars
  PROVE  TypeOK'
  <1> USE DEF TypeOK, Goto, bounds, index, Steps
  <1>1. CASE \E c \in Calls : Open(c)
    BY <1>1 DEF Open, Leases
  <1>2. ASSUME NEW c \in Calls, Enqueue(c) \/ Release(c) PROVE TypeOK'
    <2>1. ReadLimits(c) \in Limits
      BY LimitsAssumption DEF ReadLimits, Limits
    <2>2. entries' \in [Calls -> States] /\ limits' \in Limits
      BY <1>2, <2>1, ReadRunning DEF Enqueue, Release, Replace, Keep, States
    <2> QED BY <1>2, <2>2 DEF Enqueue, Release
  <1>3. CASE \E c \in Calls : Admit(c) \/ Wait(c) \/ Mark(c)
    BY <1>3, ReadRunning DEF Admit, Wait, Mark, Replace, States
  <1>4. CASE \E c \in Calls : GiveUp(c) \/ Refuse(c) \/ Finish(c) \/ Uncertain(c)
    BY <1>4 DEF GiveUp, Refuse, Finish, Uncertain
  <1>5. CASE \E c \in Calls : Close(c) \/ Unlink(c) \/ Crash(c)
    BY <1>5, BoundsAssumption DEF Close, Unlink, Crash, Leases
  <1>6. ASSUME NEW c \in Calls, LockTimeout(c) \/ WorkEnds(c) PROVE TypeOK'
    <2>1. unmarked' \subseteq Calls /\ timeouts' \in 0..MaxTimeouts
      BY <1>6, BoundsAssumption DEF LockTimeout, WorkEnds
    <2>2. pc' \in [Calls -> Steps]
      BY <1>6 DEF LockTimeout, WorkEnds
    <2> QED BY <1>6, <2>1, <2>2 DEF LockTimeout, WorkEnds
  <1>7. CASE Age \/ UNCHANGED vars
    BY <1>7 DEF Age, vars
  <1> QED BY <1>1, <1>2, <1>3, <1>4, <1>5, <1>6, <1>7 DEF Next, Step

(* Every step leaves each call where its entry, lease and work say.         *)
LEMMA PlacedStep ==
  ASSUME TypeOK, WorkCharged, Placed, [Next]_vars
  PROVE  Placed'
  <1>0. (~Readable => ~Readable') /\ TypeOK'
    BY UnreadableStays, TypeStep
  <1> USE <1>0 DEF Placed, TypeOK, Goto, bounds, index, Steps
  <1>1. CASE \E c \in Calls : Open(c)
    BY <1>1 DEF Open
  <1>2. CASE \E c \in Calls : Enqueue(c)
    BY <1>2, ReadRunning DEF Enqueue, Replace, Keep
  <1>3. CASE \E c \in Calls : Admit(c)
    BY <1>3, ReadRunning DEF Admit, Replace
  <1>4. CASE \E c \in Calls : Wait(c)
    BY <1>4, ReadRunning DEF Wait, Replace
  <1>5. CASE \E c \in Calls : Mark(c)
    BY <1>5, ReadRunning DEF Mark, Replace
  <1>6. CASE \E c \in Calls : Release(c)
    BY <1>6, ReadRunning DEF Release, Replace, Keep, index
  <1>7. CASE \E c \in Calls : GiveUp(c) \/ Refuse(c)
    BY <1>7 DEF GiveUp, Refuse
  <1>8. CASE \E c \in Calls : Finish(c) \/ Uncertain(c)
    BY <1>8 DEF Finish, Uncertain
  <1>9. CASE \E c \in Calls : Close(c) \/ Unlink(c)
    BY <1>9 DEF Close, Unlink
  <1>10. CASE \E c \in Calls : Crash(c)
    BY <1>10 DEF Crash
  <1>11. CASE \E c \in Calls : LockTimeout(c)
    BY <1>11 DEF LockTimeout
  <1>12. CASE (\E c \in Calls : WorkEnds(c)) \/ Age \/ UNCHANGED vars
    BY <1>12 DEF WorkEnds, Age, vars
  <1> QED BY <1>1, <1>2, <1>3, <1>4, <1>5, <1>6, <1>7, <1>8, <1>9, <1>10, <1>11, <1>12
    DEF Next, Step

(* Only an admission charges a call, and only its own release discharges    *)
(* one, after its work is over.                                             *)
LEMMA ChargeStep ==
  ASSUME TypeOK, Placed, [Next]_vars
  PROVE  \/ Charged' \subseteq Charged
         \/ \E c \in Calls : Admit(c) /\ Charged' = Charged \cup {c}
  <1> USE DEF TypeOK, Charged, Goto, bounds, index
  <1>1. CASE \E c \in Calls : Enqueue(c)
    BY <1>1, ReadRunning DEF Enqueue, Replace, Keep
  <1>2. ASSUME NEW c \in Calls, Admit(c) PROVE Charged' = Charged \cup {c}
    BY <1>2, ReadRunning DEF Admit, Replace, Running, In
  <1>3. CASE \E c \in Calls : Wait(c) \/ Release(c)
    BY <1>3, ReadRunning DEF Wait, Release, Replace, Keep, index
  <1>4. CASE \E c \in Calls : Mark(c)
    BY <1>4, ReadRunning DEF Mark, Replace, Placed
  <1>5. CASE UNCHANGED entries
    BY <1>5
  <1> QED BY <1>1, <1>2, <1>3, <1>4, <1>5
    DEF Next, Step, vars, Open, GiveUp, Refuse, Finish, Uncertain, Close, Unlink,
        LockTimeout, Crash, WorkEnds, Age

LEMMA WorkChargedStep ==
  ASSUME TypeOK, Placed, WorkCharged, [Next]_vars
  PROVE  WorkCharged'
  <1> USE DEF TypeOK, WorkCharged, Charged, Goto, bounds, index
  <1>1. CASE \E c \in Calls : Enqueue(c)
    BY <1>1, ReadRunning DEF Enqueue, Replace, Keep, Placed, Running, In
  <1>2. CASE \E c \in Calls : Admit(c)
    BY <1>2, ReadRunning DEF Admit, Replace, Running, In
  <1>3. CASE \E c \in Calls : Wait(c)
    BY <1>3, ReadRunning DEF Wait, Replace, Running, In
  <1>4. CASE \E c \in Calls : Mark(c)
    BY <1>4, ReadRunning DEF Mark, Replace, Running, In
  <1>5. CASE \E c \in Calls : Release(c)
    BY <1>5, ReadRunning DEF Release, Replace, Keep, index, Running, In, Placed
  <1>6. CASE UNCHANGED entries /\ work' \subseteq work /\ unmarked \subseteq unmarked'
    BY <1>6
  <1> QED BY <1>1, <1>2, <1>3, <1>4, <1>5, <1>6
    DEF Next, Step, vars, Open, GiveUp, Refuse, Finish, Uncertain, Close, Unlink,
        LockTimeout, Crash, WorkEnds, Age

(* The limits of the index are set once and never lowered.                  *)
LEMMA LimitsStep ==
  ASSUME TypeOK, [Next]_vars
  PROVE  limits'.running >= limits.running /\ limits'.expensive >= limits.expensive
  <1>1. CASE \E c \in Calls : Enqueue(c) \/ Release(c)
    BY <1>1, LimitsAssumption
       DEF Enqueue, Release, ReadLimits, TypeOK, Limits, NoLimits, Keep, index
  <1>2. CASE UNCHANGED limits
    BY <1>2 DEF TypeOK, Limits
  <1> QED BY <1>1, <1>2
    DEF Next, Step, vars, index, Open, GiveUp, Admit, Wait, Refuse, Finish, Uncertain, Mark,
        Close, Unlink, LockTimeout, Crash, WorkEnds, Age

LEMMA AddOne ==
  ASSUME NEW S, IsFiniteSet(S), NEW x
  PROVE  /\ Cardinality(S \cup {x}) \in Nat
         /\ Cardinality(S \cup {x}) <= Cardinality(S) + 1
  <1>1. Cardinality(S) \in Nat /\ IsFiniteSet(S \cup {x})
    BY FS_AddElement, FS_CardinalityType
  <1>2. Cardinality(S \cup {x}) = IF x \in S THEN Cardinality(S) ELSE Cardinality(S) + 1
    BY FS_AddElement
  <1> QED BY <1>1, <1>2

(* An admission finds a slot free under the limits of the index.            *)
LEMMA ChargeBoundedStep ==
  ASSUME TypeOK, Placed, ChargeBounded, [Next]_vars
  PROVE  ChargeBounded'
  <1> DEFINE Expensive(S) == OfKind("expensive", S)
  <1>0. /\ IsFiniteSet(Charged) /\ IsFiniteSet(Expensive(Charged))
        /\ Cardinality(Charged) \in Nat /\ Cardinality(Expensive(Charged)) \in Nat
    BY CallsAssumption, FS_Subset, FS_CardinalityType DEF Charged, OfKind
  <1>1. limits \in Limits /\ limits' \in Limits
    BY TypeStep DEF TypeOK
  <1>2. CASE Charged' \subseteq Charged
    <2>1. Expensive(Charged') \subseteq Expensive(Charged)
      BY <1>2 DEF OfKind
    <2>2. /\ Cardinality(Charged') \in Nat /\ Cardinality(Charged') <= Cardinality(Charged)
          /\ Cardinality(Expensive(Charged')) \in Nat
          /\ Cardinality(Expensive(Charged')) <= Cardinality(Expensive(Charged))
      BY <1>0, <1>2, <2>1, FS_Subset, FS_CardinalityType
    <2> QED BY <1>0, <1>1, <2>2, LimitsStep DEF ChargeBounded, Limits
  <1>3. ASSUME NEW c \in Calls, Admit(c), Charged' = Charged \cup {c} PROVE ChargeBounded'
    <2>1. Charged = Running /\ UNCHANGED limits
      BY <1>3, ReadRunning DEF Admit
    <2>2. /\ Cardinality(Charged) < Lesser(OwnRunning[c], limits.running)
          /\ Kind[c] = "expensive" =>
               Cardinality(Expensive(Charged)) < Lesser(OwnExpensive[c], limits.expensive)
      BY <1>3, <2>1 DEF Admit, Admissible, Eligible
    <2>3. /\ Cardinality(Charged) < limits.running
          /\ Kind[c] = "expensive" => Cardinality(Expensive(Charged)) < limits.expensive
      BY <1>0, <1>1, <2>2, LimitsAssumption DEF Lesser, Limits
    <2>4. Cardinality(Charged') \in Nat /\ Cardinality(Charged') <= Cardinality(Charged) + 1
      BY <1>0, <1>3, AddOne
    <2>5. CASE Kind[c] = "expensive"
      <3>1. Expensive(Charged') = Expensive(Charged) \cup {c}
        BY <1>3, <2>5 DEF OfKind
      <3>2. /\ Cardinality(Expensive(Charged')) \in Nat
            /\ Cardinality(Expensive(Charged')) <= Cardinality(Expensive(Charged)) + 1
        BY <1>0, <3>1, AddOne
      <3> QED BY <1>0, <1>1, <2>1, <2>3, <2>4, <2>5, <3>2 DEF ChargeBounded, Limits
    <2>6. CASE Kind[c] # "expensive"
      <3>1. Expensive(Charged') = Expensive(Charged)
        BY <1>3, <2>6 DEF OfKind
      <3> QED BY <1>0, <1>1, <2>1, <2>3, <2>4, <3>1 DEF ChargeBounded, Limits
    <2> QED BY <2>5, <2>6
  <1> QED BY <1>2, <1>3, ChargeStep

LEMMA LeftStep ==
  ASSUME TypeOK, Placed, Left, [Next]_vars
  PROVE  Left'
  <1>0. (~Readable => ~Readable' /\ UNCHANGED entries) /\ TypeOK'
    BY UnreadableStays, TypeStep
  <1> USE <1>0 DEF Left, TypeOK, Goto, bounds, index, Steps
  <1>1. CASE \E c \in Calls : Enqueue(c)
    BY <1>1, ReadRunning DEF Enqueue, Replace, Keep
  <1>2. CASE \E c \in Calls : Admit(c) \/ Wait(c)
    BY <1>2, ReadRunning DEF Admit, Wait, Replace
  <1>3. CASE \E c \in Calls : Mark(c)
    BY <1>3, ReadRunning DEF Mark, Replace
  <1>4. CASE \E c \in Calls : Release(c)
    BY <1>4, ReadRunning DEF Release, Replace, Keep
  <1>5. CASE \E c \in Calls : Open(c) \/ GiveUp(c) \/ Refuse(c) \/ Finish(c) \/ Uncertain(c)
    BY <1>5 DEF Open, GiveUp, Refuse, Finish, Uncertain
  <1>6. CASE \E c \in Calls : Close(c) \/ Unlink(c) \/ Crash(c)
    BY <1>6 DEF Close, Unlink, Crash
  <1>7. CASE \E c \in Calls : LockTimeout(c)
    BY <1>7 DEF LockTimeout
  <1>8. CASE (\E c \in Calls : WorkEnds(c)) \/ Age \/ UNCHANGED vars
    BY <1>8 DEF WorkEnds, Age, vars, Readable
  <1> QED BY <1>1, <1>2, <1>3, <1>4, <1>5, <1>6, <1>7, <1>8 DEF Next, Step

(* An index that becomes unreadable does so at one step, for a cause that   *)
(* the step leaves behind; a cause does not go away.                        *)
LEMMA BlockedStep ==
  ASSUME TypeOK, Placed, Left, BlockedForCause, [Next]_vars
  PROVE  BlockedForCause'
  <1>0. TypeOK' /\ (~Readable => UNCHANGED entries /\ (~Fits => ~Fits'))
    BY UnreadableStays, TypeStep
  <1>1. CASE ~Readable
    <2>1. kept \subseteq kept' /\ (timeouts > 0 => timeouts' > 0)
      <3>1. CASE \E c \in Calls : LockTimeout(c)
        BY <3>1 DEF LockTimeout, TypeOK
      <3>2. CASE UNCHANGED timeouts /\ kept \subseteq kept'
        BY <3>2
      <3> QED BY <3>1, <3>2
        DEF Next, Step, vars, bounds, Open, Enqueue, GiveUp, Admit, Wait, Refuse, Finish,
            Uncertain, Mark, Release, Close, Unlink, Crash, WorkEnds, Age
    <2>2. \A c \in Calls : pc[c] = "dead" => pc'[c] = "dead"
      BY DEF Next, Step, vars, Goto, Open, Enqueue, GiveUp, Admit, Wait, Refuse, Finish,
             Uncertain, Mark, Release, Close, Unlink, LockTimeout, Crash, WorkEnds, Age, TypeOK
    <2> QED BY <1>0, <1>1, <2>1, <2>2 DEF BlockedForCause, TypeOK
  <1>2. CASE Readable
    <2> USE <1>0, <1>2 DEF TypeOK, Goto, bounds, index, BlockedForCause, Readable, Listed
    <2>1. CASE \E c \in Calls : Open(c)
      BY <2>1 DEF Open, Placed
    <2>2. CASE \E c \in Calls : Enqueue(c) \/ Admit(c)
      BY <2>2, ReadRunning DEF Enqueue, Admit, Replace, Placed, Keep
    <2>3. CASE \E c \in Calls : Wait(c) \/ Release(c)
      BY <2>3, ReadRunning DEF Wait, Release, Replace, Keep, index
    <2>4. CASE \E c \in Calls : Mark(c)
      BY <2>4 DEF Mark
    <2>5. CASE \E c \in Calls : Close(c) \/ Unlink(c)
      BY <2>5 DEF Close, Unlink, Left
    <2>6. CASE \E c \in Calls : Crash(c)
      BY <2>6 DEF Crash
    <2>7. CASE UNCHANGED <<entries, lease>>
      BY <2>7
    <2> QED BY <2>1, <2>2, <2>3, <2>4, <2>5, <2>6, <2>7
      DEF Next, Step, vars, GiveUp, Refuse, Finish, Uncertain, LockTimeout, WorkEnds, Age
  <1> QED BY <1>1, <1>2

LEMMA BornStep ==
  ASSUME TypeOK, BornOnce, [Next]_vars
  PROVE  BornOnce'
  <1>1. ASSUME NEW c \in Calls, Open(c) PROVE BornOnce'
    <2>1. /\ Len(born') = Len(born) + 1 /\ born'[Len(born) + 1] = c
          /\ DOMAIN born' = 1..(Len(born) + 1) /\ DOMAIN born = 1..Len(born)
          /\ \A i \in 1..Len(born) : born'[i] = born[i]
      BY <1>1 DEF Open, TypeOK
    <2>2. \A i \in DOMAIN born : born[i] \in Calls /\ born[i] # c
      BY <1>1 DEF Open, BornOnce, TypeOK
    <2>3. \A d \in Calls : pc'[d] = IF d = c THEN "opened" ELSE pc[d]
      BY <1>1 DEF Open, Goto, TypeOK
    <2>4. \A i \in DOMAIN born' : i \in DOMAIN born \/ i = Len(born) + 1
      BY <2>1 DEF TypeOK
    <2> QED BY <2>1, <2>2, <2>3, <2>4 DEF BornOnce
  <1>2. CASE UNCHANGED born
    <2>1. \A c \in Calls : pc[c] # "idle" => pc'[c] # "idle"
      BY DEF Next, Step, vars, Goto, Open, Enqueue, GiveUp, Admit, Wait, Refuse, Finish,
             Uncertain, Mark, Release, Close, Unlink, LockTimeout, Crash, WorkEnds, Age, TypeOK
    <2>2. \A i \in DOMAIN born : born[i] \in Calls
      BY DEF TypeOK
    <2> QED BY <1>2, <2>1, <2>2 DEF BornOnce
  <1> QED BY <1>1, <1>2
    DEF Next, Step, vars, Enqueue, GiveUp, Admit, Wait, Refuse, Finish, Uncertain, Mark,
        Release, Close, Unlink, LockTimeout, Crash, WorkEnds, Age

-----------------------------------------------------------------------------
(* The inductive invariant holds of every behaviour.                        *)
THEOREM Invariance == Spec => []IInv
  <1>1. Init => IInv
    <2> SUFFICES ASSUME Init PROVE IInv
      OBVIOUS
    <2> USE DEF Init
    <2>1. TypeOK
      BY BoundsAssumption DEF TypeOK, States, Leases, Steps, Limits, NoLimits
    <2>2. WorkCharged /\ Placed /\ Left /\ BlockedForCause /\ BornOnce
      BY DEF WorkCharged, Placed, Left, BlockedForCause, BornOnce, Readable, Listed
    <2>3. Charged = {} /\ OfKind("expensive", Charged) = {}
      BY DEF Charged, OfKind
    <2>4. ChargeBounded
      <3>1. Cardinality({}) = 0
        BY FS_EmptySet
      <3>2. limits.running = 0 /\ limits.expensive = 0
        BY DEF NoLimits
      <3>3. /\ Cardinality(Charged) = 0
            /\ Cardinality(OfKind("expensive", Charged)) = 0
        BY ONLY <2>3, <3>1
      <3> QED BY ONLY <3>2, <3>3, 0 <= 0 DEF ChargeBounded
    <2> QED BY <2>1, <2>2, <2>4 DEF IInv
  <1>2. IInv /\ [Next]_vars => IInv'
    BY TypeStep, WorkChargedStep, PlacedStep, ChargeBoundedStep, LeftStep, BlockedStep, BornStep
      DEF IInv
  <1> QED BY <1>1, <1>2, PTL DEF Spec

(* All work that may be going on stays within the first configured limits,  *)
(* unless marking uncertainty timed out (runner.py: Budget.slot).           *)
THEOREM Bounded == Spec => []WorkBounded
  <1>1. IInv => WorkBounded
    <2> SUFFICES ASSUME IInv, unmarked = {} PROVE
          /\ Cardinality(work) <= limits.running
          /\ Cardinality(OfKind("expensive", work)) <= limits.expensive
      BY DEF WorkBounded
    <2>1. /\ work \subseteq Charged
          /\ OfKind("expensive", work) \subseteq OfKind("expensive", Charged)
          /\ Charged \subseteq Calls /\ OfKind("expensive", Charged) \subseteq Calls
      BY DEF IInv, WorkCharged, Charged, OfKind, TypeOK
    <2>2. IsFiniteSet(Charged) /\ IsFiniteSet(OfKind("expensive", Charged))
      BY <2>1, CallsAssumption, FS_Subset
    <2>3. /\ Cardinality(work) \in Nat /\ Cardinality(Charged) \in Nat
          /\ Cardinality(work) <= Cardinality(Charged)
      <3>1. IsFiniteSet(work) /\ Cardinality(work) <= Cardinality(Charged)
        BY <2>1, <2>2, FS_Subset
      <3> QED BY <2>2, <3>1, FS_CardinalityType
    <2>4. /\ Cardinality(OfKind("expensive", work)) \in Nat
          /\ Cardinality(OfKind("expensive", Charged)) \in Nat
          /\ Cardinality(OfKind("expensive", work)) <= Cardinality(OfKind("expensive", Charged))
      BY <2>1, <2>2, FS_Subset, FS_CardinalityType
    <2>5. limits.running \in Nat /\ limits.expensive \in Nat
      BY DEF IInv, TypeOK, Limits
    <2> QED BY <2>3, <2>4, <2>5 DEF IInv, ChargeBounded
  <1> QED BY <1>1, Invariance, PTL

(* The budget is blocked only because of work left behind or a timeout of   *)
(* the lock, never because of queued calls (runner.py: Budget._read).       *)
THEOREM Blocked == Spec => []BlockedForCause
  <1>1. IInv => BlockedForCause
    BY DEF IInv
  <1> QED BY <1>1, Invariance, PTL

(* No call is admitted before an older one that has aged, unless expensive  *)
(* work is at a limit (runner.py: the order of eligible entries in slot).   *)
THEOREM NotOvertaken == Spec => AgedNotOvertaken
  <1> DEFINE Overtakes ==
        \A c, d \in Calls :
          /\ Admit(c) /\ c # d /\ entries[d] = "queued" /\ lease[d] = "held"
          /\ \E i, j \in DOMAIN born : born[i] = d /\ born[j] = c /\ i < j /\ i <= aged
          => /\ Kind[d] = "expensive"
             /\ Cardinality(OfKind("expensive", Running)) >= Lesser(OwnExpensive[c], limits.expensive)
  <1>1. IInv => Overtakes
    <2> SUFFICES ASSUME IInv, NEW c \in Calls, NEW d \in Calls,
                        Admit(c), c # d, entries[d] = "queued", lease[d] = "held",
                        NEW i \in DOMAIN born, NEW j \in DOMAIN born,
                        born[i] = d, born[j] = c, i < j, i <= aged
                 PROVE  /\ Kind[d] = "expensive"
                        /\ Cardinality(OfKind("expensive", Running))
                             >= Lesser(OwnExpensive[c], limits.expensive)
      OBVIOUS
    <2>1. ~Before(c, d)
      <3>1. \A m \in DOMAIN born : (born[m] = c => m = j) /\ (born[m] = d => m = i)
        BY DEF IInv, BornOnce
      <3> QED BY <3>1 DEF Before, IInv, TypeOK
    <2>2. d \notin Eligible(c)
      BY <2>1 DEF Admit, Admissible
    <2>3. Live(d) /\ d \in In("queued")
      BY DEF Live, In
    <2>4. /\ Kind[d] = "expensive"
          /\ ~(Cardinality(OfKind("expensive", Running)) < Lesser(OwnExpensive[c], limits.expensive))
      BY <2>2, <2>3 DEF Eligible
    <2>5. IsFiniteSet(OfKind("expensive", Running))
      BY CallsAssumption, FS_Subset DEF OfKind, Running, In
    <2>6. Cardinality(OfKind("expensive", Running)) \in Nat
      BY <2>5, FS_CardinalityType
    <2>7. Lesser(OwnExpensive[c], limits.expensive) \in Nat
      BY LimitsAssumption DEF Lesser, IInv, TypeOK, Limits
    <2> QED BY <2>4, <2>6, <2>7
  <1>2. Overtakes => [Overtakes]_vars
    OBVIOUS
  <1> QED BY <1>1, <1>2, Invariance, PTL DEF AgedNotOvertaken
=============================================================================
