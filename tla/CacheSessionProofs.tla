------------------------- MODULE CacheSessionProofs -------------------------
(* Theorems about CacheSession, for any number of sessions, processes,      *)
(* recipes, commands and crashes.                                           *)
EXTENDS CacheSession, TLAPS

-----------------------------------------------------------------------------
(* The invariant.                                                           *)

\* Between Acquire and Unlock.
Inside == {"adopt", "sidecar", "invalidate", "stage", "artifact", "rest", "steps", "running",
           "marker", "reap", "unstage", "unlock"}

\* From Invalidate on there is no marker until the session promotes its own.
Building == {"stage", "artifact", "rest", "steps", "running", "marker"}

\* The lock is held by the one session inside; a command is owned only where it is
\* run or reaped, and what is staged is gone before the lock is.
Owned ==
    \A s \in Sessions :
      /\ pc[s] \in Inside <=> lock = s
      /\ child[s] => pc[s] \in {"running", "reap"}
      /\ pc[s] \in {"new", "acquire", "unlock"} => staged[s] = {}
      /\ pc[s] = "done" => staged[s] = {} \/ result[s] = "Crashed"

\* What the session inside has made so far.
BuiltBy(s) ==
    /\ pc[s] \in Building => marker = None
    /\ pc[s] = "running" => step[s] < Commands(s)
    /\ pc[s] = "sidecar" /\ ~orphan => env \in {"legacy", None} /\ recipe[s] \in Adopters
    /\ pc[s] = "steps" /\ step[s] = Commands(s) /\ ~orphan => Commands(s) = 0 \/ env \in {recipe[s], None}
    /\ pc[s] = "marker" => identity = recipe[s]
    /\ pc[s] = "marker" /\ ~orphan => Commands(s) = 0 \/ env \in {recipe[s], None}
Built == \A s \in Sessions : BuiltBy(s)

\* A session comes to its commands with none of them done.
Fresh ==
    \A s \in Sessions :
      pc[s] \in {"new", "acquire", "invalidate", "stage", "artifact", "rest"} => step[s] = 0

\* What a marker stands for, as long as the environment is there: with an identity
\* beside it, what that recipe made or adopted, and nothing if it has no commands;
\* with none, what was there before identities existed.
Sealed ==
    ~orphan /\ marker # None /\ env # None =>
      IF identity = None THEN env = "legacy"
      ELSE StepsOf[identity] = 0 \/ env = identity \/ (env = "legacy" /\ identity \in Adopters)

CacheInv == TypeOK /\ Owned /\ Fresh /\ Built /\ Sealed

-----------------------------------------------------------------------------
(* Types.                                                                   *)

Files == {"dir", "artifact", "identity", "marker"}
Outcomes == {"pending", "Complete", "Failed", "Crashed"}

DiskOK ==
    /\ marker \in Bytes \cup {None} /\ artifact \in Bytes \cup {None}
    /\ identity \in Recipes \cup {None}
    /\ env \in Recipes \cup {"partial", "legacy", None}

ControlOK ==
    /\ lock \in Sessions \cup {None}
    /\ pc \in [Sessions -> PCs]
    /\ recipe \in [Sessions -> Recipes]
    /\ step \in [Sessions -> Nat] /\ \A s \in Sessions : step[s] <= Commands(s)
    /\ staged \in [Sessions -> SUBSET Files]
    /\ result \in [Sessions -> Outcomes]
    /\ crashes \in 0..MaxCrashes

FlagsOK ==
    /\ child \in [Sessions -> BOOLEAN] /\ stop \in [Sessions -> BOOLEAN]
    /\ orphan \in BOOLEAN

LEMMA DiskStep == DiskOK /\ ControlOK /\ [Next]_vars => DiskOK'
<1> SUFFICES ASSUME DiskOK, ControlOK, [Next]_vars PROVE DiskOK'
  OBVIOUS
<1>0. \A s \in Sessions : /\ recipe[s] \in Recipes
                          /\ MarkerOf[recipe[s]] \in Bytes /\ ArtifactOf[recipe[s]] \in Bytes
  BY DEF ControlOK, Bytes
<1>1. CASE UNCHANGED diskVars
  BY <1>1 DEF DiskOK, diskVars
<1>2. CASE \E s \in Sessions : PromoteSidecar(s) \/ Invalidate(s) \/ PromoteArtifact(s)
  BY <1>0, <1>2 DEF DiskOK, PromoteSidecar, Invalidate, PromoteArtifact
<1>3. CASE \E s \in Sessions : SpawnStep(s) \/ StepEnds(s) \/ Publish(s) \/ PromoteMarker(s)
  BY <1>0, <1>3 DEF DiskOK, SpawnStep, StepEnds, Publish, PromoteMarker
<1>4. CASE Remove \/ OrphanWrites
  BY <1>4 DEF DiskOK, Remove, OrphanWrites
<1>5. QED
  BY <1>1, <1>2, <1>3, <1>4
     DEF Next, Provisioning, Open, Acquire, GiveUp, Adopt, StageArtifact, StageRest, StepFails,
         Reap, Unstage, Unlock, Stop, Crash, vars

LEMMA FlagsStep == FlagsOK /\ [Next]_vars => FlagsOK'
<1> SUFFICES ASSUME FlagsOK, [Next]_vars PROVE FlagsOK'
  OBVIOUS
<1>1. ASSUME NEW s \in Sessions, NEW b \in BOOLEAN, child' = [child EXCEPT ![s] = b]
      PROVE  child' \in [Sessions -> BOOLEAN]
  BY <1>1 DEF FlagsOK
<1>2. ASSUME NEW s \in Sessions, stop' = [stop EXCEPT ![s] = TRUE]
      PROVE  stop' \in [Sessions -> BOOLEAN]
  BY <1>2 DEF FlagsOK
<1>3. CASE UNCHANGED <<child, stop, orphan>>
  BY <1>3 DEF FlagsOK
<1>4. CASE \E s \in Sessions : SpawnStep(s) \/ StepEnds(s) \/ StepFails(s) \/ Reap(s)
  BY <1>1, <1>4 DEF FlagsOK, SpawnStep, StepEnds, StepFails, Reap
<1>5. CASE \E s \in Sessions : Stop(s)
  BY <1>2, <1>5 DEF FlagsOK, Stop
<1>6. CASE \E p \in Procs : Crash(p)
  <2> PICK p \in Procs : Crash(p)
    BY <1>6
  <2> DEFINE dead == {s \in Sessions : HomeOf[s] = p /\ pc[s] \notin {"new", "done"}}
  <2>1. child' = [s \in Sessions |-> child[s] /\ s \notin dead]
    BY DEF Crash
  <2> HIDE DEF dead
  <2>2. child' \in [Sessions -> BOOLEAN]
    BY <2>1
  <2>3. orphan' \in BOOLEAN
    BY DEF Crash, FlagsOK
  <2> QED BY <2>2, <2>3 DEF FlagsOK, Crash
<1>7. QED
  BY <1>3, <1>4, <1>5, <1>6
     DEF Next, Provisioning, Open, Acquire, GiveUp, Adopt, PromoteSidecar, Invalidate, StageArtifact, PromoteArtifact,
         StageRest, Publish, PromoteMarker, Unstage, Unlock, Remove, OrphanWrites, vars, sessionVars

LEMMA Going ==
    ASSUME ControlOK, NEW s \in Sessions, NEW l \in PCs, Goto(s, l)
    PROVE  pc' \in [Sessions -> PCs]
BY DEF ControlOK, Goto

LEMMA Deciding ==
    ASSUME ControlOK, NEW s \in Sessions, NEW r \in Outcomes, Decide(s, r)
    PROVE  result' \in [Sessions -> Outcomes]
BY DEF ControlOK, Decide

LEMMA StagingFiles ==
    ASSUME ControlOK, NEW s \in Sessions, NEW f \in SUBSET Files, Stage(s, f)
    PROVE  staged' \in [Sessions -> SUBSET Files]
BY DEF ControlOK, Stage

LEMMA Promoting ==
    ASSUME ControlOK, NEW s \in Sessions, NEW f, Promote(s, f)
    PROVE  staged' \in [Sessions -> SUBSET Files]
BY DEF ControlOK, Promote

LEMMA ControlStep == ControlOK /\ Built /\ [Next]_vars => ControlOK'
<1> SUFFICES ASSUME ControlOK, Built, [Next]_vars PROVE ControlOK'
  OBVIOUS
<1> DEFINE PcOK == pc \in [Sessions -> PCs] /\ result \in [Sessions -> Outcomes]
           StagedOK == staged \in [Sessions -> SUBSET Files]
<1>0. PcOK /\ StagedOK
  BY DEF ControlOK
<1>1. /\ {"acquire", "adopt", "sidecar", "invalidate", "stage", "artifact", "rest", "steps",
          "running", "marker", "reap", "unstage", "unlock", "done"} \subseteq PCs
      /\ {"Complete", "Failed", "Crashed"} \subseteq Outcomes
  BY DEF PCs, Outcomes
<1>2. ASSUME NEW s \in Sessions, NEW l \in PCs, Goto(s, l),
             UNCHANGED result \/ \E r \in Outcomes : Decide(s, r)
      PROVE  PcOK'
  BY <1>0, <1>2, Going, Deciding
<1>3. ASSUME NEW s \in Sessions, Fail(s) PROVE PcOK'
  BY <1>1, <1>2, <1>3 DEF Fail
<1>4. ASSUME NEW s \in Sessions, NEW f \in SUBSET Files, Stage(s, f) PROVE StagedOK'
  BY <1>4, StagingFiles
<1>5. ASSUME NEW s \in Sessions, NEW left \in SUBSET SUBSET Files, StagingFails(s, left)
      PROVE  PcOK' /\ StagedOK'
  BY <1>0, <1>3, <1>4, <1>5 DEF StagingFails
<1>r. UNCHANGED recipe
  BY DEF Next, vars
<1>6. ASSUME PcOK', StagedOK', UNCHANGED <<lock, step, crashes>> PROVE ControlOK'
  BY <1>6, <1>r DEF ControlOK, Commands
<1>7. ASSUME UNCHANGED staged PROVE StagedOK'
  BY <1>0, <1>7
<1>8. ASSUME UNCHANGED <<pc, result>> PROVE PcOK'
  BY <1>0, <1>8
<1>9. ASSUME NEW s \in Sessions, NEW f, Promote(s, f) PROVE StagedOK'
  BY <1>9, Promoting
<1> HIDE DEF PcOK, StagedOK
<1>11. CASE \E s \in Sessions : Open(s) \/ GiveUp(s)
  BY <1>1, <1>2, <1>6, <1>7, <1>11 DEF Open, GiveUp
<1>12. CASE \E s \in Sessions : Acquire(s)
  <2> PICK s \in Sessions : Acquire(s)
    BY <1>12
  <2>1. PcOK'
    BY <1>1, <1>2 DEF Acquire
  <2>2. lock' \in Sessions \cup {None}
    BY DEF Acquire, ControlOK
  <2> QED BY <1>7, <1>r, <2>1, <2>2 DEF Acquire, ControlOK, Commands, PcOK, StagedOK
<1>13. CASE \E s \in Sessions : Adopt(s) \/ StageArtifact(s)
  <2> PICK s \in Sessions : Adopt(s) \/ StageArtifact(s)
    BY <1>13
  <2>1. /\ {"dir", "identity"} \in SUBSET Files /\ {"dir", "artifact"} \in SUBSET Files
        /\ {"dir"} \in SUBSET Files
        /\ {{}, {"dir"}, {"dir", "identity"}} \in SUBSET SUBSET Files
        /\ {{}, {"dir"}, {"dir", "artifact"}} \in SUBSET SUBSET Files
    BY DEF Files
  <2>2. CASE Adopt(s)
    BY <1>1, <1>2, <1>4, <1>5, <1>6, <2>1, <2>2 DEF Adopt
  <2>3. CASE StageArtifact(s)
    BY <1>1, <1>2, <1>4, <1>5, <1>6, <2>1, <2>3 DEF StageArtifact
  <2> QED BY <2>2, <2>3
<1>14. CASE \E s \in Sessions : StageRest(s)
  <2> PICK s \in Sessions : StageRest(s)
    BY <1>14
  <2>1. {"identity", "marker"} \in SUBSET Files /\ {{}, {"identity"}, {"identity", "marker"}} \in SUBSET SUBSET Files
    BY DEF Files
  <2> QED BY <1>1, <1>2, <1>3, <1>4, <1>6, <2>1 DEF StageRest
<1>15. CASE \E s \in Sessions : PromoteSidecar(s) \/ PromoteArtifact(s) \/ Publish(s) \/ PromoteMarker(s)
  BY <1>1, <1>2, <1>3, <1>6, <1>7, <1>9, <1>15 DEF PromoteSidecar, PromoteArtifact, Publish, PromoteMarker
<1>16. CASE \E s \in Sessions : Invalidate(s) \/ SpawnStep(s) \/ StepFails(s)
  BY <1>1, <1>2, <1>3, <1>6, <1>7, <1>16 DEF Invalidate, SpawnStep, StepFails
<1>17. CASE \E s \in Sessions : StepEnds(s)
  <2> PICK s \in Sessions : StepEnds(s)
    BY <1>17
  <2>1. PcOK'
    BY <1>1, <1>2 DEF StepEnds
  <2>2. step[s] \in Nat /\ step[s] < Commands(s) /\ Commands(s) \in Nat
    BY CacheAssumption DEF ControlOK, Commands, StepEnds, Built, BuiltBy
  <2>3. step[s] + 1 \in Nat /\ step[s] + 1 <= Commands(s)
    BY <2>2
  <2>4. step' \in [Sessions -> Nat] /\ step'[s] <= Commands(s) /\ \A d \in Sessions \ {s} : step'[d] = step[d]
    BY <2>3 DEF ControlOK, StepEnds
  <2>5. \A d \in Sessions : step'[d] <= Commands(d)'
    BY <1>r, <2>4 DEF ControlOK, Commands
  <2> QED BY <1>7, <1>r, <2>1, <2>4, <2>5 DEF StepEnds, ControlOK, PcOK, StagedOK
<1>18. CASE \E s \in Sessions : Reap(s)
  <2> PICK s \in Sessions : Reap(s)
    BY <1>18
  <2>1. PcOK'
    <3>1. CASE Goto(s, "unstage") /\ UNCHANGED result
      BY <1>1, <1>2, <3>1
    <3>2. CASE result' = [result EXCEPT ![s] = "Failed"] /\ UNCHANGED pc
      BY <1>0, <1>1, <3>2 DEF PcOK
    <3> QED BY <3>1, <3>2 DEF Reap
  <2> QED BY <1>6, <1>7, <2>1 DEF Reap
<1>19. CASE \E s \in Sessions : Unstage(s)
  <2> PICK s \in Sessions : Unstage(s)
    BY <1>19
  <2>1. PcOK'
    <3>1. CASE Goto(s, "unlock") /\ UNCHANGED result
      BY <1>1, <1>2, <3>1
    <3>2. CASE result' = [result EXCEPT ![s] = "Failed"] /\ UNCHANGED pc
      BY <1>0, <1>1, <3>2 DEF PcOK
    <3> QED BY <3>1, <3>2 DEF Unstage
  <2>2. PICK left \in SUBSET Files : staged' = [staged EXCEPT ![s] = left]
    BY <1>0 DEF Unstage, StagedOK
  <2>3. StagedOK'
    BY <1>0, <2>2 DEF StagedOK
  <2> QED BY <1>6, <2>1, <2>3 DEF Unstage
<1>20. CASE \E s \in Sessions : Unlock(s)
  <2> PICK s \in Sessions : Unlock(s)
    BY <1>20
  <2>1. PcOK'
    BY <1>1, <1>2 DEF Unlock
  <2> QED BY <1>7, <1>r, <2>1 DEF Unlock, ControlOK, Commands, PcOK, StagedOK
<1>21. CASE (\E s \in Sessions : Stop(s)) \/ Remove \/ OrphanWrites \/ UNCHANGED vars
  BY <1>6, <1>7, <1>8, <1>21 DEF Stop, Remove, OrphanWrites, vars, sessionVars
<1>22. CASE \E p \in Procs : Crash(p)
  <2> PICK p \in Procs : Crash(p)
    BY <1>22
  <2>1. pc' \in [Sessions -> PCs] /\ result' \in [Sessions -> Outcomes]
    BY <1>1 DEF ControlOK, Crash
  <2>2. crashes' \in 0..MaxCrashes
    BY CacheAssumption DEF ControlOK, Crash
  <2>3. lock' \in Sessions \cup {None}
    BY DEF ControlOK, Crash
  <2> QED BY <1>r, <2>1, <2>2, <2>3 DEF ControlOK, Commands, Crash
<1>23. QED
  BY <1>11, <1>12, <1>13, <1>14, <1>15, <1>16, <1>17, <1>18, <1>19, <1>20, <1>21, <1>22
     DEF Next, Provisioning

-----------------------------------------------------------------------------
(* The lock and what it covers.                                             *)

\* A step of one session.
LEMMA OwnedOne ==
    ASSUME Owned, NEW s \in Sessions,
           \A d \in Sessions \ {s} : /\ pc'[d] = pc[d] /\ staged'[d] = staged[d]
                                     /\ result'[d] = result[d] /\ (child'[d] => child[d]),
           lock' = lock \/ (lock \in {None, s} /\ lock' \in {None, s}),
           pc'[s] \in Inside <=> lock' = s,
           child'[s] => pc'[s] \in {"running", "reap"},
           pc'[s] \in {"new", "acquire", "unlock", "done"} => staged'[s] = {}
    PROVE  Owned'
<1> SUFFICES ASSUME NEW d \in Sessions
             PROVE  /\ pc'[d] \in Inside <=> lock' = d
                    /\ child'[d] => pc'[d] \in {"running", "reap"}
                    /\ pc'[d] \in {"new", "acquire", "unlock"} => staged'[d] = {}
                    /\ pc'[d] = "done" => staged'[d] = {} \/ result'[d] = "Crashed"
  BY DEF Owned
<1>1. None \notin Sessions
  BY CacheAssumption
<1>2. CASE d = s
  BY <1>2
<1>3. CASE d # s
  BY <1>1, <1>3 DEF Owned
<1>4. QED
  BY <1>2, <1>3

LEMMA OwnedStep == ControlOK /\ FlagsOK /\ Owned /\ [Next]_vars => Owned'
<1> SUFFICES ASSUME ControlOK, FlagsOK, Owned, [Next]_vars PROVE Owned'
  OBVIOUS
<1>0. /\ pc \in [Sessions -> PCs] /\ staged \in [Sessions -> SUBSET Files]
      /\ result \in [Sessions -> Outcomes] /\ None \notin Sessions
  BY CacheAssumption DEF ControlOK
<1>c. child \in [Sessions -> BOOLEAN]
  BY DEF FlagsOK
<1>1. ASSUME NEW s \in Sessions, pc[s] \in Inside, NEW l \in Inside \ {"unlock"}, Goto(s, l), UNCHANGED lock,
             \A d \in Sessions \ {s} : staged'[d] = staged[d] /\ result'[d] = result[d] /\ (child'[d] => child[d]),
             child'[s] => l \in {"running", "reap"}
      PROVE  Owned'
  <2>1. pc'[s] = l /\ \A d \in Sessions \ {s} : pc'[d] = pc[d]
    BY <1>0, <1>1 DEF Goto
  <2>2. lock = s
    BY <1>1 DEF Owned
  <2>3. l \notin {"new", "acquire", "unlock", "done"}
    BY <1>1 DEF Inside
  <2> QED BY <1>1, <2>1, <2>2, <2>3, OwnedOne
<1>2. ASSUME NEW s \in Sessions, NEW r, Decide(s, r) \/ UNCHANGED result
      PROVE  \A d \in Sessions \ {s} : result'[d] = result[d]
  BY <1>0, <1>2 DEF Decide
<1>3. ASSUME NEW s \in Sessions, NEW f, Stage(s, f) \/ Promote(s, f) \/ UNCHANGED staged
      PROVE  \A d \in Sessions \ {s} : staged'[d] = staged[d]
  BY <1>0, <1>3 DEF Stage, Promote
<1>4. ASSUME NEW s \in Sessions, pc[s] \in Inside, pc[s] \notin {"running", "reap"} PROVE ~child[s]
  BY <1>4 DEF Owned
<1>5. ASSUME UNCHANGED child PROVE \A d \in Sessions : child'[d] => child[d]
  BY <1>5
<1>6. /\ {"adopt", "sidecar", "invalidate", "stage", "artifact", "rest", "steps", "running",
          "marker", "reap", "unstage"} \subseteq Inside \ {"unlock"}
      /\ "unlock" \in Inside
      /\ "new" \notin Inside /\ "acquire" \notin Inside /\ "done" \notin Inside
  BY DEF Inside
<1>7. ASSUME NEW s \in Sessions, pc[s] \in Inside, Fail(s), UNCHANGED lock,
             \A d \in Sessions \ {s} : staged'[d] = staged[d] /\ (child'[d] => child[d])
      PROVE  Owned'
  BY <1>1, <1>2, <1>6, <1>7 DEF Fail
<1>8. ASSUME NEW s \in Sessions, pc[s] \in Inside, NEW l \in Inside \ {"unlock"}, Goto(s, l), UNCHANGED <<lock, child>>,
             pc[s] \notin {"running", "reap"},
             \A d \in Sessions \ {s} : staged'[d] = staged[d] /\ result'[d] = result[d]
      PROVE  Owned'
  BY <1>1, <1>4, <1>5, <1>8
<1>11. CASE \E s \in Sessions : Open(s) \/ GiveUp(s)
  <2> PICK s \in Sessions : Open(s) \/ GiveUp(s)
    BY <1>11
  <2>1. /\ pc[s] \in {"new", "acquire"} /\ pc'[s] \in {"acquire", "done"}
        /\ \A d \in Sessions \ {s} : pc'[d] = pc[d] /\ result'[d] = result[d]
        /\ UNCHANGED <<lock, staged, child>>
    BY <1>0, <1>2 DEF Open, GiveUp, Goto
  <2>2. staged[s] = {} /\ ~child[s] /\ lock # s
    BY <1>6, <2>1 DEF Owned
  <2> QED BY <1>5, <1>6, <2>1, <2>2, OwnedOne
<1>12. CASE \E s \in Sessions : Acquire(s)
  <2> PICK s \in Sessions : Acquire(s)
    BY <1>12
  <2>1. /\ pc[s] = "acquire" /\ UNCHANGED <<staged, child>> /\ lock = None
        /\ \A d \in Sessions \ {s} : pc'[d] = pc[d] /\ result'[d] = result[d]
    BY <1>0, <1>2 DEF Acquire, Goto
  <2>2. staged[s] = {} /\ ~child[s]
    BY <2>1 DEF Owned
  <2>3. \/ lock' = s /\ pc'[s] \in {"reap", "adopt", "invalidate"}
        \/ lock' = None /\ pc'[s] = "done"
    BY <1>0, <2>1 DEF Acquire, Goto
  <2> QED BY <1>0, <1>5, <1>6, <2>1, <2>2, <2>3, OwnedOne
<1>13. CASE \E s \in Sessions : Adopt(s)
  <2> PICK s \in Sessions : Adopt(s)
    BY <1>13
  <2>1. \A d \in Sessions \ {s} : staged'[d] = staged[d]
    BY <1>3 DEF Adopt, StagingFails
  <2> QED BY <1>5, <1>6, <1>7, <1>8, <2>1 DEF Adopt, StagingFails
<1>14. CASE \E s \in Sessions : StageArtifact(s)
  <2> PICK s \in Sessions : StageArtifact(s)
    BY <1>14
  <2>1. \A d \in Sessions \ {s} : staged'[d] = staged[d]
    BY <1>3 DEF StageArtifact, StagingFails
  <2> QED BY <1>5, <1>6, <1>7, <1>8, <2>1 DEF StageArtifact, StagingFails
<1>15. CASE \E s \in Sessions : StageRest(s)
  <2> PICK s \in Sessions : StageRest(s)
    BY <1>15
  <2>1. \A d \in Sessions \ {s} : staged'[d] = staged[d]
    BY <1>3 DEF StageRest
  <2> QED BY <1>5, <1>6, <1>7, <1>8, <2>1 DEF StageRest
<1>16. CASE \E s \in Sessions : PromoteSidecar(s)
  BY <1>2, <1>3, <1>5, <1>6, <1>7, <1>8, <1>16 DEF PromoteSidecar
<1>17. CASE \E s \in Sessions : PromoteArtifact(s)
  BY <1>2, <1>3, <1>5, <1>6, <1>7, <1>8, <1>17 DEF PromoteArtifact
<1>18. CASE \E s \in Sessions : Publish(s)
  BY <1>2, <1>3, <1>5, <1>6, <1>7, <1>8, <1>18 DEF Publish
<1>19. CASE \E s \in Sessions : PromoteMarker(s)
  BY <1>2, <1>3, <1>5, <1>6, <1>7, <1>8, <1>19 DEF PromoteMarker
<1>20. CASE \E s \in Sessions : Invalidate(s)
  BY <1>2, <1>3, <1>5, <1>6, <1>7, <1>8, <1>20 DEF Invalidate
<1>21. CASE \E s \in Sessions : SpawnStep(s)
  <2> PICK s \in Sessions : SpawnStep(s)
    BY <1>21
  <2>1. CASE Fail(s) /\ UNCHANGED child
    BY <1>5, <1>6, <1>7, <2>1 DEF SpawnStep
  <2>2. CASE Goto(s, "running") /\ UNCHANGED result /\ child' = [child EXCEPT ![s] = TRUE]
    <3>1. \A d \in Sessions \ {s} : child'[d] => child[d]
      BY <1>c, <2>2
    <3> QED BY <1>1, <1>6, <2>2, <3>1 DEF SpawnStep
  <2> QED BY <2>1, <2>2 DEF SpawnStep
<1>22. CASE \E s \in Sessions : StepEnds(s)
  <2> PICK s \in Sessions : StepEnds(s)
    BY <1>22
  <2>1. ~child'[s] /\ \A d \in Sessions \ {s} : child'[d] => child[d]
    BY <1>c DEF StepEnds
  <2> QED BY <1>1, <1>6, <2>1 DEF StepEnds
<1>23. CASE \E s \in Sessions : StepFails(s)
  <2> PICK s \in Sessions : StepFails(s)
    BY <1>23
  <2>1. \A d \in Sessions \ {s} : child'[d] => child[d]
    BY <1>c DEF StepFails
  <2> QED BY <1>6, <1>7, <2>1 DEF StepFails
<1>24. CASE \E s \in Sessions : Reap(s)
  <2> PICK s \in Sessions : Reap(s)
    BY <1>24
  <2>1. CASE child' = [child EXCEPT ![s] = FALSE] /\ Goto(s, "unstage") /\ UNCHANGED result
    <3>1. ~child'[s] /\ \A d \in Sessions \ {s} : child'[d] => child[d]
      BY <1>c, <2>1
    <3> QED BY <1>1, <1>6, <2>1, <3>1 DEF Reap
  <2>2. CASE result' = [result EXCEPT ![s] = "Failed"] /\ UNCHANGED <<child, pc>>
    <3>1. /\ \A d \in Sessions \ {s} : result'[d] = result[d]
          /\ pc[s] = "reap" /\ lock' = lock
      BY <1>0, <2>2 DEF Reap
    <3>2. lock = s
      BY <1>6, <3>1 DEF Owned
    <3> QED BY <1>5, <1>6, <2>2, <3>1, <3>2, OwnedOne DEF Reap
  <2> QED BY <2>1, <2>2 DEF Reap
<1>25. CASE \E s \in Sessions : Unstage(s)
  <2> PICK s \in Sessions : Unstage(s)
    BY <1>25
  <2>1. /\ pc[s] = "unstage" /\ UNCHANGED <<lock, child>>
        /\ \A d \in Sessions \ {s} : result'[d] = result[d] /\ pc'[d] = pc[d] /\ staged'[d] = staged[d]
        /\ pc'[s] = "unstage" \/ (pc'[s] = "unlock" /\ staged'[s] = {})
    BY <1>0 DEF Unstage, Goto
  <2>2. lock = s /\ ~child[s]
    BY <1>6, <2>1 DEF Owned
  <2> QED BY <1>5, <1>6, <2>1, <2>2, OwnedOne
<1>26. CASE \E s \in Sessions : Unlock(s)
  <2> PICK s \in Sessions : Unlock(s)
    BY <1>26
  <2>1. /\ pc[s] = "unlock" /\ lock' = None /\ UNCHANGED <<staged, child, result>>
        /\ pc'[s] = "done" /\ \A d \in Sessions \ {s} : pc'[d] = pc[d]
    BY <1>0 DEF Unlock, Goto
  <2>2. lock = s /\ ~child[s] /\ staged[s] = {}
    BY <1>6, <2>1 DEF Owned
  <2> QED BY <1>0, <1>5, <1>6, <2>1, <2>2, OwnedOne
<1>27. CASE (\E s \in Sessions : Stop(s)) \/ Remove \/ OrphanWrites \/ UNCHANGED vars
  <2>1. UNCHANGED <<pc, lock, child, staged, result>>
    BY <1>27 DEF Stop, Remove, OrphanWrites, vars, sessionVars
  <2> QED BY <2>1 DEF Owned
<1>28. CASE \E p \in Procs : Crash(p)
  <2> PICK p \in Procs : Crash(p)
    BY <1>28
  <2> DEFINE dead == {s \in Sessions : HomeOf[s] = p /\ pc[s] \notin {"new", "done"}}
  <2>1. /\ pc' = [s \in Sessions |-> IF s \in dead THEN "done" ELSE pc[s]]
        /\ result' = [s \in Sessions |-> IF s \in dead THEN "Crashed" ELSE result[s]]
        /\ child' = [s \in Sessions |-> child[s] /\ s \notin dead]
        /\ lock' = IF lock \in dead THEN None ELSE lock
        /\ UNCHANGED staged
    BY DEF Crash
  <2> HIDE DEF dead
  <2> SUFFICES ASSUME NEW d \in Sessions
               PROVE  /\ pc'[d] \in Inside <=> lock' = d
                      /\ child'[d] => pc'[d] \in {"running", "reap"}
                      /\ pc'[d] \in {"new", "acquire", "unlock"} => staged'[d] = {}
                      /\ pc'[d] = "done" => staged'[d] = {} \/ result'[d] = "Crashed"
    BY DEF Owned
  <2>2. CASE d \in dead
    <3>1. pc'[d] = "done" /\ result'[d] = "Crashed" /\ ~child'[d] /\ lock' # d
      BY <1>0, <2>1, <2>2
    <3> QED BY <1>6, <3>1
  <2>3. CASE d \notin dead
    <3>1. pc'[d] = pc[d] /\ result'[d] = result[d] /\ (child'[d] => child[d]) /\ (lock' = d <=> lock = d)
      BY <1>0, <2>1, <2>3
    <3> QED BY <2>1, <3>1 DEF Owned
  <2> QED BY <2>2, <2>3
<1>29. QED
  BY <1>11, <1>12, <1>13, <1>14, <1>15, <1>16, <1>17, <1>18, <1>19, <1>20, <1>21, <1>22, <1>23,
     <1>24, <1>25, <1>26, <1>27, <1>28 DEF Next, Provisioning

-----------------------------------------------------------------------------
(* What a marker stands for.                                                *)

\* Only the session inside has built anything.
LEMMA BuiltOne ==
    ASSUME Owned', NEW s \in Sessions, lock' \in {s, None}, BuiltBy(s)'
    PROVE  Built'
<1> SUFFICES ASSUME NEW d \in Sessions, d # s PROVE BuiltBy(d)'
  BY DEF Built
<1>1. pc'[d] \notin Inside
  BY CacheAssumption DEF Owned
<1>2. QED
  BY <1>1 DEF BuiltBy, Inside, Building

LEMMA FreshStep == ControlOK /\ Fresh /\ [Next]_vars => Fresh'
<1> SUFFICES ASSUME ControlOK, Fresh, [Next]_vars PROVE Fresh'
  OBVIOUS
<1>1. ASSUME NEW s \in Sessions, NEW l, Goto(s, l), UNCHANGED step,
             l \in {"new", "acquire", "invalidate", "stage", "artifact", "rest"} => step[s] = 0
      PROVE  Fresh'
  BY <1>1 DEF Fresh, Goto, ControlOK
<1>2. ASSUME UNCHANGED <<pc, step>> PROVE Fresh'
  BY <1>2 DEF Fresh
<1>3. CASE \E s \in Sessions : Open(s) \/ Acquire(s) \/ GiveUp(s)
  BY <1>1, <1>3 DEF Open, Acquire, GiveUp, Fresh
<1>4. CASE \E s \in Sessions : Adopt(s) \/ PromoteSidecar(s) \/ Invalidate(s) \/ StageArtifact(s) \/ PromoteArtifact(s)
  BY <1>1, <1>4
     DEF Adopt, PromoteSidecar, Invalidate, StageArtifact, PromoteArtifact, StagingFails, Fail, Fresh
<1>5. CASE \E s \in Sessions : StageRest(s) \/ SpawnStep(s) \/ StepFails(s) \/ Publish(s) \/ PromoteMarker(s)
  BY <1>1, <1>5 DEF StageRest, SpawnStep, StepFails, Publish, PromoteMarker, Fail
<1>6. CASE \E s \in Sessions : Reap(s) \/ Unstage(s) \/ Unlock(s)
  BY <1>1, <1>2, <1>6 DEF Reap, Unstage, Unlock
<1>7. CASE (\E s \in Sessions : Stop(s)) \/ Remove \/ OrphanWrites \/ UNCHANGED vars
  BY <1>2, <1>7 DEF Stop, Remove, OrphanWrites, vars, sessionVars
<1>8. CASE \E s \in Sessions : StepEnds(s)
  <2> PICK s \in Sessions : StepEnds(s)
    BY <1>8
  <2>1. pc'[s] = "steps" /\ \A d \in Sessions \ {s} : pc'[d] = pc[d] /\ step'[d] = step[d]
    BY DEF StepEnds, Goto, ControlOK
  <2> QED BY <2>1 DEF Fresh
<1>9. CASE \E p \in Procs : Crash(p)
  BY <1>9 DEF Crash, Fresh
<1>10. QED
  BY <1>3, <1>4, <1>5, <1>6, <1>7, <1>8, <1>9 DEF Next, Provisioning

LEMMA BuiltStep ==
    /\ DiskOK /\ ControlOK /\ FlagsOK /\ Owned /\ Fresh /\ Built /\ Sealed
    /\ [Next]_vars /\ Owned'
    => Built' /\ Sealed'
<1> SUFFICES ASSUME DiskOK, ControlOK, FlagsOK, Owned, Fresh, Built, Sealed, [Next]_vars, Owned'
             PROVE  Built' /\ Sealed'
  OBVIOUS
<1>0. /\ pc \in [Sessions -> PCs] /\ step \in [Sessions -> Nat] /\ None \notin Sessions
      /\ \A s \in Sessions : recipe[s] \in Recipes
      /\ None \notin Recipes /\ "legacy" \notin Recipes /\ "partial" \notin Recipes
      /\ "legacy" # None /\ "partial" # None
  BY CacheAssumption DEF ControlOK
<1>a. \A s \in Sessions : MarkerOf[recipe[s]] # None /\ Commands(s) \in Nat
  BY <1>0, CacheAssumption DEF Commands
<1>r. recipe' = recipe
  BY DEF Next, vars
<1>c. \A s \in Sessions : Commands(s)' = Commands(s)
  BY <1>r DEF Commands
<1>1. ASSUME UNCHANGED <<diskVars, orphan>> PROVE Sealed'
  BY <1>1 DEF Sealed, diskVars
<1>2. ASSUME NEW s \in Sessions, pc[s] \in Inside PROVE lock = s
  BY <1>2 DEF Owned
<1>3. Inside = {"adopt", "sidecar", "invalidate", "stage", "artifact", "rest", "steps", "running",
                "marker", "reap", "unstage", "unlock"}
  BY DEF Inside
<1>4. Building = {"stage", "artifact", "rest", "steps", "running", "marker"}
  BY DEF Building
<1>5. ASSUME NEW s \in Sessions, NEW l, Goto(s, l) PROVE pc'[s] = l
  BY <1>0, <1>5 DEF Goto
<1>6. ASSUME NEW s \in Sessions, pc[s] \in Inside, Fail(s), UNCHANGED lock PROVE Built'
  <2>1. pc'[s] = "reap"
    BY <1>5, <1>6 DEF Fail
  <2>2. BuiltBy(s)'
    BY <1>4, <2>1 DEF BuiltBy
  <2> QED BY <1>2, <1>6, <2>2, BuiltOne
<1>7. ASSUME UNCHANGED <<pc, diskVars, step, orphan>> PROVE Built'
  BY <1>7, <1>r, <1>c DEF Built, BuiltBy, diskVars
<1>11. CASE \E s \in Sessions : Open(s) \/ GiveUp(s)
  <2> PICK s \in Sessions : Open(s) \/ GiveUp(s)
    BY <1>11
  <2>1. /\ pc'[s] \in {"acquire", "done"} /\ UNCHANGED <<diskVars, step, orphan>>
        /\ \A d \in Sessions \ {s} : pc'[d] = pc[d]
    BY <1>0 DEF Open, GiveUp, Goto
  <2>2. Built'
    BY <1>4, <1>r, <1>c, <2>1 DEF Built, BuiltBy, diskVars
  <2> QED BY <1>1, <2>1, <2>2
<1>12. CASE \E s \in Sessions : Acquire(s)
  <2> PICK s \in Sessions : Acquire(s)
    BY <1>12
  <2>1. /\ pc'[s] \in {"reap", "adopt", "invalidate", "done"} /\ UNCHANGED <<diskVars, step, orphan>>
        /\ \A d \in Sessions \ {s} : pc'[d] = pc[d]
    BY <1>0 DEF Acquire, Goto
  <2>2. Built'
    BY <1>4, <1>r, <1>c, <2>1 DEF Built, BuiltBy, diskVars
  <2> QED BY <1>1, <2>1, <2>2
<1>13. CASE \E s \in Sessions : Adopt(s)
  <2> PICK s \in Sessions : Adopt(s)
    BY <1>13
  <2>1. Sealed' /\ pc[s] \in Inside /\ UNCHANGED <<lock, diskVars, orphan>>
    BY <1>1, <1>3 DEF Adopt
  <2>2. CASE Fail(s)
    BY <1>6, <2>1, <2>2
  <2>3. CASE Readiness(recipe[s]) = "Legacy" /\ Goto(s, "sidecar")
    <3>1. /\ marker = MarkerOf[recipe[s]] /\ identity = None /\ recipe[s] \in Adopters
      BY <2>3 DEF Readiness
    <3>2. ~orphan => env \in {"legacy", None}
      BY <1>a, <3>1 DEF Sealed
    <3>3. pc'[s] = "sidecar"
      BY <1>5, <2>3
    <3>4. BuiltBy(s)'
      BY <1>4, <1>r, <2>1, <3>1, <3>2, <3>3 DEF BuiltBy, diskVars
    <3> QED BY <1>2, <2>1, <3>4, BuiltOne
  <2> QED BY <2>2, <2>3 DEF Adopt, StagingFails
<1>14. CASE \E s \in Sessions : PromoteSidecar(s)
  <2> PICK s \in Sessions : PromoteSidecar(s)
    BY <1>14
  <2>1. pc[s] = "sidecar" /\ pc[s] \in Inside /\ UNCHANGED <<lock, orphan, marker, artifact, env>>
    BY <1>3 DEF PromoteSidecar
  <2>2. CASE Fail(s) /\ UNCHANGED identity
    BY <1>1, <1>6, <2>1, <2>2 DEF diskVars
  <2>3. CASE identity' = recipe[s] /\ Goto(s, "reap")
    <3>1. pc'[s] = "reap" /\ BuiltBy(s)'
      BY <1>4, <1>5, <2>3 DEF BuiltBy
    <3>2. Sealed'
      BY <1>0, <2>1, <2>3 DEF Sealed, Built, BuiltBy
    <3> QED BY <1>2, <2>1, <3>1, <3>2, BuiltOne
  <2> QED BY <2>2, <2>3 DEF PromoteSidecar
<1>15. CASE \E s \in Sessions : Invalidate(s)
  <2> PICK s \in Sessions : Invalidate(s)
    BY <1>15
  <2>1. pc[s] \in Inside /\ UNCHANGED <<lock, orphan, identity, artifact, env>>
    BY <1>3 DEF Invalidate
  <2>2. CASE Fail(s) /\ UNCHANGED marker
    BY <1>1, <1>6, <2>1, <2>2 DEF diskVars
  <2>3. CASE marker' = None /\ Goto(s, "stage")
    <3>1. pc'[s] = "stage"
      BY <1>5, <2>3
    <3>2. BuiltBy(s)' /\ Sealed'
      BY <2>3, <3>1 DEF BuiltBy, Sealed
    <3> QED BY <1>2, <2>1, <3>2, BuiltOne
  <2> QED BY <2>2, <2>3 DEF Invalidate
<1>16. CASE \E s \in Sessions : StageArtifact(s) \/ StageRest(s)
  <2> PICK s \in Sessions : StageArtifact(s) \/ StageRest(s)
    BY <1>16
  <2>1. /\ pc[s] \in {"stage", "rest"} /\ pc[s] \in Inside
        /\ UNCHANGED <<lock, orphan, diskVars, step>> /\ Sealed'
    BY <1>1, <1>3 DEF StageArtifact, StageRest
  <2>2. CASE Fail(s)
    BY <1>6, <2>1, <2>2
  <2>3. CASE StageArtifact(s) /\ Goto(s, "artifact")
    <3>1. pc'[s] = "artifact" /\ marker = None
      BY <1>4, <1>5, <2>1, <2>3 DEF Built, BuiltBy
    <3>2. BuiltBy(s)'
      BY <2>1, <3>1 DEF BuiltBy, diskVars
    <3> QED BY <1>2, <2>1, <3>2, BuiltOne
  <2>4. CASE StageArtifact(s) /\ Goto(s, "rest")
    <3>1. pc'[s] = "rest" /\ marker = None
      BY <1>4, <1>5, <2>1, <2>4 DEF Built, BuiltBy
    <3>2. BuiltBy(s)'
      BY <2>1, <3>1 DEF BuiltBy, diskVars
    <3> QED BY <1>2, <2>1, <3>2, BuiltOne
  <2>5. CASE StageRest(s) /\ Goto(s, "steps")
    <3>1. pc'[s] = "steps" /\ marker = None
      BY <1>4, <1>5, <2>1, <2>5 DEF Built, BuiltBy
    <3>2. step[s] = 0
      BY <1>0, <2>5 DEF StageRest, Fresh
    <3>3. BuiltBy(s)'
      BY <1>c, <2>1, <3>1, <3>2 DEF BuiltBy, diskVars
    <3> QED BY <1>2, <2>1, <3>3, BuiltOne
  <2> QED BY <2>2, <2>3, <2>4, <2>5 DEF StageArtifact, StageRest, StagingFails
<1>17. CASE \E s \in Sessions : PromoteArtifact(s)
  <2> PICK s \in Sessions : PromoteArtifact(s)
    BY <1>17
  <2>1. pc[s] = "artifact" /\ pc[s] \in Inside /\ UNCHANGED <<lock, orphan, marker, identity, env>>
    BY <1>3 DEF PromoteArtifact
  <2>2. marker = None
    BY <1>4, <2>1 DEF Built, BuiltBy
  <2>3. Sealed'
    BY <2>1, <2>2 DEF Sealed
  <2>4. CASE Fail(s)
    BY <1>6, <2>1, <2>3, <2>4
  <2>5. CASE Goto(s, "rest")
    <3>1. pc'[s] = "rest"
      BY <1>5, <2>5
    <3>2. BuiltBy(s)'
      BY <2>1, <2>2, <3>1 DEF BuiltBy
    <3> QED BY <1>2, <2>1, <2>3, <3>2, BuiltOne
  <2> QED BY <2>4, <2>5 DEF PromoteArtifact
<1>18. CASE \E s \in Sessions : SpawnStep(s)
  <2> PICK s \in Sessions : SpawnStep(s)
    BY <1>18
  <2>1. /\ pc[s] = "steps" /\ pc[s] \in Inside /\ step[s] < Commands(s)
        /\ UNCHANGED <<lock, orphan, marker, identity, artifact, step>>
    BY <1>3 DEF SpawnStep
  <2>2. marker = None
    BY <1>4, <2>1 DEF Built, BuiltBy
  <2>3. Sealed'
    BY <2>1, <2>2 DEF Sealed
  <2>4. CASE Fail(s)
    BY <1>6, <2>1, <2>3, <2>4
  <2>5. CASE Goto(s, "running")
    <3>1. pc'[s] = "running"
      BY <1>5, <2>5
    <3>2. BuiltBy(s)'
      BY <1>c, <2>1, <2>2, <3>1 DEF BuiltBy
    <3> QED BY <1>2, <2>1, <2>3, <3>2, BuiltOne
  <2> QED BY <2>4, <2>5 DEF SpawnStep
<1>19. CASE \E s \in Sessions : StepEnds(s)
  <2> PICK s \in Sessions : StepEnds(s)
    BY <1>19
  <2>1. /\ pc[s] = "running" /\ pc[s] \in Inside /\ UNCHANGED <<lock, orphan, marker, identity>>
    BY <1>3 DEF StepEnds
  <2>2. marker = None
    BY <1>4, <2>1 DEF Built, BuiltBy
  <2>3. Sealed'
    BY <2>1, <2>2 DEF Sealed
  <2>4. pc'[s] = "steps" /\ step'[s] = step[s] + 1
    BY <1>0, <1>5 DEF StepEnds
  <2>5. step'[s] = Commands(s) => env' \in {recipe[s], None}
    BY <2>4 DEF StepEnds
  <2>6. BuiltBy(s)'
    BY <1>r, <1>c, <2>1, <2>2, <2>4, <2>5 DEF BuiltBy
  <2> QED BY <1>2, <2>1, <2>3, <2>6, BuiltOne
<1>20. CASE \E s \in Sessions : StepFails(s)
  BY <1>1, <1>3, <1>6, <1>20 DEF StepFails
<1>21. CASE \E s \in Sessions : Publish(s)
  <2> PICK s \in Sessions : Publish(s)
    BY <1>21
  <2>1. /\ pc[s] = "steps" /\ pc[s] \in Inside /\ step[s] = Commands(s)
        /\ UNCHANGED <<lock, orphan, marker, artifact, env>>
    BY <1>3 DEF Publish
  <2>2. marker = None
    BY <1>4, <2>1 DEF Built, BuiltBy
  <2>3. Sealed'
    BY <2>1, <2>2 DEF Sealed
  <2>4. CASE Fail(s)
    BY <1>6, <2>1, <2>3, <2>4
  <2>5. CASE identity' = recipe[s] /\ Goto(s, "marker")
    <3>1. pc'[s] = "marker"
      BY <1>5, <2>5
    <3>2. ~orphan => Commands(s) = 0 \/ env \in {recipe[s], None}
      BY <2>1 DEF Built, BuiltBy
    <3>3. BuiltBy(s)'
      BY <1>r, <1>c, <2>1, <2>2, <2>5, <3>1, <3>2 DEF BuiltBy
    <3> QED BY <1>2, <2>1, <2>3, <3>3, BuiltOne
  <2> QED BY <2>4, <2>5 DEF Publish
<1>22. CASE \E s \in Sessions : PromoteMarker(s)
  <2> PICK s \in Sessions : PromoteMarker(s)
    BY <1>22
  <2>1. /\ pc[s] = "marker" /\ pc[s] \in Inside /\ UNCHANGED <<lock, orphan, identity, artifact, env>>
    BY <1>3 DEF PromoteMarker
  <2>2. identity = recipe[s] /\ (~orphan => StepsOf[recipe[s]] = 0 \/ env \in {recipe[s], None})
    BY <2>1 DEF Built, BuiltBy, Commands
  <2>3. Sealed'
    BY <1>0, <2>1, <2>2 DEF Sealed
  <2>4. CASE Fail(s)
    BY <1>6, <2>1, <2>3, <2>4
  <2>5. CASE Goto(s, "reap")
    <3>1. pc'[s] = "reap"
      BY <1>5, <2>5
    <3>2. BuiltBy(s)'
      BY <1>4, <3>1 DEF BuiltBy
    <3> QED BY <1>2, <2>1, <2>3, <3>2, BuiltOne
  <2> QED BY <2>4, <2>5 DEF PromoteMarker
<1>23. CASE \E s \in Sessions : Reap(s) \/ Unstage(s) \/ Unlock(s)
  <2> PICK s \in Sessions : Reap(s) \/ Unstage(s) \/ Unlock(s)
    BY <1>23
  <2>1. /\ pc[s] \in Inside /\ UNCHANGED <<orphan, diskVars>> /\ lock' \in {lock, None}
        /\ pc'[s] \in {"reap", "unstage", "unlock", "done"}
    BY <1>0, <1>3, <1>5 DEF Reap, Unstage, Unlock
  <2>2. BuiltBy(s)'
    BY <1>4, <2>1 DEF BuiltBy
  <2> QED BY <1>1, <1>2, <2>1, <2>2, BuiltOne
<1>24. CASE (\E s \in Sessions : Stop(s)) \/ UNCHANGED vars
  BY <1>1, <1>7, <1>24 DEF Stop, vars, sessionVars
<1>25. CASE Remove
  <2>1. lock = None /\ lock' = None /\ UNCHANGED <<marker, identity, orphan>>
    BY <1>25 DEF Remove
  <2>2. \A s \in Sessions : pc'[s] \notin Inside
    BY <1>0, <2>1 DEF Owned
  <2>3. Built'
    BY <1>3, <1>4, <2>2 DEF Built, BuiltBy
  <2>4. Sealed'
    BY <1>25, <2>1 DEF Sealed, Remove
  <2> QED BY <2>3, <2>4
<1>26. CASE OrphanWrites
  <2>1. orphan' /\ UNCHANGED <<marker, identity, artifact, pc, step>>
    BY <1>26 DEF OrphanWrites, sessionVars
  <2> QED BY <1>c, <1>r, <2>1 DEF Built, BuiltBy, Sealed
<1>27. CASE \E p \in Procs : Crash(p)
  <2> PICK p \in Procs : Crash(p)
    BY <1>27
  <2>1. /\ UNCHANGED <<diskVars, step>> /\ (orphan => orphan')
        /\ \A s \in Sessions : pc'[s] \in {pc[s], "done"}
    BY DEF Crash
  <2>2. Sealed'
    BY <2>1 DEF Sealed, diskVars
  <2>3. ASSUME NEW s \in Sessions PROVE BuiltBy(s)'
    <3>1. CASE pc'[s] = "done"
      BY <1>4, <3>1 DEF BuiltBy
    <3>2. CASE pc'[s] = pc[s]
      BY <1>c, <1>r, <2>1, <3>2 DEF Built, BuiltBy, diskVars
    <3> QED BY <2>1, <3>1, <3>2
  <2> QED BY <2>2, <2>3 DEF Built
<1>28. QED
  BY <1>11, <1>12, <1>13, <1>14, <1>15, <1>16, <1>17, <1>18, <1>19, <1>20, <1>21, <1>22, <1>23,
     <1>24, <1>25, <1>26, <1>27 DEF Next, Provisioning

-----------------------------------------------------------------------------
(* The theorems.                                                            *)

LEMMA CacheTypes == TypeOK <=> DiskOK /\ ControlOK /\ FlagsOK
<1>1. TypeOK => DiskOK /\ ControlOK
  BY DEF TypeOK, DiskOK, ControlOK, Files, Outcomes
<1>2. TypeOK => FlagsOK
  BY Zenon DEF TypeOK, FlagsOK
<1>3. ASSUME DiskOK, ControlOK, FlagsOK PROVE TypeOK
  <2>1. /\ lock \in Sessions \cup {None} /\ recipe \in [Sessions -> Recipes] /\ pc \in [Sessions -> PCs]
        /\ step \in [Sessions -> Nat] /\ \A s \in Sessions : step[s] <= Commands(s)
        /\ staged \in [Sessions -> SUBSET {"dir", "artifact", "identity", "marker"}]
        /\ result \in [Sessions -> {"pending", "Complete", "Failed", "Crashed"}]
        /\ crashes \in 0..MaxCrashes
    BY <1>3 DEF ControlOK, Files, Outcomes
  <2> QED BY <1>3, <2>1, Zenon DEF TypeOK, DiskOK, FlagsOK
<1>4. QED
  BY <1>1, <1>2, <1>3

LEMMA CacheInitial == Init => CacheInv
<1> SUFFICES ASSUME Init PROVE CacheInv
  OBVIOUS
<1> USE CacheAssumption DEF Init
<1>1. DiskOK
  BY DEF DiskOK, Bytes
<1>2. ControlOK
  BY DEF ControlOK, Commands, PCs, Files, Outcomes
<1>3. FlagsOK
  BY DEF FlagsOK
<1>4. Owned
  BY DEF Owned, Inside
<1>5. Fresh /\ Built
  BY DEF Fresh, Built, BuiltBy, Building
<1>6. Sealed
  BY DEF Sealed
<1>7. QED
  BY <1>1, <1>2, <1>3, <1>4, <1>5, <1>6, CacheTypes DEF CacheInv

LEMMA CacheStep == CacheInv /\ [Next]_vars => CacheInv'
<1> SUFFICES ASSUME CacheInv, [Next]_vars PROVE CacheInv'
  OBVIOUS
<1>1. DiskOK /\ ControlOK /\ FlagsOK /\ Owned /\ Fresh /\ Built /\ Sealed
  BY CacheTypes DEF CacheInv
<1>2. DiskOK' /\ ControlOK' /\ FlagsOK' /\ Owned' /\ Fresh'
  BY <1>1, DiskStep, ControlStep, FlagsStep, OwnedStep, FreshStep
<1>3. Built' /\ Sealed'
  BY <1>1, <1>2, BuiltStep
<1>4. TypeOK'
  <2>1. (TypeOK <=> DiskOK /\ ControlOK /\ FlagsOK)'
    BY CacheTypes, PTL
  <2> QED BY <1>2, <2>1
<1>5. QED
  BY <1>2, <1>3, <1>4 DEF CacheInv

\* Every state of the sessions and of the cache on disk is well typed.
THEOREM CacheTypeCorrect == Spec => []TypeOK
<1>1. CacheInv => TypeOK
  BY DEF CacheInv
<1>2. QED
  BY <1>1, CacheInitial, CacheStep, PTL DEF Spec

\* Cleanup order: however a session ends, and however often its cleanup fails, the
\* cache lock is not released over a command group or over staging of its own.
THEOREM CacheLockCoversOwned == Spec => []LockCoversOwned
<1>1. CacheInv => LockCoversOwned
  <2> SUFFICES ASSUME CacheInv, NEW s \in Sessions,
                      child[s] \/ (staged[s] # {} /\ result[s] # "Crashed")
               PROVE  lock = s
    BY DEF LockCoversOwned
  <2>1. pc[s] \in PCs /\ (pc[s] \in PCs => pc[s] \in Inside \/ pc[s] \in {"new", "acquire", "done"})
    BY DEF CacheInv, TypeOK, PCs, Inside
  <2>2. pc[s] \in Inside
    BY <2>1 DEF CacheInv, Owned, Inside
  <2> QED BY <2>2 DEF CacheInv, Owned
<1>2. QED
  BY <1>1, CacheInitial, CacheStep, PTL DEF Spec

\* readiness: for a recipe with commands, an environment that it calls a hit was made
\* by all of them or was adopted, however sessions of other recipes, those without
\* commands included, failed, crashed or were stopped before.
THEOREM CacheHitsAreWhole == Spec => []HitsAreWhole
<1>1. CacheInv => HitsAreWhole
  <2> SUFFICES ASSUME CacheInv, ~orphan, NEW r \in Recipes, Readiness(r) = "Cached", StepsOf[r] # 0
               PROVE  env = r \/ (env = "legacy" /\ r \in Adopters) \/ Dispensed(r)
    BY DEF HitsAreWhole
  <2>1. marker = MarkerOf[r] /\ (r \in Requiring => env # None) /\ identity = r
    BY DEF Readiness, Present
  <2>2. marker # None /\ identity # None
    BY <2>1, CacheAssumption
  <2> QED BY <2>1, <2>2 DEF CacheInv, Sealed, Dispensed
<1>2. QED
  BY <1>1, CacheInitial, CacheStep, PTL DEF Spec

\* adopt_legacy: a cache that some recipe left half made is never adopted as one from
\* before identities existed.
THEOREM CacheNeverAdoptsFailed == Spec => []NeverAdoptsFailed
<1>1. CacheInv => NeverAdoptsFailed
  <2> SUFFICES ASSUME CacheInv, ~orphan, NEW r \in Recipes, Readiness(r) = "Legacy"
               PROVE  env = "legacy" \/ Dispensed(r)
    BY DEF NeverAdoptsFailed
  <2>1. marker = MarkerOf[r] /\ (r \in Requiring => env # None) /\ identity = None
    BY DEF Readiness, Present
  <2>2. marker # None
    BY <2>1, CacheAssumption
  <2> QED BY <2>1, <2>2 DEF CacheInv, Sealed, Dispensed
<1>2. QED
  BY <1>1, CacheInitial, CacheStep, PTL DEF Spec
=============================================================================
