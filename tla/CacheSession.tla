---------------------------- MODULE CacheSession ----------------------------
(* The persistent cache of prepared environments: Session of                *)
(* worker/cache/mod.rs with its file operations and its staging directory,  *)
(* driven by prepare_cache and provision_cache of worker/actor.rs, for the  *)
(* recipes of one scope that publish one marker.                            *)
(*                                                                          *)
(* A session belongs to one supervisor of some process; sessions meet only  *)
(* on the disk, under the cache lock.  pc is the file operation or await    *)
(* that comes next, so that a crash can fall between any two.               *)
EXTENDS Integers

CONSTANTS
    Sessions,       \* attempts to prepare the cache, each made once
    Procs,          \* processes that share the scope
    HomeOf,         \* HomeOf[s]: the process of s
    Recipes,
    MarkerOf,       \* MarkerOf[r]: the bytes of the readiness marker of r
    ArtifactOf,     \* ArtifactOf[r]: the bytes of its artifact, None if it has none
    Requiring,      \* the recipes that list the entry they make as required
    Adopters,       \* the recipes with CacheAdoptionPolicy::AdoptVerifiedLegacy
    StepsOf,        \* StepsOf[r]: the number of its commands, which may be none
    MaxCrashes,     \* bound: process crashes
    None

Bytes == {MarkerOf[r] : r \in Recipes} \cup {ArtifactOf[r] : r \in Recipes}

ASSUME CacheAssumption ==
    /\ \A s \in Sessions : HomeOf[s] \in Procs
    /\ Adopters \subseteq Recipes /\ Requiring \subseteq Recipes
    /\ \A r \in Recipes : StepsOf[r] \in Nat /\ MarkerOf[r] # None
    /\ MaxCrashes \in Nat
    /\ None \notin Sessions \cup Recipes
    /\ {"partial", "legacy"} \cap (Recipes \cup {None}) = {}

VARIABLES
    marker,    \* the bytes of the marker, or None
    identity,  \* the recipe whose digest is in the sidecar, or None
    artifact,  \* the bytes of the artifact, or None
    env,       \* what the commands made, or None
    lock,      \* the session that holds the cache lock
    recipe,    \* recipe[s]: the recipe that s is made with
    pc,
    step,      \* step[s]: commands of the recipe that have succeeded
    child,     \* child[s]: the group of a command, owned by the supervisor
    staged,    \* staged[s]: the staging directory and the files in it
    stop,      \* stop[s]: the stop channel of the supervisor
    result,    \* result[s]: the outcome of prepare_cache
    orphan,    \* a command has outlived the process that ran it
    crashes

diskVars == <<marker, identity, artifact, env>>
sessionVars == <<pc, step, child, staged, stop, result>>
vars == <<diskVars, lock, recipe, sessionVars, orphan, crashes>>

PCs == {"new", "acquire", "adopt", "sidecar", "invalidate", "stage", "artifact", "rest",
        "steps", "running", "marker", "reap", "unstage", "unlock", "done"}

Init ==
    \* nothing, or a complete cache from before recipe identities existed
    /\ \/ marker = None /\ artifact = None /\ env = None
       \/ \E r \in Recipes : marker = MarkerOf[r] /\ artifact = ArtifactOf[r] /\ env = "legacy"
    /\ identity = None /\ lock = None
    /\ recipe \in [Sessions -> Recipes]
    /\ pc = [s \in Sessions |-> "new"]
    /\ step = [s \in Sessions |-> 0]
    /\ child = [s \in Sessions |-> FALSE]
    /\ staged = [s \in Sessions |-> {}]
    /\ stop = [s \in Sessions |-> FALSE]
    /\ result = [s \in Sessions |-> "pending"]
    /\ orphan = FALSE /\ crashes = 0

Goto(s, l) == pc' = [pc EXCEPT ![s] = l]
Decide(s, r) == result' = [result EXCEPT ![s] = IF @ = "pending" THEN r ELSE @]
Stage(s, files) == staged' = [staged EXCEPT ![s] = @ \cup files]
Promote(s, file) == staged' = [staged EXCEPT ![s] = @ \ {file}]

\* provision_cache returns an error: prepare_cache cleans up.
Fail(s) == Goto(s, "reap") /\ Decide(s, "Failed")

\* The staging directory cannot be created, or not be opened once it is there, and
\* then nobody owns it or looks at it again; or a file in it cannot be written.
StagingFails(s, left) == Fail(s) /\ \E files \in left : Stage(s, files)

-----------------------------------------------------------------------------
(* Session::acquire.                                                        *)

\* The required entry and the artifact of r, as far as it has them, are there.
Present(r) ==
    /\ r \in Requiring => env # None
    /\ ArtifactOf[r] # None => artifact = ArtifactOf[r]

\* Mutant: any identity beside the marker will do.
ReadinessAnyIdentity(r) ==
    IF marker # MarkerOf[r] \/ ~Present(r) THEN "Rebuild"
    ELSE IF identity # None THEN "Cached"
    ELSE IF r \in Adopters THEN "Legacy"
    ELSE "Rebuild"

\* readiness: the marker, the required entry, the artifact and the sidecar.
Readiness(r) ==
    IF marker # MarkerOf[r] \/ ~Present(r) THEN "Rebuild"
    ELSE IF identity = r THEN "Cached"
    ELSE IF identity = None /\ r \in Adopters THEN "Legacy"
    ELSE "Rebuild"

\* prepare_cache opens the scope and its lock file, or fails to.
Open(s) ==
    /\ pc[s] = "new"
    /\ \/ Goto(s, "acquire") /\ UNCHANGED result
       \/ Goto(s, "done") /\ Decide(s, "Failed")
    /\ UNCHANGED <<diskVars, lock, step, child, staged, stop, orphan, crashes>>

\* try_lock_exclusive succeeds; readiness is taken under the lock.
Acquire(s) ==
    /\ pc[s] = "acquire" /\ ~stop[s] /\ lock = None
    /\ \/ /\ lock' = s
          /\ LET ready == Readiness(recipe[s]) IN
             \/ ready = "Cached" /\ Goto(s, "reap") /\ Decide(s, "Complete")
             \/ ready = "Legacy" /\ Goto(s, "adopt") /\ UNCHANGED result
             \/ ready = "Rebuild" /\ Goto(s, "invalidate") /\ UNCHANGED result
       \* an entry is unsafe or unreadable: the session is dropped, with its lock
       \/ Goto(s, "done") /\ Decide(s, "Failed") /\ UNCHANGED lock
    /\ UNCHANGED <<diskVars, step, child, staged, stop, orphan, crashes>>

\* Mutant: the poll observes the stop signal only.
GiveUpOnStop(s) ==
    /\ pc[s] = "acquire" /\ stop[s]
    /\ Goto(s, "done") /\ Decide(s, "Failed")
    /\ UNCHANGED <<diskVars, lock, step, child, staged, stop, orphan, crashes>>

\* The poll of the lock observes the stop signal and the deadline.
GiveUp(s) ==
    /\ pc[s] = "acquire"
    /\ Goto(s, "done") /\ Decide(s, "Failed")
    /\ UNCHANGED <<diskVars, lock, step, child, staged, stop, orphan, crashes>>

-----------------------------------------------------------------------------
(* adopt_legacy.                                                            *)

Adopt(s) ==
    /\ pc[s] = "adopt"
    /\ \/ /\ Readiness(recipe[s]) = "Legacy"
          /\ Stage(s, {"dir", "identity"})
          /\ Goto(s, "sidecar") /\ UNCHANGED result
       \/ StagingFails(s, {{}, {"dir"}, {"dir", "identity"}})
    /\ UNCHANGED <<diskVars, lock, step, child, stop, orphan, crashes>>

PromoteSidecar(s) ==
    /\ pc[s] = "sidecar"
    /\ \/ /\ identity' = recipe[s]
          /\ Promote(s, "identity")
          /\ Goto(s, "reap") /\ Decide(s, "Complete")
       \/ Fail(s) /\ UNCHANGED <<identity, staged>>
    /\ UNCHANGED <<marker, artifact, env, lock, step, child, stop, orphan, crashes>>

-----------------------------------------------------------------------------
(* install.                                                                 *)

\* Mutant: the stale marker is left to be replaced when the new one is published.
InvalidateNothing(s) ==
    /\ pc[s] = "invalidate"
    /\ Goto(s, "stage")
    /\ UNCHANGED <<diskVars, lock, step, child, staged, stop, result, orphan, crashes>>

Invalidate(s) ==
    /\ pc[s] = "invalidate"
    /\ \/ marker' = None /\ Goto(s, "stage") /\ UNCHANGED result
       \/ Fail(s) /\ UNCHANGED marker
    /\ UNCHANGED <<identity, artifact, env, lock, step, child, staged, stop, orphan, crashes>>

StageArtifact(s) ==
    /\ pc[s] = "stage"
    /\ \/ /\ IF ArtifactOf[recipe[s]] = None
             THEN Stage(s, {"dir"}) /\ Goto(s, "rest")
             ELSE Stage(s, {"dir", "artifact"}) /\ Goto(s, "artifact")
          /\ UNCHANGED result
       \/ StagingFails(s, {{}, {"dir"}, {"dir", "artifact"}})
    /\ UNCHANGED <<diskVars, lock, step, child, stop, orphan, crashes>>

PromoteArtifact(s) ==
    /\ pc[s] = "artifact"
    /\ \/ /\ artifact' = ArtifactOf[recipe[s]]
          /\ Promote(s, "artifact")
          /\ Goto(s, "rest") /\ UNCHANGED result
       \/ Fail(s) /\ UNCHANGED <<artifact, staged>>
    /\ UNCHANGED <<marker, identity, env, lock, step, child, stop, orphan, crashes>>

StageRest(s) ==
    /\ pc[s] = "rest"
    /\ \/ Stage(s, {"identity", "marker"}) /\ Goto(s, "steps") /\ UNCHANGED result
       \/ /\ Fail(s)
          /\ \E files \in {{}, {"identity"}, {"identity", "marker"}} : Stage(s, files)
    /\ UNCHANGED <<diskVars, lock, step, child, stop, orphan, crashes>>

-----------------------------------------------------------------------------
(* The commands of the recipe.                                              *)

Commands(s) == StepsOf[recipe[s]]

\* Mutant: one command too many.
SpawnStepMore(s) ==
    /\ pc[s] = "steps" /\ step[s] <= Commands(s)
    /\ child' = [child EXCEPT ![s] = TRUE]
    /\ env' = "partial"
    /\ Goto(s, "running")
    /\ UNCHANGED <<marker, identity, artifact, lock, step, staged, stop, result, orphan, crashes>>

\* Between two commands the stop flag, the deadline and the binding are looked at.
SpawnStep(s) ==
    /\ pc[s] = "steps" /\ step[s] < Commands(s)
    /\ \/ /\ ~stop[s]
          /\ child' = [child EXCEPT ![s] = TRUE]
          /\ env' = "partial"
          /\ Goto(s, "running") /\ UNCHANGED result
       \/ Fail(s) /\ UNCHANGED <<child, env>>
    /\ UNCHANGED <<marker, identity, artifact, lock, step, staged, stop, orphan, crashes>>

\* The command succeeds and its group is reaped.  The last one completes env,
\* unless the commands left none; any of them may have spoiled the artifact.
StepEnds(s) ==
    /\ pc[s] = "running"
    /\ child' = [child EXCEPT ![s] = FALSE]
    /\ step' = [step EXCEPT ![s] = @ + 1]
    /\ env' \in {IF step[s] + 1 = Commands(s) THEN recipe[s] ELSE env, None}
    /\ artifact' \in {artifact, None}
    /\ Goto(s, "steps")
    /\ UNCHANGED <<marker, identity, lock, staged, stop, result, orphan, crashes>>

\* It fails, or runs into the deadline, the output limit or the stop signal, or
\* its group cannot be reaped; in the end the group may be left to the cleanup.
StepFails(s) ==
    /\ pc[s] = "running"
    /\ child' \in {child, [child EXCEPT ![s] = FALSE]}
    /\ Fail(s)
    /\ UNCHANGED <<diskVars, lock, step, staged, stop, orphan, crashes>>

-----------------------------------------------------------------------------
(* publish.                                                                 *)

\* The checks before publication, and the promotion of the identity.
Publish(s) ==
    /\ pc[s] = "steps" /\ step[s] = Commands(s)
    /\ \/ /\ ~stop[s] /\ Present(recipe[s])
          /\ identity' = recipe[s]
          /\ Promote(s, "identity")
          /\ Goto(s, "marker") /\ UNCHANGED result
       \/ Fail(s) /\ UNCHANGED <<identity, staged>>
    /\ UNCHANGED <<marker, artifact, env, lock, step, child, stop, orphan, crashes>>

PromoteMarker(s) ==
    /\ pc[s] = "marker"
    /\ \/ /\ marker' = MarkerOf[recipe[s]]
          /\ Promote(s, "marker")
          /\ Goto(s, "reap") /\ Decide(s, "Complete")
       \/ Fail(s) /\ UNCHANGED <<marker, staged>>
    /\ UNCHANGED <<identity, artifact, env, lock, step, child, stop, orphan, crashes>>

-----------------------------------------------------------------------------
(* The end of prepare_cache, and Actor::cleanup, which a supervisor repeats  *)
(* for what a failed cleanup left it.                                        *)

\* Mutant: the session is released before the group of its command is reaped.
ReapLater(s) ==
    /\ pc[s] = "reap"
    /\ Goto(s, "unstage")
    /\ UNCHANGED <<diskVars, lock, step, child, staged, stop, result, orphan, crashes>>

Reap(s) ==
    /\ pc[s] = "reap"
    /\ \/ child' = [child EXCEPT ![s] = FALSE] /\ Goto(s, "unstage") /\ UNCHANGED result
       \/ child[s] /\ result' = [result EXCEPT ![s] = "Failed"] /\ UNCHANGED <<child, pc>>
    /\ UNCHANGED <<diskVars, lock, step, staged, stop, orphan, crashes>>

\* Staging::cleanup: the files one by one and then the directory.  After a
\* failure the supervisor begins again, its group being gone.
Unstage(s) ==
    /\ pc[s] = "unstage"
    /\ \/ staged' = [staged EXCEPT ![s] = {}] /\ Goto(s, "unlock") /\ UNCHANGED result
       \/ /\ staged[s] # {}
          /\ \E left \in SUBSET staged[s] : "dir" \in left /\ staged' = [staged EXCEPT ![s] = left]
          /\ result' = [result EXCEPT ![s] = "Failed"]
          /\ UNCHANGED pc
    /\ UNCHANGED <<diskVars, lock, step, child, stop, orphan, crashes>>

Unlock(s) ==
    /\ pc[s] = "unlock"
    /\ lock' = None
    /\ Goto(s, "done")
    /\ UNCHANGED <<diskVars, step, child, staged, stop, result, orphan, crashes>>

-----------------------------------------------------------------------------
(* The world around the sessions.                                           *)

Stop(s) ==
    /\ ~stop[s] /\ pc[s] # "done"
    /\ stop' = [stop EXCEPT ![s] = TRUE]
    /\ UNCHANGED <<diskVars, lock, pc, step, child, staged, result, orphan, crashes>>

\* The owner of the cache removes an environment or an artifact while no recipe
\* holds the scope.
Remove ==
    /\ lock = None
    /\ \/ env' = None /\ UNCHANGED artifact
       \/ artifact' = None /\ UNCHANGED env
    /\ UNCHANGED <<marker, identity, lock, sessionVars, orphan, crashes>>

\* A process dies: its locks are released, its staging stays, and a command that
\* was running dies with it or lives on.
Crash(p) ==
    LET dead == {s \in Sessions : HomeOf[s] = p /\ pc[s] \notin {"new", "done"}} IN
    /\ crashes < MaxCrashes
    /\ crashes' = crashes + 1
    /\ pc' = [s \in Sessions |-> IF s \in dead THEN "done" ELSE pc[s]]
    /\ result' = [s \in Sessions |-> IF s \in dead THEN "Crashed" ELSE result[s]]
    /\ child' = [s \in Sessions |-> child[s] /\ s \notin dead]
    /\ orphan' \in {orphan, orphan \/ \E s \in dead : child[s]}
    /\ lock' = IF lock \in dead THEN None ELSE lock
    /\ UNCHANGED <<diskVars, step, staged, stop>>

OrphanWrites ==
    /\ orphan /\ env' = "partial"
    /\ UNCHANGED <<marker, identity, artifact, lock, sessionVars, orphan, crashes>>

-----------------------------------------------------------------------------
Provisioning(s) ==
    \/ Adopt(s) \/ PromoteSidecar(s) \/ Invalidate(s) \/ StageArtifact(s) \/ PromoteArtifact(s)
    \/ StageRest(s) \/ SpawnStep(s) \/ StepEnds(s) \/ StepFails(s) \/ Publish(s) \/ PromoteMarker(s)

Next ==
    /\ \/ \E s \in Sessions :
            \/ Open(s) \/ Acquire(s) \/ GiveUp(s) \/ Provisioning(s)
            \/ Reap(s) \/ Unstage(s) \/ Unlock(s) \/ Stop(s)
       \/ \E p \in Procs : Crash(p)
       \/ Remove \/ OrphanWrites
    /\ UNCHANGED recipe

Spec == Init /\ [][Next]_vars

\* Files are read and written in finite time, and the deadline of the recipe ends
\* the wait for the lock and each command.  Cleanups need not succeed.
Fairness == \A s \in Sessions : WF_vars(GiveUp(s) /\ UNCHANGED recipe) /\ WF_vars(Provisioning(s) /\ UNCHANGED recipe)
FairSpec == Spec /\ Fairness

-----------------------------------------------------------------------------
TypeOK ==
    /\ marker \in Bytes \cup {None} /\ artifact \in Bytes \cup {None}
    /\ identity \in Recipes \cup {None}
    /\ env \in Recipes \cup {"partial", "legacy", None}
    /\ lock \in Sessions \cup {None}
    /\ recipe \in [Sessions -> Recipes] /\ pc \in [Sessions -> PCs]
    /\ step \in [Sessions -> Nat] /\ \A s \in Sessions : step[s] <= Commands(s)
    /\ child \in [Sessions -> BOOLEAN] /\ stop \in [Sessions -> BOOLEAN]
    /\ staged \in [Sessions -> SUBSET {"dir", "artifact", "identity", "marker"}]
    /\ result \in [Sessions -> {"pending", "Complete", "Failed", "Crashed"}]
    /\ orphan \in BOOLEAN /\ crashes \in 0..MaxCrashes

\* The environment is missing and r does not require it.
Dispensed(r) == env = None /\ r \notin Requiring

\* What readiness calls a hit for a recipe with commands was made by all the
\* commands of that very recipe, or was adopted, or is gone and not required,
\* whatever order recipes, failures and crashes came in; unless a command outlived
\* its router and still writes.  A recipe without commands is a hit over whatever
\* environment others have left.
HitsAreWhole ==
    ~orphan => \A r \in Recipes :
      Readiness(r) = "Cached" /\ StepsOf[r] # 0 =>
        env = r \/ (env = "legacy" /\ r \in Adopters) \/ Dispensed(r)

\* A cache that a later recipe left half made, with no identity beside it, is never
\* taken for one from before identities existed.
NeverAdoptsFailed ==
    ~orphan => \A r \in Recipes : Readiness(r) = "Legacy" => env = "legacy" \/ Dispensed(r)

\* The lock is not released, by success, failure or stop, before the command group
\* is reaped and the staging is gone.
LockCoversOwned ==
    \A s \in Sessions :
        child[s] \/ (staged[s] # {} /\ result[s] # "Crashed") => lock = s

\* Cleanup makes progress: the group is reaped, the staging removed, the lock freed.
Frees(s) == (Reap(s) \/ Unstage(s) \/ Unlock(s)) /\ pc'[s] # pc[s]

\* A preparation whose own cleanups succeed in the end comes to its end, even
\* behind a session that never lets go of the lock.
PrepareEnds ==
    \A s \in Sessions : WF_vars(Frees(s) /\ UNCHANGED recipe) => (pc[s] = "acquire" ~> pc[s] = "done")
=============================================================================
