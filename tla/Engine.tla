------------------------------- MODULE Engine -------------------------------
(* The engine of the router for one language: exec/mod.rs over the resolver's *)
(* memo, the provider behind the bus (provider/), the worker harness on disk  *)
(* (pool/env.rs) and the registry of live pools (pool/mod.rs).                *)
(*                                                                            *)
(* What happens inside a pool is LangPool's, what a resolution does Install's:*)
(* here a pool has the workers it parks and the calls that run in it.         *)
EXTENDS Integers, FiniteSets, Sequences

CONSTANTS
    Callers,    \* tasks that call execute or prepare_environment
    Asks,       \* settings of a request: its toolchain's and its pool's
    Keys,       \* what of them takes part in memo_key
    KeyOf,      \* KeyOf[a]: the memo key of a
    WorkersOf,  \* WorkersOf[a]: effective_max_workers of a
    Tools,      \* toolchains that a resolution may find or install
    Builds,     \* builds of the provider module, with harnesses of one file name
    Shape,      \* Shape[b]: the executable, arguments and environment of b's harness
    Protocol,   \* Protocol[b]: the protocol that b's harness declares and speaks
    Bindable,   \* builds whose contract this router can bind to
    Advertising,\* builds that advertise PrepareEnvironment
    Pools,      \* identities of LangPool, free again when it is dropped
    None

ASSUME EngineAssumption ==
    /\ IsFiniteSet(Callers)
    /\ KeyOf \in [Asks -> Keys] /\ WorkersOf \in [Asks -> Nat \ {0}]
    /\ Bindable \subseteq Builds /\ Advertising \subseteq Builds
    /\ None \notin Pools \cup Asks \cup Tools \cup Builds /\ "cut" \notin Builds

VARIABLES
    provider, \* the build that is loaded, or was last: calls may fail at any time
    memo,     \* memo[k]: the toolchain that Resolver.resolved has for k
    file,     \* the harness script: the build it is of, "cut", or None
    writer,   \* writer[c]: what the blocking write for c has yet to do
    live,     \* Pools.live: the pool of the language
    pool,     \* pool[p]: the LangPool p, and the builds whose harness its idle workers run
    pc,       \* pc[c]: where caller c waits
    ask,      \* ask[c]: the settings of c's request
    tool,     \* tool[c]: the toolchain that c's resolution answered
    got,      \* got[c]: the build that c has the harness of
    held,     \* held[c]: the pool that c runs in
    runs      \* runs[c]: the build whose harness the worker of c's job runs

callVars == <<pc, ask, tool, got, held, runs>>
vars == <<provider, memo, file, writer, live, pool, callVars>>

NoWrite == [left |-> "nothing", of |-> None]
NoPool == [launch |-> None, idle |-> <<>>]

Init ==
    /\ provider \in Builds
    /\ memo = [k \in Keys |-> None]
    /\ file = None
    /\ writer = [c \in Callers |-> NoWrite]
    /\ live = None
    /\ pool = [p \in Pools |-> NoPool]
    /\ pc = [c \in Callers |-> "idle"]
    /\ ask = [c \in Callers |-> None]
    /\ tool = [c \in Callers |-> None]
    /\ got = [c \in Callers |-> None]
    /\ held = [c \in Callers |-> None]
    /\ runs = [c \in Callers |-> None]

Goto(c, l) == pc' = [pc EXCEPT ![c] = l]

Return(c) ==
    /\ Goto(c, "idle")
    /\ ask' = [ask EXCEPT ![c] = None]
    /\ tool' = [tool EXCEPT ![c] = None]
    /\ got' = [got EXCEPT ![c] = None]

-----------------------------------------------------------------------------
(* The registry and the resolver.                                           *)

\* A call over the bus is answered by whichever build is loaded when it is made,
\* since the proxy is built per call; or it fails, on its own or because none is.
Unavailable(c) == Return(c)

\* Resolver::require: the memo answers without asking the provider.  Bound: a
\* caller whose dropped call left a write behind calls again once that is over.
Execute(c, a) ==
    /\ pc[c] = "idle" /\ writer[c] = NoWrite
    /\ ask' = [ask EXCEPT ![c] = a]
    /\ tool' = [tool EXCEPT ![c] = memo[KeyOf[a]]]
    /\ Goto(c, IF memo[KeyOf[a]] = None THEN "describe" ELSE "harness")
    /\ UNCHANGED <<provider, memo, file, writer, live, pool, got, held, runs>>

\* describe and verify_contract: the only look at the contract of a provider.
Describe(c) ==
    /\ pc[c] = "describe"
    /\ \/ provider \in Bindable /\ Goto(c, "resolve") /\ UNCHANGED <<ask, tool, got>>
       \/ provider \notin Bindable /\ Return(c)
       \/ Unavailable(c)
    /\ UNCHANGED <<provider, memo, file, writer, live, pool, held, runs>>

\* A toolchain was found or installed, and is remembered; or it was not.  Two
\* resolutions of one key that run at once may answer differently.
Resolve(c) ==
    /\ pc[c] = "resolve"
    /\ \/ /\ \E t \in Tools : /\ memo' = [memo EXCEPT ![KeyOf[ask[c]]] = t]
                              /\ tool' = [tool EXCEPT ![c] = t]
          /\ Goto(c, "harness")
          /\ UNCHANGED <<ask, got>>
       \/ Return(c) /\ UNCHANGED memo
    /\ UNCHANGED <<provider, file, writer, live, pool, held, runs>>

\* Route::prepare_environment: describe, verify_contract and the capability.
PrepareEnvironment(c) ==
    /\ pc[c] = "idle" /\ writer[c] = NoWrite
    /\ provider \in Bindable \cap Advertising
    /\ Goto(c, "plan")
    /\ UNCHANGED <<provider, memo, file, writer, live, pool, ask, tool, got, held, runs>>

\* The plan, or the error of whichever build is asked for it.
Plan(c) ==
    /\ pc[c] = "plan"
    /\ Return(c)
    /\ UNCHANGED <<provider, memo, file, writer, live, pool, held, runs>>

-----------------------------------------------------------------------------
(* launch_for: the harness is fetched and written, for every job.           *)

\* The harness of whichever build is loaded by now, or an error; the toolchain may
\* not have the executable that it names.
Harness(c) ==
    /\ pc[c] = "harness"
    /\ \/ /\ got' = [got EXCEPT ![c] = provider]
          /\ Goto(c, "write")
          /\ writer' = [writer EXCEPT ![c] = [left |-> "open", of |-> provider]]
          /\ UNCHANGED <<ask, tool>>
       \/ Unavailable(c) /\ UNCHANGED writer
    /\ UNCHANGED <<provider, memo, file, live, pool, held, runs>>

\* tokio::fs::write, on a blocking thread that a dropped call does not stop:
\* the file is truncated ...
Truncate(c) ==
    /\ writer[c].left = "open"
    /\ writer' = [writer EXCEPT ![c].left = "bytes"]
    /\ file' = "cut"
    /\ UNCHANGED <<provider, memo, live, pool, callVars>>

\* ... and written from its start, over what another write has put there since:
\* a longer harness shows behind a shorter one.
WriteBytes(c) ==
    /\ writer[c].left = "bytes"
    /\ writer' = [writer EXCEPT ![c] = NoWrite]
    /\ file' \in {writer[c].of} \cup (IF file \in {"cut", writer[c].of} THEN {} ELSE {"cut"})
    /\ UNCHANGED <<provider, memo, live, pool, callVars>>

\* The directory cannot be made, or the file cannot be written.
WriteFails(c) ==
    /\ writer[c].left \in {"open", "bytes"}
    /\ writer' = [writer EXCEPT ![c] = NoWrite]
    /\ IF pc[c] = "write" THEN Return(c) ELSE UNCHANGED <<pc, ask, tool, got>>
    /\ UNCHANGED <<provider, memo, file, live, pool, held, runs>>

-----------------------------------------------------------------------------
(* Pools::ensure, and the pool.                                             *)

LaunchOf(c) == [ask |-> ask[c], tool |-> tool[c], of |-> got[c]]

\* Mutant: the fingerprint leaves out the toolchain.
FingerprintAnyTool(l) == <<l.ask, Shape[l.of], Protocol[l.of]>>

\* The fingerprint of a launch and its pool settings: the interpreter with its
\* arguments and environment, the protocol, the tuning of the pool; not the source
\* of the harness.
Fingerprint(l) == <<l.ask, l.tool, Shape[l.of], Protocol[l.of]>>

\* Mutant: the registry keeps no Arc of its pool.
KeptByCalls(p) == \E c \in Callers : held[c] = p

\* Who keeps the Arc of a pool: the registry and calls, its reaper only for as
\* long as a sweep takes.
Kept(p) == live = p \/ \E c \in Callers : held[c] = p

\* Mutant: the reaper holds an Arc of its pool.
DropDeadReaped(pl) == pool' = pl

\* A pool that nobody keeps any more is dropped, and its workers with it.
DropDead(pl) == pool' = [p \in Pools |-> IF Kept(p)' THEN pl[p] ELSE NoPool]

\* Pools::ensure, with its lock: the live pool if it has the fingerprint, or a
\* new one in its place, which may have the identity that the registry lets go of.
Ensure(c) ==
    LET match == live # None /\ Fingerprint(pool[live].launch) = Fingerprint(LaunchOf(c))
        free == {q \in Pools : \A d \in Callers : held[d] # q} IN
    /\ pc[c] = "write" /\ writer[c] = NoWrite
    /\ match \/ free # {}
    /\ LET p == IF match THEN live ELSE CHOOSE q \in free : TRUE IN
         /\ live' = p
         /\ held' = [held EXCEPT ![c] = p]
         /\ DropDead(IF match THEN pool ELSE [pool EXCEPT ![p] = [launch |-> LaunchOf(c), idle |-> <<>>]])
    /\ Goto(c, "run")
    /\ UNCHANGED <<provider, memo, file, writer, ask, tool, got, runs>>

\* run returns, or is refused a place in the queue: c lets go of the pool.
RunReturns(c, pl) ==
    /\ Return(c)
    /\ held' = [held EXCEPT ![c] = None]
    /\ runs' = [runs EXCEPT ![c] = None]
    /\ UNCHANGED <<provider, memo, file, writer, live>>
    /\ DropDead(pl)

Shed(c) == pc[c] = "run" /\ RunReturns(c, pool)

\* Calls with a permit of p.
Busy(p) == {c \in Callers : held[c] = p /\ pc[c] = "job"}

\* Mutant: permits that nobody counts.
PermitAlways(c) == pc[c] = "run"

\* Permits are as many as the settings of the pool allow workers.
Permit(c) == pc[c] = "run" /\ Cardinality(Busy(held[c])) < WorkersOf[pool[held[c]].launch.ask]

Idle(c) == pool[held[c]].idle
Park(c, idle) == [pool EXCEPT ![held[c]].idle = idle]

\* With a permit: the parked worker at n, the ones parked after it having expired
\* or exited.
Take(c, n) ==
    /\ Permit(c)
    /\ runs' = [runs EXCEPT ![c] = Idle(c)[n]]
    /\ pool' = Park(c, SubSeq(Idle(c), 1, n - 1))
    /\ Goto(c, "job")
    /\ UNCHANGED <<provider, memo, file, writer, live, ask, tool, got, held>>

\* Mutant: the protocol of the handshake is not looked at.
HandshakeAny(c) == TRUE

\* verify_handshake: what a worker says it speaks against the launch of its pool.
Handshake(c) == Protocol[file] = Protocol[pool[held[c]].launch.of]

\* No parked worker is usable: a fresh one reads the harness.
Spawn(c) ==
    /\ Permit(c) /\ file \in Builds /\ Handshake(c)
    /\ runs' = [runs EXCEPT ![c] = file]
    /\ pool' = Park(c, <<>>)
    /\ Goto(c, "job")
    /\ UNCHANGED <<provider, memo, file, writer, live, ask, tool, got, held>>

\* It does not start, or is refused; one that reads half a harness never connects.
SpawnFails(c) == Permit(c) /\ RunReturns(c, Park(c, <<>>))

\* The worker is parked, or it failed or has served its budget.
JobEnds(c, park) ==
    /\ pc[c] = "job"
    /\ RunReturns(c, IF park THEN Park(c, Append(Idle(c), runs[c])) ELSE pool)

\* A turn of spawn_reaper's loop: the pool, if it is still there, retires the first n
\* of the workers it parks, which have been idle longest.
Sweep(p, n) ==
    /\ Kept(p)
    /\ pool' = [pool EXCEPT ![p].idle = SubSeq(@, n + 1, Len(@))]
    /\ UNCHANGED <<provider, memo, file, writer, live, callVars>>

-----------------------------------------------------------------------------
\* A call is dropped: its worker dies with it, its write goes on.
Cancel(c) ==
    /\ pc[c] # "idle"
    /\ RunReturns(c, pool)

\* The provider module is replaced by another build.
Reload(b) ==
    /\ provider' = b /\ b # provider
    /\ UNCHANGED <<memo, file, writer, live, pool, callVars>>

Writing(c) == Truncate(c) \/ WriteBytes(c) \/ WriteFails(c)
Asking(c) == Describe(c) \/ Resolve(c) \/ Plan(c) \/ Harness(c) \/ Ensure(c)
Entering(c) ==
    /\ pc[c] = "run"
    /\ Spawn(c) \/ SpawnFails(c) \/ \E n \in 1..Len(Idle(c)) : Take(c, n)
Leaving(c) == \E park \in BOOLEAN : JobEnds(c, park)

Next ==
    \/ \E c \in Callers :
         \/ \E a \in Asks : Execute(c, a)
         \/ PrepareEnvironment(c) \/ Asking(c) \/ Writing(c)
         \/ Shed(c) \/ Entering(c) \/ Leaving(c) \/ Cancel(c)
    \/ \E p \in Pools : \E n \in 1..Len(pool[p].idle) : Sweep(p, n)
    \/ \E b \in Builds : Reload(b)

Spec == Init /\ [][Next]_vars

\* Calls over the bus, file operations and jobs end, and the semaphore of a pool
\* is fair; nothing is asked of a pool that is at capacity or of the provider.
Fairness == \A c \in Callers :
    WF_vars(Asking(c) \/ Writing(c) \/ Leaving(c)) /\ SF_vars(Entering(c))
FairSpec == Spec /\ Fairness

-----------------------------------------------------------------------------
(* Properties.                                                              *)

Launches == [ask : Asks, tool : Tools, of : Builds]

\* The variables keep to their types; the registry's pool is one that exists.
TypeOK ==
    /\ provider \in Builds
    /\ memo \in [Keys -> Tools \cup {None}]
    /\ file \in Builds \cup {"cut", None}
    /\ writer \in [Callers -> [left : {"nothing", "open", "bytes"}, of : Builds \cup {None}]]
    /\ live \in Pools \cup {None} /\ (live # None => pool[live].launch \in Launches)
    /\ pool \in [Pools -> [launch : Launches \cup {None}, idle : Seq(Builds)]]
    /\ pc \in [Callers -> {"idle", "describe", "resolve", "plan", "harness", "write", "run", "job"}]
    /\ ask \in [Callers -> Asks \cup {None}] /\ tool \in [Callers -> Tools \cup {None}]
    /\ got \in [Callers -> Builds \cup {None}] /\ runs \in [Callers -> Builds \cup {None}]
    /\ held \in [Callers -> Pools \cup {None}]

\* "Reusing warm workers across that would answer from the wrong toolchain":
\* however the registry's pool is replaced in the meantime, and however resolutions
\* of one key differ, a job runs in a pool built for the settings it asked for, the
\* toolchain it resolved and the interpreter command its own harness makes.
RunsAsAsked ==
    \A c \in Callers : pc[c] \in {"run", "job"} =>
      LET l == pool[held[c]].launch IN
        l.ask = ask[c] /\ l.tool = tool[c] /\ Shape[l.of] = Shape[got[c]]

\* Workers of p: those it parks and those that have a job.
Workers(p) == Len(pool[p].idle) + Cardinality(Busy(p))

\* "Its workers die with it": pools that have been replaced add workers to the
\* ceiling of the live one only while a call still keeps them, and each keeps to
\* the ceiling of its own settings, which a host may retune at any time.
WorkerCeiling ==
    \A p \in Pools : Workers(p) <= IF Kept(p) THEN WorkersOf[pool[p].launch.ask] ELSE 0

\* The provider may be replaced after its contract was checked, a memo hit checks
\* nothing, and the script on disk may be of another build than the one that is
\* spawned for: whichever worker a job comes to, fresh or parked, speaks the protocol
\* of the harness that the job's own launch was made from.
SpeaksProtocol ==
    \A c \in Callers : pc[c] = "job" => Protocol[runs[c]] = Protocol[got[c]]

\* The harness is written "once per toolchain rather than once per job", and a
\* new one "must not be shadowed by the previous one still sitting on disk": a
\* job that has written the harness of the loaded build and is about to spawn a
\* worker finds that harness, whole, whatever other jobs do.
FreshHarness == \A c \in Callers : pc[c] = "run" /\ got[c] = provider => file = provider

\* A pool that has been replaced is gone in the end, its reaper notwithstanding.
ReplacedDies ==
    \A p \in Pools : pool[p] # NoPool /\ live # p ~> pool[p] = NoPool
=============================================================================
