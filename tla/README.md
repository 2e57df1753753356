# A TLA+ model of tinyruntime

tinyruntime resolves a language toolchain, installs one when there is none, and
runs code on interpreter processes that it keeps warm. This directory models the
parts of it in which order, failure and concurrency matter: modules for TLC, and
proofs for TLAPS.

Paths below are relative to `src/crates/tinyruntime/src/` unless they begin with
another crate's name.

## 1. The system

| Component | Source | State | Operations |
| --- | --- | --- | --- |
| Warm pool | `pool/lang_pool.rs`, `tinyruntime-bus/src/pool/types.rs` | in-flight counter, fair semaphore, stack of idle workers, counters | `run`, `reap`, `stats` |
| Warm worker | `pool/worker.rs`, `pool/protocol.rs` | child, socket, `jobs_done`, `last_used` | `spawn`, `submit`, `has_exited`, `shutdown` |
| Worker manager | `worker/mod.rs` | the book: slots by handle, issued identities, the terminal flag; per slot a stop and a state channel and a bounded command channel | `reserve`, `prepare`, `prepare_cached`, `start`, `request`, `status`, `stop`, `shutdown` |
| Worker supervisor | `worker/actor.rs`, `worker/native.rs` | process group and reaper, preparation, cache session, replay window, back-off, idle clock | `serve`, `start`, `request`, `dispatch`, `cleanup` |
| Cache session | `worker/cache/*` | cache lock, staging directory, marker, identity, artifacts | `acquire`, `install`, `adopt_legacy`, `publish`, `cleanup` |
| Resolver | `resolve/*` | memo of resolutions | `resolve`, `require`, `scan`, `install::run` |
| Store | `store/*`, `download/`, `archive/`, `blocking/` | install lock, install, staging and displaced directories, the archive file | `acquire`, `fetch`, `extract`, `promote` |
| Pool registry and engine | `pool/mod.rs`, `exec/mod.rs`, `pool/env.rs` | one live pool per language and its fingerprint, the harness script on disk | `ensure`, `execute`, `prepare_environment`, `materialise` |
| Python server | `tinyruntime-pyserver/src/server.rs`, `slot.rs`, `server.py` | per server one child with its pipes and its request ids; in the slot one cached server or a remembered failure | `ensure`, `start`, `request`, `reset`, `idle_expired` |
| Providers, bus module, types | `provider/*`, `tinybus_module/`, `tinyruntime-bus` | an immutable routing table; the provider module that happens to be loaded | `describe`, `harness`, `layout`, ...; dispatch of bus members |

How they interact. `Engine::execute` resolves (memo, host, scan, install), fetches
and writes the harness of the provider, asks the registry for a pool and calls
`LangPool::run`; a provider module may be replaced between any two of these. Calls of `run` share a pool
through an atomic counter, a semaphore and one mutex; each talks to its worker
over a socket. The manager's callers share the book under a mutex and talk to
detached supervisor tasks through channels: commands go down a bounded channel,
replies come back on one-shot channels, and `stop`, `prepared`, `closed` and
`cleanup_failed` are watched. Processes that share a cache root meet in the file
system, under file locks. Hosts of the python server share a slot and, through
it, servers: two fair mutexes, each held over waits for the child.

What is hard about it:

* every call is a future that its host may drop at any await, and a blocking
  thread or a detached task it started carries on without it;
* a failure is classified as one that a host may repeat or must not, and the
  class depends on how far a write to a child got;
* children exit, stall, and answer late, while parked, while serving, and
  between the check and the use;
* supervisors fail to clean up and try again while callers wait for the result;
* processes crash between two renames;
* what a call has looked up (a pool, a server, a provider) is replaced while the
  call still uses it.

`PROJECT.json` lists these as hazards, each at the line where it bites.

## 2. The modules

| Module | Models | Extends |
| --- | --- | --- |
| `JobContract` | what a host may conclude from the answer to a job (`error/mod.rs`) | |
| `LangPool` | the warm pool, its workers and the far ends of their sockets | implements `JobContract` |
| `LangPoolProofs` | theorems about `LangPool` | `LangPool` |
| `LangPoolContractProofs` | its `NoLeak`, and that it implements `JobContract` | `LangPoolProofs` |
| `WorkerManager` | the manager and the life of the supervisors | |
| `WorkerManagerProofs` | theorems about `WorkerManager` | `WorkerManager` |
| `WorkerActor` | one supervisor and its process, in detail | |
| `WorkerActorProofs` | theorems about `WorkerActor` | `WorkerActor` |
| `Install` | resolver, installer, store, lock and archive | |
| `InstallProofs` | theorems about `Install` | `Install` |
| `CacheSession` | the sessions of a persistent cache scope and the commands of their recipes | |
| `CacheSessionProofs` | theorems about `CacheSession` | `CacheSession` |
| `Engine` | `execute` over the memo, the providers, the harness file and the registry of pools | |
| `EngineProofs` | theorems about `Engine` | `Engine` |
| `PyServer` | the python server, the slot that shares it and its children | |
| `PyServerProofs` | theorems about `PyServer` | `PyServer` |
| `MC...` | the constants, tables and symmetry sets of the runs | |

### LangPool

A job is one piece of work of a host, each of its submissions a call of `run`.
`pc[j]` is the point between two accesses to shared state or two awaits:
`Submit` is the `fetch_add` and its test, `Shed` the `fetch_sub` of a refused
call, `Acquire` the semaphore in its queue order, `TakeOrSpawn` the critical
section of `take_or_spawn` (pop and discard down to a usable worker),
`SpawnFails` and `ReadHandshake` are `Worker::spawn`, `WriteAll`, `WriteFails`,
`Flush`, `FlushFails`, `ReadLine`, `ReadFails` and `Deadline` are
`Worker::submit`, `RetireOrPark` is the function of that name, and
`ReleasePermit` and `DropGuard` are the drops at the end of `run`, in Rust's
order. `Cancel` is the drop of the future at an await.
A worker keeps `jobs_done`, whether its time-to-live has passed, whether and when
its child exited, the request in its socket, the job it runs and the lines it has
written and nobody has read. The harness and the host are environment: a harness
may answer, chatter, stall or exit, and a host may submit again what
`is_retryable` allows.

`JobContract` is the abstract specification: a job starts at most once and only
while its host waits, a retryable refusal is given only for a job that did not
run, and an `Ok` only for one that did. `LangPool` implements it
(`KeepsContract`); the mapping hides the verdict until `run` has returned.

### WorkerManager

A step of a caller is one critical section of the book or one look at a watch
channel; `call[c]` is the await it is in. `slot[h]` holds the plan and the
channels of a handle and outlives the slot, as the channels do. The supervisor of
a handle gains and loses what it owns (preparation, cache session, process, root
directory) and releases it in the order of `run` and `Actor::cleanup`, each
release failing or not. A plan stands for a plan together with its cache recipe.
The nonce of handles is left out: a handle of another manager is one that was
never issued. `status` is left out because it changes nothing.

### WorkerActor

`pc` is the await of the supervisor. Times are flags (the deadline of the
command, the back-off, the idle timeout). A killed process belongs to its reaper
task: `"reaping"`, `"unreaped"` when the wait failed and the child came back,
`"lost"` when the reaper itself was aborted. `StartTimesOut` is `dispatch`
dropping the start future at the deadline, wherever it waits. The auxiliary
variables count what went on the wire (`executed`), which operations have ended
(`finished`), and processes overwritten while still owned (`orphans`).

### Install

One distribution, several processes, several calls of `resolve`. `disk` has the
install directory, a displaced directory per process (its name carries the
process id) and a staging directory per call. From `"extract"` to `"sweep"` the
program counter is that of the blocking thread: `Cancel` drops the future and its
lock and leaves the thread. `Crash` takes a process with its calls, threads, memo
and lock. A transfer (`Fetched`) ends verified, unverified where no digest is
published, and then perhaps with an archive of something broken, or with an error;
it need not end. Providers are external: `layout` accepts a finished toolchain, may
fail, and a scan may also be deceived by a tree in progress (`Acceptable`), which is
why staging directories are skipped.

### CacheSession

One scope, the recipes that publish one marker in it, and several supervisors
that prepare it, each once, from several processes. The disk has the bytes of the
marker and of the artifact, the recipe whose digest is in the identity sidecar,
and what the commands made (`env`: nothing, partial, complete for a recipe, or a
legacy cache). `pc[s]` is the next file operation or await of `prepare_cache`, so
a crash falls between any two; each may fail, which also stands for a failed
`check_binding` and for the deadline. The supervisor repeats a cleanup that failed
(`Reap`, `Unstage`), and gives up the lock only after it. A crash frees the lock,
leaves staging behind and may leave a command running (`orphan`). The owner of the
cache may remove things while nobody holds the lock, not during a preparation.
A recipe has any number of commands, none included, and may or may not have an
artifact and a required entry, which its commands make (`StepsOf`, `ArtifactOf`,
`Requiring`); lists of several artifacts or entries are checked and promoted one by
one in the code, and stand for one here. A directory that was created and could not
be opened as staging is nobody's and nobody looks at it again.

### Engine

One language. `pc[c]` is the await of a call of `execute` or
`prepare_environment`. `provider` is the build of the provider module that is
loaded; `Reload` replaces it at any time, as the comment on `BusProvider::call`
expects, and each call over the bus reaches the build of the moment or fails
(`Unavailable`). Only `Describe` and `PrepareEnvironment` look at its contract: a
memo hit, the harness and the plan do not. `memo` has the toolchain that a
resolution answered, and `Resolve` may answer any of `Tools`, so two calls of one
key that resolve at once may go on with different ones. The harness is one file:
`Truncate` and `WriteBytes` are the two effects of `tokio::fs::write`, on a blocking
thread (`writer`) that outlives a dropped call. `Ensure` is the critical section of
`Pools::ensure`. A `Fingerprint` has the settings of the ask, with its number of
workers, the toolchain, the command that the harness makes (`Shape`) and its
protocol; the source of the harness takes no part, and the pool settings take no
part in the memo key. A pool lives while the registry or a call has its `Arc`
(`Kept`); its reaper has a `Weak`, and an `Arc` only during a sweep, which waits for
nothing but the idle mutex. Its workers die with it (`DropDead`). Inside a pool only
the parked workers, with the build whose harness each of them runs, and the calls at
work are kept: `Permit`, `Take`, `Spawn` with its `Handshake`, `JobEnds` and `Sweep`.
`LangPool` has the rest, as `Install` has the rest of a resolution.

### PyServer

Callers ask the slot for a server (`EnsureCall` to `EnsureReturns`) and then send
it requests. Both mutexes are queues whose head holds the lock. `Look` is what
`ensure` finds in the cache, `Discard` its reset of a server of other backends or
one idle for too long, `Prepared` to `Hello` the build and the handshake, which
`request_once` also does when the server has no child. `Enter`, `Write`, `Read`,
`NoLine`, `AttemptFails`, `Reset` are a request, its two attempts and the reset in
between, for which the lock is given up and asked for again. A server lives while
the cache or a caller has its `Arc`, a child while a server or a spawn owns it
(`kill_on_drop`). The child reads lines and answers them in order; a dropped call
may leave half a line behind (`torn`), which spoils the next, and a child may write
lines nobody asked for (`ChildChatters`), each of which restarts the timeout of the
request that reads. `Prepared`, `PrepareFails` and `Write` are what the code awaits
without a timeout (`Untimed`). The auxiliary field
`failed` of a child has the callers whose current call failed on it.

## 3. The runs

| Run | Configuration | Shows |
| --- | --- | --- |
| `pool_safety` | 2 slots, no queue, 3 jobs, 2 submissions each, recycle after 2 | `TypeOK`, `AdmissionBound`, `NoLeak`, `KeepsContract` |
| `pool_liveness` | 1 slot, queue of 1, 2 jobs | `WorkerBound`, `EveryCallReturns`, `ReaperDrains` |
| `pool_wedged_write` | as above, one oversized request | violates `EveryCallReturns` |
| `manager_safety` | 2 callers, 2 plans, capacity 1, queue 1, 2 handles | `TypeOK`, `CleanAck`, `WithinCapacity`, `NoLostCaller` |
| `manager_liveness` | 2 callers, 1 plan, 1 handle | `StopReturns`, `CallersReturn` |
| `actor` | operations 1..3, 2 bodies, window 2, 3 commands | `TypeOK`, `NoOrphan`, `StatusHonest`, `NoReexecution`, `CommandsAnswered`, `DeathNoticed` |
| `install` | 3 calls, 2 processes, 1 crash, 1 dropped future, a broken install at first | `TypeOK`, `MemoStands`, `NoRedundantInstall`, `NeverNothing`, `EveryResolveReturns` |
| `install_cancelled` | 1 dropped future | violates `StaysInstalled` |
| `cache` | 3 recipes with the same marker and 2, 1 and no commands, 2 preparations in a process each, 2 crashes | `TypeOK`, `HitsAreWhole`, `NeverAdoptsFailed`, `LockCoversOwned`, `PrepareEnds` |
| `pyserver` | 2 callers with 1 request each, 2 servers, 2 children, 1 unasked line at a time | `TypeOK`, `OwnAnswer`, `RetriesElsewhere`, `Undisturbed`, `OneWarmWorker`, `CallsReturn` |
| `engine` | 2 callers, 2 tunings (1 and 2 workers) of one memo key, 2 toolchains, 2 builds of the provider with different commands and protocols of which one can be bound to, 2 pools | `TypeOK`, `RunsAsAsked`, `WorkerCeiling`, `SpeaksProtocol`, `ReplacedDies` |
| `engine_harness` | same | violates `FreshHarness` |

Each property is stated in words above its definition.

Why these bounds. In the pool, two jobs at work and one that is refused or
queued are the smallest instance in which admission, the idle stack and a second
submission interact; a worker serves two jobs before it is recycled, so a worker
is both reused and retired, and one unread line beside a reply is enough for a
late or foreign line to be first. In the manager, capacity one and two handles
make a reservation wait for, or displace, a slot whose supervisor is still at
work, and a second caller races every operation of the first. A replay window of
two under three operation numbers has an operation inside, at the edge of, and
below the window, and a jump over one; two bodies let a number be repeated with
its own request or another. In the installer, two calls of one
process share its memo and one of another process shares only the disk; one crash
falls at any step of any of them, and what it leaves is met by the calls of the
process that lives on. In the cache, `r1` and `r2` differ in their commands and in
what they require, so nothing but the identity tells their caches apart, `r3` has
only a marker, and `r1` adopts legacy caches; `HitsAreWhole` and
`NeverAdoptsFailed` ask at every state what any recipe would conclude, so no third
session is needed to look at what two crashes left. In the python server, two
callers are enough for one to hold a server that the other has discarded;
identities of servers and children are free again once dropped, and a caller holds
at most one server and builds only while none is cached, so two suffice. In the
engine, two calls replace each other's pool for as long as they like, by their
tuning, by the toolchain they resolved and by the build they got the harness of;
a pool that is being replaced is held by the other call or by nobody, so two
identities suffice; and with two workers in one of the tunings a pool can have one
worker parked while the other is at work.

`MaxAttempts`, `OutCap`, `MaxIssued`, `MaxOp`, `MaxCalls`, `MaxCrashes`,
`MaxCancels` and the numbers of servers, children and pools are bounds of the
model, as is one blocking write per caller in `Engine`; `MaxIssued` stands for 2^64 - 1. Deadlock is
not checked for the pool, the supervisor and the installer: their jobs, commands
and calls are finite, and a supervisor ends. It is checked for the
manager, the cache, the python server and the engine.

Fairness. tokio polls every task that is ready, its semaphore and its channels
serve in order, its timers fire, and a child that was killed can be waited for;
so the actions of the router are weakly fair. Nothing is assumed of a host or of
a child: a harness need not answer, and a job's own deadline must do. What the code
awaits without a deadline is not fair: the transfer of `Install` (`Fetched`), and in
`PyServer` the host's `prepare` and the write to a child's stdin (`Untimed`). That
these end all the same is a hypothesis of the property that needs it:
`EveryResolveReturns` is stated under `TransfersEnd`, and `CallsReturn` under
`Obliging`, which asks besides that a child does not write foreign lines for ever,
since each restarts the timeout. In `Engine` the bus answers or fails, file
operations and jobs end, and the semaphore of a pool is fair (strong fairness,
because a place may be taken by another call in between). Two
assumptions go beyond that and are named where they are used: a waiter on a watch
channel looks while there is something to see (strong fairness in
`WorkerManager`, because another caller's `stop` lowers the flag again), and the
file lock does not pass over one waiter for ever (`Install`). That a cleanup is
not refused by the operating system for ever is a hypothesis of `CallersReturn`
and, for its own session only, of `PrepareEnds`; `StopReturns` holds without it.

Every property of a passing run has a mutant in `PROJECT.json`: a definition
changed as a plausible mistake in the code would change it, under which the
property fails.

## 4. Where the code and its documentation differ

* `pool_wedged_write`: a worker that stopped reading is waited on for ever by a
  job with a timeout, because the deadline does not cover the write.
* `install_cancelled`: dropping `resolve` releases the install lock while the
  promotion goes on, and a second installation replaces a usable install.
* `engine_harness`: the harness is written by every job and not once per
  toolchain, and not atomically, so a job that is about to start an interpreter
  can find the script truncated by another, or, after an upgrade of the provider,
  replaced by the older one.

Others are visible in the models and have no run of their own:

* `fetch` runs under the install lock with a client that has no timeout, so a peer
  that stalls blocks every `resolve` of every process that has to install the same
  toolchain. `store/lock.rs:32-33` says that "the wait ends with the work already
  done"; `EveryResolveReturns` needs `TransfersEnd`.
* `tinyruntime-pyserver/src/launch.rs:12` calls the request timeout a "Ceiling for a
  single backend request", and its line 36 "How long a single request may wait for
  its response". In `server.rs` it is the wait for one line, started anew after every
  line that is skipped, and it does not cover `write_all` and `flush`;
  `CallsReturn` needs `Obliging`.
* `tinyruntime-pyserver/src/slot.rs:3` wants "exactly one warm worker per process". A
  caller that still holds a server that `ensure` has reset starts a second child with
  its next request; `OneWarmWorker` bounds these by the callers that hold one.
* A call of the python server is retried "on a fresh" child, which is one that did
  not fail this call (`RetriesElsewhere`) but may have failed another's a moment ago.
* A recipe without commands, which validation accepts, publishes its marker over
  whatever environment it finds, a half-made one included, and is a hit from then
  on; `HitsAreWhole` is about recipes with commands.
* `shutdown` of the manager awaits the publication of `closed`, which a supervisor
  task makes just before it ends (`Closes`, `Ends`).

## 5. What is proved

Every safety property of a passing run (its invariants, the action property of
the supervisor and the refinement of `JobContract`) is also a theorem: the run
shows it on a small instance, the theorem for every value of the constants that
the named assumption of the module allows. The assumptions ask for what the code
and the encoding give: finite sets of callers where things are counted, tables
that are total, bounds that are natural numbers (a capacity, a queue and a window
of at least one), and a `None` that is not the name of anything else.

Hardly any of these properties is inductive as it stands. Each proofs module therefore states an inductive
invariant, shows that the initial states satisfy it and that every action keeps
it, one step per action, and derives the properties from it.

| Module | Theorems | Assumption |
| --- | --- | --- |
| `LangPoolProofs` | `PoolTypeCorrect`, `PoolWorkerBound`, `PoolAdmissionBound` | `PoolAssumption` |
| `LangPoolContractProofs` | `PoolNoLeak`, `PoolKeepsContract` | `PoolAssumption` |
| `WorkerManagerProofs` | `ManagerTypeCorrect`, `ManagerCleanAck`, `ManagerWithinCapacity`, `ManagerNoLostCaller` | `ManagerAssumption` |
| `WorkerActorProofs` | `ActorTypeCorrect`, `ActorNoOrphan`, `ActorStatusHonest`, `ActorNoReexecution` | `ActorAssumption` |
| `InstallProofs` | `InstallTypeCorrect`, `InstallMemoStands`, `InstallNotRedundant`, `InstallNeverNothing` | `InstallAssumption` |
| `CacheSessionProofs` | `CacheTypeCorrect`, `CacheLockCoversOwned`, `CacheHitsAreWhole`, `CacheNeverAdoptsFailed` | `CacheAssumption` |
| `EngineProofs` | `EngineTypeCorrect`, `EngineRunsAsAsked`, `EngineWorkerCeiling`, `EngineSpeaksProtocol` | `EngineAssumption` |
| `PyServerProofs` | `PyServerTypeCorrect`, `PyServerOwnAnswer`, `PyServerRetriesElsewhere`, `PyServerUndisturbed`, `PyServerOneWarmWorker` | `PyServerAssumption` |

**The pool.** `TypeOK` needs that a counter is positive when it is lowered, which
follows only if it equals the number of calls that will lower it. `Accounting` is
therefore `TypeOK`, the books (`inflight` is the number of counted calls,
`permits` and the permitted calls together are the slots) and the two bounds: a
permitted call accounts for at most one worker, a parked worker is one that a
permit was returned for, and an admitted call was counted when it was let in. The
lemmas say how the set of calls at some program counters, and its cardinality,
changes when one call moves. `NoLeak` adds `Queue`: the calls that wait for a
permit stand in the queue of the semaphore, once each, and nobody else does. For
the contract, `Promise` follows a job through the socket: a call that has not
written has a quiet worker and a job that did not run, a call that awaits its
reply finds the request unread, the job running, or its own reply among the
lines, in agreement with `ran`; so each verdict is a step of `JobContract`, and
every other step hides behind the mapping.

**The manager.** `ManagerInv` ties the channels of a handle to its supervisor
(`Tied`: until it has published `closed` the slot stays in the book, and after
it has cleaned up it owns nothing), keeps the book within `Capacity`
(`Admitted`), and says what a caller may still believe about what it saw before
its last await (`Seen`: who goes on to remove a slot saw it closed, and a
`shutdown` has yet to visit every supervisor that is not quiet). `Waiting` is
what makes `NoLostCaller` true of callers rather than of commands: a waiting
caller stands in the queue of its handle or is the one being served.

**The supervisor.** `Lifecycle` relates `pc`, `proc` and the published status,
which gives `NoOrphan` and `StatusHonest`. `NoReexecution` rests on `Remembered`
(an operation that is over has its reply in the window or is below its floor) and
`Unfinished` (what is dispatched is not over), which survives every await of
`dispatch` because only this supervisor writes the window.

**The installer.** `Staging` holds always: a tree grows in a staging directory
only, and is whole before it is promoted. `Serialised` holds as long as no future
was dropped, as the properties say: the thread at work holds the lock, what it
replaces is not usable, and what is moved aside never was. Crashes are part of
the proof at every step; the run `install_cancelled` shows why dropped futures
cannot be.

**The cache.** `Sealed` says what a marker stands for, given the identity beside
it: an environment made by all the commands of that recipe, an adopted one, or, for a
recipe without commands, nothing in particular. It is inductive with `Built` (from the removal of the marker to its promotion
there is none, and what has been made so far is that of the one session inside),
`Owned` (the lock covers what is staged and run) and `Fresh`, over crashes and
failed cleanups at any point.

**The engine.** `Asked` says what a call has at each of its awaits. `Running` and
`Existing` relate the `Arc`s that calls hold to the launch of the pool they run in,
across replacements of the pool, resolutions that differ and reloads of the
provider: the launch `Serves` the call, and a pool that somebody keeps is `Sound`.
That is the part that makes the properties inductive: its parked workers and its
calls at work together keep to its settings, because a worker goes from one to the
other, and all of them speak the protocol of the launch, because that is compared
when they start and a pool never changes its launch. The lemmas `SoundFewer`,
`SoundPart`, `SoundMore` and `SoundEmpty` are the four things that happen to a pool.

**The python server.** `ServerInv` is the largest: who holds which mutex is a
matter of queue heads, so `Placed` says which queue a caller stands in, and
`Cached`, `Supported`, `Answered` and `Marked` say what it may rely on while it is
at the head. `KeptServers`, `KeptChildren` and `Solo` are ownership: what nobody
owns is gone, and a child has one owner. `Answered` gives `OwnAnswer`: ids grow on
a child (`Numbered`), so a line with the id of the caller that reads is its own,
and late answers of dropped calls have smaller ones. `OneWarmWorker` is proved by
an injection of the running children into the servers that somebody holds. The lemmas about `Moves` and `Shifts` say what entering and
leaving a queue does to both queues, those about `Touched` and `Handles` what one
caller may do to children and owners, so that the step of an action only has to
say what the caller itself relies on.

Only model-checked: the liveness properties `EveryCallReturns`, `ReaperDrains`,
`StopReturns`, `CallersReturn`, `CommandsAnswered`, `DeathNoticed`,
`EveryResolveReturns`, `PrepareEnds`, `CallsReturn` and `ReplacedDies`. They need
fairness and `ENABLED`, which are outside the prover's reach. The three properties
of section 4 are violated and are not theorems.

## 6. What is not modelled

Archive formats and path checks of their entries, URL and digest handling,
environment construction, configuration, the bus types and the routing table
(data without state over time); operations that only read (`status`, `stats`,
`Languages`); the texts of errors and logs. Threads of the runtime are not modelled below the level of an atomic
operation or a critical section.

Some simplifications are worth knowing. The archive is a single value, so a write
that a dropped download left in flight cannot land in its successor's file.
`WorkerCeiling` is per pool: the workers of replaced
pools come on top while calls keep them, and the code has no bound over all pools.
And `HitsAreWhole` and `NeverAdoptsFailed` say nothing of a scope in which a command
outlived a crashed router: the lock is free then, the command still writes, and the
code has no means against it.

## 7. Plan

Modelling is complete but for what section 6 names, and every safety property of
a passing run is proved. What remains is to state as theorems of their own some
facts that the invariants contain and a reader would ask for (the lock of the
installer excludes, ownership of children in the python server), and to keep the
proofs short enough to follow changes of the code.
