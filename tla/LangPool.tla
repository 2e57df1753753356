------------------------------ MODULE LangPool ------------------------------
(* The bounded pool of warm interpreters for one language                   *)
(* (crates/tinyruntime/src/pool/lang_pool.rs) and the interpreter child     *)
(* behind each slot (pool/worker.rs, pool/protocol.rs).                     *)
(*                                                                          *)
(* A job is one piece of work of a host; each of its submissions is a call  *)
(* of LangPool::run, an async function.  pc[j] names the point between two  *)
(* of its shared-state accesses or awaits; the call may be cancelled (its   *)
(* future dropped) at every await.  The critical sections of the idle       *)
(* mutex contain no await, so each of them is one step.                     *)
EXTENDS Integers, Sequences, FiniteSets, SequencesExt

CONSTANTS
    Jobs,              \* the host's jobs
    MaxWorkers,        \* PoolSettings.max_workers
    MaxQueueDepth,     \* PoolSettings.max_queue_depth
    RecycleAfterJobs,  \* PoolSettings.recycle_after_jobs, 0 for never
    IdleTtl,           \* whether PoolSettings.idle_ttl_secs is non-zero
    UsizeModulus,      \* 2^w for the w-bit usize of the target
    Timed,             \* the jobs submitted with a timeout
    Oversized,         \* the jobs whose request line overfills the socket
    MaxAttempts,       \* bound: submissions of one job
    OutCap,            \* bound: unread lines in a worker's reply stream
    None, Noise        \* no job; a reply line that is not this job's reply

ASSUME PoolAssumption ==
    /\ IsFiniteSet(Jobs)
    /\ MaxWorkers \in Nat /\ MaxQueueDepth \in Nat /\ RecycleAfterJobs \in Nat
    /\ IdleTtl \in BOOLEAN
    /\ UsizeModulus \in Nat \ {0}
    /\ Timed \subseteq Jobs /\ Oversized \subseteq Jobs
    /\ MaxAttempts \in Nat /\ OutCap \in Nat
    /\ None \notin Jobs /\ Noise \notin Jobs /\ None # Noise

VARIABLES
    pc,        \* pc[j]: where the current submission of j stands
    result,    \* result[j]: what run has decided to return
    attempts,  \* attempts[j]: submissions of j after the first
    ran,       \* ran[j]: how often a harness has started j
    inflight,  \* the admission counter
    waiters,   \* the FIFO queue of the semaphore
    permits,   \* free permits of the semaphore
    idle,      \* the parked workers, the last one parked at the end
    held,      \* held[j]: the worker j owns, FreshWorker when it owns none
    stats      \* the counters that LangPool::stats reports

vars == <<pc, result, attempts, ran, inflight, waiters, permits, idle, held, stats>>

PCs == {"new", "shedding", "queued", "taking", "spawning", "writing", "flushing",
        "awaiting", "parking", "releasing", "leaving", "done"}

Results == {"pending", "Ok", "PoolSaturated", "PreDispatch", "PostDispatch", "Cancelled"}

\* error/mod.rs: the dispatch errors for which a host is told to try again.
Retryable == {"PoolSaturated", "PreDispatch"}

(* A worker: what the router keeps of it, and the far side of its socket.   *)
(* exited tells when the child exited: while parked or while serving a job. *)
Worker == [jobs_done : Nat, expired : BOOLEAN, exited : {"no", "parked", "serving"},
           inbox : Jobs \cup {None}, running : Jobs \cup {None},
           out : Seq(Jobs \cup {Noise})]

FreshWorker == [jobs_done |-> 0, expired |-> FALSE, exited |-> "no",
                inbox |-> None, running |-> None, out |-> <<>>]

EffectiveMaxWorkers == IF MaxWorkers = 0 THEN 1 ELSE MaxWorkers

\* usize addition, unchecked: it wraps in a release build.
Capacity == (EffectiveMaxWorkers + MaxQueueDepth) % UsizeModulus

At(S) == {j \in Jobs : pc[j] \in S}
Holding == {"spawning", "writing", "flushing", "awaiting", "parking"}
Permitted == Holding \cup {"taking", "releasing"}
Admitted == Permitted \cup {"queued", "leaving"}
Counted == Admitted \cup {"shedding"}

Goto(j, p) == pc' = [pc EXCEPT ![j] = p]
Conclude(j, r) == result' = [result EXCEPT ![j] = r]
Bump(f) == stats' = [stats EXCEPT ![f] = @ + 1]

\* Dropping a worker kills its child (kill_on_drop, and shutdown before it).
DropWorker(j) == held' = [held EXCEPT ![j] = FreshWorker]

Init ==
    /\ pc = [j \in Jobs |-> "new"]
    /\ result = [j \in Jobs |-> "pending"]
    /\ attempts = [j \in Jobs |-> 0]
    /\ ran = [j \in Jobs |-> 0]
    /\ inflight = 0
    /\ waiters = <<>>
    /\ permits = EffectiveMaxWorkers
    /\ idle = <<>>
    /\ held = [j \in Jobs |-> FreshWorker]
    /\ stats = [jobs_total |-> 0, worker_spawns |-> 0, rejected |-> 0]

-----------------------------------------------------------------------------
(* Admission, and the queue for a permit.                                   *)

\* Mutant of Submit: the capacity test is off by one.
SubmitOneTooMany(j) ==
    /\ pc[j] = "new"
    /\ inflight <= Capacity
    /\ inflight' = inflight + 1
    /\ Goto(j, "queued")
    /\ waiters' = Append(waiters, j)
    /\ UNCHANGED <<result, attempts, ran, permits, idle, held, stats>>

\* run: one fetch_add decides; a caller past the capacity undoes it later.
Submit(j) ==
    /\ pc[j] = "new"
    /\ inflight' = inflight + 1
    /\ \/ /\ inflight + 1 <= Capacity
          /\ Goto(j, "queued")
          /\ waiters' = Append(waiters, j)
       \/ /\ inflight + 1 > Capacity
          /\ Goto(j, "shedding")
          /\ UNCHANGED waiters
    /\ UNCHANGED <<result, attempts, ran, permits, idle, held, stats>>

\* The fetch_sub of a refused submission, and its error.
Shed(j) ==
    /\ pc[j] = "shedding"
    /\ Goto(j, "done")
    /\ Conclude(j, "PoolSaturated")
    /\ inflight' = inflight - 1
    /\ Bump("rejected")
    /\ UNCHANGED <<attempts, ran, waiters, permits, idle, held>>

\* The fair semaphore serves its queue in order.
Acquire(j) ==
    /\ pc[j] = "queued" /\ waiters # <<>> /\ j = Head(waiters)
    /\ permits > 0
    /\ permits' = permits - 1
    /\ waiters' = Tail(waiters)
    /\ Goto(j, "taking")
    /\ UNCHANGED <<result, attempts, ran, inflight, idle, held, stats>>

-----------------------------------------------------------------------------
(* A worker for the job.                                                    *)

Unusable(w) == (IdleTtl /\ w.expired) \/ w.exited # "no"

\* take_or_spawn, under the idle lock: pop and discard down to a usable worker.
TakeOrSpawn(j) ==
    /\ pc[j] = "taking"
    /\ \E k \in 0..Len(idle) :
         /\ \A i \in (k + 1)..Len(idle) : Unusable(idle[i])
         /\ \/ /\ k > 0
               /\ ~Unusable(idle[k])
               /\ idle' = SubSeq(idle, 1, k - 1)
               /\ held' = [held EXCEPT ![j] = idle[k]]
               /\ Goto(j, "writing")
               /\ UNCHANGED stats
            \/ /\ k = 0
               /\ idle' = <<>>
               /\ Goto(j, "spawning")
               /\ Bump("worker_spawns")
               /\ UNCHANGED held
    /\ UNCHANGED <<result, attempts, ran, inflight, waiters, permits>>

Handshake == [ready : BOOLEAN, token : {"given", "other", "absent"},
              protocol : {"same", "other", "absent"}]

\* verify_handshake
Verified(h) == h.ready /\ h.token = "given" /\ h.protocol = "same"

(* Worker::spawn gives up before a handshake arrives: no listener, a        *)
(* refusal by the host's spawner, a child that does not start, does not     *)
(* connect back, or sends no readable handshake within the timeout.         *)
SpawnFails(j) ==
    /\ pc[j] = "spawning"
    /\ Goto(j, "releasing")
    /\ Conclude(j, "PreDispatch")
    /\ UNCHANGED <<attempts, ran, inflight, waiters, permits, idle, held, stats>>

\* Worker::spawn reads a handshake and accepts it only if it verifies.
ReadHandshake(j) ==
    /\ pc[j] = "spawning"
    /\ \E h \in Handshake :
         \/ Verified(h) /\ Goto(j, "writing") /\ UNCHANGED result
         \/ ~Verified(h) /\ Goto(j, "releasing") /\ Conclude(j, "PreDispatch")
    /\ UNCHANGED <<attempts, ran, inflight, waiters, permits, idle, held, stats>>

-----------------------------------------------------------------------------
(* Worker::submit.  A failure tells whether the request reached the worker  *)
(* (SubmitFailure::pre and post); dispatch then discards the worker.        *)

FailWith(j, r) ==
    /\ Goto(j, "releasing")
    /\ Conclude(j, r)
    /\ DropWorker(j)
    /\ UNCHANGED <<attempts, ran, inflight, waiters, permits, idle, stats>>

(* write_all: a write into the socket of a dead peer still succeeds, and    *)
(* one that overfills the socket completes only if the worker reads.  No    *)
(* deadline covers it.                                                      *)
WriteAll(j) ==
    /\ pc[j] = "writing"
    /\ Goto(j, "flushing")
    /\ held' = [held EXCEPT ![j].inbox = j]
    /\ UNCHANGED <<result, attempts, ran, inflight, waiters, permits, idle, stats>>

WriteFails(j) == pc[j] = "writing" /\ FailWith(j, "PreDispatch")

Flush(j) ==
    /\ pc[j] = "flushing"
    /\ Goto(j, "awaiting")
    /\ UNCHANGED <<result, attempts, ran, inflight, waiters, permits, idle, held, stats>>

FlushFails(j) == pc[j] = "flushing" /\ FailWith(j, "PostDispatch")

\* Whether await_response accepts a line as the reply to j.
Answers(line, j) == line = j

(* await_response reads one line: any line but the reply to j is skipped.   *)
(* The reply carries either an outcome or the harness's own error; run      *)
(* counts the job before it parks the worker.                               *)
ReadLine(j) ==
    /\ pc[j] = "awaiting" /\ held[j].out # <<>>
    /\ \/ /\ Answers(Head(held[j].out), j)
          /\ held' = [held EXCEPT ![j].out = Tail(@), ![j].jobs_done = @ + 1,
                                  ![j].expired = FALSE]
          /\ \E r \in {"Ok", "PostDispatch"} : Conclude(j, r)
          /\ Goto(j, "parking")
          /\ Bump("jobs_total")
       \/ /\ ~Answers(Head(held[j].out), j)
          /\ held' = [held EXCEPT ![j].out = Tail(@)]
          /\ UNCHANGED <<pc, result, stats>>
    /\ UNCHANGED <<attempts, ran, inflight, waiters, permits, idle>>

\* Mutant of ReadFails: a lost reply is tagged as if the request had not been sent.
ReadFailsPre(j) == pc[j] = "awaiting" /\ FailWith(j, "PreDispatch")

\* End of stream, a read error, or a line that is not UTF-8.
ReadFails(j) == pc[j] = "awaiting" /\ FailWith(j, "PostDispatch")

\* Mutant of Deadline: every line that arrives restarts the wait.
DeadlinePerLine(j) ==
    /\ pc[j] = "awaiting" /\ j \in Timed /\ held[j].out = <<>>
    /\ FailWith(j, "PostDispatch")

\* The deadline is fixed when the wait begins, so skipped lines do not move it.
Deadline(j) == pc[j] = "awaiting" /\ j \in Timed /\ FailWith(j, "PostDispatch")

-----------------------------------------------------------------------------
(* After the reply.                                                         *)

ShouldRecycle(w) == RecycleAfterJobs > 0 /\ w.jobs_done >= RecycleAfterJobs

\* An exit of the child during the last job is, to the next one, an old exit.
Parked(w) == [w EXCEPT !.exited = IF @ = "no" THEN "no" ELSE "parked"]

\* Mutant of RetireOrPark: the permit is given back before the worker is parked.
ReleaseThenPark(j) ==
    \/ /\ pc[j] = "parking"
       /\ permits' = permits + 1
       /\ Goto(j, "leaving")
       /\ UNCHANGED <<result, attempts, ran, inflight, waiters, idle, held, stats>>
    \/ /\ pc[j] = "leaving" /\ held[j] # FreshWorker
       /\ idle' = IF ShouldRecycle(held[j]) THEN idle ELSE Append(idle, Parked(held[j]))
       /\ DropWorker(j)
       /\ UNCHANGED <<pc, result, attempts, ran, inflight, waiters, permits, stats>>

RetireOrPark(j) ==
    /\ pc[j] = "parking"
    /\ idle' = IF ShouldRecycle(held[j]) THEN idle ELSE Append(idle, Parked(held[j]))
    /\ DropWorker(j)
    /\ Goto(j, "releasing")
    /\ UNCHANGED <<result, attempts, ran, inflight, waiters, permits, stats>>

\* The locals of run are dropped in reverse order: the permit ...
ReleasePermit(j) ==
    /\ pc[j] = "releasing"
    /\ permits' = permits + 1
    /\ Goto(j, "leaving")
    /\ UNCHANGED <<result, attempts, ran, inflight, waiters, idle, held, stats>>

\* Mutant of DropGuard: run uncounts the job itself, and its guard does so again.
DropGuardTwice(j) ==
    /\ pc[j] = "leaving"
    /\ inflight' = inflight - 2
    /\ Goto(j, "done")
    /\ UNCHANGED <<result, attempts, ran, waiters, permits, idle, held, stats>>

\* ... and then the InflightGuard.
DropGuard(j) ==
    /\ pc[j] = "leaving"
    /\ inflight' = inflight - 1
    /\ Goto(j, "done")
    /\ UNCHANGED <<result, attempts, ran, waiters, permits, idle, held, stats>>

\* Mutant of Cancel: no guard releases the count of a call cancelled in the queue.
CancelLeaks(j) ==
    /\ pc[j] = "queued"
    /\ \E i \in DOMAIN waiters : waiters[i] = j /\ waiters' = RemoveAt(waiters, i)
    /\ Goto(j, "done")
    /\ Conclude(j, "Cancelled")
    /\ UNCHANGED <<attempts, ran, inflight, permits, idle, held, stats>>

(* The host drops the future of run at one of its awaits.  A worker it      *)
(* owns dies with it; a place in the queue or a permit is given back.       *)
Cancel(j) ==
    /\ \/ /\ pc[j] = "queued"
          /\ \E i \in DOMAIN waiters : waiters[i] = j /\ waiters' = RemoveAt(waiters, i)
          /\ Goto(j, "leaving")
       \/ /\ pc[j] \in Holding \cup {"taking"}
          /\ Goto(j, "releasing")
          /\ UNCHANGED waiters
    /\ Conclude(j, "Cancelled")
    /\ DropWorker(j)
    /\ UNCHANGED <<attempts, ran, inflight, permits, idle, stats>>

\* A host that follows Error::is_retryable submits a refused job again.
HostRetries(j) ==
    /\ pc[j] = "done" /\ result[j] \in Retryable
    /\ attempts[j] + 1 < MaxAttempts
    /\ attempts' = [attempts EXCEPT ![j] = @ + 1]
    /\ Goto(j, "new")
    /\ Conclude(j, "pending")
    /\ UNCHANGED <<ran, inflight, waiters, permits, idle, held, stats>>

-----------------------------------------------------------------------------
(* The reaper, time, and the children.                                      *)

\* Mutant of Kept: the reaper looks for exited children instead of old ones.
KeptLive == {i \in DOMAIN idle : idle[i].exited = "no"}

Kept == {i \in DOMAIN idle : ~idle[i].expired}

\* reap, under the idle lock: the workers that are kept stay in their order.
Reap ==
    /\ IdleTtl
    /\ Kept # DOMAIN idle
    /\ \E f \in [1..Cardinality(Kept) -> Kept] :
         /\ \A a, b \in DOMAIN f : a < b => f[a] < f[b]
         /\ idle' = [i \in DOMAIN f |-> idle[f[i]]]
    /\ UNCHANGED <<pc, result, attempts, ran, inflight, waiters, permits, held, stats>>

\* A parked worker passes its time-to-live.
Expire(i) ==
    /\ IdleTtl /\ ~idle[i].expired
    /\ idle' = [idle EXCEPT ![i].expired = TRUE]
    /\ UNCHANGED <<pc, result, attempts, ran, inflight, waiters, permits, held, stats>>

ExitParked(i) ==
    /\ idle[i].exited = "no"
    /\ idle' = [idle EXCEPT ![i].exited = "parked"]
    /\ UNCHANGED <<pc, result, attempts, ran, inflight, waiters, permits, held, stats>>

Serving(j) == pc[j] \in Holding \ {"spawning"} /\ held[j].exited = "no"

ExitServing(j) ==
    /\ Serving(j)
    /\ held' = [held EXCEPT ![j].exited = "serving"]
    /\ UNCHANGED <<pc, result, attempts, ran, inflight, waiters, permits, idle, stats>>

\* The harness takes the request line from its socket and starts the job.
HarnessStarts(j) ==
    /\ Serving(j) /\ held[j].inbox # None
    /\ ran' = [ran EXCEPT ![held[j].inbox] = @ + 1]
    /\ held' = [held EXCEPT ![j].running = held[j].inbox, ![j].inbox = None]
    /\ UNCHANGED <<pc, result, attempts, inflight, waiters, permits, idle, stats>>

HarnessReplies(j) ==
    /\ Serving(j) /\ held[j].running # None /\ Len(held[j].out) < OutCap
    /\ held' = [held EXCEPT ![j].out = Append(@, held[j].running), ![j].running = None]
    /\ UNCHANGED <<pc, result, attempts, ran, inflight, waiters, permits, idle, stats>>

\* The harness sends a line that is no frame, or a reply nobody waits for.
HarnessChatters(j) ==
    /\ Serving(j) /\ Len(held[j].out) < OutCap
    /\ held' = [held EXCEPT ![j].out = Append(@, Noise)]
    /\ UNCHANGED <<pc, result, attempts, ran, inflight, waiters, permits, idle, stats>>

-----------------------------------------------------------------------------
Router(j) ==
    \/ Submit(j) \/ Shed(j) \/ Acquire(j) \/ TakeOrSpawn(j)
    \/ SpawnFails(j) \/ ReadHandshake(j)
    \/ WriteAll(j) \/ WriteFails(j) \/ Flush(j) \/ FlushFails(j)
    \/ ReadLine(j) \/ ReadFails(j) \/ Deadline(j)
    \/ RetireOrPark(j) \/ ReleasePermit(j) \/ DropGuard(j)

Environment(j) ==
    \/ Cancel(j) \/ HostRetries(j)
    \/ ExitServing(j) \/ HarnessStarts(j) \/ HarnessReplies(j) \/ HarnessChatters(j)

Next ==
    \/ \E j \in Jobs : Router(j) \/ Environment(j)
    \/ Reap
    \/ \E i \in DOMAIN idle : Expire(i) \/ ExitParked(i)

Spec == Init /\ [][Next]_vars

(* The runtime polls every ready task, the semaphore is fair, and every     *)
(* timer fires; a write to a child that has exited fails in the end.        *)
(* Nothing is assumed of a host, of a child, or of an oversized write to a  *)
(* child that lives and does not read.                                      *)
Fairness ==
    /\ WF_vars(Reap)
    /\ \A j \in Jobs :
         /\ WF_vars(Shed(j)) /\ WF_vars(Acquire(j)) /\ WF_vars(TakeOrSpawn(j))
         /\ WF_vars(SpawnFails(j) \/ ReadHandshake(j))
         /\ (j \notin Oversized => WF_vars(WriteAll(j) \/ WriteFails(j)))
         /\ WF_vars(held[j].exited # "no" /\ WriteFails(j))
         /\ WF_vars(Flush(j) \/ FlushFails(j))
         /\ WF_vars(ReadLine(j)) /\ WF_vars(Deadline(j))
         /\ WF_vars(RetireOrPark(j)) /\ WF_vars(ReleasePermit(j)) /\ WF_vars(DropGuard(j))

FairSpec == Spec /\ Fairness

-----------------------------------------------------------------------------
(* Properties.                                                              *)

\* Every variable keeps its type; the counters never go below zero.
TypeOK ==
    /\ pc \in [Jobs -> PCs]
    /\ result \in [Jobs -> Results]
    /\ attempts \in [Jobs -> Nat] /\ ran \in [Jobs -> Nat]
    /\ inflight \in Nat /\ permits \in Nat
    /\ waiters \in Seq(Jobs)
    /\ idle \in Seq(Worker)
    /\ held \in [Jobs -> Worker]
    /\ stats \in [{"jobs_total", "worker_spawns", "rejected"} -> Nat]

(* Never more interpreters than slots: the parked workers and the workers   *)
(* that calls own or are starting together fit the pool.  It rests on the   *)
(* order at the end of run: park first, give the permit back second.        *)
WorkerBound == Len(idle) + Cardinality(At(Holding)) <= EffectiveMaxWorkers

(* Backpressure: the jobs that were admitted and have not left fit the      *)
(* worker slots plus the queue, however the fetch_adds interleave.          *)
AdmissionBound == Cardinality(At(Admitted)) <= Capacity

(* No exit path of run, a cancelled future included, leaks or repeats the   *)
(* release of its permit or of its in-flight count.                         *)
NoLeak ==
    /\ inflight = Cardinality(At(Counted))
    /\ permits + Cardinality(At(Permitted)) = EffectiveMaxWorkers
    /\ ToSet(waiters) = At({"queued"}) /\ Len(waiters) = Cardinality(At({"queued"}))

\* The pool keeps the promise of JobContract to the hosts of its jobs.
Contract == INSTANCE JobContract
              WITH verdict <- [j \in Jobs |-> IF pc[j] = "done" THEN result[j] ELSE "pending"]
KeepsContract == Contract!Spec

(* Every submission is answered, given that every job has a timeout and     *)
(* that no request overfills a socket, whatever the children do.            *)
EveryCallReturns == \A j \in Jobs : (pc[j] \notin {"new", "done"}) ~> (pc[j] = "done")

\* A parked worker past its time-to-live does not stay parked.
ReaperDrains == (\E i \in DOMAIN idle : idle[i].expired) ~> (\A i \in DOMAIN idle : ~idle[i].expired)
=============================================================================
