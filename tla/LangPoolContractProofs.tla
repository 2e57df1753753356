----------------------- MODULE LangPoolContractProofs -----------------------
(* What LangPool promises its hosts, for every number of jobs and every     *)
(* setting: no way out of run leaks, and the pool implements JobContract.   *)
EXTENDS LangPoolProofs

-----------------------------------------------------------------------------
(* The queue of the semaphore: the calls that wait for a permit stand in it *)
(* once each, and nobody else does.                                         *)

Queue ==
    /\ \A a, b \in 1..Len(waiters) : waiters[a] = waiters[b] => a = b
    /\ \A j \in Jobs : pc[j] = "queued" <=> \E a \in 1..Len(waiters) : waiters[a] = j

\* A call that leaves the queue from within closes the gap behind it.
LEMMA RemoveAtElements ==
    ASSUME waiters \in Seq(Jobs), NEW i \in 1..Len(waiters)
    PROVE  LET rest == RemoveAt(waiters, i)
           IN  /\ rest \in Seq(Jobs) /\ Len(rest) = Len(waiters) - 1
               /\ \A k \in 1..Len(rest) : rest[k] = IF k < i THEN waiters[k] ELSE waiters[k + 1]
<1> DEFINE n == Len(waiters)
           front == SubSeq(waiters, 1, i - 1)
           back == SubSeq(waiters, i + 1, n)
<1>1. n \in Nat /\ i \in 1..n
  BY LenProperties
<1>2. /\ front \in Seq(Jobs) /\ Len(front) = i - 1
      /\ \A k \in 1..(i - 1) : front[k] = waiters[k]
  BY <1>1, SubSeqProperties, ElementOfSeq
<1>3. /\ back \in Seq(Jobs) /\ Len(back) = n - i
      /\ \A k \in 1..(n - i) : back[k] = waiters[k + i]
  BY <1>1, SubSeqProperties, ElementOfSeq
<1>4. RemoveAt(waiters, i) = front \o back
  BY DEF RemoveAt
<1> HIDE DEF front, back
<1>5. /\ front \o back \in Seq(Jobs) /\ Len(front \o back) = n - 1
      /\ \A k \in 1..(n - 1) : (front \o back)[k] = IF k < i THEN waiters[k] ELSE waiters[k + 1]
  <2>1. front \o back \in Seq(Jobs) /\ Len(front \o back) = n - 1
    <3>1. front \o back \in Seq(Jobs) /\ Len(front \o back) = Len(front) + Len(back)
      BY <1>2, <1>3, ConcatProperties
    <3> QED BY <1>1, <1>2, <1>3, <3>1
  <2>2. \A k \in 1..(n - 1) : (front \o back)[k] = IF k <= i - 1 THEN front[k] ELSE back[k - (i - 1)]
    BY <1>1, <1>2, <1>3, ConcatProperties
  <2>3. \A k \in 1..(n - 1) : k > i - 1 => k - (i - 1) \in 1..(n - i) /\ k - (i - 1) + i = k + 1
    BY <1>1
  <2>4. \A k \in 1..(n - 1) : k <= i - 1 => k \in 1..(i - 1) /\ k < i
    BY <1>1
  <2> QED BY <1>1, <1>2, <1>3, <2>1, <2>2, <2>3, <2>4
<1>6. QED
  BY <1>4, <1>5

\* A step that leaves the queue alone and moves nobody into it or out of it.
LEMMA QueueUntouched ==
    ASSUME Queue, waiters' = waiters,
           \A j \in Jobs : pc'[j] = "queued" <=> pc[j] = "queued"
    PROVE  Queue'
  BY DEF Queue

LEMMA QueueStep == TypeOK /\ Queue /\ [Next]_vars => Queue'
<1> SUFFICES ASSUME TypeOK, Queue, [Next]_vars PROVE Queue'
  OBVIOUS
<1>0. Len(waiters) \in Nat /\ waiters \in Seq(Jobs) /\ pc \in [Jobs -> PCs]
  BY LenProperties DEF TypeOK
<1>q. /\ \A a, b \in 1..Len(waiters) : waiters[a] = waiters[b] => a = b
      /\ \A k \in Jobs : pc[k] = "queued" <=> \E a \in 1..Len(waiters) : waiters[a] = k
  BY DEF Queue
<1>1. ASSUME NEW j \in Jobs, NEW p, waiters' = waiters, Goto(j, p), pc[j] # "queued", p # "queued"
      PROVE  Queue'
  BY <1>0, <1>1, QueueUntouched DEF Goto
<1>2. ASSUME waiters' = waiters, pc' = pc PROVE Queue'
  BY <1>2, QueueUntouched
<1>3. ASSUME NEW j \in Jobs, Submit(j) PROVE Queue'
  <2>1. CASE Goto(j, "queued") /\ waiters' = Append(waiters, j)
    <3>1. /\ Len(waiters') = Len(waiters) + 1
          /\ \A a \in 1..Len(waiters) : waiters'[a] = waiters[a]
          /\ waiters'[Len(waiters) + 1] = j
      BY <1>0, <2>1, AppendProperties
    <3>2. pc[j] # "queued" /\ pc'[j] = "queued" /\ \A k \in Jobs \ {j} : pc'[k] = pc[k]
      BY <1>0, <1>3, <2>1 DEF Submit, Goto
    <3>3. \A a \in 1..Len(waiters) : waiters'[a] # j
      BY <1>q, <3>1, <3>2
    <3>4. \A a, b \in 1..Len(waiters') : waiters'[a] = waiters'[b] => a = b
      BY <1>0, <1>q, <3>1, <3>3
    <3>5. ASSUME NEW k \in Jobs PROVE pc'[k] = "queued" <=> \E a \in 1..Len(waiters') : waiters'[a] = k
      <4>1. CASE k = j
        BY <1>0, <3>1, <3>2, <4>1
      <4>2. CASE k # j
        BY <1>0, <1>q, <3>1, <3>2, <4>2
      <4> QED BY <4>1, <4>2
    <3> QED BY <3>4, <3>5 DEF Queue
  <2>2. CASE Goto(j, "shedding") /\ UNCHANGED waiters
    BY <1>3, <2>2, <1>1 DEF Submit
  <2> QED BY <1>3, <2>1, <2>2 DEF Submit
<1>4. ASSUME NEW j \in Jobs, Acquire(j) PROVE Queue'
  <2>1. waiters # <<>> /\ j = Head(waiters) /\ waiters' = Tail(waiters) /\ Goto(j, "taking")
    BY <1>4 DEF Acquire
  <2>2. /\ Len(waiters) > 0 /\ waiters[1] = j
        /\ Len(waiters') = Len(waiters) - 1
        /\ \A a \in 1..Len(waiters') : waiters'[a] = waiters[a + 1]
    BY <1>0, <2>1, HeadTailProperties, EmptySeq
  <2>3. pc'[j] # "queued" /\ \A k \in Jobs \ {j} : pc'[k] = pc[k]
    BY <1>0, <2>1 DEF Goto
  <2>4. \A a, b \in 1..Len(waiters') : waiters'[a] = waiters'[b] => a = b
    BY <1>0, <1>q, <2>2
  <2>5. \A a \in 1..Len(waiters') : waiters'[a] # j
    BY <1>0, <1>q, <2>2
  <2>6. ASSUME NEW k \in Jobs PROVE pc'[k] = "queued" <=> \E a \in 1..Len(waiters') : waiters'[a] = k
    <3>1. CASE k = j
      BY <2>3, <2>5, <3>1
    <3>2. CASE k # j
      <4>1. pc'[k] = "queued" <=> \E a \in 1..Len(waiters) : waiters[a] = k
        BY <1>q, <2>3, <3>2
      <4>2. ASSUME NEW a \in 1..Len(waiters), waiters[a] = k PROVE \E b \in 1..Len(waiters') : waiters'[b] = k
        <5>1. a # 1 /\ a - 1 \in 1..Len(waiters') /\ waiters'[a - 1] = waiters[a]
          BY <1>0, <2>2, <3>2, <4>2
        <5> QED BY <4>2, <5>1
      <4>3. ASSUME NEW b \in 1..Len(waiters'), waiters'[b] = k PROVE \E a \in 1..Len(waiters) : waiters[a] = k
        <5>1. b + 1 \in 1..Len(waiters) /\ waiters[b + 1] = k
          BY <1>0, <2>2, <4>3
        <5> QED BY <5>1
      <4> QED BY <4>1, <4>2, <4>3
    <3> QED BY <3>1, <3>2
  <2> QED BY <2>4, <2>6 DEF Queue
<1>5. ASSUME NEW j \in Jobs, Cancel(j) PROVE Queue'
  <2>1. CASE /\ pc[j] = "queued" /\ Goto(j, "leaving")
             /\ \E i \in DOMAIN waiters : waiters[i] = j /\ waiters' = RemoveAt(waiters, i)
    <3>1. PICK i \in 1..Len(waiters) : waiters[i] = j /\ waiters' = RemoveAt(waiters, i)
      BY <1>0, <2>1, LenProperties
    <3>2. /\ Len(waiters') = Len(waiters) - 1
          /\ \A k \in 1..Len(waiters') : waiters'[k] = IF k < i THEN waiters[k] ELSE waiters[k + 1]
      BY <1>0, <3>1, RemoveAtElements
    <3>3. pc'[j] # "queued" /\ \A k \in Jobs \ {j} : pc'[k] = pc[k]
      BY <1>0, <2>1 DEF Goto
    <3>4. \A a, b \in 1..Len(waiters') : waiters'[a] = waiters'[b] => a = b
      BY <1>0, <1>q, <3>1, <3>2
    <3>5. \A a \in 1..Len(waiters') : waiters'[a] # j
      BY <1>0, <1>q, <3>1, <3>2
    <3>6. ASSUME NEW k \in Jobs PROVE pc'[k] = "queued" <=> \E a \in 1..Len(waiters') : waiters'[a] = k
      <4>1. CASE k = j
        BY <3>3, <3>5, <4>1
      <4>2. CASE k # j
        <5>1. pc'[k] = "queued" <=> \E a \in 1..Len(waiters) : waiters[a] = k
          BY <1>q, <3>3, <4>2
        <5>2. ASSUME NEW a \in 1..Len(waiters), waiters[a] = k PROVE \E b \in 1..Len(waiters') : waiters'[b] = k
          <6>1. CASE a < i
            <7>1. a \in 1..Len(waiters') /\ waiters'[a] = k
              BY <1>0, <3>1, <3>2, <5>2, <6>1
            <7> QED BY <7>1
          <6>2. CASE ~(a < i)
            <7>1. a - 1 \in 1..Len(waiters') /\ waiters'[a - 1] = k
              BY <1>0, <3>1, <3>2, <4>2, <5>2, <6>2
            <7> QED BY <7>1
          <6> QED BY <6>1, <6>2
        <5>3. ASSUME NEW b \in 1..Len(waiters'), waiters'[b] = k PROVE \E a \in 1..Len(waiters) : waiters[a] = k
          <6>1. /\ b \in 1..Len(waiters) /\ b + 1 \in 1..Len(waiters)
                /\ waiters[b] = k \/ waiters[b + 1] = k
            BY <1>0, <3>2, <5>3
          <6> QED BY <6>1
        <5> QED BY <5>1, <5>2, <5>3
      <4> QED BY <4>1, <4>2
    <3> QED BY <3>4, <3>6 DEF Queue
  <2>2. CASE pc[j] \in Holding \cup {"taking"} /\ Goto(j, "releasing") /\ UNCHANGED waiters
    BY <2>2, <1>1 DEF Holding
  <2> QED BY <1>5, <2>1, <2>2 DEF Cancel
<1>6. ASSUME NEW j \in Jobs, Router(j) PROVE Queue'
  <2>1. CASE Shed(j)
    BY <2>1, <1>1 DEF Shed
  <2>2. CASE TakeOrSpawn(j)
    <3>1. pc[j] = "taking" /\ (Goto(j, "writing") \/ Goto(j, "spawning")) /\ waiters' = waiters
      BY <2>2 DEF TakeOrSpawn
    <3> QED BY <3>1, <1>1
  <2>3. CASE SpawnFails(j) \/ ReadHandshake(j)
    <3>1. pc[j] = "spawning" /\ (Goto(j, "writing") \/ Goto(j, "releasing")) /\ waiters' = waiters
      BY <2>3 DEF SpawnFails, ReadHandshake
    <3> QED BY <3>1, <1>1
  <2>4. CASE WriteAll(j) \/ Flush(j)
    <3>1. /\ pc[j] \in {"writing", "flushing"} /\ waiters' = waiters
          /\ Goto(j, "flushing") \/ Goto(j, "awaiting")
      BY <2>4 DEF WriteAll, Flush
    <3> QED BY <3>1, <1>1
  <2>5. CASE WriteFails(j) \/ FlushFails(j) \/ ReadFails(j) \/ Deadline(j)
    <3>1. /\ pc[j] \in {"writing", "flushing", "awaiting"} /\ Goto(j, "releasing") /\ waiters' = waiters
      BY <2>5 DEF WriteFails, FlushFails, ReadFails, Deadline, FailWith
    <3> QED BY <3>1, <1>1
  <2>6. CASE ReadLine(j)
    <3>1. pc[j] = "awaiting" /\ (Goto(j, "parking") \/ UNCHANGED pc) /\ waiters' = waiters
      BY <2>6 DEF ReadLine
    <3> QED BY <3>1, <1>1, <1>2
  <2>7. CASE RetireOrPark(j) \/ ReleasePermit(j) \/ DropGuard(j)
    <3>1. /\ pc[j] \in {"parking", "releasing", "leaving"} /\ waiters' = waiters
          /\ Goto(j, "releasing") \/ Goto(j, "leaving") \/ Goto(j, "done")
      BY <2>7 DEF RetireOrPark, ReleasePermit, DropGuard
    <3> QED BY <3>1, <1>1
  <2> QED BY <1>3, <1>4, <1>6, <2>1, <2>2, <2>3, <2>4, <2>5, <2>6, <2>7 DEF Router
<1>7. ASSUME NEW j \in Jobs, Environment(j) PROVE Queue'
  <2>1. CASE HostRetries(j)
    BY <2>1, <1>1 DEF HostRetries
  <2>2. CASE ExitServing(j) \/ HarnessStarts(j) \/ HarnessReplies(j) \/ HarnessChatters(j)
    BY <2>2, <1>2 DEF ExitServing, HarnessStarts, HarnessReplies, HarnessChatters
  <2> QED BY <1>5, <1>7, <2>1, <2>2 DEF Environment
<1>8. ASSUME Reap \/ \E i \in DOMAIN idle : Expire(i) \/ ExitParked(i) PROVE Queue'
  BY <1>8, <1>2 DEF Reap, Expire, ExitParked
<1>9. CASE UNCHANGED vars
  BY <1>9, <1>2 DEF vars
<1> QED BY <1>6, <1>7, <1>8, <1>9 DEF Next

\* A queue without repetitions is as long as the set of calls that stand in it.
LEMMA QueueCounts ==
    ASSUME TypeOK, Queue
    PROVE  ToSet(waiters) = At({"queued"}) /\ Len(waiters) = Cardinality(At({"queued"}))
<1>1. Len(waiters) \in Nat /\ DOMAIN waiters = 1..Len(waiters)
      /\ \A a \in 1..Len(waiters) : waiters[a] \in Jobs
  BY LenProperties, ElementOfSeq DEF TypeOK
<1>2. ToSet(waiters) = At({"queued"})
  BY <1>1 DEF ToSet, At, Queue
<1>3. waiters \in Bijection(1..Len(waiters), At({"queued"}))
  <2>1. waiters \in [1..Len(waiters) -> At({"queued"})]
    <3>1. waiters = [a \in 1..Len(waiters) |-> waiters[a]]
      BY <1>1, LenProperties DEF TypeOK
    <3>2. \A a \in 1..Len(waiters) : waiters[a] \in At({"queued"})
      BY <1>1 DEF At, Queue
    <3> QED BY <3>1, <3>2
  <2>2. \A a, b \in 1..Len(waiters) : waiters[a] = waiters[b] => a = b
    BY DEF Queue
  <2>3. \A j \in At({"queued"}) : \E a \in 1..Len(waiters) : waiters[a] = j
    BY DEF At, Queue
  <2> QED BY <2>1, <2>2, <2>3 DEF Bijection, Injection, Surjection, IsInjective
<1>4. ExistsBijection(1..Len(waiters), At({"queued"}))
  BY <1>3 DEF ExistsBijection
<1>5. Cardinality(At({"queued"})) = Cardinality(1..Len(waiters))
  BY <1>1, <1>4, UpTo, FS_Bijection
<1>6. QED
  BY <1>1, <1>2, <1>5, UpTo

(* No exit path of run, a cancelled future included, leaks or repeats the   *)
(* release of its permit, of its in-flight count or of its queue place.     *)
THEOREM PoolNoLeak == Spec => []NoLeak
<1>1. Init => Queue
  BY EmptySeq DEF Init, Queue
<1>2. Accounting /\ Queue /\ [Next]_vars => (Accounting /\ Queue)'
  BY TypeStep, BooksStep, QueueStep DEF Accounting
<1>3. Accounting /\ Queue => NoLeak
  BY QueueCounts DEF Accounting, Books, NoLeak
<1>4. QED
  BY InitAccounting, <1>1, <1>2, <1>3, PTL DEF Spec

-----------------------------------------------------------------------------
(* The promise of JobContract.  What the pool tells a host is decided by    *)
(* where the request of its job is: not yet written, in the socket of the   *)
(* worker, running, or on its way back.  The invariant follows one request  *)
(* through its worker, and says that a worker nobody talks to has nothing   *)
(* of any job.                                                              *)

Quiet(w) ==
    /\ w.inbox = None /\ w.running = None
    /\ \A k \in 1..Len(w.out) : w.out[k] = Noise

\* The request of j, started n times, is in at most one place of worker w.
OnTheWay(j, w, n) ==
    /\ n \in {0, 1}
    /\ w.inbox \in {None, j} /\ w.running \in {None, j}
    /\ w.inbox = j => n = 0
    /\ \A k \in 1..Len(w.out) : w.out[k] \in {j, Noise}
    /\ n = 0 => w.running = None /\ \A k \in 1..Len(w.out) : w.out[k] = Noise
    /\ w.running = j => \A k \in 1..Len(w.out) : w.out[k] = Noise
    /\ \A a, b \in 1..Len(w.out) : w.out[a] = j /\ w.out[b] = j => a = b

\* Job j at p with result r, started n times, and its worker w.
Sound(j, p, r, n, w) ==
    /\ p \in {"new", "shedding", "queued", "taking", "spawning", "writing"} => n = 0
    /\ p \in {"flushing", "awaiting"} => OnTheWay(j, w, n)
    /\ p \notin {"flushing", "awaiting"} => Quiet(w)
    /\ p = "parking" => n = 1
    /\ p \in {"parking", "releasing", "leaving", "done"} =>
         r # "pending" /\ (r \in Retryable => n = 0) /\ (r = "Ok" => n = 1)

Promise ==
    /\ \A j \in Jobs : Sound(j, pc[j], result[j], ran[j], held[j])
    /\ \A k \in 1..Len(idle) : Quiet(idle[k])

\* A step of one job and its worker that leaves the parked workers alone.
LEMMA PromiseOfOne ==
    ASSUME TypeOK, Promise, NEW j \in Jobs, NEW p, NEW r, NEW n, NEW w,
           pc' = [pc EXCEPT ![j] = p], result' = [result EXCEPT ![j] = r],
           ran' = [ran EXCEPT ![j] = n], held' = [held EXCEPT ![j] = w],
           Sound(j, p, r, n, w), \A k \in 1..Len(idle') : Quiet(idle'[k])
    PROVE  Promise'
<1>1. /\ pc'[j] = p /\ result'[j] = r /\ ran'[j] = n /\ held'[j] = w
      /\ \A k \in Jobs \ {j} : /\ pc'[k] = pc[k] /\ result'[k] = result[k]
                               /\ ran'[k] = ran[k] /\ held'[k] = held[k]
  BY DEF TypeOK
<1>2. \A k \in Jobs : Sound(k, pc'[k], result'[k], ran'[k], held'[k])
  BY <1>1 DEF Promise
<1>3. QED
  BY <1>2 DEF Promise

LEMMA QuietFresh == Quiet(FreshWorker)
  BY EmptySeq DEF Quiet, FreshWorker

\* A line that is nobody's reply changes neither what a worker keeps of a job
\* nor that it keeps nothing.
LEMMA Chatter ==
    ASSUME NEW j \in Jobs, NEW w \in Worker, NEW n,
           NEW v \in Worker, v = [w EXCEPT !.out = Append(w.out, Noise)]
    PROVE  /\ Quiet(w) => Quiet(v)
           /\ OnTheWay(j, w, n) => OnTheWay(j, v, n)
<1>1. w.out \in Seq(Jobs \cup {Noise}) /\ Len(w.out) \in Nat
  BY LenProperties DEF Worker
<1>2. /\ v.inbox = w.inbox /\ v.running = w.running /\ v.out = Append(w.out, Noise)
  BY DEF Worker
<1>3. /\ Len(v.out) = Len(w.out) + 1
      /\ \A k \in 1..Len(w.out) : v.out[k] = w.out[k]
      /\ v.out[Len(w.out) + 1] = Noise
  BY <1>1, <1>2, AppendProperties
<1>4. Quiet(w) => Quiet(v)
  BY <1>1, <1>2, <1>3 DEF Quiet
<1>5. j # Noise
  BY PoolAssumption
<1>6. OnTheWay(j, w, n) => OnTheWay(j, v, n)
  BY <1>1, <1>2, <1>3, <1>5 DEF OnTheWay
<1>7. QED
  BY <1>4, <1>6

\* await_response consumes one line.
LEMMA Consume ==
    ASSUME NEW w \in Worker, w.out # <<>>
    PROVE  /\ Len(w.out) \in Nat \ {0} /\ Head(w.out) = w.out[1]
           /\ Len(Tail(w.out)) = Len(w.out) - 1
           /\ \A k \in 1..Len(Tail(w.out)) : Tail(w.out)[k] = w.out[k + 1]
<1>1. w.out \in Seq(Jobs \cup {Noise}) /\ Len(w.out) \in Nat
  BY LenProperties DEF Worker
<1>2. QED
  BY <1>1, HeadTailProperties, EmptySeq

LEMMA PromiseStep == TypeOK /\ Promise /\ [Next]_vars => Promise'
<1> SUFFICES ASSUME TypeOK, Promise, [Next]_vars PROVE Promise'
  OBVIOUS
<1> USE DEF Goto, Conclude, DropWorker
<1>t. /\ pc \in [Jobs -> PCs] /\ result \in [Jobs -> Results] /\ ran \in [Jobs -> Nat]
      /\ held \in [Jobs -> Worker] /\ idle \in Seq(Worker) /\ Len(idle) \in Nat
  BY LenProperties DEF TypeOK
<1>i. \A k \in 1..Len(idle) : Quiet(idle[k])
  BY DEF Promise
<1>s. \A j \in Jobs : Sound(j, pc[j], result[j], ran[j], held[j])
  BY DEF Promise
<1>k. ASSUME NEW j \in Jobs
      PROVE  /\ pc = [pc EXCEPT ![j] = pc[j]] /\ result = [result EXCEPT ![j] = result[j]]
             /\ ran = [ran EXCEPT ![j] = ran[j]] /\ held = [held EXCEPT ![j] = held[j]]
  BY <1>t
<1>1. ASSUME NEW j \in Jobs, NEW p, NEW r, NEW w,
             pc' = [pc EXCEPT ![j] = p], result' = [result EXCEPT ![j] = r],
             ran' = ran, held' = [held EXCEPT ![j] = w], idle' = idle,
             Sound(j, p, r, ran[j], w)
      PROVE  Promise'
  BY <1>1, <1>i, <1>k, PromiseOfOne
<1>2. ASSUME NEW j \in Jobs, Submit(j) PROVE Promise'
  <2>1. PICK p \in {"queued", "shedding"} : pc' = [pc EXCEPT ![j] = p]
    BY <1>2 DEF Submit
  <2>2. Sound(j, p, result[j], ran[j], held[j])
    BY <1>2, <1>s DEF Submit, Sound
  <2>3. result' = [result EXCEPT ![j] = result[j]] /\ held' = [held EXCEPT ![j] = held[j]]
    BY <1>2, <1>k DEF Submit
  <2>4. ran' = ran /\ idle' = idle
    BY <1>2 DEF Submit
  <2> QED BY <1>1, <2>1, <2>2, <2>3, <2>4
<1>3. ASSUME NEW j \in Jobs, Shed(j) PROVE Promise'
  <2>1. Sound(j, "done", "PoolSaturated", ran[j], held[j])
    BY <1>3, <1>s DEF Shed, Sound, Retryable
  <2> QED BY <1>3, <1>1, <1>k, <2>1 DEF Shed
<1>4. ASSUME NEW j \in Jobs, Acquire(j) PROVE Promise'
  <2>1. Sound(j, "taking", result[j], ran[j], held[j])
    BY <1>4, <1>s DEF Acquire, Sound
  <2>2. result' = [result EXCEPT ![j] = result[j]] /\ held' = [held EXCEPT ![j] = held[j]]
    BY <1>4, <1>k DEF Acquire
  <2>3. pc' = [pc EXCEPT ![j] = "taking"] /\ ran' = ran /\ idle' = idle
    BY <1>4 DEF Acquire
  <2> QED BY <1>1, <2>1, <2>2, <2>3
<1>5. ASSUME NEW j \in Jobs, TakeOrSpawn(j) PROVE Promise'
  <2>0. pc[j] = "taking" /\ UNCHANGED <<result, ran>>
    BY <1>5 DEF TakeOrSpawn
  <2>1. PICK k \in 0..Len(idle) :
           \/ /\ k > 0 /\ idle' = SubSeq(idle, 1, k - 1)
              /\ held' = [held EXCEPT ![j] = idle[k]] /\ Goto(j, "writing")
           \/ idle' = <<>> /\ Goto(j, "spawning") /\ UNCHANGED held
    BY <1>5 DEF TakeOrSpawn
  <2>2. CASE /\ k > 0 /\ idle' = SubSeq(idle, 1, k - 1)
             /\ held' = [held EXCEPT ![j] = idle[k]] /\ Goto(j, "writing")
    <3>1. Len(idle') = k - 1 /\ \A i \in 1..(k - 1) : idle'[i] = idle[i]
      BY <1>t, <2>2, SubSeqProperties, ElementOfSeq
    <3>2. \A i \in 1..Len(idle') : Quiet(idle'[i])
      BY <1>i, <1>t, <3>1
    <3>3. Sound(j, "writing", result[j], ran[j], idle[k])
      BY <1>i, <1>s, <1>t, <2>0, <2>2 DEF Sound
    <3>4. result' = [result EXCEPT ![j] = result[j]] /\ ran' = [ran EXCEPT ![j] = ran[j]]
      BY <1>k, <2>0
    <3> QED BY <2>2, <3>2, <3>3, <3>4, PromiseOfOne
  <2>3. CASE idle' = <<>> /\ Goto(j, "spawning") /\ UNCHANGED held
    <3>1. \A i \in 1..Len(idle') : Quiet(idle'[i])
      BY <2>3, EmptySeq
    <3>2. Sound(j, "spawning", result[j], ran[j], held[j])
      BY <1>s, <2>0 DEF Sound
    <3>3. result' = [result EXCEPT ![j] = result[j]] /\ ran' = [ran EXCEPT ![j] = ran[j]] /\ held' = [held EXCEPT ![j] = held[j]]
      BY <1>k, <2>0, <2>3
    <3> QED BY <2>3, <3>1, <3>2, <3>3, PromiseOfOne
  <2> QED BY <2>1, <2>2, <2>3
<1>6. ASSUME NEW j \in Jobs, SpawnFails(j) \/ ReadHandshake(j) PROVE Promise'
  <2>1. /\ pc[j] = "spawning" /\ UNCHANGED <<ran, held, idle>>
        /\ \/ Goto(j, "releasing") /\ Conclude(j, "PreDispatch")
           \/ Goto(j, "writing") /\ UNCHANGED result
    BY <1>6 DEF SpawnFails, ReadHandshake
  <2>2. /\ Sound(j, "releasing", "PreDispatch", ran[j], held[j])
        /\ Sound(j, "writing", result[j], ran[j], held[j])
    BY <1>s, <2>1 DEF Sound
  <2> QED BY <1>1, <1>k, <2>1, <2>2
<1>7. ASSUME NEW j \in Jobs, WriteAll(j) PROVE Promise'
  <2>1. /\ pc[j] = "writing" /\ Goto(j, "flushing") /\ UNCHANGED <<result, ran, idle>>
        /\ held' = [held EXCEPT ![j] = [held[j] EXCEPT !.inbox = j]]
    BY <1>7 DEF WriteAll
  <2> DEFINE v == [held[j] EXCEPT !.inbox = j]
  <2>2. ran[j] = 0 /\ Quiet(held[j])
    BY <1>s, <2>1 DEF Sound
  <2>3. v.inbox = j /\ v.running = held[j].running /\ v.out = held[j].out
    BY <1>t DEF Worker
  <2>4. None # j /\ Noise # j
    BY PoolAssumption
  <2>5. OnTheWay(j, v, ran[j])
    BY <2>2, <2>3, <2>4 DEF OnTheWay, Quiet
  <2>6. Sound(j, "flushing", result[j], ran[j], v)
    BY <2>5 DEF Sound
  <2> QED BY <1>1, <1>k, <2>1, <2>6
<1>8. ASSUME NEW j \in Jobs, Flush(j) PROVE Promise'
  <2>1. Sound(j, "awaiting", result[j], ran[j], held[j])
    BY <1>8, <1>s DEF Flush, Sound
  <2>2. result' = [result EXCEPT ![j] = result[j]] /\ held' = [held EXCEPT ![j] = held[j]]
    BY <1>8, <1>k DEF Flush
  <2>3. pc' = [pc EXCEPT ![j] = "awaiting"] /\ ran' = ran /\ idle' = idle
    BY <1>8 DEF Flush
  <2> QED BY <1>1, <2>1, <2>2, <2>3
<1>9. ASSUME NEW j \in Jobs, WriteFails(j) \/ FlushFails(j) \/ ReadFails(j) \/ Deadline(j) PROVE Promise'
  <2>1. PICK r \in {"PreDispatch", "PostDispatch"} :
           /\ FailWith(j, r)
           /\ r = "PreDispatch" => pc[j] = "writing"
    BY <1>9 DEF WriteFails, FlushFails, ReadFails, Deadline
  <2>2. r = "PreDispatch" => ran[j] = 0
    BY <1>s, <2>1 DEF Sound
  <2>3. Sound(j, "releasing", r, ran[j], FreshWorker)
    BY <2>2, QuietFresh DEF Sound, Retryable
  <2> QED BY <1>1, <2>1, <2>3 DEF FailWith
<1>10. ASSUME NEW j \in Jobs, ReadLine(j) PROVE Promise'
  <2> DEFINE w == held[j]
  <2>1. /\ pc[j] = "awaiting" /\ w \in Worker /\ w.out # <<>> /\ OnTheWay(j, w, ran[j])
        /\ UNCHANGED <<ran, idle>>
    BY <1>10, <1>s, <1>t DEF ReadLine, Sound
  <2>2. /\ Len(w.out) \in Nat \ {0} /\ Head(w.out) = w.out[1]
        /\ Len(Tail(w.out)) = Len(w.out) - 1
        /\ \A k \in 1..Len(Tail(w.out)) : Tail(w.out)[k] = w.out[k + 1]
    BY <2>1, Consume
  <2>3. None # j /\ Noise # j
    BY PoolAssumption
  <2>4. CASE Answers(Head(w.out), j)
    <3> DEFINE v == [w EXCEPT !.out = Tail(w.out), !.jobs_done = w.jobs_done + 1, !.expired = FALSE]
    <3>1. PICK r \in {"Ok", "PostDispatch"} :
             Conclude(j, r) /\ Goto(j, "parking") /\ held' = [held EXCEPT ![j] = v]
      BY <1>10, <2>4 DEF ReadLine
    <3>2. v.inbox = w.inbox /\ v.running = w.running /\ v.out = Tail(w.out)
      BY <2>1 DEF Worker
    <3>3. w.out[1] = j
      BY <2>2, <2>4 DEF Answers
    <3>4. ran[j] = 1 /\ w.inbox = None /\ w.running = None
      BY <2>1, <2>2, <2>3, <3>3 DEF OnTheWay
    <3>5. \A k \in 1..Len(Tail(w.out)) : Tail(w.out)[k] = Noise
      BY <2>1, <2>2, <3>3 DEF OnTheWay
    <3>6. Quiet(v)
      BY <3>2, <3>4, <3>5 DEF Quiet
    <3> HIDE DEF v
    <3>7. Sound(j, "parking", r, ran[j], v)
      BY <3>4, <3>6 DEF Sound, Retryable
    <3> QED BY <1>1, <2>1, <3>1, <3>7
  <2>5. CASE ~Answers(Head(w.out), j)
    <3> DEFINE v == [w EXCEPT !.out = Tail(w.out)]
    <3>1. UNCHANGED <<pc, result>> /\ held' = [held EXCEPT ![j] = v]
      BY <1>10, <2>5 DEF ReadLine
    <3>2. v.inbox = w.inbox /\ v.running = w.running /\ v.out = Tail(w.out)
      BY <2>1 DEF Worker
    <3>3. OnTheWay(j, v, ran[j])
      <4>1. \A k \in 1..Len(v.out) : k + 1 \in 1..Len(w.out) /\ v.out[k] = w.out[k + 1]
        BY <2>2, <3>2
      <4>2. \A a, b \in 1..Len(v.out) : v.out[a] = j /\ v.out[b] = j => a = b
        <5> SUFFICES ASSUME NEW a \in 1..Len(v.out), NEW b \in 1..Len(v.out), v.out[a] = j, v.out[b] = j
                     PROVE  a = b
          OBVIOUS
        <5>1. a + 1 = b + 1
          BY <2>1, <4>1 DEF OnTheWay
        <5> QED BY <2>2, <3>2, <5>1
      <4> HIDE DEF v
      <4>3. \A k \in 1..Len(v.out) : v.out[k] \in {j, Noise}
        BY <2>1, <4>1 DEF OnTheWay
      <4>4. (ran[j] = 0 \/ w.running = j) => \A k \in 1..Len(v.out) : v.out[k] = Noise
        BY <2>1, <4>1 DEF OnTheWay
      <4> QED BY <2>1, <3>2, <4>2, <4>3, <4>4 DEF OnTheWay
    <3> HIDE DEF v
    <3>4. Sound(j, pc[j], result[j], ran[j], v)
      BY <2>1, <3>3 DEF Sound
    <3> QED BY <1>1, <1>k, <2>1, <3>1, <3>4
  <2> QED BY <2>4, <2>5
<1>11. ASSUME NEW j \in Jobs, RetireOrPark(j) PROVE Promise'
  <2>1. /\ pc[j] = "parking" /\ Goto(j, "releasing") /\ DropWorker(j) /\ UNCHANGED <<result, ran>>
        /\ idle' = idle \/ idle' = Append(idle, Parked(held[j]))
    BY <1>11 DEF RetireOrPark
  <2>2. Sound(j, "releasing", result[j], ran[j], FreshWorker)
    BY <1>s, <2>1, QuietFresh DEF Sound
  <2>3. Parked(held[j]) \in Worker /\ Quiet(Parked(held[j]))
    <3>1. /\ Parked(held[j]) \in Worker /\ Parked(held[j]).inbox = held[j].inbox
          /\ Parked(held[j]).running = held[j].running /\ Parked(held[j]).out = held[j].out
      BY <1>t DEF Parked, Worker
    <3>2. Quiet(held[j])
      BY <1>s, <2>1 DEF Sound
    <3> QED BY <3>1, <3>2 DEF Quiet
  <2>4. \A k \in 1..Len(idle') : Quiet(idle'[k])
    <3>1. CASE idle' = Append(idle, Parked(held[j]))
      <4>1. /\ Len(idle') = Len(idle) + 1 /\ idle'[Len(idle) + 1] = Parked(held[j])
            /\ \A k \in 1..Len(idle) : idle'[k] = idle[k]
        BY <1>t, <2>3, <3>1, AppendProperties
      <4>2. \A k \in 1..Len(idle') : k \in 1..Len(idle) \/ k = Len(idle) + 1
        BY <1>t, <4>1
      <4> QED BY <1>i, <2>3, <4>1, <4>2
    <3> QED BY <1>i, <2>1, <3>1
  <2> QED BY <1>k, <2>1, <2>2, <2>4, PromiseOfOne
<1>12. ASSUME NEW j \in Jobs, ReleasePermit(j) \/ DropGuard(j) PROVE Promise'
  <2>1. PICK p \in {"leaving", "done"} :
           /\ pc[j] \in {"releasing", "leaving"} /\ Goto(j, p)
           /\ UNCHANGED <<result, ran, held, idle>>
    BY <1>12 DEF ReleasePermit, DropGuard
  <2>2. Sound(j, p, result[j], ran[j], held[j])
    BY <1>s, <2>1 DEF Sound
  <2>3. result' = [result EXCEPT ![j] = result[j]] /\ held' = [held EXCEPT ![j] = held[j]]
    BY <1>k, <2>1
  <2>4. pc' = [pc EXCEPT ![j] = p] /\ ran' = ran /\ idle' = idle
    BY <2>1
  <2> QED BY <1>1, <2>2, <2>3, <2>4
<1>13. ASSUME NEW j \in Jobs, Cancel(j) PROVE Promise'
  <2>1. PICK p \in {"leaving", "releasing"} :
           Goto(j, p) /\ Conclude(j, "Cancelled") /\ DropWorker(j) /\ UNCHANGED <<ran, idle>>
    BY <1>13 DEF Cancel
  <2>2. Sound(j, p, "Cancelled", ran[j], FreshWorker)
    BY QuietFresh DEF Sound, Retryable
  <2> QED BY <1>1, <2>1, <2>2
<1>14. ASSUME NEW j \in Jobs, HostRetries(j) PROVE Promise'
  <2>1. Sound(j, "new", "pending", ran[j], held[j])
    BY <1>14, <1>s DEF HostRetries, Sound
  <2> QED BY <1>14, <1>1, <1>k, <2>1 DEF HostRetries
<1>15. ASSUME NEW j \in Jobs, ExitServing(j) PROVE Promise'
  <2> DEFINE v == [held[j] EXCEPT !.exited = "serving"]
  <2>1. held' = [held EXCEPT ![j] = v] /\ UNCHANGED <<pc, result, ran, idle>>
    BY <1>15 DEF ExitServing
  <2>2. v.inbox = held[j].inbox /\ v.running = held[j].running /\ v.out = held[j].out
    BY <1>t DEF Worker
  <2> HIDE DEF v
  <2>3. Sound(j, pc[j], result[j], ran[j], v)
    BY <1>s, <2>2 DEF Sound, OnTheWay, Quiet
  <2>4. pc' = [pc EXCEPT ![j] = pc[j]] /\ result' = [result EXCEPT ![j] = result[j]]
    BY <1>k, <2>1
  <2> QED BY <1>1, <2>1, <2>3, <2>4
<1>16. ASSUME NEW j \in Jobs, HarnessStarts(j)
       PROVE  Promise'
  <2> DEFINE v == [held[j] EXCEPT !.running = held[j].inbox, !.inbox = None]
  <2>1. /\ held[j].inbox # None /\ UNCHANGED <<pc, result, idle>>
        /\ ran' = [ran EXCEPT ![held[j].inbox] = @ + 1] /\ held' = [held EXCEPT ![j] = v]
    BY <1>16 DEF HarnessStarts
  <2>2. pc[j] \in {"flushing", "awaiting"} /\ OnTheWay(j, held[j], ran[j])
    BY <1>s, <2>1 DEF Sound, Quiet
  <2>3. held[j].inbox = j /\ ran[j] = 0
    BY <2>1, <2>2 DEF OnTheWay
  <2>4. v.inbox = None /\ v.running = j /\ v.out = held[j].out
    BY <1>t, <2>3 DEF Worker
  <2> HIDE DEF v
  <2>5. OnTheWay(j, v, 1)
    <3>1. j # None /\ j # Noise
      BY PoolAssumption
    <3> QED BY <2>2, <2>3, <2>4, <3>1 DEF OnTheWay
  <2>6. Sound(j, pc[j], result[j], 1, v)
    BY <2>2, <2>5 DEF Sound
  <2>7. ran' = [ran EXCEPT ![j] = 1]
    BY <1>t, <2>1, <2>3
  <2>8. pc' = [pc EXCEPT ![j] = pc[j]] /\ result' = [result EXCEPT ![j] = result[j]]
    BY <1>k, <2>1
  <2> QED BY <1>i, <2>1, <2>6, <2>7, <2>8, PromiseOfOne
<1>17. ASSUME NEW j \in Jobs, HarnessReplies(j) PROVE Promise'
  <2> DEFINE v == [held[j] EXCEPT !.out = Append(held[j].out, held[j].running), !.running = None]
  <2>1. /\ held[j].running # None /\ UNCHANGED <<pc, result, ran, idle>>
        /\ held' = [held EXCEPT ![j] = v]
    BY <1>17 DEF HarnessReplies
  <2>2. pc[j] \in {"flushing", "awaiting"} /\ OnTheWay(j, held[j], ran[j])
    BY <1>s, <2>1 DEF Sound, Quiet
  <2>3. /\ held[j].running = j /\ ran[j] = 1 /\ held[j].inbox = None /\ j # None /\ j # Noise
        /\ \A k \in 1..Len(held[j].out) : held[j].out[k] = Noise
    BY <2>1, <2>2, PoolAssumption DEF OnTheWay
  <2>4. v.inbox = None /\ v.running = None /\ v.out = Append(held[j].out, j)
    BY <1>t, <2>3 DEF Worker
  <2>5. /\ Len(held[j].out) \in Nat
        /\ Len(v.out) = Len(held[j].out) + 1 /\ v.out[Len(held[j].out) + 1] = j
        /\ \A k \in 1..Len(held[j].out) : v.out[k] = held[j].out[k]
    <3>1. held[j].out \in Seq(Jobs \cup {Noise})
      BY <1>t DEF Worker
    <3> QED BY <2>4, <3>1, AppendProperties, LenProperties
  <2> HIDE DEF v
  <2>6. OnTheWay(j, v, ran[j])
    BY <2>3, <2>4, <2>5 DEF OnTheWay
  <2>7. Sound(j, pc[j], result[j], ran[j], v)
    BY <2>2, <2>6 DEF Sound
  <2>8. pc' = [pc EXCEPT ![j] = pc[j]] /\ result' = [result EXCEPT ![j] = result[j]]
    BY <1>k, <2>1
  <2> QED BY <1>1, <2>1, <2>7, <2>8
<1>18. ASSUME NEW j \in Jobs, HarnessChatters(j) PROVE Promise'
  <2> DEFINE v == [held[j] EXCEPT !.out = Append(held[j].out, Noise)]
  <2>1. UNCHANGED <<pc, result, ran, idle>> /\ held' = [held EXCEPT ![j] = v]
    BY <1>18 DEF HarnessChatters
  <2>2. held[j] \in Worker /\ v \in Worker
    <3>1. Append(held[j].out, Noise) \in Seq(Jobs \cup {Noise})
      BY <1>t, AppendProperties DEF Worker
    <3> QED BY <1>t, <3>1 DEF Worker
  <2>3. /\ Quiet(held[j]) => Quiet(v)
        /\ OnTheWay(j, held[j], ran[j]) => OnTheWay(j, v, ran[j])
    BY <2>2, Chatter
  <2> HIDE DEF v
  <2>4. Sound(j, pc[j], result[j], ran[j], v)
    BY <1>s, <2>3 DEF Sound
  <2>5. pc' = [pc EXCEPT ![j] = pc[j]] /\ result' = [result EXCEPT ![j] = result[j]]
    BY <1>k, <2>1
  <2> QED BY <1>1, <2>1, <2>4, <2>5
<1>19. ASSUME idle' \in Seq(Worker), UNCHANGED <<pc, result, ran, held>>,
              \A k \in 1..Len(idle') : Quiet(idle'[k])
       PROVE  Promise'
  BY <1>19, <1>s DEF Promise
<1>20. CASE Reap
  <2>1. /\ idle' \in Seq(Worker)
        /\ \A i \in DOMAIN idle' : \E k \in DOMAIN idle : idle'[i] = idle[k]
    BY <1>20, <1>t, ReapShrinks
  <2>2. \A i \in 1..Len(idle') : Quiet(idle'[i])
    BY <1>i, <1>t, <2>1, LenProperties
  <2> QED BY <1>19, <1>20, <2>1, <2>2 DEF Reap
<1>21. ASSUME NEW i \in DOMAIN idle, Expire(i) \/ ExitParked(i) PROVE Promise'
  <2>1. i \in 1..Len(idle) /\ idle[i] \in Worker /\ Quiet(idle[i])
    BY <1>i, <1>t, LenProperties, ElementOfSeq
  <2>2. PICK v \in Worker : /\ idle' = [idle EXCEPT ![i] = v]
                            /\ v.inbox = idle[i].inbox /\ v.running = idle[i].running /\ v.out = idle[i].out
    <3>1. CASE Expire(i)
      <4> DEFINE u == [idle[i] EXCEPT !.expired = TRUE]
      <4>1. u \in Worker /\ u.inbox = idle[i].inbox /\ u.running = idle[i].running /\ u.out = idle[i].out
        BY <2>1 DEF Worker
      <4>2. idle' = [idle EXCEPT ![i] = u]
        BY <3>1 DEF Expire
      <4> HIDE DEF u
      <4> QED BY <4>1, <4>2
    <3>2. CASE ExitParked(i)
      <4> DEFINE u == [idle[i] EXCEPT !.exited = "parked"]
      <4>1. u \in Worker /\ u.inbox = idle[i].inbox /\ u.running = idle[i].running /\ u.out = idle[i].out
        BY <2>1 DEF Worker
      <4>2. idle' = [idle EXCEPT ![i] = u]
        BY <3>2 DEF ExitParked
      <4> HIDE DEF u
      <4> QED BY <4>1, <4>2
    <3> QED BY <1>21, <3>1, <3>2
  <2>3. Quiet(v)
    BY <2>1, <2>2 DEF Quiet
  <2>4. /\ idle' \in Seq(Worker) /\ Len(idle') = Len(idle)
        /\ \A k \in 1..Len(idle) : idle'[k] = IF k = i THEN v ELSE idle[k]
    BY <1>t, <2>1, <2>2, ExceptSeq
  <2>5. \A k \in 1..Len(idle') : Quiet(idle'[k])
    BY <1>i, <2>3, <2>4
  <2> QED BY <1>19, <1>21, <2>4, <2>5 DEF Expire, ExitParked
<1>22. CASE UNCHANGED vars
  BY <1>22, <1>19, <1>i, <1>t DEF vars
<1>23. ASSUME NEW j \in Jobs, Router(j) \/ Environment(j) PROVE Promise'
  BY <1>23, <1>2, <1>3, <1>4, <1>5, <1>6, <1>7, <1>8, <1>9, <1>10, <1>11, <1>12, <1>13, <1>14,
     <1>15, <1>16, <1>17, <1>18 DEF Router, Environment
<1>24. QED
  BY <1>20, <1>21, <1>22, <1>23 DEF Next

LEMMA InitPromise == Init => Promise
<1> SUFFICES ASSUME Init PROVE Promise
  OBVIOUS
<1>1. ASSUME NEW j \in Jobs
      PROVE  pc[j] = "new" /\ result[j] = "pending" /\ ran[j] = 0 /\ held[j] = FreshWorker
  BY DEF Init
<1>2. \A j \in Jobs : Sound(j, pc[j], result[j], ran[j], held[j])
  BY <1>1, QuietFresh DEF Sound
<1>3. idle = <<>>
  BY DEF Init
<1>4. QED
  BY <1>2, <1>3, EmptySeq DEF Promise

\* Every step of the pool is a step of the contract, or none.
LEMMA ContractStep ==
    TypeOK /\ Promise /\ [Next]_vars => [Contract!Next]_(Contract!contractVars)
<1> SUFFICES ASSUME TypeOK, Promise, [Next]_vars
             PROVE  [Contract!Next]_(Contract!contractVars)
  OBVIOUS
<1> DEFINE V == [j \in Jobs |-> IF pc[j] = "done" THEN result[j] ELSE "pending"]
<1>t. /\ pc \in [Jobs -> PCs] /\ result \in [Jobs -> Results] /\ ran \in [Jobs -> Nat]
  BY DEF TypeOK
<1>s. \A j \in Jobs : Sound(j, pc[j], result[j], ran[j], held[j])
  BY DEF Promise
<1> DEFINE Promised == \/ \E j \in Jobs : \/ Contract!Start(j) \/ Contract!Refuse(j) \/ Contract!Answer(j)
                                          \/ Contract!GiveUp(j) \/ Contract!Resubmit(j)
                       \/ ran' = ran /\ V' = V
<1>1. SUFFICES Promised
  BY DEF Contract!Next, Contract!contractVars
<1> USE DEF Goto, Conclude
<1>2. ASSUME NEW j \in Jobs, NEW p, pc[j] # "done", p # "done", Goto(j, p), ran' = ran,
             result' = result \/ \E r : Conclude(j, r)
      PROVE  Promised
  <2>1. /\ pc'[j] = p
        /\ \A k \in Jobs \ {j} : pc'[k] = pc[k] /\ result'[k] = result[k]
    BY <1>2, <1>t
  <2>2. V' = V
    BY <1>2, <2>1
  <2> QED BY <1>2, <2>2
<1>3. ASSUME pc' = pc, result' = result, ran' = ran PROVE Promised
  <2>1. V' = V
    BY <1>3
  <2> QED BY <1>3, <2>1
<1>4. ASSUME NEW j \in Jobs, NEW r, pc[j] # "done", Goto(j, "done"), ran' = ran, result'[j] = r,
             \A k \in Jobs \ {j} : result'[k] = result[k]
      PROVE  V[j] = "pending" /\ V' = [V EXCEPT ![j] = r]
  BY <1>4, <1>t
<1> HIDE DEF V
<1>5. ASSUME NEW j \in Jobs, Shed(j) PROVE Promised
  <2>1. ran[j] = 0
    BY <1>5, <1>s DEF Shed, Sound
  <2>2. V[j] = "pending" /\ V' = [V EXCEPT ![j] = "PoolSaturated"] /\ ran' = ran
    BY <1>5, <1>4, <1>t DEF Shed
  <2>3. Contract!Tell(j, "PoolSaturated")
    BY <2>2 DEF Contract!Tell, V
  <2>4. Contract!Refuse(j)
    BY <2>1, <2>3 DEF Contract!Refuse, Contract!Retryable
  <2> QED BY <2>4
<1>6. ASSUME NEW j \in Jobs, DropGuard(j) PROVE Promised
  <2>1. V[j] = "pending" /\ V' = [V EXCEPT ![j] = result[j]] /\ ran' = ran
    BY <1>6, <1>4, <1>t DEF DropGuard
  <2>2. ASSUME NEW v, result[j] = v PROVE Contract!Tell(j, v)
    BY <2>1, <2>2 DEF Contract!Tell, V
  <2>3. /\ result[j] \in {"PoolSaturated", "PreDispatch"} => ran[j] = 0
        /\ result[j] = "Ok" => ran[j] = 1
        /\ result[j] # "pending"
    BY <1>6, <1>s DEF DropGuard, Sound, Retryable
  <2>4. result[j] \in {"PoolSaturated", "PreDispatch", "Ok", "PostDispatch", "Cancelled"}
    BY <1>t, <2>3 DEF Results
  <2>5. CASE result[j] \in {"PoolSaturated", "PreDispatch"}
    <3>1. Contract!Refuse(j)
      <4>1. PICK v \in Contract!Retryable : result[j] = v
        BY <2>5 DEF Contract!Retryable
      <4>2. Contract!Tell(j, v)
        BY <2>2, <4>1
      <4> QED BY <2>3, <2>5, <4>2 DEF Contract!Refuse
    <3> QED BY <3>1
  <2>6. CASE result[j] = "Ok"
    <3>1. Contract!Answer(j)
      <4>1. Contract!Tell(j, "Ok")
        BY <2>2, <2>6
      <4> QED BY <2>3, <2>6, <4>1 DEF Contract!Answer
    <3> QED BY <3>1
  <2>7. CASE result[j] \in {"PostDispatch", "Cancelled"}
    <3>1. Contract!GiveUp(j)
      <4>1. PICK v \in {"PostDispatch", "Cancelled"} : result[j] = v
        BY <2>7
      <4>2. Contract!Tell(j, v)
        BY <2>2, <4>1
      <4> QED BY <4>2 DEF Contract!GiveUp
    <3> QED BY <3>1
  <2> QED BY <2>4, <2>5, <2>6, <2>7
<1>7. ASSUME NEW j \in Jobs, HostRetries(j) PROVE Promised
  <2>1. V[j] \in {"PoolSaturated", "PreDispatch"} /\ V' = [V EXCEPT ![j] = "pending"] /\ ran' = ran
    BY <1>7, <1>t DEF HostRetries, Retryable, V
  <2>2. Contract!Resubmit(j)
    BY <2>1 DEF Contract!Resubmit, Contract!Retryable, V
  <2> QED BY <2>2
<1>8. ASSUME NEW j \in Jobs, HarnessStarts(j) PROVE Promised
  <2>1. held[j].inbox # None /\ pc' = pc /\ result' = result /\ ran' = [ran EXCEPT ![held[j].inbox] = @ + 1]
    BY <1>8 DEF HarnessStarts
  <2>2. pc[j] \in {"flushing", "awaiting"} /\ OnTheWay(j, held[j], ran[j])
    BY <1>s, <2>1 DEF Sound, Quiet
  <2>3. held[j].inbox = j /\ ran[j] = 0
    BY <2>1, <2>2 DEF OnTheWay
  <2>4. ran' = [ran EXCEPT ![j] = 1]
    BY <1>t, <2>1, <2>3
  <2>5. V[j] = "pending" /\ V' = V
    BY <2>1, <2>2 DEF V
  <2>6. Contract!Start(j)
    BY <2>3, <2>4, <2>5 DEF Contract!Start, V
  <2> QED BY <2>6
<1> HIDE DEF Promised
<1>9. ASSUME NEW j \in Jobs, Router(j) PROVE Promised
  <2>1. CASE Submit(j) \/ Acquire(j) \/ WriteAll(j) \/ Flush(j) \/ ReleasePermit(j) \/ RetireOrPark(j)
    <3>1. PICK p \in {"queued", "shedding", "taking", "flushing", "awaiting", "leaving", "releasing"} :
             Goto(j, p) /\ pc[j] # "done" /\ ran' = ran /\ result' = result
      BY <2>1 DEF Submit, Acquire, WriteAll, Flush, ReleasePermit, RetireOrPark
    <3>2. p # "done"
      OBVIOUS
    <3> QED BY <1>2, <3>1, <3>2
  <2>2. CASE TakeOrSpawn(j)
    <3>1. PICK p \in {"writing", "spawning"} :
             Goto(j, p) /\ pc[j] # "done" /\ ran' = ran /\ result' = result
      BY <2>2 DEF TakeOrSpawn
    <3>2. p # "done"
      OBVIOUS
    <3> QED BY <1>2, <3>1, <3>2
  <2>3. CASE \/ SpawnFails(j) \/ ReadHandshake(j) \/ WriteFails(j) \/ FlushFails(j)
             \/ ReadFails(j) \/ Deadline(j)
    <3>1. PICK p \in {"writing", "releasing"} :
             /\ Goto(j, p) /\ pc[j] # "done" /\ ran' = ran
             /\ result' = result \/ \E r : Conclude(j, r)
      BY <2>3 DEF SpawnFails, ReadHandshake, WriteFails, FlushFails, ReadFails, Deadline, FailWith
    <3>2. p # "done"
      OBVIOUS
    <3> QED BY <1>2, <3>1, <3>2
  <2>4. CASE ReadLine(j)
    <3>1. pc[j] # "done" /\ ran' = ran
      BY <2>4 DEF ReadLine
    <3>2. \/ Goto(j, "parking") /\ \E r : Conclude(j, r)
          \/ pc' = pc /\ result' = result
      BY <2>4 DEF ReadLine
    <3> QED BY <1>2, <1>3, <3>1, <3>2
  <2> QED BY <1>5, <1>6, <1>9, <2>1, <2>2, <2>3, <2>4 DEF Router
<1>10. ASSUME NEW j \in Jobs, Environment(j) PROVE Promised
  <2>1. CASE Cancel(j)
    <3>1. PICK p \in {"leaving", "releasing"} :
             Goto(j, p) /\ pc[j] # "done" /\ ran' = ran /\ \E r : Conclude(j, r)
      BY <2>1 DEF Cancel, Holding
    <3>2. p # "done"
      OBVIOUS
    <3> QED BY <1>2, <3>1, <3>2
  <2>2. CASE ExitServing(j) \/ HarnessReplies(j) \/ HarnessChatters(j)
    BY <2>2, <1>3 DEF ExitServing, HarnessReplies, HarnessChatters
  <2> QED BY <1>7, <1>8, <1>10, <2>1, <2>2 DEF Environment
<1>11. ASSUME Reap \/ \E i \in DOMAIN idle : Expire(i) \/ ExitParked(i) PROVE Promised
  BY <1>11, <1>3 DEF Reap, Expire, ExitParked
<1>12. CASE UNCHANGED vars
  BY <1>12, <1>3 DEF vars
<1>13. QED
  BY <1>9, <1>10, <1>11, <1>12 DEF Next

(* The pool implements the contract of error/mod.rs: a job is started at    *)
(* most once and only while its host waits, a retryable answer is given     *)
(* only for a job that never ran, and a reply only for one that did.        *)
THEOREM PoolKeepsContract == Spec => KeepsContract
<1>1. Init => Contract!Init
  BY DEF Init, Contract!Init
<1>2. Accounting /\ Promise /\ [Next]_vars => (Accounting /\ Promise)'
  BY TypeStep, BooksStep, PromiseStep DEF Accounting
<1>3. Accounting /\ Promise /\ [Next]_vars => [Contract!Next]_(Contract!contractVars)
  BY ContractStep DEF Accounting
<1>4. QED
  BY InitAccounting, InitPromise, <1>1, <1>2, <1>3, PTL DEF Spec, KeepsContract, Contract!Spec
=============================================================================
