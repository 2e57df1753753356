--------------------------- MODULE LangPoolProofs ---------------------------
(* Theorems about LangPool, for every number of jobs and every setting.     *)
EXTENDS LangPool, FiniteSetTheorems, SequenceTheorems, TLAPS

-----------------------------------------------------------------------------
(* Counting jobs by where they stand.                                       *)

Where(f, S) == {i \in Jobs : f[i] \in S}

\* A subset of the jobs is finite and its size is a natural number.
LEMMA WhereFinite ==
    ASSUME NEW f, NEW S
    PROVE  IsFiniteSet(Where(f, S)) /\ Cardinality(Where(f, S)) \in Nat
<1>1. Where(f, S) \subseteq Jobs
  BY DEF Where
<1>2. IsFiniteSet(Where(f, S))
  BY <1>1, FS_Subset, PoolAssumption
<1>3. QED
  BY <1>2, FS_CardinalityType

\* Moving one job changes the count of a region by whether it enters or leaves.
LEMMA Move ==
    ASSUME NEW f \in [Jobs -> PCs], NEW j \in Jobs, NEW p \in PCs, NEW S
    PROVE  LET old == Cardinality(Where(f, S))
               new == Cardinality(Where([f EXCEPT ![j] = p], S))
           IN  /\ (f[j] \in S) = (p \in S) => new = old
               /\ f[j] \notin S /\ p \in S => new = old + 1
               /\ f[j] \in S /\ p \notin S => new = old - 1
               /\ f[j] \in S => old > 0
<1> DEFINE g == [f EXCEPT ![j] = p]
<1>1. CASE f[j] \in S /\ p \in S
  <2>1. Where(g, S) = Where(f, S)
    BY <1>1 DEF Where
  <2>2. Cardinality(Where(f, S)) > 0
    <3>1. j \in Where(f, S)
      BY <1>1 DEF Where
    <3> QED BY <3>1, WhereFinite, FS_EmptySet
  <2> QED BY <1>1, <2>1, <2>2
<1>2. CASE f[j] \notin S /\ p \notin S
  <2>1. Where(g, S) = Where(f, S)
    BY <1>2 DEF Where
  <2> QED BY <1>2, <2>1
<1>3. CASE f[j] \notin S /\ p \in S
  <2>1. Where(g, S) = Where(f, S) \cup {j} /\ j \notin Where(f, S)
    BY <1>3 DEF Where
  <2>2. Cardinality(Where(g, S)) = Cardinality(Where(f, S)) + 1
    BY <2>1, WhereFinite, FS_AddElement
  <2> QED BY <1>3, <2>2
<1>4. CASE f[j] \in S /\ p \notin S
  <2>1. Where(g, S) = Where(f, S) \ {j} /\ j \in Where(f, S)
    BY <1>4 DEF Where
  <2>2. Cardinality(Where(g, S)) = Cardinality(Where(f, S)) - 1
    BY <2>1, WhereFinite, FS_RemoveElement
  <2>3. Cardinality(Where(f, S)) > 0
    BY <2>1, WhereFinite, FS_EmptySet
  <2> QED BY <1>4, <2>2, <2>3
<1>5. QED
  BY <1>1, <1>2, <1>3, <1>4

\* The same for a step that moves the program counter of one job.
LEMMA Moved ==
    ASSUME pc \in [Jobs -> PCs], NEW j \in Jobs, NEW p \in PCs, NEW S,
           pc' = [pc EXCEPT ![j] = p]
    PROVE  LET old == Cardinality(At(S))
               new == Cardinality(At(S)')
           IN  /\ old \in Nat /\ new \in Nat
               /\ (pc[j] \in S) = (p \in S) => new = old
               /\ pc[j] \notin S /\ p \in S => new = old + 1
               /\ pc[j] \in S /\ p \notin S => new = old - 1
               /\ pc[j] \in S => old > 0
<1>1. At(S) = Where(pc, S) /\ At(S)' = Where([pc EXCEPT ![j] = p], S)
  BY DEF At, Where
<1>2. /\ Cardinality(Where(pc, S)) \in Nat
      /\ Cardinality(Where([pc EXCEPT ![j] = p], S)) \in Nat
  BY WhereFinite
<1> DEFINE old == Cardinality(Where(pc, S))
           new == Cardinality(Where([pc EXCEPT ![j] = p], S))
<1>3. /\ (pc[j] \in S) = (p \in S) => new = old
      /\ pc[j] \notin S /\ p \in S => new = old + 1
      /\ pc[j] \in S /\ p \notin S => new = old - 1
      /\ pc[j] \in S => old > 0
  BY Move
<1>4. QED
  BY <1>1, <1>2, <1>3

-----------------------------------------------------------------------------
(* The accounting invariant: types, permits, the admission counter and the  *)
(* workers.  The bound on the workers is inductive only together with the   *)
(* semaphore's books, and the types of the two counters only together with  *)
(* what they count.                                                         *)

Books ==
    /\ inflight = Cardinality(At(Counted))
    /\ permits + Cardinality(At(Permitted)) = EffectiveMaxWorkers
    /\ AdmissionBound
    /\ WorkerBound

Accounting == TypeOK /\ Books

LEMMA ConstantsType ==
    /\ EffectiveMaxWorkers \in Nat \ {0}
    /\ Capacity \in Nat
    /\ FreshWorker \in Worker
<1>1. EffectiveMaxWorkers \in Nat \ {0}
  BY PoolAssumption DEF EffectiveMaxWorkers
<1>2. Capacity \in Nat
  BY <1>1, PoolAssumption DEF Capacity
<1>3. FreshWorker \in Worker
  BY PoolAssumption DEF FreshWorker, Worker
<1>4. QED
  BY <1>1, <1>2, <1>3

In(x, S) == IF x \in S THEN 1 ELSE 0

\* How a step of one job changes the size of each region.
LEMMA Regions ==
    ASSUME TypeOK, NEW j \in Jobs, NEW p \in PCs, Goto(j, p)
    PROVE  \A S \in {Holding, Permitted, Admitted, Counted} :
             /\ Cardinality(At(S)) \in Nat /\ Cardinality(At(S)') \in Nat
             /\ Cardinality(At(S)') = Cardinality(At(S)) - In(pc[j], S) + In(p, S)
<1> SUFFICES ASSUME NEW S \in {Holding, Permitted, Admitted, Counted}
             PROVE  /\ Cardinality(At(S)) \in Nat /\ Cardinality(At(S)') \in Nat
                    /\ Cardinality(At(S)') = Cardinality(At(S)) - In(pc[j], S) + In(p, S)
  OBVIOUS
<1> DEFINE old == Cardinality(At(S))
           new == Cardinality(At(S)')
<1>1. /\ old \in Nat /\ new \in Nat
      /\ (pc[j] \in S) = (p \in S) => new = old
      /\ pc[j] \notin S /\ p \in S => new = old + 1
      /\ pc[j] \in S /\ p \notin S => new = old - 1
  BY Moved DEF TypeOK, Goto
<1> HIDE DEF old, new
<1>2. new = old - In(pc[j], S) + In(p, S)
  BY <1>1 DEF In
<1>3. QED
  BY <1>1, <1>2 DEF old, new

LEMMA InitAccounting == Init => Accounting
<1> SUFFICES ASSUME Init PROVE Accounting
  OBVIOUS
<1>1. TypeOK
  BY ConstantsType DEF Init, TypeOK, PCs, Results
<1>2. At(Counted) = {} /\ At(Permitted) = {} /\ At(Admitted) = {} /\ At(Holding) = {}
  BY DEF Init, At, Counted, Admitted, Permitted, Holding
<1>3. Books
  BY <1>2, ConstantsType, FS_EmptySet DEF Init, Books, AdmissionBound, WorkerBound
<1>4. QED
  BY <1>1, <1>3 DEF Accounting

\* A call that leaves the queue leaves a queue.
LEMMA RemoveAtType ==
    ASSUME waiters \in Seq(Jobs), NEW i \in DOMAIN waiters
    PROVE  RemoveAt(waiters, i) \in Seq(Jobs)
<1>1. i \in 1..Len(waiters) /\ Len(waiters) \in Nat
  BY LenProperties
<1>2. SubSeq(waiters, 1, i - 1) \in Seq(Jobs) /\ SubSeq(waiters, i + 1, Len(waiters)) \in Seq(Jobs)
  BY <1>1, SubSeqProperties, ElementOfSeq
<1>3. QED
  BY <1>2, ConcatProperties DEF RemoveAt

LEMMA UpTo == ASSUME NEW n \in Nat PROVE IsFiniteSet(1..n) /\ Cardinality(1..n) = n
  BY FS_Interval

\* The reaper leaves a stack of workers that is no longer than before, each of
\* which was parked before.
LEMMA ReapShrinks ==
    ASSUME idle \in Seq(Worker), Reap
    PROVE  /\ idle' \in Seq(Worker)
           /\ Len(idle') <= Len(idle)
           /\ \A i \in DOMAIN idle' : \E k \in DOMAIN idle : idle'[i] = idle[k]
<1> DEFINE n == Cardinality(Kept)
<1>1. Len(idle) \in Nat /\ DOMAIN idle = 1..Len(idle) /\ Kept \subseteq 1..Len(idle)
  BY LenProperties DEF Kept
<1>2. IsFiniteSet(1..Len(idle)) /\ Cardinality(1..Len(idle)) = Len(idle)
  BY <1>1, UpTo
<1>3. n \in Nat /\ n <= Len(idle)
  <2>1. IsFiniteSet(Kept) /\ n <= Cardinality(1..Len(idle))
    BY <1>1, <1>2, FS_Subset
  <2> QED BY <1>2, <2>1, FS_CardinalityType
<1>4. PICK f \in [1..n -> Kept] : idle' = [i \in DOMAIN f |-> idle[f[i]]]
  BY DEF Reap
<1>5. idle' \in [1..n -> Worker] /\ \A i \in 1..n : idle'[i] = idle[f[i]]
  BY <1>1, <1>4, ElementOfSeq
<1>6. idle' \in Seq(Worker)
  BY <1>3, <1>5, SeqDef
<1>7. Len(idle') = n /\ DOMAIN idle' = 1..n
  BY <1>3, <1>5, <1>6, LenProperties
<1>8. QED
  BY <1>1, <1>3, <1>4, <1>5, <1>6, <1>7

LEMMA TypeStep == TypeOK /\ Books /\ [Next]_vars => TypeOK'
<1> SUFFICES ASSUME TypeOK, Books, [Next]_vars PROVE TypeOK'
  OBVIOUS
<1> USE ConstantsType DEF TypeOK
<1>1. ASSUME NEW j \in Jobs, Router(j) PROVE TypeOK'
  <2> USE DEF Goto, Conclude, Bump, DropWorker, PCs, Results
  <2>1. CASE Submit(j)
    <3>1. Append(waiters, j) \in Seq(Jobs)
      BY AppendProperties
    <3>2. waiters' \in Seq(Jobs)
      BY <2>1, <3>1 DEF Submit
    <3>3. pc' \in [Jobs -> PCs]
      <4>1. Goto(j, "queued") \/ Goto(j, "shedding")
        BY <2>1 DEF Submit
      <4> QED BY <4>1
    <3>4. /\ inflight' = inflight + 1
          /\ UNCHANGED <<result, attempts, ran, permits, idle, held, stats>>
      BY <2>1 DEF Submit
    <3> QED BY <3>2, <3>3, <3>4
  <2>2. CASE Shed(j)
    <3>1. inflight > 0
      BY <2>2, Moved DEF Shed, Books, Counted
    <3> QED BY <2>2, <3>1 DEF Shed
  <2>3. CASE Acquire(j)
    BY <2>3 DEF Acquire
  <2>4. CASE TakeOrSpawn(j)
    <3>1. PICK k \in 0..Len(idle) :
             \/ /\ k > 0
                /\ idle' = SubSeq(idle, 1, k - 1)
                /\ held' = [held EXCEPT ![j] = idle[k]]
                /\ Goto(j, "writing")
                /\ UNCHANGED stats
             \/ /\ idle' = <<>>
                /\ Goto(j, "spawning")
                /\ Bump("worker_spawns")
                /\ UNCHANGED held
      BY <2>4 DEF TakeOrSpawn
    <3>2. \A i \in 1..Len(idle) : idle[i] \in Worker
      BY ElementOfSeq
    <3>3. k > 0 => idle[k] \in Worker /\ SubSeq(idle, 1, k - 1) \in Seq(Worker)
      BY <3>2, SubSeqProperties
    <3>4. idle' \in Seq(Worker)
      <4>1. idle' = <<>> \/ (k > 0 /\ idle' = SubSeq(idle, 1, k - 1))
        BY <3>1
      <4> QED BY <3>3, <4>1, EmptySeq
    <3>5. held' \in [Jobs -> Worker]
      BY <3>1, <3>3
    <3>6. pc' \in [Jobs -> PCs] /\ stats' \in [{"jobs_total", "worker_spawns", "rejected"} -> Nat]
      <4>1. \/ Goto(j, "writing") /\ UNCHANGED stats
            \/ Goto(j, "spawning") /\ Bump("worker_spawns")
        BY <3>1
      <4>2. pc' \in [Jobs -> PCs]
        BY <4>1
      <4>3. stats' \in [{"jobs_total", "worker_spawns", "rejected"} -> Nat]
        BY <4>1
      <4> QED BY <4>2, <4>3
    <3> QED BY <2>4, <3>4, <3>5, <3>6 DEF TakeOrSpawn
  <2>5. CASE SpawnFails(j)
    BY <2>5 DEF SpawnFails
  <2>6. CASE ReadHandshake(j)
    BY <2>6 DEF ReadHandshake
  <2>7. CASE WriteAll(j)
    BY <2>7 DEF WriteAll, Worker
  <2>8. CASE WriteFails(j) \/ FlushFails(j) \/ ReadFails(j) \/ Deadline(j)
    BY <2>8 DEF WriteFails, FlushFails, ReadFails, Deadline, FailWith
  <2>9. CASE Flush(j)
    BY <2>9 DEF Flush
  <2>10. CASE ReadLine(j)
    <3> DEFINE w == held[j]
    <3>1. w \in Worker /\ w.out # <<>>
      BY <2>10 DEF ReadLine
    <3>2. Tail(w.out) \in Seq(Jobs \cup {Noise})
      BY <3>1, HeadTailProperties DEF Worker
    <3>3. [w EXCEPT !.out = Tail(@)] \in Worker
      BY <3>1, <3>2 DEF Worker
    <3>4. w.jobs_done + 1 \in Nat /\ FALSE \in BOOLEAN
      BY <3>1 DEF Worker
    <3>5. [w EXCEPT !.out = Tail(@), !.jobs_done = @ + 1, !.expired = FALSE] \in Worker
      BY <3>1, <3>2, <3>4, Zenon DEF Worker
    <3>6. held' \in [Jobs -> Worker]
      BY <2>10, <3>3, <3>5 DEF ReadLine
    <3>7. \/ Goto(j, "parking") /\ (\E r \in {"Ok", "PostDispatch"} : Conclude(j, r))
                                /\ Bump("jobs_total")
          \/ UNCHANGED <<pc, result, stats>>
      BY <2>10 DEF ReadLine
    <3>8. /\ pc' \in [Jobs -> PCs] /\ result' \in [Jobs -> Results]
          /\ stats' \in [{"jobs_total", "worker_spawns", "rejected"} -> Nat]
      <4>1. pc' \in [Jobs -> PCs]
        BY <3>7
      <4>2. result' \in [Jobs -> Results]
        BY <3>7
      <4>3. stats' \in [{"jobs_total", "worker_spawns", "rejected"} -> Nat]
        BY <3>7
      <4> QED BY <4>1, <4>2, <4>3
    <3> QED BY <2>10, <3>6, <3>8 DEF ReadLine
  <2>11. CASE RetireOrPark(j)
    <3>1. Parked(held[j]) \in Worker
      BY DEF Parked, Worker
    <3>2. Append(idle, Parked(held[j])) \in Seq(Worker)
      BY <3>1, AppendProperties
    <3> QED BY <2>11, <3>2 DEF RetireOrPark
  <2>12. CASE ReleasePermit(j)
    BY <2>12 DEF ReleasePermit
  <2>13. CASE DropGuard(j)
    <3>1. inflight > 0
      BY <2>13, Moved DEF DropGuard, Books, Counted, Admitted
    <3> QED BY <2>13, <3>1 DEF DropGuard
  <2> QED
    BY <1>1, <2>1, <2>2, <2>3, <2>4, <2>5, <2>6, <2>7, <2>8, <2>9, <2>10, <2>11, <2>12, <2>13
       DEF Router
<1>2. ASSUME NEW j \in Jobs, Environment(j) PROVE TypeOK'
  <2> USE DEF Goto, Conclude, DropWorker, PCs, Results
  <2>1. CASE Cancel(j)
    <3>1. \A i \in DOMAIN waiters : RemoveAt(waiters, i) \in Seq(Jobs)
      BY RemoveAtType
    <3> QED BY <2>1, <3>1 DEF Cancel, Holding
  <2>2. CASE HostRetries(j)
    BY <2>2 DEF HostRetries
  <2>3. CASE ExitServing(j)
    BY <2>3 DEF ExitServing, Worker
  <2>4. CASE HarnessStarts(j)
    BY <2>4 DEF HarnessStarts, Worker
  <2>5. CASE HarnessReplies(j)
    <3> DEFINE w == held[j]
    <3>1. w \in Worker /\ w.running \in Jobs \cup {Noise}
      BY <2>5 DEF HarnessReplies, Worker
    <3>2. Append(w.out, w.running) \in Seq(Jobs \cup {Noise})
      BY <3>1, AppendProperties DEF Worker
    <3>3. [w EXCEPT !.out = Append(@, w.running), !.running = None] \in Worker
      BY <3>1, <3>2 DEF Worker
    <3>4. held' \in [Jobs -> Worker]
      BY <2>5, <3>3 DEF HarnessReplies
    <3> QED BY <2>5, <3>4 DEF HarnessReplies
  <2>6. CASE HarnessChatters(j)
    <3> DEFINE w == held[j]
    <3>1. w \in Worker /\ Noise \in Jobs \cup {Noise}
      BY <2>6 DEF HarnessChatters, Worker
    <3>2. Append(w.out, Noise) \in Seq(Jobs \cup {Noise})
      BY <3>1, AppendProperties DEF Worker
    <3>3. [w EXCEPT !.out = Append(@, Noise)] \in Worker
      BY <3>1, <3>2 DEF Worker
    <3>4. held' \in [Jobs -> Worker]
      BY <2>6, <3>3 DEF HarnessChatters
    <3> QED BY <2>6, <3>4 DEF HarnessChatters
  <2> QED
    BY <1>2, <2>1, <2>2, <2>3, <2>4, <2>5, <2>6 DEF Environment
<1>3. CASE Reap
  BY <1>3, ReapShrinks DEF Reap
<1>4. ASSUME NEW i \in DOMAIN idle, Expire(i) \/ ExitParked(i) PROVE TypeOK'
  <2>1. i \in 1..Len(idle) /\ idle[i] \in Worker
    BY LenProperties, ElementOfSeq
  <2>2. /\ [idle[i] EXCEPT !.expired = TRUE] \in Worker
        /\ [idle[i] EXCEPT !.exited = "parked"] \in Worker
    BY <2>1 DEF Worker
  <2>3. idle' \in Seq(Worker)
    <3>1. CASE Expire(i)
      BY <2>1, <2>2, <3>1, ExceptSeq DEF Expire
    <3>2. CASE ExitParked(i)
      BY <2>1, <2>2, <3>2, ExceptSeq DEF ExitParked
    <3> QED BY <1>4, <3>1, <3>2
  <2> QED BY <1>4, <2>3 DEF Expire, ExitParked
<1>5. CASE UNCHANGED vars
  BY <1>5 DEF vars
<1>6. QED
  BY <1>1, <1>2, <1>3, <1>4, <1>5 DEF Next

\* A job that looks for a worker has a permit and no worker yet.
LEMMA PermitSpare ==
    ASSUME TypeOK, NEW j \in Jobs, pc[j] = "taking"
    PROVE  Cardinality(At(Holding)) <= Cardinality(At(Permitted)) - 1
<1>1. /\ At(Holding) \subseteq At(Permitted) \ {j}
      /\ j \in At(Permitted)
  BY DEF At, Permitted, Holding
<1>2. IsFiniteSet(At(Permitted)) /\ Cardinality(At(Permitted)) \in Nat
  <2>1. At(Permitted) = Where(pc, Permitted)
    BY DEF At, Where
  <2> QED BY <2>1, WhereFinite
<1>3. /\ IsFiniteSet(At(Permitted) \ {j})
      /\ Cardinality(At(Permitted) \ {j}) = Cardinality(At(Permitted)) - 1
  BY <1>1, <1>2, FS_RemoveElement
<1>4. QED
  BY <1>1, <1>3, FS_Subset

\* How many of the holding, permitted, admitted and counted jobs a job at x is.
Profile(x, h, p, a, c) ==
    In(x, Holding) = h /\ In(x, Permitted) = p /\ In(x, Admitted) = a /\ In(x, Counted) = c

LEMMA Profiles ==
    /\ Profile("new", 0, 0, 0, 0) /\ Profile("shedding", 0, 0, 0, 1)
    /\ Profile("queued", 0, 0, 1, 1) /\ Profile("taking", 0, 1, 1, 1)
    /\ Profile("spawning", 1, 1, 1, 1) /\ Profile("writing", 1, 1, 1, 1)
    /\ Profile("flushing", 1, 1, 1, 1) /\ Profile("awaiting", 1, 1, 1, 1)
    /\ Profile("parking", 1, 1, 1, 1) /\ Profile("releasing", 0, 1, 1, 1)
    /\ Profile("leaving", 0, 0, 1, 1) /\ Profile("done", 0, 0, 0, 0)
<1> USE DEF Profile, In, Counted, Admitted, Permitted, Holding
<1>1. Profile("new", 0, 0, 0, 0) /\ Profile("shedding", 0, 0, 0, 1)
  OBVIOUS
<1>2. Profile("queued", 0, 0, 1, 1) /\ Profile("taking", 0, 1, 1, 1)
  OBVIOUS
<1>3. Profile("spawning", 1, 1, 1, 1) /\ Profile("writing", 1, 1, 1, 1)
  OBVIOUS
<1>4. Profile("flushing", 1, 1, 1, 1) /\ Profile("awaiting", 1, 1, 1, 1)
  OBVIOUS
<1>5. Profile("parking", 1, 1, 1, 1)
  OBVIOUS
<1>6. Profile("releasing", 0, 1, 1, 1) /\ Profile("leaving", 0, 0, 1, 1)
  OBVIOUS
<1>7. Profile("done", 0, 0, 0, 0)
  OBVIOUS
<1> HIDE DEF Profile
<1> QED BY <1>1, <1>2, <1>3, <1>4, <1>5, <1>6, <1>7

LEMMA BooksStep == TypeOK /\ Books /\ [Next]_vars => Books'
<1> SUFFICES ASSUME TypeOK, Books, [Next]_vars PROVE Books'
  OBVIOUS
<1> DEFINE H == Cardinality(At(Holding))
           P == Cardinality(At(Permitted))
           A == Cardinality(At(Admitted))
           C == Cardinality(At(Counted))
<1>1. /\ inflight = C /\ permits + P = EffectiveMaxWorkers
      /\ A <= Capacity /\ Len(idle) + H <= EffectiveMaxWorkers
  BY DEF Books, AdmissionBound, WorkerBound
<1>2. H \in Nat /\ P \in Nat /\ A \in Nat /\ C \in Nat /\ A <= C /\ H <= P /\ Len(idle) \in Nat
  <2>1. \A S : At(S) = Where(pc, S)
    BY DEF At, Where
  <2>2. At(Admitted) \subseteq At(Counted) /\ At(Holding) \subseteq At(Permitted)
    BY DEF At, Counted, Permitted
  <2>3. IsFiniteSet(At(Counted)) /\ IsFiniteSet(At(Permitted))
    BY <2>1, WhereFinite
  <2>4. A <= C /\ H <= P
    BY <2>2, <2>3, FS_Subset
  <2>5. H \in Nat /\ P \in Nat /\ A \in Nat /\ C \in Nat
    BY <2>1, WhereFinite
  <2> QED BY <2>4, <2>5, LenProperties DEF TypeOK
<1>3. SUFFICES /\ inflight' = C' /\ permits' + P' = EffectiveMaxWorkers
               /\ A' <= Capacity /\ Len(idle') + H' <= EffectiveMaxWorkers
  BY DEF Books, AdmissionBound, WorkerBound
<1>4. ASSUME NEW j \in Jobs, NEW p \in PCs, Goto(j, p)
      PROVE  /\ H' \in Nat /\ P' \in Nat /\ A' \in Nat /\ C' \in Nat
             /\ H' = H - In(pc[j], Holding) + In(p, Holding)
             /\ P' = P - In(pc[j], Permitted) + In(p, Permitted)
             /\ A' = A - In(pc[j], Admitted) + In(p, Admitted)
             /\ C' = C - In(pc[j], Counted) + In(p, Counted)
  BY <1>4, Regions
<1>5. ASSUME pc' = pc PROVE H' = H /\ P' = P /\ A' = A /\ C' = C
  BY <1>5 DEF At
<1> HIDE DEF H, P, A, C
<1> USE <1>1, <1>2, ConstantsType
<1>6. ASSUME NEW j \in Jobs, Router(j)
      PROVE  /\ inflight' = C' /\ permits' + P' = EffectiveMaxWorkers
             /\ A' <= Capacity /\ Len(idle') + H' <= EffectiveMaxWorkers
  <2>0. "queued" \in PCs /\ "shedding" \in PCs /\ "done" \in PCs /\ "taking" \in PCs
        /\ "writing" \in PCs /\ "spawning" \in PCs /\ "releasing" \in PCs /\ "flushing" \in PCs
        /\ "awaiting" \in PCs /\ "parking" \in PCs /\ "leaving" \in PCs
    BY DEF PCs
  <2>1. CASE Submit(j)
    <3>0. pc[j] = "new" /\ inflight' = inflight + 1 /\ permits' = permits /\ idle' = idle
      BY <2>1 DEF Submit
    <3>1. CASE Goto(j, "queued") /\ inflight + 1 <= Capacity
      <4>1. H' = H /\ P' = P /\ A' = A + 1 /\ C' = C + 1
        BY <2>0, <3>0, <3>1, <1>4, Profiles DEF Profile
      <4> QED BY <3>0, <3>1, <4>1
    <3>2. CASE Goto(j, "shedding")
      <4>1. H' = H /\ P' = P /\ A' = A /\ C' = C + 1
        BY <2>0, <3>0, <3>2, <1>4, Profiles DEF Profile
      <4> QED BY <3>0, <4>1
    <3> QED BY <2>1, <3>1, <3>2 DEF Submit
  <2>2. CASE Shed(j)
    <3>1. pc[j] = "shedding" /\ Goto(j, "done")
      BY <2>2 DEF Shed
    <3>2. permits' = permits /\ inflight' = inflight - 1 /\ idle' = idle
      BY <2>2 DEF Shed
    <3>3. H' = H /\ P' = P /\ A' = A /\ C' = C - 1
      BY <2>0, <3>1, <1>4, Profiles DEF Profile
    <3> QED BY <3>2, <3>3
  <2>3. CASE Acquire(j)
    <3>0. pc[j] = "queued" /\ Goto(j, "taking")
      BY <2>3 DEF Acquire
    <3>1. H' = H /\ P' = P + 1 /\ A' = A /\ C' = C
      BY <2>0, <3>0, <1>4, Profiles DEF Profile
    <3>2. permits' = permits - 1 /\ inflight' = inflight /\ idle' = idle /\ permits \in Nat
      BY <2>3 DEF Acquire, TypeOK
    <3> QED BY <3>1, <3>2
  <2>4. CASE TakeOrSpawn(j)
    <3>0. pc[j] = "taking"
      BY <2>4 DEF TakeOrSpawn
    <3>1. PICK k \in 0..Len(idle) :
             \/ k > 0 /\ idle' = SubSeq(idle, 1, k - 1) /\ Goto(j, "writing")
             \/ k = 0 /\ idle' = <<>> /\ Goto(j, "spawning")
      BY <2>4 DEF TakeOrSpawn
    <3>2. CASE k > 0 /\ idle' = SubSeq(idle, 1, k - 1) /\ Goto(j, "writing")
      <4>1. Len(idle') = k - 1
        BY <3>2, SubSeqProperties, ElementOfSeq DEF TypeOK
      <4>2. H' = H + 1 /\ P' = P /\ A' = A /\ C' = C
        BY <2>0, <3>0, <3>2, <1>4, Profiles DEF Profile
      <4>3. permits' = permits /\ inflight' = inflight
        BY <2>4 DEF TakeOrSpawn
      <4> QED BY <4>1, <4>2, <4>3
    <3>3. CASE k = 0 /\ idle' = <<>> /\ Goto(j, "spawning")
      <4>1. Len(idle') = 0
        BY <3>3
      <4>2. H' = H + 1 /\ P' = P /\ A' = A /\ C' = C
        BY <2>0, <3>0, <3>3, <1>4, Profiles DEF Profile
      <4>3. H <= P - 1
        BY PermitSpare, <2>4 DEF TakeOrSpawn, H, P
      <4>4. permits' = permits /\ inflight' = inflight /\ permits \in Nat
        BY <2>4 DEF TakeOrSpawn, TypeOK
      <4> QED BY <4>1, <4>2, <4>3, <4>4
    <3> QED BY <3>1, <3>2, <3>3
  <2>5. CASE SpawnFails(j)
    <3>1. pc[j] = "spawning" /\ Goto(j, "releasing")
      BY <2>5 DEF SpawnFails
    <3>2. permits' = permits /\ inflight' = inflight /\ idle' = idle
      BY <2>5 DEF SpawnFails
    <3>3. H' = H - 1 /\ P' = P /\ A' = A /\ C' = C
      BY <2>0, <3>1, <1>4, Profiles DEF Profile
    <3> QED BY <3>2, <3>3
  <2>6. CASE ReadHandshake(j)
    <3>1. pc[j] = "spawning" /\ (Goto(j, "writing") \/ Goto(j, "releasing"))
      BY <2>6 DEF ReadHandshake
    <3>2. permits' = permits /\ inflight' = inflight /\ idle' = idle
      BY <2>6 DEF ReadHandshake
    <3>3. H' <= H /\ P' = P /\ A' = A /\ C' = C /\ H' \in Nat
      <4>1. CASE Goto(j, "writing")
        BY <2>0, <3>1, <4>1, <1>4, Profiles DEF Profile
      <4>2. CASE Goto(j, "releasing")
        BY <2>0, <3>1, <4>2, <1>4, Profiles DEF Profile
      <4> QED BY <3>1, <4>1, <4>2
    <3> QED BY <3>2, <3>3
  <2>7. CASE WriteAll(j)
    <3>1. pc[j] = "writing" /\ Goto(j, "flushing")
      BY <2>7 DEF WriteAll
    <3>2. permits' = permits /\ inflight' = inflight /\ idle' = idle
      BY <2>7 DEF WriteAll
    <3>3. H' = H /\ P' = P /\ A' = A /\ C' = C
      BY <2>0, <3>1, <1>4, Profiles DEF Profile
    <3> QED BY <3>2, <3>3
  <2>8. CASE WriteFails(j) \/ FlushFails(j) \/ ReadFails(j) \/ Deadline(j)
    <3>1. /\ pc[j] \in {"writing", "flushing", "awaiting"} /\ Goto(j, "releasing")
          /\ UNCHANGED <<inflight, permits, idle>>
      BY <2>8 DEF WriteFails, FlushFails, ReadFails, Deadline, FailWith
    <3>2. Profile(pc[j], 1, 1, 1, 1)
      BY <3>1, Profiles
    <3>3. H' = H - 1 /\ P' = P /\ A' = A /\ C' = C
      BY <2>0, <3>1, <3>2, <1>4, Profiles DEF Profile
    <3> QED BY <3>1, <3>3
  <2>9. CASE Flush(j)
    <3>1. pc[j] = "flushing" /\ Goto(j, "awaiting")
      BY <2>9 DEF Flush
    <3>2. permits' = permits /\ inflight' = inflight /\ idle' = idle
      BY <2>9 DEF Flush
    <3>3. H' = H /\ P' = P /\ A' = A /\ C' = C
      BY <2>0, <3>1, <1>4, Profiles DEF Profile
    <3> QED BY <3>2, <3>3
  <2>10. CASE ReadLine(j)
    <3>1. CASE Goto(j, "parking")
      <4>1. pc[j] = "awaiting" /\ Goto(j, "parking")
        BY <2>10, <3>1 DEF ReadLine
      <4>2. permits' = permits /\ inflight' = inflight /\ idle' = idle
        BY <2>10, <3>1 DEF ReadLine
      <4>3. H' = H /\ P' = P /\ A' = A /\ C' = C
        BY <2>0, <4>1, <1>4, Profiles DEF Profile
      <4> QED BY <4>2, <4>3
    <3>2. CASE UNCHANGED pc
      BY <2>10, <3>2, <1>5 DEF ReadLine
    <3> QED BY <2>10, <3>1, <3>2 DEF ReadLine
  <2>11. CASE RetireOrPark(j)
    <3>1. Len(idle') <= Len(idle) + 1 /\ Len(idle') \in Nat
      <4>1. Parked(held[j]) \in Worker
        BY DEF Parked, Worker, TypeOK
      <4>2. Len(Append(idle, Parked(held[j]))) = Len(idle) + 1
        BY <4>1, AppendProperties DEF TypeOK
      <4> QED BY <2>11, <4>2 DEF RetireOrPark
    <3>2. H' = H - 1 /\ P' = P /\ A' = A /\ C' = C
      <4>1. pc[j] = "parking" /\ Goto(j, "releasing")
        BY <2>11 DEF RetireOrPark
      <4> QED BY <2>0, <4>1, <1>4, Profiles DEF Profile
    <3>3. permits' = permits /\ inflight' = inflight
      BY <2>11 DEF RetireOrPark
    <3> QED BY <3>1, <3>2, <3>3
  <2>12. CASE ReleasePermit(j)
    <3>1. H' = H /\ P' = P - 1 /\ A' = A /\ C' = C
      <4>1. pc[j] = "releasing" /\ Goto(j, "leaving")
        BY <2>12 DEF ReleasePermit
      <4> QED BY <2>0, <4>1, <1>4, Profiles DEF Profile
    <3>2. permits' = permits + 1 /\ inflight' = inflight /\ idle' = idle /\ permits \in Nat
      BY <2>12 DEF ReleasePermit, TypeOK
    <3> QED BY <3>1, <3>2
  <2>13. CASE DropGuard(j)
    <3>1. pc[j] = "leaving" /\ Goto(j, "done")
      BY <2>13 DEF DropGuard
    <3>2. permits' = permits /\ inflight' = inflight - 1 /\ idle' = idle
      BY <2>13 DEF DropGuard
    <3>3. H' = H /\ P' = P /\ A' = A - 1 /\ C' = C - 1
      BY <2>0, <3>1, <1>4, Profiles DEF Profile
    <3> QED BY <3>2, <3>3
  <2> QED
    BY <1>6, <2>1, <2>2, <2>3, <2>4, <2>5, <2>6, <2>7, <2>8, <2>9, <2>10, <2>11, <2>12, <2>13
       DEF Router
<1>7. ASSUME NEW j \in Jobs, Environment(j)
      PROVE  /\ inflight' = C' /\ permits' + P' = EffectiveMaxWorkers
             /\ A' <= Capacity /\ Len(idle') + H' <= EffectiveMaxWorkers
  <2>0. "releasing" \in PCs /\ "leaving" \in PCs /\ "new" \in PCs
    BY DEF PCs
  <2>1. CASE Cancel(j)
    <3>1. CASE pc[j] = "queued" /\ Goto(j, "leaving")
      <4>1. H' = H /\ P' = P /\ A' = A /\ C' = C
        BY <2>0, <3>1, <1>4, Profiles DEF Profile
      <4>2. permits' = permits /\ inflight' = inflight /\ idle' = idle
        BY <2>1 DEF Cancel
      <4> QED BY <4>1, <4>2
    <3>2. CASE pc[j] \in Holding \cup {"taking"} /\ Goto(j, "releasing")
      <4>0. Profile(pc[j], 0, 1, 1, 1) \/ Profile(pc[j], 1, 1, 1, 1)
        BY <3>2, Profiles DEF Holding
      <4>1. H' <= H /\ P' = P /\ A' = A /\ C' = C /\ H' \in Nat
        BY <2>0, <3>2, <4>0, <1>4, Profiles DEF Profile
      <4>2. permits' = permits /\ inflight' = inflight /\ idle' = idle
        BY <2>1 DEF Cancel
      <4>3. Len(idle) \in Nat
        BY LenProperties DEF TypeOK
      <4> QED BY <4>1, <4>2, <4>3
    <3> QED BY <2>1, <3>1, <3>2 DEF Cancel
  <2>2. CASE HostRetries(j)
    <3>1. pc[j] = "done" /\ Goto(j, "new")
      BY <2>2 DEF HostRetries
    <3>2. permits' = permits /\ inflight' = inflight /\ idle' = idle
      BY <2>2 DEF HostRetries
    <3>3. H' = H /\ P' = P /\ A' = A /\ C' = C
      BY <2>0, <3>1, <1>4, Profiles DEF Profile
    <3> QED BY <3>2, <3>3
  <2>3. CASE ExitServing(j) \/ HarnessStarts(j) \/ HarnessReplies(j) \/ HarnessChatters(j)
    BY <2>3, <1>5 DEF ExitServing, HarnessStarts, HarnessReplies, HarnessChatters
  <2> QED
    BY <1>7, <2>1, <2>2, <2>3 DEF Environment
<1>8. CASE Reap
  <2>1. Len(idle') <= Len(idle) /\ Len(idle') \in Nat
    BY <1>8, ReapShrinks, LenProperties DEF TypeOK
  <2>2. pc' = pc /\ permits' = permits /\ inflight' = inflight
    BY <1>8 DEF Reap
  <2>3. H' = H /\ P' = P /\ A' = A /\ C' = C
    BY <2>2, <1>5
  <2> QED BY <2>1, <2>2, <2>3
<1>9. ASSUME NEW i \in DOMAIN idle, Expire(i) \/ ExitParked(i)
      PROVE  /\ inflight' = C' /\ permits' + P' = EffectiveMaxWorkers
             /\ A' <= Capacity /\ Len(idle') + H' <= EffectiveMaxWorkers
  <2>1. Len(idle') = Len(idle)
    BY <1>9, LenProperties DEF Expire, ExitParked, TypeOK
  <2> QED BY <1>9, <2>1, <1>5 DEF Expire, ExitParked
<1>10. CASE UNCHANGED vars
  BY <1>10, <1>5 DEF vars
<1>11. QED
  BY <1>6, <1>7, <1>8, <1>9, <1>10 DEF Next

(* Every reachable state is well typed: in particular neither the admission *)
(* counter nor the semaphore is ever released more often than it was taken. *)
THEOREM PoolTypeCorrect == Spec => []TypeOK
<1>1. Accounting /\ [Next]_vars => Accounting'
  BY TypeStep, BooksStep DEF Accounting
<1>2. Accounting => TypeOK
  BY DEF Accounting
<1>3. QED
  BY InitAccounting, <1>1, <1>2, PTL DEF Spec

(* run, take_or_spawn and retire_or_park together never have more           *)
(* interpreters than EffectiveMaxWorkers, whatever hosts and children do.   *)
THEOREM PoolWorkerBound == Spec => []WorkerBound
<1>1. Accounting /\ [Next]_vars => Accounting'
  BY TypeStep, BooksStep DEF Accounting
<1>2. Accounting => WorkerBound
  BY DEF Accounting, Books
<1>3. QED
  BY InitAccounting, <1>1, <1>2, PTL DEF Spec

(* The admission test of run never lets more than Capacity jobs in, even    *)
(* though refused submissions pass through the same counter.                *)
THEOREM PoolAdmissionBound == Spec => []AdmissionBound
<1>1. Accounting /\ [Next]_vars => Accounting'
  BY TypeStep, BooksStep DEF Accounting
<1>2. Accounting => AdmissionBound
  BY DEF Accounting, Books
<1>3. QED
  BY InitAccounting, <1>1, <1>2, PTL DEF Spec
=============================================================================
