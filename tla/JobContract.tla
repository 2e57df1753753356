---------------------------- MODULE JobContract ----------------------------
(* What a warm pool promises the host about one job, whatever workers,     *)
(* sockets, deadlines and queues lie behind the promise.                   *)
(*                                                                         *)
(* The error type (error/mod.rs) divides the failures of a job into those  *)
(* a host may retry and those it must not.  The division is only sound if  *)
(* a retryable answer means that the job never ran and never will run on   *)
(* behalf of the call that was answered.                                   *)
EXTENDS Naturals

CONSTANT Jobs

VARIABLES
    ran,      \* ran[j]: how often some interpreter has started job j
    verdict   \* verdict[j]: what the host was told of its last submission

contractVars == <<ran, verdict>>

Retryable == {"PoolSaturated", "PreDispatch"}

Init ==
    /\ ran = [j \in Jobs |-> 0]
    /\ verdict = [j \in Jobs |-> "pending"]

\* A job is started at most once, and only while its host is still waiting.
Start(j) ==
    /\ verdict[j] = "pending"
    /\ ran[j] = 0
    /\ ran' = [ran EXCEPT ![j] = 1]
    /\ UNCHANGED verdict

Tell(j, v) ==
    /\ verdict[j] = "pending"
    /\ verdict' = [verdict EXCEPT ![j] = v]
    /\ UNCHANGED ran

\* A retryable refusal is given only for a job that never ran.
Refuse(j) == ran[j] = 0 /\ \E v \in Retryable : Tell(j, v)

\* A reply is given only for a job that ran.
Answer(j) == ran[j] = 1 /\ Tell(j, "Ok")

\* A terminal failure, or the host losing interest, promises nothing.
GiveUp(j) == \E v \in {"PostDispatch", "Cancelled"} : Tell(j, v)

\* The host submits a refused job again.
Resubmit(j) ==
    /\ verdict[j] \in Retryable
    /\ verdict' = [verdict EXCEPT ![j] = "pending"]
    /\ UNCHANGED ran

Next == \E j \in Jobs : Start(j) \/ Refuse(j) \/ Answer(j) \/ GiveUp(j) \/ Resubmit(j)

Spec == Init /\ [][Next]_contractVars
=============================================================================
