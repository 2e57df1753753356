--------------------------- MODULE WorkerManager ---------------------------
(* The manager of persistent workers (crates/tinyruntime/src/worker/mod.rs) *)
(* and the life of the detached supervisor behind each prepared handle      *)
(* (run and serve of worker/actor.rs).                                      *)
(*                                                                          *)
(* Callers run the manager's async functions: op names the await a call is  *)
(* in, and a call may be dropped there.  Each step of a call is one         *)
(* critical section of the book's mutex or one look at a watch channel.     *)
(* The channels of a slot outlive the slot, so slot[h] keeps its contents   *)
(* after h has left the book.  What a supervisor does for one command is    *)
(* the subject of WorkerActor; here it only gains and loses what it owns.   *)
EXTENDS Integers, Sequences, FiniteSets

CONSTANTS
    Callers,    \* concurrent callers of the manager
    Plans,      \* plans, cache recipes included, that callers may present
    Capacity,   \* CAPACITY, 16 in the code
    Queue,      \* QUEUE, 8 in the code
    MaxIssued,  \* bound: handles issued, 2^64 - 1 in the code
    None

ASSUME ManagerAssumption ==
    /\ Capacity \in Nat \ {0} /\ Queue \in Nat \ {0} /\ MaxIssued \in Nat
    /\ None \notin Plans /\ None \notin Callers

Handles == 1..MaxIssued

\* What a supervisor can own, in the order in which run and cleanup release it.
Release == <<"preparation", "cache", "process", "root">>
Resources == {Release[i] : i \in DOMAIN Release}
Stages == {"none", "preparing", "serving", "working", "closing", "cleaned", "ending", "gone"}

VARIABLES
    terminal,  \* Book.terminal
    issued,    \* Book.issued
    book,      \* the handles in Book.slots
    slot,      \* slot[h]: the plan and the channels of the slot
    sup,       \* sup[h]: where the supervisor of h stands
    owned,     \* owned[h]: native resources the supervisor of h owns
    queue,     \* queue[h]: commands sent to the supervisor and not yet taken
    busy,      \* busy[h]: the caller of the command being served, None if it left
    call,      \* call[c]: what the caller c is waiting for
    told,      \* the outcome the last step returned to a caller, if it did
    acked      \* auxiliary: the handles whose stop, or shutdown, said Complete

vars == <<terminal, issued, book, slot, sup, owned, queue, busy, call, told, acked>>

Slot == [plan : Plans \cup {None}, late : BOOLEAN, stop : BOOLEAN,
         prepared : {"no", "Complete", "Failed", "Closed"},
         closed : BOOLEAN, cleanup_failed : BOOLEAN]

NewSlot == [plan |-> None, late |-> FALSE, stop |-> FALSE, prepared |-> "no",
            closed |-> FALSE, cleanup_failed |-> FALSE]

Outcomes == {"none", "Handle", "Complete", "Failed", "Closed", "Invalid", "Busy",
             "Unknown", "Reply"}

Call == [op : {"idle", "prepare", "stop", "remove", "shutdown", "clear", "command"},
         h : Handles \cup {0}, plan : Plans \cup {None}, left : SUBSET Handles, ok : BOOLEAN]

Idle == [op |-> "idle", h |-> 0, plan |-> None, left |-> {}, ok |-> TRUE]

Init ==
    /\ terminal = FALSE /\ issued = 0 /\ book = {}
    /\ slot = [h \in Handles |-> NewSlot]
    /\ sup = [h \in Handles |-> "none"]
    /\ owned = [h \in Handles |-> {}]
    /\ queue = [h \in Handles |-> <<>>]
    /\ busy = [h \in Handles |-> None]
    /\ call = [c \in Callers |-> Idle]
    /\ told = "none"
    /\ acked = {}

Ready(c) == call[c].op = "idle"
Return(c, kind) == call' = [call EXCEPT ![c] = Idle] /\ told' = kind
Silent == told' = "none"
Wait(c, w) == call' = [call EXCEPT ![c] = w] /\ Silent

supervisorVars == <<sup, owned, queue, busy>>
bookVars == <<terminal, issued, book, slot>>

\* Slot::expired, and the same test in reserve and prepare_inner.
Expired(h) == slot[h].plan = None /\ slot[h].late

\* missing: an identity this manager issued is retired, any other is foreign.
Missing(h) == IF h <= issued THEN "Closed" ELSE "Unknown"

\* The supervisors that still have native resources to answer for.
Live == {h \in Handles : sup[h] \notin {"none", "ending", "gone"}}

-----------------------------------------------------------------------------
(* reserve, prepare and prepare_cached.                                     *)

\* Mutant: reserve forgets a worker as soon as its stop is signalled.
RetainedUnstopped == {h \in book : ~slot[h].stop /\ ~slot[h].closed /\ ~Expired(h)}

\* The slots that retain keeps.
Retained == {h \in book : ~slot[h].closed /\ ~Expired(h)}

\* Slot::drop signals the supervisor of a slot that leaves the book.
Dropping(S) == [h \in Handles |-> IF h \in S THEN [slot[h] EXCEPT !.stop = TRUE] ELSE slot[h]]

Reserve(c) ==
    /\ Ready(c)
    /\ \/ /\ terminal
          /\ Return(c, "Closed")
          /\ UNCHANGED bookVars
       \/ /\ ~terminal
          /\ Cardinality(Retained) >= Capacity
          /\ Return(c, "Busy")
          /\ book' = Retained
          /\ slot' = Dropping(book \ Retained)
          /\ UNCHANGED <<terminal, issued>>
       \/ /\ ~terminal
          /\ Cardinality(Retained) < Capacity
          /\ issued < MaxIssued
          /\ Return(c, "Handle")
          /\ issued' = issued + 1
          /\ book' = Retained \cup {issued + 1}
          /\ slot' = Dropping(book \ Retained)
          /\ UNCHANGED terminal
       \/ /\ ~terminal
          /\ Cardinality(Retained) < Capacity
          /\ issued = MaxIssued
          /\ Return(c, "Failed")
          /\ book' = Retained
          /\ slot' = Dropping(book \ Retained)
          /\ UNCHANGED <<terminal, issued>>
    /\ UNCHANGED <<supervisorVars, acked>>

\* prepare_inner refuses: the plan is invalid, or the slot cannot take it.
PrepareRefused(c, h) ==
    /\ Ready(c)
    /\ \/ Return(c, "Invalid")
       \/ terminal /\ Return(c, "Closed")
       \/ ~terminal /\ h \notin book /\ Return(c, Missing(h))
       \/ ~terminal /\ h \in book /\ (slot[h].closed \/ slot[h].stop) /\ Return(c, "Closed")
       \/ ~terminal /\ h \in book /\ Expired(h) /\ Return(c, "Closed")
    /\ UNCHANGED <<bookVars, supervisorVars, acked>>

Preparable(h) == ~terminal /\ h \in book /\ ~slot[h].closed /\ ~slot[h].stop

\* The first prepare under a handle starts its one supervisor.
PrepareFirst(c, h, p) ==
    /\ Ready(c) /\ Preparable(h)
    /\ slot[h].plan = None /\ ~slot[h].late
    /\ slot' = [slot EXCEPT ![h].plan = p, ![h].prepared = "no",
                            ![h].closed = FALSE, ![h].cleanup_failed = FALSE]
    /\ sup' = [sup EXCEPT ![h] = "preparing"]
    /\ Wait(c, [Idle EXCEPT !.op = "prepare", !.h = h, !.plan = p])
    /\ UNCHANGED <<terminal, issued, book, owned, queue, busy, acked>>

\* A later prepare joins the first if its plan is the same.
PrepareAgain(c, h, p) ==
    /\ Ready(c) /\ Preparable(h) /\ slot[h].plan # None
    /\ \/ slot[h].plan = p /\ Wait(c, [Idle EXCEPT !.op = "prepare", !.h = h, !.plan = p])
       \/ slot[h].plan # p /\ Return(c, "Invalid")
    /\ UNCHANGED <<bookVars, supervisorVars, acked>>

\* Mutant: a waiting prepare does not look at closed.
PrepareLooksPrepared(c) ==
    /\ call[c].op = "prepare"
    /\ slot[call[c].h].prepared # "no" /\ Return(c, slot[call[c].h].prepared)
    /\ UNCHANGED <<bookVars, supervisorVars, acked>>

\* One look of a waiting prepare at the state channel.
PrepareLooks(c) ==
    LET s == slot[call[c].h] IN
    /\ call[c].op = "prepare"
    /\ \/ s.closed /\ Return(c, "Closed")
       \/ ~s.closed /\ s.prepared # "no" /\ Return(c, s.prepared)
    /\ UNCHANGED <<bookVars, supervisorVars, acked>>

-----------------------------------------------------------------------------
(* start and request, by way of submit.                                     *)

SubmitRefused(c, h) ==
    /\ Ready(c)
    /\ \/ terminal /\ Return(c, "Closed")
       \/ ~terminal /\ h \notin book /\ Return(c, Missing(h))
       \/ ~terminal /\ h \in book /\ Expired(h) /\ Return(c, "Closed")
       \/ ~terminal /\ h \in book /\ ~Expired(h)
            /\ (slot[h].stop \/ slot[h].closed) /\ Return(c, "Closed")
       \/ Preparable(h) /\ ~Expired(h) /\ slot[h].plan = None /\ Return(c, "Invalid")
       \/ Preparable(h) /\ slot[h].plan # None /\ Len(queue[h]) >= Queue /\ Return(c, "Busy")
       \* try_send fails: the supervisor ended after submit had looked at closed.
       \/ ~terminal /\ h \in book /\ ~slot[h].stop /\ sup[h] = "gone" /\ Return(c, "Busy")
    /\ UNCHANGED <<bookVars, supervisorVars, acked>>

\* Mutant: the command channel has room for one too many.
SubmitOverfills(c, h) ==
    /\ Ready(c) /\ Preparable(h) /\ slot[h].plan # None
    /\ Len(queue[h]) <= Queue
    /\ queue' = [queue EXCEPT ![h] = Append(@, c)]
    /\ Wait(c, [Idle EXCEPT !.op = "command", !.h = h])
    /\ UNCHANGED <<bookVars, sup, owned, busy, acked>>

Submit(c, h) ==
    /\ Ready(c) /\ Preparable(h) /\ slot[h].plan # None
    /\ Len(queue[h]) < Queue
    /\ queue' = [queue EXCEPT ![h] = Append(@, c)]
    /\ Wait(c, [Idle EXCEPT !.op = "command", !.h = h])
    /\ UNCHANGED <<bookVars, sup, owned, busy, acked>>

-----------------------------------------------------------------------------
(* stop and shutdown.                                                       *)

Stop(c, h) ==
    /\ Ready(c)
    /\ \/ /\ h \notin book
          /\ Return(c, Missing(h))
          /\ UNCHANGED <<book, slot, acked>>
       \/ /\ h \in book /\ slot[h].plan = None
          /\ slot' = [slot EXCEPT ![h].stop = TRUE, ![h].cleanup_failed = FALSE]
          /\ book' = book \ {h}
          /\ acked' = acked \cup {h}
          /\ Return(c, "Complete")
       \/ /\ h \in book /\ slot[h].plan # None
          /\ slot' = [slot EXCEPT ![h].stop = TRUE, ![h].cleanup_failed = FALSE]
          /\ Wait(c, [Idle EXCEPT !.op = "stop", !.h = h])
          /\ UNCHANGED <<book, acked>>
    /\ UNCHANGED <<terminal, issued, supervisorVars>>

\* Mutant: stop takes the end of a failed cleanup for closure.
StopLooksFailed(c) ==
    LET s == slot[call[c].h] IN
    /\ call[c].op = "stop"
    /\ s.closed \/ s.cleanup_failed
    /\ call' = [call EXCEPT ![c].op = "remove"] /\ Silent
    /\ UNCHANGED <<bookVars, supervisorVars, acked>>

\* wait_closed, one look: closed is looked at before cleanup_failed.
StopLooks(c) ==
    LET s == slot[call[c].h] IN
    /\ call[c].op = "stop"
    /\ \/ s.closed /\ call' = [call EXCEPT ![c].op = "remove"] /\ Silent
       \/ ~s.closed /\ s.cleanup_failed /\ Return(c, "Failed")
    /\ UNCHANGED <<bookVars, supervisorVars, acked>>

StopRemoves(c) ==
    /\ call[c].op = "remove"
    /\ book' = book \ {call[c].h}
    /\ acked' = acked \cup {call[c].h}
    /\ Return(c, "Complete")
    /\ UNCHANGED <<terminal, issued, slot, supervisorVars>>

Shutdown(c) ==
    /\ Ready(c)
    /\ terminal' = TRUE
    /\ slot' = [h \in Handles |-> IF h \in book
                                  THEN [slot[h] EXCEPT !.stop = TRUE, !.cleanup_failed = FALSE]
                                  ELSE slot[h]]
    /\ Wait(c, [Idle EXCEPT !.op = "shutdown", !.left = {h \in book : slot[h].plan # None}])
    /\ UNCHANGED <<issued, book, supervisorVars, acked>>

ShutdownLooks(c) ==
    /\ call[c].op = "shutdown"
    /\ \/ \E h \in call[c].left :
            /\ slot[h].closed \/ slot[h].cleanup_failed
            /\ call' = [call EXCEPT ![c].left = @ \ {h}, ![c].ok = @ /\ slot[h].closed]
            /\ Silent
       \/ call[c].left = {} /\ call[c].ok
            /\ call' = [call EXCEPT ![c].op = "clear"] /\ Silent
       \/ call[c].left = {} /\ ~call[c].ok /\ Return(c, "Failed")
    /\ UNCHANGED <<bookVars, supervisorVars, acked>>

ShutdownClears(c) ==
    /\ call[c].op = "clear"
    /\ book' = {}
    /\ slot' = Dropping(book)
    /\ acked' = Handles
    /\ Return(c, "Complete")
    /\ UNCHANGED <<terminal, issued, supervisorVars>>

\* The future of a call is dropped, or the timeout of a request fires: the
\* supervisor finds the reply channel of its command closed.
CallerLeaves(c) ==
    /\ ~Ready(c)
    /\ Return(c, "none")
    /\ queue' = [h \in Handles |-> [i \in DOMAIN queue[h] |->
                                     IF queue[h][i] = c THEN None ELSE queue[h][i]]]
    /\ busy' = [h \in Handles |-> IF busy[h] = c THEN None ELSE busy[h]]
    /\ UNCHANGED <<bookVars, sup, owned, acked>>

\* A reservation passes RESERVATION_LIFETIME.
Lapse(h) ==
    /\ h \in book /\ slot[h].plan = None /\ ~slot[h].late
    /\ slot' = [slot EXCEPT ![h].late = TRUE]
    /\ UNCHANGED <<terminal, issued, book, supervisorVars, call, acked>> /\ Silent

-----------------------------------------------------------------------------
(* The supervisor: run, serve, prepare, prepare_cache and cleanup.          *)

managerVars == <<terminal, issued, book, call, acked>>

\* What may be left when a release in the order of Release fails on the way.
Fails(S) == {S \ {Release[k] : k \in 1..(i - 1)} : i \in {k \in DOMAIN Release : Release[k] \in S}}

\* Actor::cleanup leaves the root alone.
Cleanups(S) == {S \cap {"root"}} \cup {T \cup (S \cap {"root"}) : T \in Fails(S \ {"root"})}

\* The supervisor prepares: it holds the cache session while the cache recipe
\* runs, then installs the script under its root and runs the plan's steps.
Prepares(h) ==
    /\ sup[h] = "preparing"
    /\ \/ owned[h] = {} /\ \E r \in {"cache", "root"} : owned' = [owned EXCEPT ![h] = {r}]
       \/ owned[h] \in {{"cache"}, {"root"}}
            /\ owned' = [owned EXCEPT ![h] = @ \cup {"preparation"}]
       \/ "preparation" \in owned[h] /\ owned' = [owned EXCEPT ![h] = @ \ {"preparation"}]
       \/ owned[h] = {"cache"} /\ owned' = [owned EXCEPT ![h] = {"root"}]
    /\ Silent /\ UNCHANGED <<managerVars, slot, sup, queue, busy>>

\* prepare returns, and serve publishes the outcome.  A failure may leave the
\* preparation and the session in the supervisor's hands.
Prepared(h) ==
    /\ sup[h] = "preparing"
    /\ \/ /\ owned[h] = {"root"}
          /\ slot' = [slot EXCEPT ![h].prepared = IF slot[h].stop THEN "Closed" ELSE "Complete"]
          /\ UNCHANGED owned
       \/ /\ slot' = [slot EXCEPT ![h].prepared = "Failed"]
          /\ \E S \in Cleanups(owned[h]) : owned' = [owned EXCEPT ![h] = S]
    /\ sup' = [sup EXCEPT ![h] = "serving"]
    /\ Silent /\ UNCHANGED <<managerVars, queue, busy>>

\* The supervision tick cleans up a dead process or what a failed preparation left.
Ticks(h) ==
    /\ sup[h] = "serving" /\ ~slot[h].stop
    /\ \/ "process" \in owned[h]
       \/ slot[h].prepared # "Complete" /\ owned[h] \cap {"preparation", "cache"} # {}
    /\ \E S \in Cleanups(owned[h]) : owned' = [owned EXCEPT ![h] = S]
    /\ Silent /\ UNCHANGED <<managerVars, slot, sup, queue, busy>>

\* serve dequeues a command; a request whose caller has left is skipped, a
\* start is not.
Takes(h) ==
    /\ sup[h] = "serving" /\ ~slot[h].stop /\ queue[h] # <<>>
    /\ queue' = [queue EXCEPT ![h] = Tail(@)]
    /\ \/ sup' = [sup EXCEPT ![h] = "working"] /\ busy' = [busy EXCEPT ![h] = Head(queue[h])]
       \/ Head(queue[h]) = None /\ UNCHANGED <<sup, busy>>
    /\ Silent /\ UNCHANGED <<managerVars, slot, owned>>

\* Actor::start spawns, and start or dispatch cleans up after a failure.  The
\* stop flag may be raised between start's look at it and the spawn.
Works(h) ==
    /\ sup[h] = "working"
    /\ \/ slot[h].prepared = "Complete" /\ "process" \notin owned[h]
            /\ owned' = [owned EXCEPT ![h] = @ \cup {"process"}]
       \/ \E S \in Cleanups(owned[h]) : owned' = [owned EXCEPT ![h] = S]
    /\ Silent /\ UNCHANGED <<managerVars, slot, sup, queue, busy>>

Tell(S, kind) ==
    /\ call' = [c \in Callers |-> IF c \in S THEN Idle ELSE call[c]]
    /\ told' = IF S \cap Callers = {} THEN "none" ELSE kind

Replies(h) ==
    /\ sup[h] = "working"
    /\ sup' = [sup EXCEPT ![h] = "serving"]
    /\ busy' = [busy EXCEPT ![h] = None]
    /\ Tell({busy[h]}, "Reply")
    /\ UNCHANGED <<bookVars, owned, queue, acked>>

SeesStop(h) ==
    /\ sup[h] = "serving" /\ slot[h].stop
    /\ sup' = [sup EXCEPT ![h] = "closing"]
    /\ Silent /\ UNCHANGED <<managerVars, slot, owned, queue, busy>>

\* A panic inside serve unwinds to run, which still owns the actor.
Panics(h) ==
    /\ sup[h] \in {"preparing", "serving", "working"}
    /\ sup' = [sup EXCEPT ![h] = "closing"]
    /\ busy' = [busy EXCEPT ![h] = None]
    /\ Tell({busy[h]}, "Closed")
    /\ UNCHANGED <<bookVars, owned, queue, acked>>

Cleans(h) ==
    /\ sup[h] = "closing"
    /\ sup' = [sup EXCEPT ![h] = "cleaned"]
    /\ owned' = [owned EXCEPT ![h] = {}]
    /\ Silent /\ UNCHANGED <<managerVars, slot, queue, busy>>

\* Mutant: a failed round of cleanup is retried without being published.
CleanFailsQuietly(h) ==
    /\ sup[h] = "closing"
    /\ \E S \in Fails(owned[h]) : owned' = [owned EXCEPT ![h] = S]
    /\ Silent /\ UNCHANGED <<managerVars, slot, sup, queue, busy>>

\* A round of the cleanup loop fails; run sleeps and tries again.
CleanFails(h) ==
    /\ sup[h] = "closing"
    /\ \E S \in Fails(owned[h]) : owned' = [owned EXCEPT ![h] = S]
    /\ slot' = [slot EXCEPT ![h].cleanup_failed = TRUE]
    /\ Silent /\ UNCHANGED <<managerVars, sup, queue, busy>>

Closes(h) ==
    /\ sup[h] = "cleaned"
    /\ sup' = [sup EXCEPT ![h] = "ending"]
    /\ slot' = [slot EXCEPT ![h].closed = TRUE]
    /\ Silent /\ UNCHANGED <<managerVars, owned, queue, busy>>

\* Mutant: the reply senders of queued commands outlive run.
EndsSilently(h) ==
    /\ sup[h] = "ending"
    /\ sup' = [sup EXCEPT ![h] = "gone"]
    /\ Silent /\ UNCHANGED <<managerVars, slot, owned, queue, busy>>

\* run returns: dropping the queued reply senders tells their callers.
Ends(h) ==
    /\ sup[h] = "ending"
    /\ sup' = [sup EXCEPT ![h] = "gone"]
    /\ queue' = [queue EXCEPT ![h] = <<>>]
    /\ Tell({queue[h][i] : i \in DOMAIN queue[h]}, "Closed")
    /\ UNCHANGED <<bookVars, owned, busy, acked>>

-----------------------------------------------------------------------------
Caller(c) ==
    \/ Reserve(c) \/ Shutdown(c) \/ ShutdownLooks(c) \/ ShutdownClears(c)
    \/ PrepareLooks(c) \/ StopLooks(c) \/ StopRemoves(c) \/ CallerLeaves(c)
    \/ \E h \in Handles : PrepareRefused(c, h) \/ SubmitRefused(c, h) \/ Submit(c, h) \/ Stop(c, h)
    \/ \E h \in Handles, p \in Plans : PrepareFirst(c, h, p) \/ PrepareAgain(c, h, p)

Supervisor(h) ==
    \/ Prepares(h) \/ Prepared(h) \/ Ticks(h) \/ Takes(h) \/ Works(h) \/ Replies(h)
    \/ SeesStop(h) \/ Panics(h) \/ Cleans(h) \/ CleanFails(h) \/ Closes(h) \/ Ends(h)

Next ==
    \/ \E c \in Callers : Caller(c)
    \/ \E h \in Handles : Supervisor(h) \/ Lapse(h)

Spec == Init /\ [][Next]_vars

\* A waiter that is woken again and again does look while there is something to
\* see: a later stop lowers cleanup_failed for everybody.  The waits of a
\* supervisor all end, by the stop signal or a deadline, and every round of its
\* cleanup ends one way or the other.
Fairness ==
    /\ \A c \in Callers : /\ SF_vars(StopLooks(c) \/ ShutdownLooks(c))
                          /\ WF_vars(PrepareLooks(c) \/ StopRemoves(c) \/ ShutdownClears(c))
    /\ \A h \in Handles :
         /\ WF_vars(Prepared(h)) /\ WF_vars(Takes(h)) /\ WF_vars(Replies(h))
         /\ WF_vars(SeesStop(h)) /\ WF_vars(Cleans(h) \/ CleanFails(h))
         /\ WF_vars(Closes(h)) /\ WF_vars(Ends(h))

FairSpec == Spec /\ Fairness

-----------------------------------------------------------------------------
(* Properties.                                                              *)

\* The variables keep to their types, and no queue outgrows its channel.
TypeOK ==
    /\ terminal \in BOOLEAN
    /\ issued \in 0..MaxIssued
    /\ book \subseteq 1..issued
    /\ slot \in [Handles -> Slot]
    /\ sup \in [Handles -> Stages]
    /\ owned \in [Handles -> SUBSET Resources]
    /\ queue \in [Handles -> Seq(Callers \cup {None})]
    /\ \A h \in Handles : Len(queue[h]) <= Queue
    /\ busy \in [Handles -> Callers \cup {None}]
    /\ call \in [Callers -> Call]
    /\ told \in Outcomes
    /\ acked \subseteq Handles

\* "Admission counts live slots": reserve drops slots from the book and counts
\* what is left, while supervisors are detached tasks.  Nothing native is owned
\* outside the book, so that no more than Capacity workers ever live.
WithinCapacity ==
    LET alive == Live \cup {h \in Handles : owned[h] # {}}
    IN alive \subseteq book /\ Cardinality(alive) <= Capacity

\* "Stop and shutdown acknowledge only after process-group termination": once
\* either has said Complete of a handle its supervisor owns nothing, for ever.
CleanAck == \A h \in acked : h \notin Live /\ owned[h] = {}

\* A caller that waits for the reply to a command is in the queue of its handle
\* or is being served there, once, and its supervisor has not ended.
NoLostCaller ==
    \A c \in Callers : call[c].op = "command" =>
        LET h == call[c].h
            places == {i \in DOMAIN queue[h] : queue[h][i] = c}
        IN /\ sup[h] \notin {"none", "gone"}
           /\ Cardinality(places) = IF busy[h] = c THEN 0 ELSE 1

\* Every stop and every shutdown returns, cleanup failing for ever or not.
StopReturns ==
    \A c \in Callers : call[c].op \in {"stop", "remove", "shutdown", "clear"} ~> Ready(c)

\* Every prepare and every command is answered, stop and shutdown racing it or
\* not, if the host lets go of the resources of a worker in the end.
CallersReturn ==
    (\A h \in Handles : WF_vars(Cleans(h))) =>
        \A c \in Callers : call[c].op \in {"prepare", "command"} ~> Ready(c)
=============================================================================
