---------------------------- MODULE WorkerActor ----------------------------
(* What the supervisor of one prepared worker does with its commands        *)
(* (start, request, dispatch and cleanup of worker/actor.rs) and the native *)
(* process it owns (worker/native.rs).                                      *)
(*                                                                          *)
(* pc names the await the supervisor is in.  Instants are flags: lapsed is  *)
(* raised when the deadline of the command has passed, backoff stands while *)
(* retry_after lies ahead and idle once the idle timeout has run out.  A    *)
(* killed process belongs to its reaper task, which outlives a dropped      *)
(* start future; "unreaped" is a process whose wait failed, "lost" one      *)
(* whose reaper task was aborted.                                           *)
EXTENDS Integers, FiniteSets, TLC

CONSTANTS
    MaxOp,      \* bound: operation numbers are 1..MaxOp
    Bodies,     \* method and parameters of a request
    Window,     \* REPLAY_WINDOW, 8 in the code
    IdleRule,   \* whether the plan has an idle timeout for one of its backends
    MaxCalls,   \* bound: commands taken from the queue
    None

Ops == 1..MaxOp
Outcome == {"Ok", "Remote", "Failed", "Closed", "Complete"}
Reply == [body : Bodies, outcome : Outcome, run : Nat]
Command == [kind : {"start", "request"}, op : Ops \cup {0}, body : Bodies \cup {None}]

ASSUME ActorAssumption ==
    /\ MaxOp \in Nat /\ Window \in Nat \ {0} /\ MaxCalls \in Nat
    /\ IdleRule \in BOOLEAN
    /\ None \notin Bodies /\ None \notin Reply /\ None \notin Command

VARIABLES
    pc,        \* the await the supervisor is in
    stop,      \* the stop channel
    prepared,  \* the outcome of prepare
    cmd,       \* the command being served, or None
    lapsed,    \* its deadline has passed
    attempt,   \* dispatch: which of its two attempts this is
    attempted, \* dispatch: some attempt reached the wire
    proc,      \* Actor.process and its reaper
    phase,     \* State.status.phase
    running,   \* State.status.server.running
    idle,      \* last_used lies further back than the idle timeout
    backoff,   \* retry_after lies ahead
    replies,   \* replies[o]: the recorded outcome of o, or None
    highest,   \* Actor.highest
    calls,     \* bound: commands taken so far
    executed,  \* auxiliary: executed[o] counts the requests written for o
    finished,  \* auxiliary: the operations whose dispatch ended after an attempt
    orphans    \* auxiliary: processes overwritten while still owned

processVars == <<proc, phase, running, idle, backoff>>
replayVars == <<replies, highest, finished>>
commandVars == <<cmd, lapsed, attempt, attempted, calls>>
fixedVars == <<stop, prepared>>
vars == <<pc, fixedVars, commandVars, processVars, replayVars, executed, orphans>>

Init ==
    /\ pc = "serving" /\ stop = FALSE
    /\ prepared \in {"Complete", "Failed"}
    /\ cmd = None /\ lapsed = FALSE /\ attempt = 0 /\ attempted = FALSE /\ calls = 0
    /\ proc = "none" /\ running = FALSE /\ idle = FALSE /\ backoff = FALSE
    /\ phase = IF prepared = "Complete" THEN "Prepared" ELSE "Failed"
    /\ replies = [o \in Ops |-> None] /\ highest = 0 /\ finished = {}
    /\ executed = [o \in Ops |-> 0] /\ orphans = 0

-----------------------------------------------------------------------------
(* cleanup and reap.                                                        *)

\* cleanup begins: the status is withdrawn and the process group is killed and
\* handed to its reaper, unless a reaper already has it.
Kill ==
    /\ proc' = IF proc \in {"alive", "dead", "unreaped"} THEN "reaping" ELSE proc
    /\ phase' = IF prepared = "Complete" THEN "Prepared" ELSE "Failed"
    /\ running' = FALSE
    /\ UNCHANGED <<idle, backoff>>

\* cleanup ends well: there was nothing to reap or the reaper has reaped it.
Cleaned == proc \in {"none", "reaping"} /\ proc' = "none"

\* cleanup ends badly: the wait failed and the child came back, or the reaper
\* task itself was lost, now or earlier.
Uncleaned ==
    \/ proc = "reaping" /\ proc' \in {"unreaped", "lost"}
    \/ proc = "lost" /\ UNCHANGED proc

-----------------------------------------------------------------------------
(* serve and request.                                                       *)

\* The operations that have fallen out of the window, with saturating_sub.
Floor(h) == IF h > Window THEN h - Window ELSE 0

Answered ==
    /\ pc' = "serving" /\ cmd' = None /\ lapsed' = FALSE
    /\ attempt' = 0 /\ attempted' = FALSE
    /\ UNCHANGED calls

Take ==
    /\ pc = "serving" /\ ~stop /\ calls < MaxCalls
    /\ calls' = calls + 1
    /\ UNCHANGED <<fixedVars, lapsed, attempt, attempted, processVars, replayVars, executed, orphans>>

TakeStart ==
    /\ Take
    /\ cmd' = [kind |-> "start", op |-> 0, body |-> None]
    /\ pc' = "start"

TakeRequest(o, b) ==
    /\ Take
    /\ cmd' = [kind |-> "request", op |-> o, body |-> b]
    /\ pc' = "request"

\* Mutant: an operation that was evicted from the window is dispatched again.
RequestReplaysOnly ==
    /\ pc = "request"
    /\ \/ (lapsed \/ replies[cmd.op] # None) /\ Answered
       \/ ~lapsed /\ replies[cmd.op] = None /\ pc' = "start" /\ UNCHANGED commandVars
    /\ UNCHANGED <<fixedVars, processVars, replayVars, executed, orphans>>

\* Everything request does before dispatch.
Request ==
    /\ pc = "request"
    /\ \/ /\ lapsed \/ replies[cmd.op] # None \/ cmd.op <= Floor(highest)
          /\ Answered
       \/ /\ ~lapsed /\ replies[cmd.op] = None /\ cmd.op > Floor(highest)
          /\ pc' = "start"
          /\ UNCHANGED commandVars
    /\ UNCHANGED <<fixedVars, processVars, replayVars, executed, orphans>>

\* What request records when dispatch returns.
Finish(outcome) ==
    /\ IF attempted
       THEN LET top == IF cmd.op > highest THEN cmd.op ELSE highest
                kept == {o \in Ops : o > Floor(top)}
                reply == [body |-> cmd.body, outcome |-> outcome, run |-> executed[cmd.op]]
            IN /\ highest' = top
               /\ replies' = [o \in Ops |-> IF o = cmd.op THEN reply ELSE IF o \in kept THEN replies[o] ELSE None]
               /\ finished' = finished \cup {cmd.op}
       ELSE UNCHANGED replayVars
    /\ Answered

\* start returns to serve, or to dispatch, which goes on only after Complete.
Started(outcome) ==
    \/ cmd.kind = "start" /\ Answered /\ UNCHANGED replayVars
    \/ cmd.kind = "request" /\ outcome # "Complete" /\ Finish(outcome)
    \/ cmd.kind = "request" /\ outcome = "Complete" /\ pc' = "send" /\ UNCHANGED <<commandVars, replayVars>>

-----------------------------------------------------------------------------
(* start.                                                                   *)

\* The early returns, and the decision to clean up first.
Start ==
    /\ pc = "start"
    /\ \/ /\ stop \/ prepared # "Complete"
          /\ Started(IF stop THEN "Closed" ELSE "Failed")
          /\ UNCHANGED processVars
       \/ /\ ~stop /\ prepared = "Complete" /\ ~idle /\ running /\ proc = "alive"
          /\ Started("Complete")
          /\ UNCHANGED processVars
       \/ /\ ~stop /\ prepared = "Complete"
          /\ idle \/ (proc # "none" /\ ~(running /\ proc = "alive"))
          /\ pc' = "rebuild" /\ Kill
          /\ UNCHANGED <<commandVars, replayVars>>
       \/ /\ ~stop /\ prepared = "Complete" /\ ~idle /\ proc = "none"
          /\ pc' = "spawn"
          /\ UNCHANGED <<processVars, commandVars, replayVars>>
    /\ UNCHANGED <<fixedVars, executed, orphans>>

\* Mutant: start spawns although the old process could not be cleaned up.
RebuildRegardless ==
    /\ pc = "rebuild"
    /\ Cleaned \/ Uncleaned
    /\ pc' = "spawn"
    /\ UNCHANGED <<fixedVars, commandVars, replayVars, phase, running, idle, backoff, executed, orphans>>

Rebuild ==
    /\ pc = "rebuild"
    /\ \/ Cleaned /\ pc' = "spawn" /\ UNCHANGED <<commandVars, replayVars>>
       \/ Uncleaned /\ Started("Failed")
    /\ UNCHANGED <<fixedVars, phase, running, idle, backoff, executed, orphans>>

\* Assigning self.process drops whatever it held.
Spawn ==
    /\ pc = "spawn"
    /\ \/ backoff /\ Started("Failed") /\ UNCHANGED <<processVars, orphans>>
       \/ /\ ~backoff
          /\ proc' = "alive" /\ phase' = "Starting"
          /\ orphans' = orphans + IF proc = "none" THEN 0 ELSE 1
          /\ pc' = "handshake"
          /\ UNCHANGED <<running, idle, backoff, commandVars, replayVars>>
       \/ ~backoff /\ pc' = "unwind" /\ Kill /\ UNCHANGED <<orphans, commandVars, replayVars>>
    /\ UNCHANGED <<fixedVars, executed>>

Handshake ==
    /\ pc = "handshake" /\ ~stop
    /\ phase' = "Running" /\ running' = TRUE
    /\ idle' = FALSE /\ backoff' = FALSE
    /\ Started("Complete")
    /\ UNCHANGED <<fixedVars, proc, executed, orphans>>

\* A bad ready line, a closed pipe, the startup timeout or the stop signal.
HandshakeFails ==
    /\ pc = "handshake"
    /\ pc' = "unwind" /\ Kill
    /\ UNCHANGED <<fixedVars, commandVars, replayVars, executed, orphans>>

Unwind ==
    /\ pc = "unwind"
    /\ \/ Cleaned /\ backoff' = TRUE /\ phase' = "Failed"
       \/ Uncleaned /\ UNCHANGED <<backoff, phase>>
    /\ Started("Failed")
    /\ UNCHANGED <<fixedVars, running, idle, executed, orphans>>

\* Mutant: the status is not withdrawn when the deadline cuts start short.
StartTimesOutQuietly ==
    /\ pc \in {"rebuild", "handshake", "unwind"} /\ cmd.kind = "request" /\ lapsed
    /\ pc' = "timeout"
    /\ proc' = IF proc \in {"alive", "dead", "unreaped"} THEN "reaping" ELSE proc
    /\ UNCHANGED <<fixedVars, commandVars, replayVars, phase, running, idle, backoff, executed, orphans>>

\* dispatch drops the start future at the deadline, wherever it waits.
StartTimesOut ==
    /\ pc \in {"rebuild", "handshake", "unwind"} /\ cmd.kind = "request" /\ lapsed
    /\ pc' = "timeout" /\ Kill
    /\ UNCHANGED <<fixedVars, commandVars, replayVars, executed, orphans>>

Timeout ==
    /\ pc = "timeout"
    /\ Cleaned \/ Uncleaned
    /\ Finish("Failed")
    /\ UNCHANGED <<fixedVars, phase, running, idle, backoff, executed, orphans>>

-----------------------------------------------------------------------------
(* dispatch.                                                                *)

\* attempted is set when the request future is first polled, which the stop
\* signal forestalls; the write itself may fail.
Send ==
    /\ pc = "send"
    /\ \/ stop /\ pc' = "reset" /\ Kill /\ UNCHANGED <<attempted, executed>>
       \/ /\ ~stop /\ attempted' = TRUE
          /\ pc' = "await" /\ executed' = [executed EXCEPT ![cmd.op] = @ + 1]
          /\ UNCHANGED processVars
       \/ ~stop /\ attempted' = TRUE /\ pc' = "reset" /\ Kill /\ UNCHANGED executed
    /\ UNCHANGED <<fixedVars, cmd, lapsed, attempt, calls, replayVars, orphans>>

\* A response with the id of the operation: one that is not ok earns a retry.
Respond(ok) ==
    /\ pc = "await"
    /\ \/ /\ ok \/ attempt = 1
          /\ Finish(IF ok THEN "Ok" ELSE "Remote")
          /\ idle' = (idle /\ ~ok)
          /\ UNCHANGED <<proc, phase, running, backoff>>
       \/ ~ok /\ attempt = 0 /\ pc' = "reset" /\ Kill /\ UNCHANGED <<commandVars, replayVars>>
    /\ UNCHANGED <<fixedVars, executed, orphans>>

\* A closed pipe or an output limit: lines with another id only use up the limit.
AwaitFails ==
    /\ pc = "await"
    /\ pc' = "reset" /\ Kill
    /\ UNCHANGED <<fixedVars, commandVars, replayVars, executed, orphans>>

\* Mutant: the deadline does not cover the wait for the response.
AwaitCutByStop ==
    /\ pc = "await" /\ stop
    /\ pc' = "reset" /\ Kill
    /\ UNCHANGED <<fixedVars, commandVars, replayVars, executed, orphans>>

\* The deadline covers the wait for the response, and stop cancels it.
AwaitCut ==
    /\ pc = "await" /\ (lapsed \/ stop)
    /\ pc' = "reset" /\ Kill
    /\ UNCHANGED <<fixedVars, commandVars, replayVars, executed, orphans>>

\* Mutant: the loop over the attempts makes one round too many.
ResetOnceMore ==
    /\ pc = "reset"
    /\ \/ Cleaned /\ attempt < 2 /\ ~stop /\ ~lapsed
            /\ pc' = "start" /\ attempt' = attempt + 1
            /\ UNCHANGED <<cmd, lapsed, attempted, calls, replayVars>>
       \/ Cleaned /\ (attempt = 2 \/ stop \/ lapsed) /\ Finish("Failed")
       \/ Uncleaned /\ Finish("Failed")
    /\ UNCHANGED <<fixedVars, phase, running, idle, backoff, executed, orphans>>

Reset ==
    /\ pc = "reset"
    /\ \/ Cleaned /\ attempt = 0 /\ ~stop /\ ~lapsed
            /\ pc' = "start" /\ attempt' = 1
            /\ UNCHANGED <<cmd, lapsed, attempted, calls, replayVars>>
       \/ Cleaned /\ (attempt = 1 \/ stop \/ lapsed) /\ Finish("Failed")
       \/ Uncleaned /\ Finish("Failed")
    /\ UNCHANGED <<fixedVars, phase, running, idle, backoff, executed, orphans>>

-----------------------------------------------------------------------------
(* The supervision tick and the end of run.                                 *)

\* Mutant: the tick only retries failed cleanups.
TickRetries ==
    /\ pc = "serving" /\ ~stop /\ proc = "unreaped"
    /\ pc' = "tick" /\ Kill
    /\ UNCHANGED <<fixedVars, commandVars, replayVars, executed, orphans>>

TickKills ==
    /\ pc = "serving" /\ ~stop /\ proc \notin {"none", "alive"}
    /\ pc' = "tick" /\ Kill
    /\ UNCHANGED <<fixedVars, commandVars, replayVars, executed, orphans>>

Tick ==
    /\ pc = "tick"
    /\ Cleaned \/ Uncleaned
    /\ pc' = "serving"
    /\ UNCHANGED <<fixedVars, commandVars, phase, running, idle, backoff, replayVars, executed, orphans>>

Close ==
    /\ pc = "serving" /\ stop
    /\ pc' = "closing" /\ Kill
    /\ UNCHANGED <<fixedVars, commandVars, replayVars, executed, orphans>>

\* A panic in serve drops the command and unwinds to run.
Panic ==
    /\ pc \notin {"closing", "closed"}
    /\ pc' = "closing" /\ Kill
    /\ cmd' = None /\ lapsed' = FALSE /\ attempt' = 0 /\ attempted' = FALSE
    /\ UNCHANGED <<fixedVars, calls, replayVars, executed, orphans>>

Closing ==
    /\ pc = "closing" /\ Cleaned
    /\ pc' = "closed" /\ phase' = "Closed"
    /\ UNCHANGED <<fixedVars, commandVars, running, idle, backoff, replayVars, executed, orphans>>

\* A round of the loop fails; the next one kills again what came back.
ClosingFails ==
    /\ pc = "closing" /\ proc = "reaping"
    /\ proc' \in {"reaping", "lost"}
    /\ UNCHANGED <<pc, fixedVars, commandVars, phase, running, idle, backoff, replayVars, executed, orphans>>

-----------------------------------------------------------------------------
(* The world around the supervisor.                                         *)

StopSignal ==
    /\ ~stop /\ stop' = TRUE
    /\ UNCHANGED <<pc, prepared, commandVars, processVars, replayVars, executed, orphans>>

DeadlineLapses ==
    /\ cmd # None /\ cmd.kind = "request" /\ ~lapsed /\ lapsed' = TRUE
    /\ UNCHANGED <<pc, fixedVars, cmd, attempt, attempted, calls, processVars, replayVars, executed, orphans>>

Dies ==
    /\ proc = "alive" /\ proc' = "dead"
    /\ UNCHANGED <<pc, fixedVars, commandVars, phase, running, idle, backoff, replayVars, executed, orphans>>

TimePasses ==
    /\ \/ IdleRule /\ ~idle /\ idle' = TRUE /\ UNCHANGED backoff
       \/ backoff /\ backoff' = FALSE /\ UNCHANGED idle
    /\ UNCHANGED <<pc, fixedVars, commandVars, proc, phase, running, replayVars, executed, orphans>>

Dispatching ==
    \/ Request \/ Start \/ Rebuild \/ Spawn \/ Handshake \/ HandshakeFails \/ Unwind
    \/ StartTimesOut \/ Timeout \/ Send \/ AwaitCut \/ Reset

Next ==
    \/ TakeStart
    \/ \E o \in Ops, b \in Bodies : TakeRequest(o, b)
    \/ Dispatching \/ AwaitFails
    \/ \E ok \in BOOLEAN : Respond(ok)
    \/ TickKills \/ Tick \/ Close \/ Panic \/ Closing \/ ClosingFails
    \/ StopSignal \/ DeadlineLapses \/ Dies \/ TimePasses

Spec == Init /\ [][Next]_vars

\* The waits of start and cleanup end: the startup timeout bounds the handshake
\* and a killed group can be waited for.  A worker need not answer; the clock
\* runs, and the supervision timer ticks.
Fairness ==
    /\ WF_vars(Dispatching) /\ WF_vars(DeadlineLapses)
    /\ WF_vars(TickKills) /\ WF_vars(Tick) /\ WF_vars(Close) /\ WF_vars(Closing)

FairSpec == Spec /\ Fairness

-----------------------------------------------------------------------------
(* Properties.                                                              *)

\* The variables keep to their types.
TypeOK ==
    /\ pc \in {"serving", "request", "start", "rebuild", "spawn", "handshake", "unwind",
               "timeout", "send", "await", "reset", "tick", "closing", "closed"}
    /\ stop \in BOOLEAN /\ prepared \in {"Complete", "Failed"}
    /\ cmd \in Command \cup {None}
    /\ lapsed \in BOOLEAN /\ attempt \in 0..1 /\ attempted \in BOOLEAN
    /\ calls \in 0..MaxCalls
    /\ proc \in {"none", "alive", "dead", "reaping", "unreaped", "lost"}
    /\ phase \in {"Prepared", "Starting", "Running", "Failed", "Closed"}
    /\ running \in BOOLEAN /\ idle \in BOOLEAN /\ backoff \in BOOLEAN
    /\ replies \in [Ops -> Reply \cup {None}]
    /\ highest \in 0..MaxOp /\ finished \subseteq Ops
    /\ executed \in [Ops -> Nat] /\ orphans \in Nat

\* "Evicted/stale operation numbers are rejected without reexecution": once a
\* dispatch has ended after an attempt, no retry by any caller, in any order,
\* puts its operation on the wire again, evicted from the window or not.
NoReexecution == [][\A o \in finished : executed'[o] = executed[o]]_vars

\* A process is never replaced while the supervisor still answers for it, so
\* the second attempt never runs beside the first.
NoOrphan == orphans = 0

\* The published status says running only of a process that has shaken hands
\* and was not killed since, and no Starting is left behind.
StatusHonest ==
    /\ running <=> phase = "Running"
    /\ running => proc \in {"alive", "dead"}
    /\ pc = "serving" => phase # "Starting"

\* Every command is answered, a silent worker's by its deadline.
CommandsAnswered == cmd # None ~> cmd = None

\* The status of a worker that died is withdrawn without any call being made.
DeathNoticed == running /\ proc = "dead" ~> ~running
=============================================================================
