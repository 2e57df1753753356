-------------------------- MODULE WorkerActorProofs --------------------------
(* Theorems about WorkerActor, for every window, every operation number and *)
(* every sequence of commands, faults and stop signals.                     *)
EXTENDS WorkerActor, TLAPS

-----------------------------------------------------------------------------
(* The invariant, in three parts.                                           *)

\* The awaits of a cleanup, of start, and those where a command is a request.
Cleaning == {"rebuild", "unwind", "timeout", "reset", "tick", "closing"}
Starting == {"start", "rebuild", "spawn", "handshake", "unwind"}
Dispatched == {"timeout", "send", "await", "reset"}

Requesting == cmd \in Command /\ cmd.kind = "request" /\ cmd.op \in Ops /\ cmd.body \in Bodies

\* What is served where: only a request is dispatched.
Serving ==
    /\ pc \in Dispatched \cup {"request"} => Requesting
    /\ pc \in Starting => cmd \in Command /\ (cmd.kind = "start" \/ Requesting)
    /\ pc \in {"serving", "tick", "closing", "closed"} => cmd = None /\ ~attempted /\ attempt = 0

\* The process and its published status.
Lifecycle ==
    /\ pc = "spawn" => proc = "none"
    /\ running <=> phase = "Running"
    /\ running => proc \in {"alive", "dead"}
    /\ phase = "Starting" <=> pc = "handshake"
    /\ pc = "handshake" => proc \in {"alive", "dead"}
    /\ pc \in Cleaning => ~running
    /\ orphans = 0

\* What the window remembers of the operations that are over.
Remembered == \A o \in finished : replies[o] # None \/ o <= Floor(highest)

\* A request is dispatched only if no dispatch of its operation is over.
Unfinished == pc \in Starting \cup Dispatched /\ Requesting => cmd.op \notin finished

ActorInv == TypeOK /\ Serving /\ Lifecycle /\ Remembered /\ Unfinished

-----------------------------------------------------------------------------
(* What the recurring parts of the actions do.                              *)

ReplayOK ==
    /\ replies \in [Ops -> Reply \cup {None}]
    /\ highest \in 0..MaxOp /\ finished \subseteq Ops
    /\ Remembered

\* The command is answered, and the window remembers it if it was attempted.
Settled ==
    /\ pc' = "serving" /\ cmd' = None /\ lapsed' = FALSE
    /\ attempt' = 0 /\ attempted' = FALSE /\ calls' = calls
    /\ ReplayOK'

\* The window only moves up.
LEMMA FloorMonotone ==
    ASSUME NEW g \in Nat, NEW h \in Nat, g <= h
    PROVE  Floor(g) \in Nat /\ Floor(g) <= Floor(h)
  BY ActorAssumption DEF Floor

\* request records an attempted operation and drops what leaves the window: no
\* operation is forgotten that the window would let through again.
LEMMA FinishSettles ==
    ASSUME TypeOK, Remembered, Requesting, NEW x \in Outcome, Finish(x)
    PROVE  Settled
<1>1. /\ pc' = "serving" /\ cmd' = None /\ lapsed' = FALSE
      /\ attempt' = 0 /\ attempted' = FALSE /\ calls' = calls
  BY DEF Finish, Answered
<1>2. CASE ~attempted
  <2>1. replies' = replies /\ highest' = highest /\ finished' = finished
    BY <1>2 DEF Finish, replayVars
  <2> QED BY <1>1, <2>1 DEF Settled, ReplayOK, Remembered, TypeOK
<1>3. CASE attempted
  <2> DEFINE top == IF cmd.op > highest THEN cmd.op ELSE highest
             reply == [body |-> cmd.body, outcome |-> x, run |-> executed[cmd.op]]
  <2>1. /\ highest' = top /\ finished' = finished \cup {cmd.op}
        /\ replies' = [o \in Ops |-> IF o = cmd.op THEN reply
                                     ELSE IF o \in {q \in Ops : q > Floor(top)} THEN replies[o] ELSE None]
    BY <1>3 DEF Finish
  <2>2. /\ cmd.op \in Ops /\ cmd.body \in Bodies /\ highest \in 0..MaxOp /\ MaxOp \in Nat
        /\ executed[cmd.op] \in Nat /\ finished \subseteq Ops
        /\ replies \in [Ops -> Reply \cup {None}]
    BY ActorAssumption DEF Requesting, TypeOK
  <2>3. reply \in Reply /\ reply # None
    BY <2>2, ActorAssumption DEF Reply
  <2> HIDE DEF reply
  <2>4. highest' \in 0..MaxOp /\ highest <= highest' /\ highest' = top
    BY <2>1, <2>2 DEF Ops
  <2> HIDE DEF top
  <2>5. replies' \in [Ops -> Reply \cup {None}]
    BY <2>1, <2>2, <2>3
  <2>6. finished' \subseteq Ops
    BY <2>1, <2>2
  <2>7. ASSUME NEW o \in finished' PROVE replies'[o] # None \/ o <= Floor(highest')
    <3>1. CASE o = cmd.op
      BY <2>1, <2>2, <2>3, <3>1
    <3>2. CASE o # cmd.op /\ o > Floor(highest')
      <4>1. o \in finished /\ o \in Ops /\ replies'[o] = replies[o]
        BY <2>1, <2>2, <2>4, <3>2
      <4>2. Floor(highest) \in Nat /\ Floor(highest') \in Nat /\ Floor(highest) <= Floor(highest')
        BY <2>2, <2>4, FloorMonotone
      <4>3. replies[o] # None
        BY <3>2, <4>1, <4>2 DEF Remembered, Ops
      <4> QED BY <4>1, <4>3
    <3>3. CASE ~(o > Floor(highest'))
      <4>1. o \in Nat /\ Floor(highest') \in Nat
        BY <2>2, <2>4, <2>6, FloorMonotone DEF Ops
      <4> QED BY <3>3, <4>1
    <3> QED BY <3>1, <3>2, <3>3
  <2> QED BY <1>1, <2>4, <2>5, <2>6, <2>7 DEF Settled, ReplayOK, Remembered
<1>4. QED
  BY <1>2, <1>3 DEF TypeOK

\* start returns: the command is over, or dispatch goes on to the wire.
LEMMA StartedSettles ==
    ASSUME TypeOK, Remembered, cmd \in Command, cmd.kind = "start" \/ Requesting,
           NEW x \in Outcome, Started(x)
    PROVE  \/ Settled
           \/ pc' = "send" /\ Requesting /\ UNCHANGED <<commandVars, replayVars>>
<1>1. CASE cmd.kind = "start" /\ Answered /\ UNCHANGED replayVars
  BY <1>1 DEF Answered, replayVars, Settled, ReplayOK, Remembered, TypeOK
<1>2. CASE cmd.kind = "request" /\ Finish(x)
  BY <1>2, FinishSettles
<1>3. CASE cmd.kind = "request" /\ pc' = "send" /\ UNCHANGED <<commandVars, replayVars>>
  BY <1>3
<1>4. QED
  BY <1>1, <1>2, <1>3 DEF Started

\* A step that leaves the window alone.
LEMMA ReplayKept ==
    ASSUME TypeOK, Remembered, UNCHANGED replayVars
    PROVE  ReplayOK'
  BY DEF TypeOK, Remembered, ReplayOK, replayVars

-----------------------------------------------------------------------------
(* The process and its status.                                              *)

ProcessOK ==
    /\ proc \in {"none", "alive", "dead", "reaping", "unreaped", "lost"}
    /\ phase \in {"Prepared", "Starting", "Running", "Failed", "Closed"}
    /\ running \in BOOLEAN /\ idle \in BOOLEAN /\ backoff \in BOOLEAN
    /\ Lifecycle

\* Where the part of an action that ends start or dispatch can lead.
LEMMA Moves ==
    ASSUME NEW x
    PROVE  /\ Finish(x) => pc' = "serving"
           /\ Started(x) => pc' \in {"serving", "send"}
  BY DEF Finish, Started, Answered

LEMMA ProcessStep == ActorInv /\ [Next]_vars => ProcessOK'
<1> SUFFICES ASSUME ActorInv, [Next]_vars PROVE ProcessOK'
  OBVIOUS
<1>0. ProcessOK /\ pc \in {"serving", "request", "start", "rebuild", "spawn", "handshake", "unwind",
               "timeout", "send", "await", "reset", "tick", "closing", "closed"}
      /\ stop \in BOOLEAN /\ prepared \in {"Complete", "Failed"}
  BY DEF ActorInv, TypeOK, ProcessOK
<1> USE <1>0 DEF ProcessOK, Lifecycle, Cleaning
<1>1. ASSUME Kill, pc' \in Cleaning, orphans' = orphans PROVE ProcessOK'
  BY <1>1 DEF Kill
<1>2. ASSUME UNCHANGED <<proc, phase, running, idle, backoff>>, orphans' = orphans,
             pc \notin Cleaning \cup {"handshake"}, pc' \notin Cleaning \cup {"spawn", "handshake"}
      PROVE  ProcessOK'
  BY <1>2
<1>3. ASSUME Cleaned \/ Uncleaned, pc \in Cleaning, UNCHANGED <<phase, running, idle, backoff>>,
             orphans' = orphans, pc' # "handshake", pc' # "spawn"
      PROVE  ProcessOK'
  BY <1>3 DEF Cleaned, Uncleaned
<1>4. ASSUME TakeStart \/ \E o \in Ops, b \in Bodies : TakeRequest(o, b) PROVE ProcessOK'
  BY <1>4, <1>2 DEF TakeStart, TakeRequest, Take, processVars
<1>5. CASE Request
  BY <1>5, <1>2 DEF Request, Answered, processVars
<1>6. CASE Start
  <2>1. orphans' = orphans
    BY <1>6 DEF Start
  <2>2. CASE UNCHANGED processVars /\ \E x : Started(x)
    BY <1>2, <1>6, <2>1, <2>2, Moves DEF Start, processVars
  <2>3. CASE pc' = "rebuild" /\ Kill
    BY <1>1, <2>1, <2>3
  <2>4. CASE proc = "none" /\ pc' = "spawn" /\ UNCHANGED processVars
    BY <1>6, <2>1, <2>4 DEF Start, processVars
  <2> QED BY <1>6, <2>2, <2>3, <2>4 DEF Start
<1>7. CASE Rebuild
  <2>1. orphans' = orphans /\ pc = "rebuild" /\ UNCHANGED <<phase, running, idle, backoff>>
    BY <1>7 DEF Rebuild
  <2>2. CASE Cleaned /\ pc' = "spawn"
    BY <2>1, <2>2 DEF Cleaned
  <2>3. CASE Uncleaned /\ Started("Failed")
    BY <1>3, <2>1, <2>3, Moves
  <2> QED BY <1>7, <2>2, <2>3 DEF Rebuild
<1>8. CASE Spawn
  <2>1. CASE Started("Failed") /\ UNCHANGED <<processVars, orphans>>
    BY <1>2, <1>8, <2>1, Moves DEF Spawn, processVars
  <2>2. CASE /\ proc' = "alive" /\ phase' = "Starting" /\ pc' = "handshake"
             /\ orphans' = orphans + (IF proc = "none" THEN 0 ELSE 1)
             /\ UNCHANGED <<running, idle, backoff>>
    BY <1>8, <2>2 DEF Spawn
  <2>3. CASE pc' = "unwind" /\ Kill /\ UNCHANGED orphans
    BY <1>1, <2>3
  <2> QED BY <1>8, <2>1, <2>2, <2>3 DEF Spawn
<1>9. CASE Handshake
  <2>1. pc' \in {"serving", "send"}
    BY <1>9, Moves DEF Handshake
  <2> QED BY <1>9, <2>1 DEF Handshake
<1>10. CASE HandshakeFails \/ StartTimesOut \/ AwaitFails \/ AwaitCut \/ TickKills \/ Close \/ Panic
  BY <1>1, <1>10 DEF HandshakeFails, StartTimesOut, AwaitFails, AwaitCut, TickKills, Close, Panic
<1>11. CASE Unwind
  <2>1. orphans' = orphans /\ pc = "unwind" /\ UNCHANGED <<running, idle>> /\ pc' \in {"serving", "send"}
    BY <1>11, Moves DEF Unwind
  <2>2. CASE Cleaned /\ backoff' = TRUE /\ phase' = "Failed"
    BY <2>1, <2>2 DEF Cleaned
  <2>3. CASE Uncleaned /\ UNCHANGED <<backoff, phase>>
    BY <1>3, <2>1, <2>3
  <2> QED BY <1>11, <2>2, <2>3 DEF Unwind
<1>12. CASE Timeout
  BY <1>3, <1>12, Moves DEF Timeout
<1>13. CASE Send
  <2>1. CASE pc' = "reset" /\ Kill
    BY <1>1, <1>13, <2>1 DEF Send
  <2>2. CASE pc' = "await" /\ UNCHANGED processVars
    BY <1>2, <1>13, <2>2 DEF Send, processVars
  <2> QED BY <1>13, <2>1, <2>2 DEF Send
<1>14. ASSUME NEW ok \in BOOLEAN, Respond(ok) PROVE ProcessOK'
  <2>1. CASE pc' = "reset" /\ Kill
    BY <1>1, <1>14, <2>1 DEF Respond
  <2>2. CASE /\ Finish(IF ok THEN "Ok" ELSE "Remote") /\ idle' = (idle /\ ~ok)
             /\ UNCHANGED <<proc, phase, running, backoff>>
    <3>1. pc = "await" /\ pc' = "serving" /\ orphans' = orphans
      BY <1>14, <2>2, Moves DEF Respond
    <3>2. idle' \in BOOLEAN
      BY <2>2
    <3> QED BY <2>2, <3>1, <3>2
  <2> QED BY <1>14, <2>1, <2>2 DEF Respond
<1>15. CASE Reset
  <2>1. /\ orphans' = orphans /\ pc = "reset" /\ UNCHANGED <<phase, running, idle, backoff>>
        /\ Cleaned \/ Uncleaned
        /\ pc' \in {"start", "serving"}
    BY <1>15, Moves DEF Reset
  <2> QED BY <1>3, <2>1
<1>16. CASE Tick
  BY <1>3, <1>16 DEF Tick
<1>17. CASE Closing
  BY <1>17 DEF Closing, Cleaned
<1>18. CASE ClosingFails
  BY <1>18 DEF ClosingFails
<1>19. CASE StopSignal \/ DeadlineLapses
  BY <1>19 DEF StopSignal, DeadlineLapses, processVars
<1>20. CASE Dies
  BY <1>20 DEF Dies
<1>21. CASE TimePasses
  BY <1>21 DEF TimePasses
<1>22. CASE UNCHANGED vars
  BY <1>22 DEF vars, processVars
<1>23. QED
  BY <1>4, <1>5, <1>6, <1>7, <1>8, <1>9, <1>10, <1>11, <1>12, <1>13, <1>14, <1>15, <1>16, <1>17,
     <1>18, <1>19, <1>20, <1>21, <1>22 DEF Next, Dispatching

-----------------------------------------------------------------------------
(* The command being served and the window.                                 *)

CommandOK ==
    /\ pc \in {"serving", "request", "start", "rebuild", "spawn", "handshake", "unwind",
               "timeout", "send", "await", "reset", "tick", "closing", "closed"}
    /\ stop \in BOOLEAN /\ prepared \in {"Complete", "Failed"}
    /\ cmd \in Command \cup {None}
    /\ lapsed \in BOOLEAN /\ attempt \in 0..1 /\ attempted \in BOOLEAN
    /\ calls \in 0..MaxCalls /\ executed \in [Ops -> Nat]
    /\ ReplayOK /\ Serving /\ Unfinished

LEMMA CommandStep == ActorInv /\ [Next]_vars => CommandOK'
<1> SUFFICES ASSUME ActorInv, [Next]_vars PROVE CommandOK'
  OBVIOUS
<1>0. TypeOK /\ Remembered /\ Serving /\ Unfinished
  BY DEF ActorInv
<1>1. CommandOK
  BY <1>0 DEF TypeOK, CommandOK, ReplayOK
<1> USE DEF Starting, Dispatched
<1>2. ASSUME Settled, UNCHANGED <<fixedVars, executed>> PROVE CommandOK'
  <2>1. pc' = "serving" /\ cmd' = None /\ ~attempted' /\ attempt' = 0
    BY <1>2 DEF Settled
  <2>2. Serving' /\ Unfinished'
    BY <2>1 DEF Serving, Unfinished
  <2>3. /\ stop' \in BOOLEAN /\ prepared' \in {"Complete", "Failed"}
        /\ calls' \in 0..MaxCalls /\ executed' \in [Ops -> Nat] /\ ReplayOK'
    BY <1>1, <1>2 DEF Settled, CommandOK, fixedVars
  <2>4. attempt' \in 0..1
    BY <2>1
  <2>5. lapsed' \in BOOLEAN /\ attempted' \in BOOLEAN
    BY <1>2, Zenon DEF Settled
  <2> QED BY <2>1, <2>2, <2>3, <2>4, <2>5 DEF CommandOK
\* A step of start or dispatch within the same command.
<1>3. ASSUME pc \in Starting \cup Dispatched, pc' \in Starting \cup Dispatched,
             pc' \in Dispatched => Requesting,
             cmd' = cmd, lapsed' = lapsed, attempt' \in 0..1, attempted' \in BOOLEAN, calls' = calls,
             executed' \in [Ops -> Nat], UNCHANGED <<fixedVars, replayVars>>
      PROVE  CommandOK'
  <2>1. ReplayOK'
    BY <1>0, <1>3, ReplayKept
  <2>2. Requesting' = Requesting /\ finished' = finished
    BY <1>3 DEF Requesting, replayVars
  <2>3. cmd \in Command /\ (cmd.kind = "start" \/ Requesting)
    BY <1>0, <1>3 DEF Serving, Requesting
  <2>4. Serving'
    BY <1>3, <2>2, <2>3 DEF Serving
  <2>5. Unfinished'
    BY <1>0, <1>3, <2>2 DEF Unfinished
  <2>6. /\ pc' \in {"serving", "request", "start", "rebuild", "spawn", "handshake", "unwind",
               "timeout", "send", "await", "reset", "tick", "closing", "closed"}
        /\ stop' \in BOOLEAN /\ prepared' \in {"Complete", "Failed"}
        /\ cmd' \in Command \cup {None} /\ lapsed' \in BOOLEAN /\ calls' \in 0..MaxCalls
    BY <1>1, <1>3 DEF CommandOK, fixedVars
  <2> QED BY <1>3, <2>1, <2>4, <2>5, <2>6 DEF CommandOK
<1>4. ASSUME pc \in Starting \cup Dispatched, pc' \in Starting \cup Dispatched,
             pc' \in Dispatched => Requesting,
             UNCHANGED <<fixedVars, commandVars, replayVars, executed>>
      PROVE  CommandOK'
  BY <1>1, <1>3, <1>4 DEF CommandOK, commandVars
<1>5. ASSUME NEW x \in Outcome, Started(x), pc \in Starting, UNCHANGED <<fixedVars, executed>>
      PROVE  CommandOK'
  <2>1. cmd \in Command /\ (cmd.kind = "start" \/ Requesting)
    BY <1>0, <1>5 DEF Serving
  <2>2. \/ Settled
        \/ pc' = "send" /\ Requesting /\ UNCHANGED <<commandVars, replayVars>>
    BY <1>0, <1>5, <2>1, StartedSettles
  <2> QED BY <1>2, <1>4, <1>5, <2>2
<1>6. ASSUME NEW x \in Outcome, Finish(x), pc \in Dispatched, UNCHANGED <<fixedVars, executed>>
      PROVE  CommandOK'
  <2>1. Requesting
    BY <1>0, <1>6 DEF Serving
  <2>2. Settled
    BY <1>0, <1>6, <2>1, FinishSettles
  <2> QED BY <1>2, <1>6, <2>2
\* A step between commands.
<1>7. ASSUME pc' \in {"serving", "tick", "closing", "closed"},
             cmd' = None, attempt' = 0, attempted' = FALSE, lapsed' \in BOOLEAN, calls' = calls,
             UNCHANGED <<fixedVars, replayVars, executed>>
      PROVE  CommandOK'
  <2>1. ReplayOK'
    BY <1>0, <1>7, ReplayKept
  <2>2. Serving' /\ Unfinished'
    BY <1>7 DEF Serving, Unfinished
  <2>3. /\ pc' \in {"serving", "request", "start", "rebuild", "spawn", "handshake", "unwind",
               "timeout", "send", "await", "reset", "tick", "closing", "closed"}
        /\ stop' \in BOOLEAN /\ prepared' \in {"Complete", "Failed"} /\ cmd' \in Command \cup {None}
        /\ calls' \in 0..MaxCalls /\ executed' \in [Ops -> Nat]
    BY <1>1, <1>7 DEF CommandOK, fixedVars
  <2>4. attempt' \in 0..1
    BY <1>7
  <2>5. lapsed' \in BOOLEAN /\ attempted' \in BOOLEAN
    BY <1>7, Zenon
  <2> QED BY <2>1, <2>2, <2>3, <2>4, <2>5 DEF CommandOK
<1>8. ASSUME pc \in {"serving", "tick", "closing", "closed"}, pc' \in {"serving", "tick", "closing", "closed"},
             UNCHANGED <<fixedVars, commandVars, replayVars, executed>>
      PROVE  CommandOK'
  <2>1. cmd = None /\ attempt = 0 /\ ~attempted /\ lapsed \in BOOLEAN /\ attempted \in BOOLEAN
    BY <1>0, <1>1, <1>8 DEF Serving, CommandOK
  <2> QED BY <1>7, <1>8, <2>1 DEF commandVars
<1>9. ASSUME UNCHANGED <<pc, cmd, attempt, attempted, calls, replayVars, executed, prepared>>,
             stop' \in BOOLEAN, lapsed' \in BOOLEAN
      PROVE  CommandOK'
  <2>1. ReplayOK'
    BY <1>0, <1>9, ReplayKept
  <2>2. Serving' /\ Unfinished'
    BY <1>0, <1>9 DEF Serving, Unfinished, Requesting, replayVars
  <2> QED BY <1>1, <1>9, <2>1, <2>2 DEF CommandOK
\* One step per action.
<1>10. CASE TakeStart
  <2>1. cmd' = [kind |-> "start", op |-> 0, body |-> None] /\ pc' = "start"
    BY <1>10 DEF TakeStart
  <2>2. cmd' \in Command /\ cmd'.kind = "start" /\ ~Requesting'
    BY <2>1 DEF Command, Requesting
  <2>3. Serving' /\ Unfinished'
    BY <2>1, <2>2 DEF Serving, Unfinished
  <2>4. ReplayOK'
    BY <1>0, <1>10, ReplayKept DEF TakeStart, Take
  <2>5. calls' \in 0..MaxCalls
    BY <1>1, <1>10, ActorAssumption DEF TakeStart, Take, CommandOK
  <2> QED BY <1>1, <1>10, <2>1, <2>2, <2>3, <2>4, <2>5 DEF CommandOK, TakeStart, Take, fixedVars
<1>11. ASSUME NEW o \in Ops, NEW b \in Bodies, TakeRequest(o, b) PROVE CommandOK'
  <2>1. cmd' = [kind |-> "request", op |-> o, body |-> b] /\ pc' = "request"
    BY <1>11 DEF TakeRequest
  <2>2. cmd' \in Command /\ Requesting'
    BY <2>1 DEF Command, Requesting
  <2>3. Serving' /\ Unfinished'
    BY <2>1, <2>2 DEF Serving, Unfinished
  <2>4. ReplayOK'
    BY <1>0, <1>11, ReplayKept DEF TakeRequest, Take
  <2>5. calls' \in 0..MaxCalls
    BY <1>1, <1>11, ActorAssumption DEF TakeRequest, Take, CommandOK
  <2> QED BY <1>1, <1>11, <2>1, <2>2, <2>3, <2>4, <2>5 DEF CommandOK, TakeRequest, Take, fixedVars
<1>12. CASE Request
  <2>1. CASE Answered
    BY <1>7, <1>12, <2>1 DEF Request, Answered
  <2>2. CASE /\ replies[cmd.op] = None /\ cmd.op > Floor(highest)
             /\ pc' = "start" /\ UNCHANGED commandVars
    <3>1. Requesting /\ cmd' = cmd /\ UNCHANGED <<fixedVars, replayVars, executed>>
      BY <1>0, <1>12, <2>2 DEF Request, Serving, commandVars
    <3>2. Floor(highest) \in Nat /\ cmd.op \in Nat
      BY <1>0, <3>1, FloorMonotone, ActorAssumption DEF TypeOK, Requesting, Ops
    <3>3. cmd.op \notin finished
      BY <1>0, <2>2, <3>2 DEF Remembered
    <3>4. Requesting' = Requesting /\ finished' = finished
      BY <3>1 DEF Requesting, replayVars
    <3>5. Serving' /\ Unfinished'
      BY <2>2, <3>1, <3>3, <3>4 DEF Serving, Unfinished, Requesting
    <3>6. ReplayOK'
      BY <1>0, <3>1, ReplayKept
    <3> QED BY <1>1, <2>2, <3>1, <3>5, <3>6 DEF CommandOK, commandVars, fixedVars
  <2> QED BY <1>12, <2>1, <2>2 DEF Request
<1>13. CASE Start
  <2>1. UNCHANGED <<fixedVars, executed>> /\ pc = "start"
    BY <1>13 DEF Start
  <2>2. CASE \E x \in Outcome : Started(x)
    BY <1>5, <2>1, <2>2
  <2>3. CASE pc' \in {"rebuild", "spawn"} /\ UNCHANGED <<commandVars, replayVars>>
    BY <1>4, <2>1, <2>3
  <2> QED BY <1>13, <2>2, <2>3 DEF Start, Outcome
<1>14. CASE Rebuild
  <2>1. UNCHANGED <<fixedVars, executed>> /\ pc = "rebuild"
    BY <1>14 DEF Rebuild
  <2>2. CASE Started("Failed")
    BY <1>5, <2>1, <2>2 DEF Outcome
  <2>3. CASE pc' = "spawn" /\ UNCHANGED <<commandVars, replayVars>>
    BY <1>4, <2>1, <2>3
  <2> QED BY <1>14, <2>2, <2>3 DEF Rebuild
<1>15. CASE Spawn
  <2>1. UNCHANGED <<fixedVars, executed>> /\ pc = "spawn"
    BY <1>15 DEF Spawn
  <2>2. CASE Started("Failed")
    BY <1>5, <2>1, <2>2 DEF Outcome
  <2>3. CASE pc' \in {"handshake", "unwind"} /\ UNCHANGED <<commandVars, replayVars>>
    BY <1>4, <2>1, <2>3
  <2> QED BY <1>15, <2>2, <2>3 DEF Spawn
<1>16. CASE Handshake
  BY <1>5, <1>16 DEF Handshake, Outcome
<1>17. CASE HandshakeFails
  BY <1>4, <1>17 DEF HandshakeFails
<1>18. CASE Unwind
  BY <1>5, <1>18 DEF Unwind, Outcome
<1>19. CASE StartTimesOut
  <2>1. pc \in Starting /\ cmd.kind = "request" /\ pc' = "timeout"
        /\ UNCHANGED <<fixedVars, commandVars, replayVars, executed>>
    BY <1>19 DEF StartTimesOut
  <2>2. Requesting
    BY <1>0, <2>1 DEF Serving
  <2> QED BY <1>4, <2>1, <2>2
<1>20. CASE Timeout
  BY <1>6, <1>20 DEF Timeout, Outcome
<1>21. CASE Send
  <2>1. Requesting
    BY <1>0, <1>21 DEF Send, Serving
  <2>2. /\ pc = "send" /\ pc' \in {"reset", "await"} /\ cmd' = cmd /\ lapsed' = lapsed
        /\ attempt' = attempt /\ calls' = calls /\ UNCHANGED <<fixedVars, replayVars>>
        /\ attempted' = attempted \/ attempted' = TRUE
        /\ executed' = executed \/ executed' = [executed EXCEPT ![cmd.op] = @ + 1]
    BY <1>21 DEF Send
  <2>3. executed' \in [Ops -> Nat] /\ attempt' \in 0..1
    BY <1>1, <2>1, <2>2 DEF CommandOK, Requesting
  <2>4. attempted' \in BOOLEAN
    BY <1>1, <2>2, Zenon DEF CommandOK
  <2> QED BY <1>3, <2>1, <2>2, <2>3, <2>4
<1>22. ASSUME NEW ok \in BOOLEAN, Respond(ok) PROVE CommandOK'
  <2>1. UNCHANGED <<fixedVars, executed>> /\ pc = "await"
    BY <1>22 DEF Respond
  <2>2. Requesting
    BY <1>0, <2>1 DEF Serving
  <2>3. CASE \E x \in Outcome : Finish(x)
    BY <1>6, <2>1, <2>3
  <2>4. CASE pc' = "reset" /\ UNCHANGED <<commandVars, replayVars>>
    BY <1>4, <2>1, <2>2, <2>4
  <2> QED BY <1>22, <2>3, <2>4 DEF Respond, Outcome
<1>23. CASE AwaitFails \/ AwaitCut
  <2>1. pc = "await" /\ pc' = "reset" /\ UNCHANGED <<fixedVars, commandVars, replayVars, executed>>
    BY <1>23 DEF AwaitFails, AwaitCut
  <2>2. Requesting
    BY <1>0, <2>1 DEF Serving
  <2> QED BY <1>4, <2>1, <2>2
<1>24. CASE Reset
  <2>1. UNCHANGED <<fixedVars, executed>> /\ pc = "reset"
    BY <1>24 DEF Reset
  <2>2. CASE Finish("Failed")
    BY <1>6, <2>1, <2>2 DEF Outcome
  <2>3. CASE pc' = "start" /\ attempt' = 1 /\ UNCHANGED <<cmd, lapsed, attempted, calls, replayVars>>
    BY <1>1, <1>3, <2>1, <2>3 DEF CommandOK
  <2> QED BY <1>24, <2>2, <2>3 DEF Reset
<1>25. CASE TickKills \/ Tick \/ Close \/ Closing \/ ClosingFails
  BY <1>8, <1>25 DEF TickKills, Tick, Close, Closing, ClosingFails
<1>26. CASE Panic
  BY <1>7, <1>26 DEF Panic
<1>27. CASE StopSignal \/ DeadlineLapses
  BY <1>1, <1>9, <1>27 DEF StopSignal, DeadlineLapses, CommandOK, fixedVars, commandVars
<1>28. CASE Dies \/ TimePasses \/ UNCHANGED vars
  BY <1>1, <1>9, <1>28 DEF Dies, TimePasses, vars, CommandOK, fixedVars, commandVars
<1>29. QED
  BY <1>10, <1>11, <1>12, <1>13, <1>14, <1>15, <1>16, <1>17, <1>18, <1>19, <1>20, <1>21, <1>22,
     <1>23, <1>24, <1>25, <1>26, <1>27, <1>28 DEF Next, Dispatching

LEMMA ActorInitial == Init => ActorInv
<1> SUFFICES ASSUME Init PROVE ActorInv
  OBVIOUS
<1>1. TypeOK
  <2>1. /\ lapsed \in BOOLEAN /\ attempted \in BOOLEAN /\ stop \in BOOLEAN
        /\ running \in BOOLEAN /\ idle \in BOOLEAN /\ backoff \in BOOLEAN
    BY Zenon DEF Init
  <2>2. phase \in {"Prepared", "Starting", "Running", "Failed", "Closed"}
    BY DEF Init
  <2>3. replies \in [Ops -> Reply \cup {None}] /\ executed \in [Ops -> Nat] /\ finished \subseteq Ops
    BY DEF Init
  <2>4. calls \in 0..MaxCalls /\ highest \in 0..MaxOp /\ attempt \in 0..1 /\ orphans \in Nat
    BY ActorAssumption DEF Init
  <2> QED BY <2>1, <2>2, <2>3, <2>4 DEF Init, TypeOK
<1>2. Serving /\ Unfinished
  BY DEF Init, Serving, Unfinished, Starting, Dispatched
<1>3. Lifecycle /\ Remembered
  BY DEF Init, Lifecycle, Remembered, Cleaning
<1>4. QED
  BY <1>1, <1>2, <1>3 DEF ActorInv

LEMMA ActorStep == ActorInv /\ [Next]_vars => ActorInv'
<1>1. CommandOK' /\ ProcessOK' => ActorInv'
  BY DEF CommandOK, ProcessOK, ReplayOK, Lifecycle, ActorInv, TypeOK
<1>2. QED
  BY <1>1, CommandStep, ProcessStep

-----------------------------------------------------------------------------
(* The theorems.                                                            *)

\* Every variable of the supervisor keeps its type: the number of attempts of
\* one dispatch never exceeds two, and the window holds well-formed replies.
THEOREM ActorTypeCorrect == Spec => []TypeOK
<1>1. ActorInv => TypeOK
  BY DEF ActorInv
<1>2. QED
  BY <1>1, ActorInitial, ActorStep, PTL DEF Spec

\* start assigns self.process only when nothing is left of the old one: spawn is
\* reached with no process at all, whatever cleanup, timeouts and panics do.
THEOREM ActorNoOrphan == Spec => []NoOrphan
<1>1. ActorInv => NoOrphan
  BY DEF ActorInv, Lifecycle, NoOrphan
<1>2. QED
  BY <1>1, ActorInitial, ActorStep, PTL DEF Spec

\* The status that State publishes agrees with the process behind it at every
\* await, those of a start cut short by a deadline included.
THEOREM ActorStatusHonest == Spec => []StatusHonest
<1>1. ActorInv => StatusHonest
  BY DEF ActorInv, Lifecycle, StatusHonest
<1>2. QED
  BY <1>1, ActorInitial, ActorStep, PTL DEF Spec

\* An operation whose dispatch has ended after an attempt is never written to
\* the wire again: the reply window answers it, or rejects it once evicted.
THEOREM ActorNoReexecution == Spec => NoReexecution
<1>1. ActorInv /\ [Next]_vars => [\A o \in finished : executed'[o] = executed[o]]_vars
  <2> SUFFICES ASSUME ActorInv, Next, NEW o \in finished PROVE executed'[o] = executed[o]
    OBVIOUS
  <2>1. CASE Send
    <3>1. Requesting /\ cmd.op \notin finished
      BY <2>1 DEF ActorInv, Send, Serving, Unfinished, Dispatched
    <3>2. executed' = executed \/ executed' = [executed EXCEPT ![cmd.op] = @ + 1]
      BY <2>1 DEF Send
    <3>3. executed \in [Ops -> Nat] /\ o \in Ops /\ o # cmd.op
      BY <3>1 DEF ActorInv, TypeOK
    <3> QED BY <3>2, <3>3
  <2>2. CASE ~Send
    <3>1. executed' = executed
      <4>1. CASE TakeStart \/ \E q \in Ops, b \in Bodies : TakeRequest(q, b)
        BY <4>1 DEF TakeStart, TakeRequest, Take
      <4>2. CASE Dispatching
        BY <2>2, <4>2 DEF Dispatching, Request, Start, Rebuild, Spawn, Handshake, HandshakeFails,
                          Unwind, StartTimesOut, Timeout, AwaitCut, Reset
      <4>3. CASE AwaitFails \/ \E ok \in BOOLEAN : Respond(ok)
        BY <4>3 DEF AwaitFails, Respond
      <4>4. CASE TickKills \/ Tick \/ Close \/ Panic \/ Closing \/ ClosingFails
        BY <4>4 DEF TickKills, Tick, Close, Panic, Closing, ClosingFails
      <4>5. CASE StopSignal \/ DeadlineLapses \/ Dies \/ TimePasses
        BY <4>5 DEF StopSignal, DeadlineLapses, Dies, TimePasses
      <4> QED BY <4>1, <4>2, <4>3, <4>4, <4>5 DEF Next
    <3> QED BY <3>1
  <2> QED BY <2>1, <2>2
<1>2. QED
  BY <1>1, ActorInitial, ActorStep, PTL DEF Spec, NoReexecution
=============================================================================
