------------------------------ MODULE PyServer ------------------------------
(* The persistent Python server and the slot that shares it: server.rs and  *)
(* slot.rs of tinyruntime-pyserver, with the child of server.py as their    *)
(* environment.                                                             *)
(*                                                                          *)
(* Both tokio mutexes are fair: each is the queue of the callers that asked *)
(* for it, and its head holds it.  A caller makes one call at a time,       *)
(* ensure on the slot or request on the server that ensure gave it.         *)
EXTENDS Integers, Sequences, FiniteSets, SequencesExt

CONSTANTS
    Callers,      \* tasks of the host
    Servers,      \* identities of PythonServer, free again when it is dropped
    Children,     \* identities of child processes, free again when reaped
    MaxCalls,     \* bound: requests of one caller
    OutCap        \* bound: lines in a child's stdout when it writes one unasked

None == 0
NoId == -1
NoCall == <<>>

ASSUME PyServerAssumption ==
    /\ IsFiniteSet(Callers) /\ IsFiniteSet(Servers) /\ IsFiniteSet(Children)
    /\ Servers \subseteq Nat \ {None} /\ Children \subseteq Nat \ {None}
    /\ MaxCalls \in Nat /\ OutCap \in Nat

VARIABLES
    cache,    \* ServerSlot.cache: its kind, its server, whether the back-off is over
    slotQ,    \* the queue of the cache's mutex
    server,   \* server[s]: the PythonServer s, or NoServer
    child,    \* child[k]: the child process k with its two pipes, or NoChild
    pc,       \* pc[c]: where caller c waits
    ref,      \* ref[c]: the server that c holds an Arc of
    kid,      \* kid[c]: the child whose ready line c awaits
    attempt,  \* attempt[c]: 0 in ensure, 1 or 2 in request
    id,       \* id[c]: the id of c's request on the child
    calls     \* calls[c]: requests that c has made

callVars == <<pc, ref, kid, attempt, id, calls>>
vars == <<cache, slotQ, server, child, callVars>>

NoServer == [q |-> <<>>, child |-> None, idle |-> FALSE]
NoChild == [st |-> "free", nextId |-> 0, in |-> <<>>, torn |-> FALSE, out |-> <<>>, failed |-> {}]
Cache(kind, s) == [kind |-> kind, server |-> s, retry |-> FALSE]

Init ==
    /\ cache = Cache("Empty", None)
    /\ slotQ = <<>>
    /\ server = [s \in Servers |-> NoServer]
    /\ child = [k \in Children |-> NoChild]
    /\ pc = [c \in Callers |-> "idle"]
    /\ ref = [c \in Callers |-> None]
    /\ kid = [c \in Callers |-> None]
    /\ attempt = [c \in Callers |-> 0]
    /\ id = [c \in Callers |-> NoId]
    /\ calls = [c \in Callers |-> 0]

-----------------------------------------------------------------------------
(* Locks, and what goes with the last owner.                                *)

Without(q, c) ==
    IF \E i \in DOMAIN q : q[i] = c THEN RemoveAt(q, CHOOSE i \in DOMAIN q : q[i] = c) ELSE q
HoldsSlot(c) == slotQ # <<>> /\ Head(slotQ) = c
HoldsServer(c) == ref[c] # None /\ server[ref[c]].q # <<>> /\ Head(server[ref[c]].q) = c

Join(srv, s, c) == [srv EXCEPT ![s].q = Append(@, c)]
Leave(srv, s, c) == [srv EXCEPT ![s].q = Without(@, c)]

Goto(c, l) == pc' = [pc EXCEPT ![c] = l] /\ UNCHANGED <<attempt, id>>
Return(c) ==
    /\ pc' = [pc EXCEPT ![c] = "idle"]
    /\ attempt' = [attempt EXCEPT ![c] = 0]
    /\ id' = [id EXCEPT ![c] = NoId]

\* An Arc is kept by the cache and by callers; a child by the Inner of a server
\* and by the caller that awaits its ready line.
Held(s) == cache.server = s \/ \E c \in Callers : ref[c] = s
Owned(k) == (\E s \in Servers : server[s].child = k) \/ (\E c \in Callers : kid[c] = k)

\* Mutant: the child is not spawned with kill_on_drop.
DropUnownedKeeps(srv, ch) ==
    /\ server' = [s \in Servers |-> IF Held(s)' THEN srv[s] ELSE NoServer]
    /\ child' = [k \in Children |-> IF Owned(k)' THEN ch[k] ELSE [NoChild EXCEPT !.st = ch[k].st]]

\* A server that nobody holds any more is dropped, and so is a child: it is
\* killed, by reset itself or by kill_on_drop.
DropUnowned(srv, ch) ==
    /\ server' = [s \in Servers |-> IF Held(s)' THEN srv[s] ELSE NoServer]
    /\ child' = [k \in Children |-> IF Owned(k)' THEN ch[k] ELSE NoChild]

-----------------------------------------------------------------------------
(* ServerSlot::ensure, with the lock on the cache held throughout.          *)

EnsureCall(c) ==
    /\ pc[c] = "idle" /\ ref[c] = None
    /\ Goto(c, "slot")
    /\ slotQ' = Append(slotQ, c)
    /\ UNCHANGED <<cache, server, child, ref, kid, calls>>

\* ensure returns to c, with the server that c holds from now on or an error.
EnsureReturns(c, s) ==
    /\ Return(c)
    /\ ref' = [ref EXCEPT ![c] = s]
    /\ slotQ' = Tail(slotQ)

\* The cached server was launched for other backends than the caller's, or the
\* idle rule of the caller says that it has been idle for too long.
Unfit(s, same, rule) == ~same \/ (rule /\ server[s].idle)

\* With the lock: what the cache holds.  A caller may ask for the backends of the
\* cached server or for others, with an idle rule or without.
Look(c, same, rule) ==
    /\ pc[c] = "slot" /\ HoldsSlot(c)
    /\ UNCHANGED <<cache, kid, calls, child>>
    /\ \/ /\ cache.kind = "Ready"
          /\ Goto(c, IF Unfit(cache.server, same, rule) THEN "discard" ELSE "start")
          /\ ref' = [ref EXCEPT ![c] = cache.server]
          /\ server' = Join(server, cache.server, c)
          /\ UNCHANGED slotQ
       \/ /\ cache.kind = "Failed" /\ ~cache.retry
          /\ EnsureReturns(c, None)
          /\ UNCHANGED server
       \/ /\ cache.kind = "Empty" \/ (cache.kind = "Failed" /\ cache.retry)
          /\ Goto(c, "prepare")
          /\ UNCHANGED <<slotQ, ref, server>>

\* reset of the server that is discarded; its callers keep their Arc of it.
Discard(c) ==
    /\ pc[c] = "discard" /\ HoldsServer(c)
    /\ Goto(c, "prepare")
    /\ cache' = Cache("Empty", None)
    /\ ref' = [ref EXCEPT ![c] = None]
    /\ UNCHANGED <<slotQ, kid, calls>>
    /\ DropUnowned([Leave(server, ref[c], c) EXCEPT ![ref[c]].child = None], child)

\* prepare: external; the host's launch for the backends that were asked for,
\* of which build makes a server: it takes the first identity that is free.
Prepared(c) ==
    /\ pc[c] = "prepare"
    /\ Goto(c, "start")
    /\ \E s \in Servers :
         /\ ~Held(s) /\ \A t \in Servers : Held(t) \/ s <= t
         /\ ref' = [ref EXCEPT ![c] = s]
         /\ server' = [server EXCEPT ![s].q = <<c>>]
    /\ UNCHANGED <<cache, slotQ, child, kid, calls>>

PrepareFails(c) ==
    /\ pc[c] = "prepare"
    /\ cache' = Cache("Failed", None)
    /\ EnsureReturns(c, None)
    /\ UNCHANGED <<server, child, kid, calls>>

\* start finds the child of the cached server there: dead or alive.
AlreadyStarted(c) ==
    /\ pc[c] = "start" /\ HoldsServer(c) /\ server[ref[c]].child # None
    /\ EnsureReturns(c, ref[c])
    /\ server' = Leave(server, ref[c], c)
    /\ UNCHANGED <<cache, child, kid, calls>>

-----------------------------------------------------------------------------
(* spawn_inner, for start and for request_once, with the server's lock.     *)

MustSpawn(c) == pc[c] \in {"start", "enter"} /\ HoldsServer(c) /\ server[ref[c]].child = None

Spawn(c) ==
    /\ MustSpawn(c)
    /\ \E k \in Children :
         /\ child[k].st = "free" /\ \A j \in Children : child[j].st = "free" => k <= j
         /\ kid' = [kid EXCEPT ![c] = k]
         /\ child' = [child EXCEPT ![k].st = "live"]
    /\ Goto(c, "hello")
    /\ UNCHANGED <<cache, slotQ, server, ref, calls>>

\* Mutant: a request that failed is tried again without a reset.
AttemptFailsNoReset(c, ch) ==
    LET s == ref[c]
        k == server[s].child
        left == Leave(server, s, c) IN
    /\ \/ /\ attempt[c] = 1
          /\ pc' = [pc EXCEPT ![c] = "enter"] /\ attempt' = [attempt EXCEPT ![c] = 2] /\ UNCHANGED id
       \/ attempt[c] = 2 /\ Return(c)
    /\ DropUnowned(IF attempt[c] = 1 THEN Join(left, s, c) ELSE left,
                   IF k = None THEN ch ELSE [ch EXCEPT ![k].failed = @ \cup {c}])

\* Mutant: request calls reset with the guard of request_once still held.
AttemptFailsHolding(c, ch) ==
    LET s == ref[c] IN
    /\ (attempt[c] = 1 /\ Goto(c, "reset")) \/ (attempt[c] = 2 /\ Return(c))
    /\ DropUnowned(IF attempt[c] = 1 THEN Join(server, s, c) ELSE Leave(server, s, c), ch)

\* request_once returns an error and releases the server: request asks for it
\* again to reset the child, or returns the error of the second attempt.
AttemptFails(c, ch) ==
    LET s == ref[c]
        k == server[s].child
        left == Leave(server, s, c) IN
    /\ (attempt[c] = 1 /\ Goto(c, "reset")) \/ (attempt[c] = 2 /\ Return(c))
    /\ DropUnowned(IF attempt[c] = 1 THEN Join(left, s, c) ELSE left,
                   IF k = None THEN ch ELSE [ch EXCEPT ![k].failed = @ \cup {c}])

\* Mutant: a handshake is awaited for as long as the child lives.
SpawnFailsUntimed(c) ==
    /\ MustSpawn(c) \/ (pc[c] = "hello" /\ child[kid[c]].st = "dead")
    /\ kid' = [kid EXCEPT ![c] = None]
    /\ UNCHANGED calls
    /\ \/ attempt[c] = 0 /\ cache' = Cache("Failed", None) /\ EnsureReturns(c, None)
            /\ DropUnowned(Leave(server, ref[c], c), child)
       \/ attempt[c] # 0 /\ UNCHANGED <<cache, slotQ, ref>> /\ AttemptFails(c, child)

\* The spawner refuses, the process does not start, or its first line is not the
\* expected one in time.  start fails the slot, request_once its attempt.
SpawnFails(c) ==
    /\ MustSpawn(c) \/ pc[c] = "hello"
    /\ kid' = [kid EXCEPT ![c] = None]
    /\ UNCHANGED calls
    /\ \/ attempt[c] = 0 /\ cache' = Cache("Failed", None) /\ EnsureReturns(c, None)
            /\ DropUnowned(Leave(server, ref[c], c), child)
       \/ attempt[c] # 0 /\ UNCHANGED <<cache, slotQ, ref>> /\ AttemptFails(c, child)

\* The ready line has come: the child is the server's.
Hello(c) ==
    LET srv == [server EXCEPT ![ref[c]].child = kid[c]] IN
    /\ pc[c] = "hello" /\ child[kid[c]].st = "live"
    /\ kid' = [kid EXCEPT ![c] = None]
    /\ \/ /\ attempt[c] = 0
          /\ cache' = Cache("Ready", ref[c])
          /\ EnsureReturns(c, ref[c])
          /\ server' = Leave(srv, ref[c], c)
          /\ UNCHANGED child
       \/ /\ attempt[c] # 0
          /\ pc' = [pc EXCEPT ![c] = "write"]
          /\ id' = [id EXCEPT ![c] = 0]
          /\ child' = [child EXCEPT ![kid[c]].nextId = 1]
          /\ server' = srv
          /\ UNCHANGED <<cache, slotQ, ref, attempt>>
    /\ UNCHANGED calls

-----------------------------------------------------------------------------
(* PythonServer::request.                                                   *)

RequestCall(c) ==
    /\ pc[c] = "idle" /\ ref[c] # None /\ calls[c] < MaxCalls
    /\ pc' = [pc EXCEPT ![c] = "enter"]
    /\ attempt' = [attempt EXCEPT ![c] = 1]
    /\ calls' = [calls EXCEPT ![c] = @ + 1]
    /\ server' = Join(server, ref[c], c)
    /\ child' = [k \in Children |-> [child[k] EXCEPT !.failed = @ \ {c}]]
    /\ UNCHANGED <<cache, slotQ, ref, kid, id>>

\* Mutant: every request on a child has the same id.
EnterSameId(c) ==
    /\ pc[c] = "enter" /\ HoldsServer(c) /\ server[ref[c]].child # None
    /\ pc' = [pc EXCEPT ![c] = "write"]
    /\ id' = [id EXCEPT ![c] = 0]
    /\ UNCHANGED <<cache, slotQ, server, child, ref, kid, attempt, calls>>

Enter(c) ==
    /\ pc[c] = "enter" /\ HoldsServer(c) /\ server[ref[c]].child # None
    /\ pc' = [pc EXCEPT ![c] = "write"]
    /\ LET k == server[ref[c]].child IN
         /\ id' = [id EXCEPT ![c] = child[k].nextId]
         /\ child' = [child EXCEPT ![k].nextId = @ + 1]
    /\ UNCHANGED <<cache, slotQ, server, ref, kid, attempt, calls>>

\* The child of c's server.
Mine(c) == server[ref[c]].child

\* The line goes into the pipe, after what a dropped write left of its own line.
\* Nothing bounds the wait of write_all and flush for room in the pipe.
Write(c) ==
    /\ pc[c] = "write" /\ child[Mine(c)].st = "live"
    /\ child' = [child EXCEPT
         ![Mine(c)].in = Append(@, [id |-> IF child[Mine(c)].torn THEN NoId ELSE id[c], by |-> <<c, calls[c]>>]),
         ![Mine(c)].torn = FALSE]
    /\ Goto(c, "read")
    /\ UNCHANGED <<cache, slotQ, server, ref, kid, calls>>

\* The pipe is broken.
WriteFails(c) ==
    /\ pc[c] = "write" /\ child[Mine(c)].st = "dead"
    /\ UNCHANGED <<cache, slotQ, ref, kid, calls>>
    /\ AttemptFails(c, child)

\* One turn of the read loop over a line: one with another id is skipped.
Read(c) ==
    LET line == Head(child[Mine(c)].out)
        ch == [child EXCEPT ![Mine(c)].out = Tail(@)] IN
    /\ pc[c] = "read" /\ child[Mine(c)].out # <<>>
    /\ UNCHANGED <<cache, slotQ, ref, kid, calls>>
    /\ \/ line.id # id[c] /\ child' = ch /\ UNCHANGED <<server, pc, attempt, id>>
       \/ line.id = id[c] /\ line.ok
            /\ Goto(c, "used") /\ server' = Leave(server, ref[c], c) /\ child' = ch
       \/ line.id = id[c] /\ ~line.ok /\ AttemptFails(c, ch)

\* No line: the child has closed its end, or the time for one line is over, which
\* starts anew after every line that is skipped.
NoLine(c) ==
    /\ pc[c] = "read" /\ child[Mine(c)].out = <<>>
    /\ UNCHANGED <<cache, slotQ, ref, kid, calls>>
    /\ AttemptFails(c, child)

\* Mutant: reset does not wait for the lock.
ResetUnlocked(c) ==
    /\ pc[c] = "reset"
    /\ pc' = [pc EXCEPT ![c] = "enter"]
    /\ attempt' = [attempt EXCEPT ![c] = 2]
    /\ UNCHANGED <<cache, slotQ, ref, kid, id, calls>>
    /\ DropUnowned([server EXCEPT ![ref[c]].child = None], child)

\* The child is killed, whichever child it is by now, and c asks for the server
\* once more.
Reset(c) ==
    /\ pc[c] = "reset" /\ HoldsServer(c)
    /\ pc' = [pc EXCEPT ![c] = "enter"]
    /\ attempt' = [attempt EXCEPT ![c] = 2]
    /\ UNCHANGED <<cache, slotQ, ref, kid, id, calls>>
    /\ DropUnowned([Join(Leave(server, ref[c], c), ref[c], c) EXCEPT ![ref[c]].child = None], child)

MarkUsed(c) ==
    /\ pc[c] = "used"
    /\ Return(c)
    /\ server' = [server EXCEPT ![ref[c]].idle = FALSE]
    /\ UNCHANGED <<cache, slotQ, child, ref, kid, calls>>

-----------------------------------------------------------------------------
(* The host and the children.                                               *)

\* The caller lets go of its server.
Release(c) ==
    /\ pc[c] = "idle" /\ ref[c] # None
    /\ ref' = [ref EXCEPT ![c] = None]
    /\ UNCHANGED <<cache, slotQ, pc, kid, attempt, id, calls>>
    /\ DropUnowned(server, child)

\* The call of c is dropped where it waits: its locks go, its place in the
\* queues and its half-started child.  A line may have been written in part.
Cancel(c) ==
    LET left == IF ref[c] = None THEN server ELSE Leave(server, ref[c], c) IN
    /\ pc[c] # "idle"
    /\ Return(c)
    /\ slotQ' = Without(slotQ, c)
    /\ kid' = [kid EXCEPT ![c] = None]
    /\ ref' = IF attempt[c] = 0 THEN [ref EXCEPT ![c] = None] ELSE ref
    /\ UNCHANGED <<cache, calls>>
    /\ \/ DropUnowned(left, child)
       \/ pc[c] = "write" /\ DropUnowned(left, [child EXCEPT ![Mine(c)].torn = TRUE])

\* Time passes: a server has been idle for the timeout of the rule, or the
\* back-off of a failed start is over.
IdleElapses(s) ==
    /\ cache.server = s
    /\ server' = [server EXCEPT ![s].idle = TRUE]
    /\ UNCHANGED <<cache, slotQ, child, callVars>>

BackoffElapses ==
    /\ cache.kind = "Failed"
    /\ cache' = [cache EXCEPT !.retry = TRUE]
    /\ UNCHANGED <<slotQ, server, child, callVars>>

\* A child answers the next line it has been sent; a line that does not parse
\* gets an error without an id.
ChildAnswers(k, ok) ==
    /\ child[k].st = "live" /\ child[k].in # <<>>
    /\ LET line == Head(child[k].in) IN
         child' = [child EXCEPT ![k].in = Tail(@),
                     ![k].out = Append(@, [id |-> line.id, by |-> line.by, ok |-> ok /\ line.id # NoId])]
    /\ UNCHANGED <<cache, slotQ, server, callVars>>

\* A child writes a line that nobody asked for: it does not parse, or has no id.
\* One written before the ready line fails the handshake, and one written while
\* nobody reads is to the next reader as one written when it begins to read.
ChildChatters(k) ==
    /\ child[k].st = "live" /\ \E c \in Callers : pc[c] = "read" /\ Mine(c) = k
    /\ Len(child[k].out) < OutCap
    /\ child' = [child EXCEPT ![k].out = Append(@, [id |-> NoId, by |-> NoCall, ok |-> FALSE])]
    /\ UNCHANGED <<cache, slotQ, server, callVars>>

ChildDies(k) ==
    /\ child[k].st = "live"
    /\ child' = [child EXCEPT ![k].st = "dead", ![k].in = <<>>]
    /\ UNCHANGED <<cache, slotQ, server, callVars>>

\* What a call does by itself, whatever its child and the host do.
Step(c) ==
    \/ \E same \in BOOLEAN, rule \in BOOLEAN : Look(c, same, rule)
    \/ Discard(c) \/ AlreadyStarted(c) \/ Spawn(c) \/ SpawnFails(c)
    \/ Enter(c) \/ WriteFails(c) \/ Read(c) \/ NoLine(c) \/ Reset(c) \/ MarkUsed(c)

\* What it waits for without a timeout.
Untimed(c) == Prepared(c) \/ PrepareFails(c) \/ Write(c)

Next ==
    \/ \E c \in Callers :
         \/ EnsureCall(c) \/ RequestCall(c) \/ Step(c) \/ Untimed(c) \/ Hello(c)
         \/ Release(c) \/ Cancel(c)
    \/ \E s \in Servers : IdleElapses(s)
    \/ BackoffElapses
    \/ \E k \in Children :
         ChildDies(k) \/ ChildChatters(k) \/ \E ok \in BOOLEAN : ChildAnswers(k, ok)

Spec == Init /\ [][Next]_vars

\* A task that can run does, and a timeout fires.  A child owes no answer and need
\* not drain its stdin, and the host's prepare need not end.
FairSpec == Spec /\ \A c \in Callers : WF_vars(Step(c))

-----------------------------------------------------------------------------
(* Properties.                                                              *)

Line == [id : Nat \cup {NoId}, by : Callers \X (1..MaxCalls)]
Answer == [id : Nat \cup {NoId}, by : (Callers \X (1..MaxCalls)) \cup {NoCall}, ok : BOOLEAN]
Server == [q : Seq(Callers), child : Children \cup {None}, idle : BOOLEAN]
Child == [st : {"free", "live", "dead"}, nextId : Nat, in : Seq(Line), torn : BOOLEAN,
          out : Seq(Answer), failed : SUBSET Callers]
Labels == {"idle", "slot", "discard", "prepare", "start", "hello",
           "enter", "write", "read", "reset", "used"}

\* The variables keep to their types, and no caller waits twice for one lock: a
\* tokio mutex is not reentrant.
TypeOK ==
    /\ IsInjective(slotQ) /\ \A s \in Servers : IsInjective(server[s].q)
    /\ cache \in [kind : {"Empty", "Ready", "Failed"}, server : Servers \cup {None}, retry : BOOLEAN]
    /\ slotQ \in Seq(Callers)
    /\ server \in [Servers -> Server] /\ child \in [Children -> Child]
    /\ pc \in [Callers -> Labels]
    /\ ref \in [Callers -> Servers \cup {None}] /\ kid \in [Callers -> Children \cup {None}]
    /\ attempt \in [Callers -> 0..2] /\ id \in [Callers -> Nat \cup {NoId}]
    /\ calls \in [Callers -> 0..MaxCalls]

\* "A second in-flight request would interleave its response with the first":
\* of all the lines in the pipe of its child, late answers to dropped requests
\* and to attempts given up and unasked lines among them, a caller takes none
\* but the answer to the call it is making.
OwnAnswer ==
    \A c \in Callers : pc[c] = "read" =>
      \A i \in DOMAIN child[Mine(c)].out :
        child[Mine(c)].out[i].id = id[c] => child[Mine(c)].out[i].by = <<c, calls[c]>>

\* A child is reset after a failure, whoever uses the server in between: the
\* second attempt of a call never runs on the child that failed its first.
RetriesElsewhere ==
    \A c \in Callers :
      pc[c] \in {"write", "read"} /\ attempt[c] = 2 => c \notin child[Mine(c)].failed

\* Resets, by other callers and by an ensure that found other backends or an
\* idle server, wait for the request in flight: nobody takes the child from
\* under it.
Undisturbed ==
    \A c \in Callers : pc[c] \in {"write", "read"} =>
      HoldsServer(c) /\ Mine(c) # None /\ child[Mine(c)].st # "free"

Running == {k \in Children : child[k].st # "free"}
Strays == {c \in Callers : ref[c] # None /\ ref[c] # cache.server}

\* "Exactly one warm worker per process", as far as it goes: besides the one of
\* the cached server, a child runs only for a caller that still holds a server
\* that was discarded, or is building one.
OneWarmWorker == Cardinality(Running) <= 1 + Cardinality(Strays)

\* The host's prepare ends and so does a write, as it does when the child reads its
\* stdin or dies, and a child that is not asked falls silent in the end.
Obliging ==
    /\ \A c \in Callers : []<>(pc[c] \notin {"prepare", "write"})
    /\ <>[][\A k \in Children : ~ChildChatters(k)]_vars

\* With an obliging host and children, every call of ensure and of request returns,
\* though no child ever answers, and whatever dies, is dropped or is reset by other
\* callers: each wait for the next line has a timeout and the locks are fair.  The
\* hypotheses are needed: prepare and write_all are awaited without a timeout under
\* the locks, and the timeout of a read starts anew with every line that is skipped.
CallsReturn == Obliging => \A c \in Callers : pc[c] # "idle" ~> pc[c] = "idle"
=============================================================================
