------------------------ MODULE WorkerManagerProofs ------------------------
(* Theorems about WorkerManager, for any number of callers, plans and       *)
(* handles, any capacity and any length of the command channels.            *)
EXTENDS WorkerManager, FiniteSetTheorems, SequenceTheorems, TLAPS

-----------------------------------------------------------------------------
(* The invariant.                                                           *)

\* Supervisors with nothing to answer for, and supervisors whose channel is closed.
Quiet == {"none", "ending", "gone"}

\* A supervisor is started by the plan of its slot and closes its slot once it owns
\* nothing; until then the slot stays in the book.
TiedTo(h) ==
    /\ sup[h] = "none" <=> slot[h].plan = None
    /\ slot[h].closed <=> sup[h] \in {"ending", "gone"}
    /\ sup[h] \in Quiet \cup {"cleaned"} => owned[h] = {}
    /\ sup[h] \notin Quiet => h \in book
Tied == \A h \in Handles : TiedTo(h)

Admitted == Cardinality(book) <= Capacity

\* What was acknowledged has no supervisor, and will get none.
AckedFor(h) ==
    /\ sup[h] \in Quiet
    /\ sup[h] = "none" => terminal \/ (h <= issued /\ h \notin book)
Acked == \A h \in acked : AckedFor(h)

\* What a call that stops or shuts down has seen still holds.
SeenBy(w) ==
    /\ w.op \in {"prepare", "stop", "remove", "command"} => w.h \in Handles
    /\ w.op = "remove" => sup[w.h] \in {"ending", "gone"}
    /\ w.op \in {"shutdown", "clear"} => terminal
    /\ w.op = "shutdown" /\ w.ok => \A h \in book : sup[h] \in Quiet \/ h \in w.left
    /\ w.op = "clear" => \A h \in book : sup[h] \in Quiet
Seen == \A c \in Callers : SeenBy(call[c])

\* The callers in the channel of h, and the one being served, wait for commands to
\* h and are there once; nobody waits for a command elsewhere.
Lined(h) ==
    /\ \A i \in DOMAIN queue[h] : queue[h][i] # None =>
         /\ call[queue[h][i]].op = "command" /\ call[queue[h][i]].h = h
         /\ busy[h] # queue[h][i]
         /\ \A j \in DOMAIN queue[h] : queue[h][j] = queue[h][i] => j = i
    /\ busy[h] # None => /\ sup[h] = "working"
                         /\ call[busy[h]].op = "command" /\ call[busy[h]].h = h
    /\ sup[h] \in {"none", "gone"} => queue[h] = <<>>
Awaited(c) ==
    call[c].op = "command" =>
      \/ busy[call[c].h] = c
      \/ \E i \in DOMAIN queue[call[c].h] : queue[call[c].h][i] = c
Waiting == (\A h \in Handles : Lined(h)) /\ (\A c \in Callers : Awaited(c))

ManagerInv == TypeOK /\ Tied /\ Admitted /\ Acked /\ Seen /\ Waiting

-----------------------------------------------------------------------------
(* Types: calls.                                                            *)

CallsOK == call \in [Callers -> Call] /\ told \in Outcomes
SlotsOK == slot \in [Handles -> Slot]
BookOK == /\ issued \in 0..MaxIssued /\ book \subseteq 1..issued /\ acked \subseteq Handles
SupsOK ==
    /\ sup \in [Handles -> Stages] /\ owned \in [Handles -> SUBSET Resources]
    /\ busy \in [Handles -> Callers \cup {None}]
QueuesOK ==
    /\ queue \in [Handles -> Seq(Callers \cup {None})]
    /\ \A h \in Handles : Len(queue[h]) <= Queue

LEMMA InBook == BookOK => book \subseteq Handles
BY ManagerAssumption DEF BookOK, Handles

LEMMA IdleCall == Idle \in Call
BY DEF Idle, Call

LEMMA CallMoves ==
    ASSUME CallsOK, NEW c \in Callers, NEW w \in Call, call' = [call EXCEPT ![c] = w], told' \in Outcomes
    PROVE  CallsOK'
BY DEF CallsOK

LEMMA Returns ==
    ASSUME CallsOK, NEW c \in Callers, NEW k \in Outcomes, Return(c, k)
    PROVE  CallsOK'
BY IdleCall, CallMoves DEF Return

LEMMA Waits ==
    ASSUME CallsOK, NEW c \in Callers, NEW w \in Call, Wait(c, w)
    PROVE  CallsOK'
BY CallMoves DEF Wait, Silent, Outcomes

LEMMA CallsStep == BookOK /\ SlotsOK /\ CallsOK /\ Seen /\ [Next]_vars => CallsOK'
<1> SUFFICES ASSUME BookOK, SlotsOK, CallsOK, Seen, [Next]_vars PROVE CallsOK'
  OBVIOUS
<1>0. {"none", "Handle", "Complete", "Failed", "Closed", "Invalid", "Busy", "Unknown", "Reply"} \subseteq Outcomes
  BY DEF Outcomes
<1>1. ASSUME NEW c \in Callers,
             Reserve(c) \/ StopRemoves(c) \/ ShutdownClears(c) \/ CallerLeaves(c)
      PROVE  CallsOK'
  BY <1>0, <1>1, Returns DEF Reserve, StopRemoves, ShutdownClears, CallerLeaves
<1>2. ASSUME NEW c \in Callers, NEW h \in Handles, PrepareRefused(c, h) \/ SubmitRefused(c, h)
      PROVE  CallsOK'
  <2>1. Missing(h) \in Outcomes
    BY <1>0 DEF Missing
  <2> QED BY <1>0, <1>2, <2>1, Returns DEF PrepareRefused, SubmitRefused
<1>3. ASSUME NEW h \in Handles, NEW p \in Plans, NEW op \in {"prepare", "command", "stop"}
      PROVE  [Idle EXCEPT !.op = op, !.h = h, !.plan = p] \in Call /\ [Idle EXCEPT !.op = op, !.h = h] \in Call
  BY DEF Call, Idle
<1>4. ASSUME NEW c \in Callers, NEW h \in Handles, NEW p \in Plans, PrepareFirst(c, h, p) \/ PrepareAgain(c, h, p)
      PROVE  CallsOK'
  BY <1>0, <1>3, <1>4, Returns, Waits DEF PrepareFirst, PrepareAgain
<1>5. ASSUME NEW h \in Handles, NEW op \in {"prepare", "command", "stop"}
      PROVE  [Idle EXCEPT !.op = op, !.h = h] \in Call
  BY DEF Call, Idle
<1>6. ASSUME NEW c \in Callers, NEW h \in Handles, Submit(c, h) \/ Stop(c, h) PROVE CallsOK'
  <2>1. Missing(h) \in Outcomes
    BY <1>0 DEF Missing
  <2> QED BY <1>0, <1>5, <1>6, <2>1, Returns, Waits DEF Submit, Stop
<1>7. ASSUME NEW c \in Callers, PrepareLooks(c) PROVE CallsOK'
  <2>1. call[c].h \in Handles
    BY <1>7 DEF PrepareLooks, Seen, SeenBy
  <2>2. slot[call[c].h].prepared \in {"no", "Complete", "Failed", "Closed"}
    BY <2>1 DEF SlotsOK, Slot
  <2> QED BY <1>0, <1>7, <2>2, Returns DEF PrepareLooks
<1>8. ASSUME NEW c \in Callers, StopLooks(c) PROVE CallsOK'
  <2>1. [call[c] EXCEPT !.op = "remove"] \in Call
    BY DEF CallsOK, Call
  <2>2. CASE call' = [call EXCEPT ![c].op = "remove"] /\ Silent
    BY <1>0, <2>1, <2>2, CallMoves DEF Silent
  <2> QED BY <1>0, <1>8, <2>2, Returns DEF StopLooks
<1>9. ASSUME NEW c \in Callers, Shutdown(c) PROVE CallsOK'
  <2>1. {h \in book : slot[h].plan # None} \in SUBSET Handles
    BY InBook
  <2>2. [Idle EXCEPT !.op = "shutdown", !.left = {h \in book : slot[h].plan # None}] \in Call
    BY <2>1 DEF Call, Idle
  <2> QED BY <1>9, <2>2, Waits DEF Shutdown
<1>10. ASSUME NEW c \in Callers, ShutdownLooks(c) PROVE CallsOK'
  <2>1. [call[c] EXCEPT !.op = "clear"] \in Call
    BY DEF CallsOK, Call
  <2>2. CASE call' = [call EXCEPT ![c].op = "clear"] /\ Silent
    BY <1>0, <2>1, <2>2, CallMoves DEF Silent
  <2>3. ASSUME NEW h \in call[c].left, Silent,
               call' = [call EXCEPT ![c].left = @ \ {h}, ![c].ok = @ /\ slot[h].closed]
        PROVE  CallsOK'
    <3>1. call[c] \in Call /\ call[c].left \in SUBSET Handles
      BY DEF CallsOK, Call
    <3>2. PICK b \in BOOLEAN : b = (call[c].ok /\ slot[h].closed)
      OBVIOUS
    <3>3. [call[c] EXCEPT !.left = call[c].left \ {h}, !.ok = b] \in Call
      BY <3>1 DEF Call
    <3>4. call' = [call EXCEPT ![c] = [call[c] EXCEPT !.left = call[c].left \ {h}, !.ok = b]]
      BY <2>3, <3>2 DEF CallsOK
    <3> QED BY <1>0, <2>3, <3>3, <3>4, CallMoves DEF Silent
  <2> QED BY <1>0, <1>10, <2>2, <2>3, Returns DEF ShutdownLooks
<1>11. ASSUME NEW S, NEW k \in Outcomes, Tell(S, k) PROVE CallsOK'
  <2>1. call' \in [Callers -> Call]
    BY <1>11, IdleCall DEF CallsOK, Tell
  <2> QED BY <1>0, <1>11, <2>1 DEF CallsOK, Tell
<1>12. ASSUME UNCHANGED call, Silent PROVE CallsOK'
  BY <1>0, <1>12 DEF CallsOK, Silent
<1>13. ASSUME NEW h \in Handles, Replies(h) \/ Panics(h) \/ Ends(h) PROVE CallsOK'
  BY <1>0, <1>11, <1>13 DEF Replies, Panics, Ends
<1>14. ASSUME NEW h \in Handles,
              \/ Prepares(h) \/ Prepared(h) \/ Ticks(h) \/ Takes(h) \/ Works(h) \/ SeesStop(h)
              \/ Cleans(h) \/ CleanFails(h) \/ Closes(h) \/ Lapse(h)
       PROVE  CallsOK'
  BY <1>12, <1>14 DEF Prepares, Prepared, Ticks, Takes, Works, SeesStop, Cleans, CleanFails, Closes,
                      Lapse, managerVars
<1>15. CASE UNCHANGED vars
  BY <1>15 DEF CallsOK, vars
<1>16. QED
  BY <1>1, <1>2, <1>4, <1>6, <1>7, <1>8, <1>9, <1>10, <1>13, <1>14, <1>15
     DEF Next, Caller, Supervisor

-----------------------------------------------------------------------------
(* Types: the book, the slots and the supervisors.                          *)

LEMMA BookStep == BookOK /\ Seen /\ [Next]_vars => BookOK'
<1> SUFFICES ASSUME BookOK, Seen, [Next]_vars PROVE BookOK'
  OBVIOUS
<1>1. ASSUME issued' = issued, book' \subseteq book, acked' \subseteq Handles PROVE BookOK'
  BY <1>1 DEF BookOK
<1>2. ASSUME UNCHANGED <<issued, book, acked>> PROVE BookOK'
  BY <1>2 DEF BookOK
<1>3. ASSUME NEW c \in Callers, Reserve(c) PROVE BookOK'
  <2>1. Retained \subseteq book
    BY DEF Retained
  <2>2. CASE issued' = issued /\ (book' = book \/ book' = Retained) /\ UNCHANGED acked
    BY <1>1, <2>1, <2>2 DEF BookOK
  <2>3. CASE issued < MaxIssued /\ issued' = issued + 1 /\ book' = Retained \cup {issued + 1} /\ UNCHANGED acked
    <3>1. issued \in Nat /\ MaxIssued \in Nat /\ book \subseteq 1..issued
      BY ManagerAssumption DEF BookOK
    <3>2. issued + 1 \in 0..MaxIssued /\ Retained \cup {issued + 1} \subseteq 1..(issued + 1)
      BY <2>1, <2>3, <3>1
    <3> QED BY <2>3, <3>2 DEF BookOK
  <2> QED BY <1>3, <2>2, <2>3 DEF Reserve, bookVars
<1>4. ASSUME NEW c \in Callers, NEW h \in Handles, Stop(c, h) PROVE BookOK'
  BY <1>1, <1>4 DEF Stop, BookOK
<1>5. ASSUME NEW c \in Callers, StopRemoves(c) PROVE BookOK'
  <2>1. call[c].h \in Handles
    BY <1>5 DEF StopRemoves, Seen, SeenBy
  <2> QED BY <1>1, <1>5, <2>1 DEF StopRemoves, BookOK
<1>6. ASSUME NEW c \in Callers, ShutdownClears(c) PROVE BookOK'
  BY <1>1, <1>6 DEF ShutdownClears
<1>7. ASSUME NEW c \in Callers, Shutdown(c) \/ ShutdownLooks(c) \/ PrepareLooks(c) \/ StopLooks(c) \/ CallerLeaves(c)
      PROVE  BookOK'
  BY <1>2, <1>7 DEF Shutdown, ShutdownLooks, PrepareLooks, StopLooks, CallerLeaves, bookVars
<1>8. ASSUME NEW c \in Callers, NEW h \in Handles, PrepareRefused(c, h) \/ SubmitRefused(c, h) \/ Submit(c, h)
      PROVE  BookOK'
  BY <1>2, <1>8 DEF PrepareRefused, SubmitRefused, Submit, bookVars
<1>9. ASSUME NEW c \in Callers, NEW h \in Handles, NEW p \in Plans, PrepareFirst(c, h, p) \/ PrepareAgain(c, h, p)
      PROVE  BookOK'
  BY <1>2, <1>9 DEF PrepareFirst, PrepareAgain, bookVars
<1>10. ASSUME NEW h \in Handles, Supervisor(h) \/ Lapse(h) PROVE BookOK'
  BY <1>2, <1>10 DEF Supervisor, Prepares, Prepared, Ticks, Takes, Works, Replies, SeesStop, Panics,
                     Cleans, CleanFails, Closes, Ends, Lapse, managerVars, bookVars
<1>11. CASE UNCHANGED vars
  BY <1>2, <1>11 DEF vars
<1>12. QED
  BY <1>3, <1>4, <1>5, <1>6, <1>7, <1>8, <1>9, <1>10, <1>11 DEF Next, Caller

\* The channels of one slot.
LEMMA OneSlot ==
    ASSUME SlotsOK, NEW h \in Handles, NEW s \in Slot, slot' = [slot EXCEPT ![h] = s]
    PROVE  SlotsOK'
BY DEF SlotsOK

LEMMA DroppingSlots == ASSUME SlotsOK, NEW S PROVE Dropping(S) \in [Handles -> Slot]
<1> SUFFICES ASSUME NEW h \in Handles PROVE (IF h \in S THEN [slot[h] EXCEPT !.stop = TRUE] ELSE slot[h]) \in Slot
  BY DEF Dropping
<1>1. slot[h] \in Slot
  BY DEF SlotsOK
<1>2. [slot[h] EXCEPT !.stop = TRUE] \in Slot
  BY <1>1 DEF Slot
<1>3. QED
  BY <1>1, <1>2

LEMMA SlotsStep == SlotsOK /\ [Next]_vars => SlotsOK'
<1> SUFFICES ASSUME SlotsOK, [Next]_vars PROVE SlotsOK'
  OBVIOUS
<1>1. ASSUME UNCHANGED slot PROVE SlotsOK'
  BY <1>1 DEF SlotsOK
<1>2. ASSUME NEW h \in Handles PROVE slot[h] \in Slot
  BY DEF SlotsOK
<1>3. ASSUME NEW c \in Callers, Reserve(c) \/ ShutdownClears(c) PROVE SlotsOK'
  BY <1>1, <1>3, DroppingSlots DEF Reserve, ShutdownClears, bookVars, SlotsOK
<1>4. ASSUME NEW c \in Callers, NEW h \in Handles, Stop(c, h) PROVE SlotsOK'
  <2>1. [slot[h] EXCEPT !.stop = TRUE, !.cleanup_failed = FALSE] \in Slot
    BY <1>2 DEF Slot
  <2>2. CASE slot' = [slot EXCEPT ![h].stop = TRUE, ![h].cleanup_failed = FALSE]
    BY <2>1, <2>2 DEF SlotsOK
  <2> QED BY <1>1, <1>4, <2>2 DEF Stop
<1>5. ASSUME NEW c \in Callers, Shutdown(c) PROVE SlotsOK'
  <2>1. ASSUME NEW h \in Handles PROVE slot'[h] \in Slot
    <3>1. [slot[h] EXCEPT !.stop = TRUE, !.cleanup_failed = FALSE] \in Slot
      BY <1>2 DEF Slot
    <3> QED BY <1>2, <1>5, <3>1 DEF Shutdown
  <2> QED BY <1>5, <2>1 DEF Shutdown, SlotsOK
<1>6. ASSUME NEW c \in Callers, StopRemoves(c) \/ ShutdownLooks(c) \/ PrepareLooks(c) \/ StopLooks(c) \/ CallerLeaves(c)
      PROVE  SlotsOK'
  BY <1>1, <1>6 DEF StopRemoves, ShutdownLooks, PrepareLooks, StopLooks, CallerLeaves, bookVars
<1>7. ASSUME NEW c \in Callers, NEW h \in Handles, PrepareRefused(c, h) \/ SubmitRefused(c, h) \/ Submit(c, h)
      PROVE  SlotsOK'
  BY <1>1, <1>7 DEF PrepareRefused, SubmitRefused, Submit, bookVars
<1>8. ASSUME NEW c \in Callers, NEW h \in Handles, NEW p \in Plans, PrepareAgain(c, h, p) PROVE SlotsOK'
  BY <1>1, <1>8 DEF PrepareAgain, bookVars
<1>9. ASSUME NEW c \in Callers, NEW h \in Handles, NEW p \in Plans, PrepareFirst(c, h, p) PROVE SlotsOK'
  <2> DEFINE s == [slot[h] EXCEPT !.plan = p, !.prepared = "no", !.closed = FALSE, !.cleanup_failed = FALSE]
  <2>1. s \in Slot
    BY <1>2 DEF Slot
  <2>2. slot' = [slot EXCEPT ![h] = s]
    BY <1>9 DEF PrepareFirst, SlotsOK
  <2> QED BY <2>1, <2>2, OneSlot
<1>10. ASSUME NEW h \in Handles, Prepared(h) PROVE SlotsOK'
  <2>1. ASSUME NEW v \in {"Complete", "Failed", "Closed"} PROVE [slot[h] EXCEPT !.prepared = v] \in Slot
    BY <1>2 DEF Slot
  <2>2. PICK v \in {"Complete", "Failed", "Closed"} : slot' = [slot EXCEPT ![h].prepared = v]
    BY <1>10 DEF Prepared
  <2> QED BY <2>1, <2>2 DEF SlotsOK
<1>11. ASSUME NEW h \in Handles, CleanFails(h) PROVE SlotsOK'
  <2>1. [slot[h] EXCEPT !.cleanup_failed = TRUE] \in Slot
    BY <1>2 DEF Slot
  <2> QED BY <1>11, <2>1 DEF CleanFails, SlotsOK
<1>12. ASSUME NEW h \in Handles, Closes(h) PROVE SlotsOK'
  <2>1. [slot[h] EXCEPT !.closed = TRUE] \in Slot
    BY <1>2 DEF Slot
  <2> QED BY <1>12, <2>1 DEF Closes, SlotsOK
<1>13. ASSUME NEW h \in Handles, Lapse(h) PROVE SlotsOK'
  <2>1. [slot[h] EXCEPT !.late = TRUE] \in Slot
    BY <1>2 DEF Slot
  <2> QED BY <1>13, <2>1 DEF Lapse, SlotsOK
<1>14. ASSUME NEW h \in Handles, Prepares(h) \/ Ticks(h) \/ Takes(h) \/ Works(h) \/ Replies(h) \/ SeesStop(h)
                                 \/ Panics(h) \/ Cleans(h) \/ Ends(h)
       PROVE  SlotsOK'
  BY <1>1, <1>14 DEF Prepares, Ticks, Takes, Works, Replies, SeesStop, Panics, Cleans, Ends, bookVars
<1>15. CASE UNCHANGED vars
  BY <1>1, <1>15 DEF vars
<1>16. QED
  BY <1>3, <1>4, <1>5, <1>6, <1>7, <1>8, <1>9, <1>10, <1>11, <1>12, <1>13, <1>14, <1>15
     DEF Next, Caller, Supervisor

LEMMA ResourceNames == {"preparation", "cache", "process", "root"} \subseteq Resources
<1>1. /\ 1 \in DOMAIN Release /\ 2 \in DOMAIN Release /\ 3 \in DOMAIN Release /\ 4 \in DOMAIN Release
      /\ Release[1] = "preparation" /\ Release[2] = "cache" /\ Release[3] = "process" /\ Release[4] = "root"
  BY DEF Release
<1>2. QED
  BY <1>1 DEF Resources

\* A cleanup, whether it fails or not, gains nothing.
LEMMA CleanupsRelease == \A S : (\A T \in Fails(S) : T \subseteq S) /\ (\A T \in Cleanups(S) : T \subseteq S)
<1>1. \A S : \A T \in Fails(S) : T \subseteq S
  BY DEF Fails
<1>2. ASSUME NEW S, NEW T \in Cleanups(S) PROVE T \subseteq S
  <2>1. \/ T = S \cap {"root"}
        \/ \E U \in Fails(S \ {"root"}) : T = U \cup (S \cap {"root"})
    BY DEF Cleanups
  <2> QED BY <1>1, <2>1
<1>3. QED
  BY <1>1, <1>2

LEMMA SupsStep == QueuesOK /\ SupsOK /\ [Next]_vars => SupsOK'
<1> SUFFICES ASSUME QueuesOK, SupsOK, [Next]_vars PROVE SupsOK'
  OBVIOUS
<1>1. ASSUME UNCHANGED <<sup, owned, busy>> PROVE SupsOK'
  BY <1>1 DEF SupsOK
<1>2. ASSUME NEW h \in Handles, NEW l \in Stages, sup' = [sup EXCEPT ![h] = l] PROVE sup' \in [Handles -> Stages]
  BY <1>2 DEF SupsOK
<1>3. ASSUME NEW h \in Handles, NEW S \in SUBSET Resources, owned' = [owned EXCEPT ![h] = S]
      PROVE  owned' \in [Handles -> SUBSET Resources]
  BY <1>3 DEF SupsOK
<1>4. ASSUME NEW h \in Handles, NEW x \in Callers \cup {None}, busy' = [busy EXCEPT ![h] = x]
      PROVE  busy' \in [Handles -> Callers \cup {None}]
  BY <1>4 DEF SupsOK
<1>5. {"none", "preparing", "serving", "working", "closing", "cleaned", "ending", "gone"} \subseteq Stages
  BY DEF Stages
<1>6. ASSUME NEW h \in Handles PROVE owned[h] \in SUBSET Resources
  BY DEF SupsOK
<1>7. ASSUME NEW c \in Callers, \/ Reserve(c) \/ Shutdown(c) \/ ShutdownLooks(c) \/ ShutdownClears(c)
                                \/ PrepareLooks(c) \/ StopLooks(c) \/ StopRemoves(c)
      PROVE  SupsOK'
  BY <1>1, <1>7 DEF Reserve, Shutdown, ShutdownLooks, ShutdownClears, PrepareLooks, StopLooks, StopRemoves, supervisorVars
<1>8. ASSUME NEW c \in Callers, CallerLeaves(c) PROVE SupsOK'
  <2>1. busy' \in [Handles -> Callers \cup {None}]
    BY <1>8 DEF CallerLeaves, SupsOK
  <2> QED BY <1>8, <2>1 DEF CallerLeaves, SupsOK
<1>9. ASSUME NEW c \in Callers, NEW h \in Handles,
             PrepareRefused(c, h) \/ SubmitRefused(c, h) \/ Submit(c, h) \/ Stop(c, h)
      PROVE  SupsOK'
  BY <1>1, <1>9 DEF PrepareRefused, SubmitRefused, Submit, Stop, supervisorVars
<1>10. ASSUME NEW c \in Callers, NEW h \in Handles, NEW p \in Plans, PrepareFirst(c, h, p) \/ PrepareAgain(c, h, p)
       PROVE  SupsOK'
  BY <1>1, <1>2, <1>5, <1>10 DEF PrepareFirst, PrepareAgain, supervisorVars, SupsOK
<1>11. ASSUME NEW h \in Handles, Prepares(h) PROVE SupsOK'
  <2>1. PICK S \in SUBSET Resources : owned' = [owned EXCEPT ![h] = S]
    BY <1>6, <1>11, ResourceNames DEF Prepares
  <2> QED BY <1>3, <1>11, <2>1 DEF Prepares, SupsOK
<1>12. ASSUME NEW h \in Handles, Prepared(h) PROVE SupsOK'
  <2>1. owned' = owned \/ \E S \in Cleanups(owned[h]) : owned' = [owned EXCEPT ![h] = S]
    BY <1>12 DEF Prepared
  <2>2. owned' \in [Handles -> SUBSET Resources]
    BY <1>3, <1>6, <2>1, CleanupsRelease DEF SupsOK
  <2> QED BY <1>2, <1>5, <1>12, <2>2 DEF Prepared, SupsOK
<1>13. ASSUME NEW h \in Handles, Ticks(h) PROVE SupsOK'
  <2>1. owned' \in [Handles -> SUBSET Resources]
    BY <1>3, <1>6, <1>13, CleanupsRelease DEF Ticks
  <2> QED BY <1>13, <2>1 DEF Ticks, SupsOK
<1>14. ASSUME NEW h \in Handles, Takes(h) PROVE SupsOK'
  <2>1. Head(queue[h]) \in Callers \cup {None}
    BY <1>14, HeadTailProperties DEF Takes, QueuesOK
  <2> QED BY <1>2, <1>4, <1>5, <1>14, <2>1 DEF Takes, SupsOK
<1>15. ASSUME NEW h \in Handles, Works(h) PROVE SupsOK'
  <2>1. CASE owned' = [owned EXCEPT ![h] = @ \cup {"process"}]
    <3>1. owned[h] \cup {"process"} \in SUBSET Resources
      BY <1>6, ResourceNames
    <3> QED BY <1>3, <1>15, <2>1, <3>1 DEF Works, SupsOK
  <2>2. CASE \E S \in Cleanups(owned[h]) : owned' = [owned EXCEPT ![h] = S]
    <3>1. owned' \in [Handles -> SUBSET Resources]
      BY <1>3, <1>6, <2>2, CleanupsRelease
    <3> QED BY <1>15, <3>1 DEF Works, SupsOK
  <2> QED BY <1>15, <2>1, <2>2 DEF Works
<1>16. ASSUME NEW h \in Handles, Replies(h) \/ Panics(h) PROVE SupsOK'
  BY <1>2, <1>4, <1>5, <1>16 DEF Replies, Panics, SupsOK
<1>17. ASSUME NEW h \in Handles, SeesStop(h) \/ Closes(h) \/ Ends(h) PROVE SupsOK'
  BY <1>2, <1>5, <1>17 DEF SeesStop, Closes, Ends, SupsOK
<1>18. ASSUME NEW h \in Handles, Cleans(h) PROVE SupsOK'
  <2>1. {} \in SUBSET Resources
    OBVIOUS
  <2> QED BY <1>2, <1>3, <1>5, <1>18, <2>1 DEF Cleans, SupsOK
<1>19. ASSUME NEW h \in Handles, CleanFails(h) PROVE SupsOK'
  <2>1. owned' \in [Handles -> SUBSET Resources]
    BY <1>3, <1>6, <1>19, CleanupsRelease DEF CleanFails
  <2> QED BY <1>19, <2>1 DEF CleanFails, SupsOK
<1>20. ASSUME NEW h \in Handles, Lapse(h) PROVE SupsOK'
  BY <1>1, <1>20 DEF Lapse, supervisorVars
<1>21. CASE UNCHANGED vars
  BY <1>1, <1>21 DEF vars
<1>22. QED
  BY <1>7, <1>8, <1>9, <1>10, <1>11, <1>12, <1>13, <1>14, <1>15, <1>16, <1>17, <1>18, <1>19, <1>20, <1>21
     DEF Next, Caller, Supervisor

LEMMA QueuesStep == QueuesOK /\ [Next]_vars => QueuesOK'
<1> SUFFICES ASSUME QueuesOK, [Next]_vars PROVE QueuesOK'
  OBVIOUS
<1>0. queue \in [Handles -> Seq(Callers \cup {None})] /\ \A h \in Handles : Len(queue[h]) <= Queue
  BY DEF QueuesOK
<1>1. ASSUME UNCHANGED queue PROVE QueuesOK'
  BY <1>1 DEF QueuesOK
<1>2. ASSUME NEW h \in Handles, NEW q \in Seq(Callers \cup {None}), Len(q) <= Queue, queue' = [queue EXCEPT ![h] = q]
      PROVE  QueuesOK'
  BY <1>0, <1>2 DEF QueuesOK
<1>3. ASSUME NEW c \in Callers, NEW h \in Handles, Submit(c, h) PROVE QueuesOK'
  <2>1. Append(queue[h], c) \in Seq(Callers \cup {None}) /\ Len(Append(queue[h], c)) = Len(queue[h]) + 1
    BY <1>0, AppendProperties
  <2>2. Len(queue[h]) \in Nat /\ Queue \in Nat /\ Len(queue[h]) < Queue
    BY <1>0, <1>3, ManagerAssumption, LenProperties DEF Submit
  <2>3. Len(Append(queue[h], c)) <= Queue
    BY <2>1, <2>2
  <2> QED BY <1>2, <1>3, <2>1, <2>3 DEF Submit
<1>4. ASSUME NEW h \in Handles, Takes(h) PROVE QueuesOK'
  <2>1. Tail(queue[h]) \in Seq(Callers \cup {None}) /\ Len(Tail(queue[h])) = Len(queue[h]) - 1
    BY <1>0, <1>4, HeadTailProperties DEF Takes
  <2>2. Len(queue[h]) \in Nat /\ Queue \in Nat /\ Len(queue[h]) <= Queue
    BY <1>0, ManagerAssumption, LenProperties
  <2>3. Len(Tail(queue[h])) <= Queue
    BY <2>1, <2>2
  <2> QED BY <1>2, <1>4, <2>1, <2>3 DEF Takes
<1>5. ASSUME NEW h \in Handles, Ends(h) PROVE QueuesOK'
  <2>1. <<>> \in Seq(Callers \cup {None}) /\ Len(<<>>) = 0 /\ Queue \in Nat
    BY ManagerAssumption
  <2>2. Len(<<>>) <= Queue
    BY <2>1
  <2> QED BY <1>2, <1>5, <2>1, <2>2 DEF Ends
<1>6. ASSUME NEW c \in Callers, CallerLeaves(c) PROVE QueuesOK'
  <2>1. ASSUME NEW h \in Handles
        PROVE  queue'[h] \in Seq(Callers \cup {None}) /\ Len(queue'[h]) = Len(queue[h])
    <3>1. queue'[h] = [i \in DOMAIN queue[h] |-> IF queue[h][i] = c THEN None ELSE queue[h][i]]
      BY <1>6 DEF CallerLeaves
    <3>2. Len(queue[h]) \in Nat /\ DOMAIN queue[h] = 1..Len(queue[h])
          /\ \A i \in 1..Len(queue[h]) : queue[h][i] \in Callers \cup {None}
      BY <1>0, LenProperties, ElementOfSeq
    <3>3. queue'[h] = [i \in 1..Len(queue[h]) |-> IF queue[h][i] = c THEN None ELSE queue[h][i]]
      BY <3>1, <3>2
    <3>4. queue'[h] \in Seq(Callers \cup {None})
      BY <3>2, <3>3, IsASeq
    <3> QED BY <3>2, <3>3, <3>4, LenProperties
  <2> QED BY <1>0, <1>6, <2>1 DEF CallerLeaves, QueuesOK
<1>7. ASSUME NEW c \in Callers, \/ Reserve(c) \/ Shutdown(c) \/ ShutdownLooks(c) \/ ShutdownClears(c)
                                \/ PrepareLooks(c) \/ StopLooks(c) \/ StopRemoves(c)
      PROVE  QueuesOK'
  BY <1>1, <1>7 DEF Reserve, Shutdown, ShutdownLooks, ShutdownClears, PrepareLooks, StopLooks, StopRemoves, supervisorVars
<1>8. ASSUME NEW c \in Callers, NEW h \in Handles, PrepareRefused(c, h) \/ SubmitRefused(c, h) \/ Stop(c, h)
      PROVE  QueuesOK'
  BY <1>1, <1>8 DEF PrepareRefused, SubmitRefused, Stop, supervisorVars
<1>9. ASSUME NEW c \in Callers, NEW h \in Handles, NEW p \in Plans, PrepareFirst(c, h, p) \/ PrepareAgain(c, h, p)
      PROVE  QueuesOK'
  BY <1>1, <1>9 DEF PrepareFirst, PrepareAgain, supervisorVars
<1>10. ASSUME NEW h \in Handles, \/ Prepares(h) \/ Prepared(h) \/ Ticks(h) \/ Works(h) \/ Replies(h) \/ SeesStop(h)
                                 \/ Panics(h) \/ Cleans(h) \/ CleanFails(h) \/ Closes(h) \/ Lapse(h)
       PROVE  QueuesOK'
  BY <1>1, <1>10 DEF Prepares, Prepared, Ticks, Works, Replies, SeesStop, Panics, Cleans, CleanFails, Closes,
                     Lapse, supervisorVars
<1>11. CASE UNCHANGED vars
  BY <1>1, <1>11 DEF vars
<1>12. QED
  BY <1>3, <1>4, <1>5, <1>6, <1>7, <1>8, <1>9, <1>10, <1>11 DEF Next, Caller, Supervisor

-----------------------------------------------------------------------------
(* Slots and their supervisors.                                             *)

TypesOK == CallsOK /\ SlotsOK /\ BookOK /\ SupsOK /\ QueuesOK

\* Steps that change neither the plan nor the closure of a slot, and drop nothing
\* from the book that a supervisor answers for.
LEMMA TiedStays ==
    ASSUME Tied, UNCHANGED <<sup, owned>>,
           \A h \in Handles : slot'[h].plan = slot[h].plan /\ (slot'[h].closed <=> slot[h].closed),
           \A h \in Handles : h \in book /\ sup[h] \notin Quiet => h \in book'
    PROVE  Tied'
<1> SUFFICES ASSUME NEW h \in Handles PROVE TiedTo(h)'
  BY DEF Tied
<1>1. TiedTo(h)
  BY DEF Tied
<1>2. QED
  BY <1>1 DEF TiedTo

LEMMA TiedOne ==
    ASSUME Tied, NEW h \in Handles, UNCHANGED book, TiedTo(h)',
           \A g \in Handles \ {h} : sup'[g] = sup[g] /\ owned'[g] = owned[g] /\ slot'[g] = slot[g]
    PROVE  Tied'
<1> SUFFICES ASSUME NEW g \in Handles, g # h PROVE TiedTo(g)'
  BY DEF Tied
<1>1. TiedTo(g)
  BY DEF Tied
<1>2. QED
  BY <1>1 DEF TiedTo

LEMMA DroppingKeeps ==
    ASSUME SlotsOK, NEW S, NEW h \in Handles
    PROVE  Dropping(S)[h].plan = slot[h].plan /\ (Dropping(S)[h].closed <=> slot[h].closed)
<1>1. slot[h] \in Slot
  BY DEF SlotsOK
<1>2. Dropping(S)[h] = IF h \in S THEN [slot[h] EXCEPT !.stop = TRUE] ELSE slot[h]
  BY DEF Dropping
<1>3. [slot[h] EXCEPT !.stop = TRUE].plan = slot[h].plan /\ [slot[h] EXCEPT !.stop = TRUE].closed = slot[h].closed
  BY <1>1 DEF Slot
<1>4. QED
  BY <1>2, <1>3

\* reserve drops only what nobody answers for.
LEMMA RetainsLive == ASSUME BookOK, Tied, NEW h \in book, sup[h] \notin Quiet PROVE h \in Retained
<1>1. TiedTo(h)
  BY InBook DEF Tied
<1>2. QED
  BY <1>1 DEF TiedTo, Retained, Expired, Quiet

LEMMA TiedStep == TypesOK /\ Tied /\ Seen /\ [Next]_vars => Tied'
<1> SUFFICES ASSUME TypesOK, Tied, Seen, [Next]_vars PROVE Tied'
  OBVIOUS
<1>0. /\ sup \in [Handles -> Stages] /\ owned \in [Handles -> SUBSET Resources]
      /\ slot \in [Handles -> Slot] /\ book \subseteq Handles
  BY InBook DEF TypesOK, SupsOK, SlotsOK
<1>1. ASSUME UNCHANGED <<sup, owned, slot>>, book' = book PROVE Tied'
  BY <1>1, TiedStays
<1>2. ASSUME NEW h \in Handles PROVE slot[h] \in Slot /\ TiedTo(h)
  BY <1>0 DEF Tied
<1>3. ASSUME NEW c \in Callers, Reserve(c) PROVE Tied'
  <2>1. CASE UNCHANGED bookVars
    BY <1>1, <1>3, <2>1 DEF Reserve, bookVars, supervisorVars
  <2>2. CASE slot' = Dropping(book \ Retained) /\ Retained \subseteq book'
    <3>1. \A h \in Handles : slot'[h].plan = slot[h].plan /\ (slot'[h].closed <=> slot[h].closed)
      BY <2>2, DroppingKeeps DEF TypesOK
    <3>2. \A h \in Handles : h \in book /\ sup[h] \notin Quiet => h \in book'
      BY <2>2, RetainsLive DEF TypesOK
    <3> QED BY <1>3, <3>1, <3>2, TiedStays DEF Reserve, supervisorVars
  <2> QED BY <1>3, <2>1, <2>2 DEF Reserve
<1>4. ASSUME NEW c \in Callers, NEW h \in Handles, Stop(c, h) PROVE Tied'
  <2>1. CASE UNCHANGED <<book, slot>>
    BY <1>1, <1>4, <2>1 DEF Stop, supervisorVars
  <2>2. CASE /\ slot' = [slot EXCEPT ![h].stop = TRUE, ![h].cleanup_failed = FALSE]
             /\ book' = book \/ (slot[h].plan = None /\ book' = book \ {h})
    <3>1. ASSUME NEW g \in Handles PROVE slot'[g].plan = slot[g].plan /\ (slot'[g].closed <=> slot[g].closed)
      <4>1. CASE g = h
        <5>1. slot'[g] = [slot[g] EXCEPT !.stop = TRUE, !.cleanup_failed = FALSE]
          BY <1>0, <2>2, <4>1
        <5> QED BY <1>2, <5>1 DEF Slot
      <4>2. CASE g # h
        BY <1>0, <2>2, <4>2
      <4> QED BY <4>1, <4>2
    <3>2. slot[h].plan = None => sup[h] \in Quiet
      BY <1>2 DEF TiedTo, Quiet
    <3> QED BY <1>4, <2>2, <3>1, <3>2, TiedStays DEF Stop, supervisorVars
  <2> QED BY <1>4, <2>1, <2>2 DEF Stop
<1>5. ASSUME NEW c \in Callers, Shutdown(c) PROVE Tied'
  <2>1. ASSUME NEW g \in Handles PROVE slot'[g].plan = slot[g].plan /\ (slot'[g].closed <=> slot[g].closed)
    <3>1. slot'[g] = slot[g] \/ slot'[g] = [slot[g] EXCEPT !.stop = TRUE, !.cleanup_failed = FALSE]
      BY <1>5 DEF Shutdown
    <3> QED BY <1>2, <3>1 DEF Slot
  <2> QED BY <1>5, <2>1, TiedStays DEF Shutdown, supervisorVars
<1>6. ASSUME NEW c \in Callers, StopRemoves(c) PROVE Tied'
  <2>1. sup[call[c].h] \in Quiet
    BY <1>6 DEF StopRemoves, Seen, SeenBy, Quiet
  <2> QED BY <1>6, <2>1, TiedStays DEF StopRemoves, supervisorVars
<1>7. ASSUME NEW c \in Callers, ShutdownClears(c) PROVE Tied'
  <2>1. \A h \in book : sup[h] \in Quiet
    BY <1>7 DEF ShutdownClears, Seen, SeenBy
  <2>2. \A h \in Handles : slot'[h].plan = slot[h].plan /\ (slot'[h].closed <=> slot[h].closed)
    BY <1>7, DroppingKeeps DEF TypesOK, ShutdownClears
  <2> QED BY <1>7, <2>1, <2>2, TiedStays DEF ShutdownClears, supervisorVars
<1>8. ASSUME NEW c \in Callers, ShutdownLooks(c) \/ PrepareLooks(c) \/ StopLooks(c) \/ CallerLeaves(c) PROVE Tied'
  BY <1>1, <1>8 DEF ShutdownLooks, PrepareLooks, StopLooks, CallerLeaves, bookVars, supervisorVars
<1>9. ASSUME NEW c \in Callers, NEW h \in Handles, PrepareRefused(c, h) \/ SubmitRefused(c, h) \/ Submit(c, h)
      PROVE  Tied'
  BY <1>1, <1>9 DEF PrepareRefused, SubmitRefused, Submit, bookVars, supervisorVars
<1>10. ASSUME NEW c \in Callers, NEW h \in Handles, NEW p \in Plans, PrepareAgain(c, h, p) PROVE Tied'
  BY <1>1, <1>10 DEF PrepareAgain, bookVars, supervisorVars
<1>11. ASSUME NEW c \in Callers, NEW h \in Handles, NEW p \in Plans, PrepareFirst(c, h, p) PROVE Tied'
  <2>1. h \in book /\ sup' = [sup EXCEPT ![h] = "preparing"] /\ UNCHANGED <<book, owned>>
    BY <1>11 DEF PrepareFirst, Preparable
  <2>2. slot'[h] = [slot[h] EXCEPT !.plan = p, !.prepared = "no", !.closed = FALSE, !.cleanup_failed = FALSE]
    BY <1>0, <1>11 DEF PrepareFirst
  <2>3. slot'[h].plan = p /\ ~slot'[h].closed
    BY <1>2, <2>2 DEF Slot
  <2>4. \A g \in Handles \ {h} : sup'[g] = sup[g] /\ owned'[g] = owned[g] /\ slot'[g] = slot[g]
    BY <1>0, <1>11, <2>1 DEF PrepareFirst
  <2>5. sup'[h] = "preparing" /\ p # None
    BY <1>0, <2>1, ManagerAssumption
  <2>6. TiedTo(h)'
    BY <2>1, <2>3, <2>5 DEF TiedTo, Quiet
  <2> QED BY <2>1, <2>4, <2>6, TiedOne
<1>12. ASSUME NEW h \in Handles, Prepared(h) PROVE Tied'
  <2>1. /\ sup[h] = "preparing" /\ sup'[h] = "serving" /\ UNCHANGED book
        /\ \A g \in Handles \ {h} : sup'[g] = sup[g] /\ owned'[g] = owned[g] /\ slot'[g] = slot[g]
    BY <1>0, <1>12 DEF Prepared, managerVars
  <2>2. PICK v : slot'[h] = [slot[h] EXCEPT !.prepared = v]
    BY <1>0, <1>12 DEF Prepared
  <2>3. slot'[h].plan = slot[h].plan /\ slot'[h].closed = slot[h].closed
    BY <1>2, <2>2 DEF Slot
  <2>4. TiedTo(h)'
    BY <1>2, <2>1, <2>3 DEF TiedTo, Quiet
  <2> QED BY <2>1, <2>4, TiedOne
<1>13. ASSUME NEW h \in Handles, UNCHANGED <<book, slot>>, sup[h] \notin Quiet \cup {"cleaned"},
              sup'[h] \notin Quiet \cup {"cleaned"},
              \A g \in Handles \ {h} : sup'[g] = sup[g] /\ owned'[g] = owned[g]
       PROVE  Tied'
  <2>1. TiedTo(h)'
    BY <1>2, <1>13 DEF TiedTo, Quiet
  <2> QED BY <1>13, <2>1, TiedOne
<1>14. ASSUME NEW h \in Handles, \/ Prepares(h) \/ Ticks(h) \/ Takes(h) \/ Works(h) \/ Replies(h)
                                 \/ SeesStop(h) \/ Panics(h)
       PROVE  Tied'
  <2>1. UNCHANGED <<book, slot>>
    BY <1>14 DEF Prepares, Ticks, Takes, Works, Replies, SeesStop, Panics, managerVars, bookVars
  <2>2. /\ sup[h] \in {"preparing", "serving", "working"}
        /\ sup'[h] \in {"preparing", "serving", "working", "closing"}
        /\ \A g \in Handles \ {h} : sup'[g] = sup[g]
    BY <1>0, <1>14 DEF Prepares, Ticks, Takes, Works, Replies, SeesStop, Panics
  <2>3. \A g \in Handles \ {h} : owned'[g] = owned[g]
    BY <1>0, <1>14 DEF Prepares, Ticks, Takes, Works, Replies, SeesStop, Panics
  <2> QED BY <1>13, <2>1, <2>2, <2>3 DEF Quiet
<1>15. ASSUME NEW h \in Handles, Cleans(h) PROVE Tied'
  <2>1. /\ sup[h] = "closing" /\ sup'[h] = "cleaned" /\ owned'[h] = {} /\ UNCHANGED <<book, slot>>
        /\ \A g \in Handles \ {h} : sup'[g] = sup[g] /\ owned'[g] = owned[g]
    BY <1>0, <1>15 DEF Cleans, managerVars
  <2>2. TiedTo(h)'
    BY <1>2, <2>1 DEF TiedTo, Quiet
  <2> QED BY <2>1, <2>2, TiedOne
<1>16. ASSUME NEW h \in Handles, CleanFails(h) PROVE Tied'
  <2>1. /\ sup[h] = "closing" /\ sup' = sup /\ UNCHANGED book
        /\ \A g \in Handles \ {h} : owned'[g] = owned[g] /\ slot'[g] = slot[g]
        /\ slot'[h] = [slot[h] EXCEPT !.cleanup_failed = TRUE]
    BY <1>0, <1>16 DEF CleanFails, managerVars
  <2>2. slot'[h].plan = slot[h].plan /\ slot'[h].closed = slot[h].closed
    BY <1>2, <2>1 DEF Slot
  <2>3. TiedTo(h)'
    BY <1>2, <2>1, <2>2 DEF TiedTo, Quiet
  <2> QED BY <2>1, <2>3, TiedOne
<1>17. ASSUME NEW h \in Handles, Closes(h) PROVE Tied'
  <2>1. /\ sup[h] = "cleaned" /\ sup'[h] = "ending" /\ UNCHANGED <<book, owned>>
        /\ \A g \in Handles \ {h} : sup'[g] = sup[g] /\ slot'[g] = slot[g]
        /\ slot'[h] = [slot[h] EXCEPT !.closed = TRUE]
    BY <1>0, <1>17 DEF Closes, managerVars
  <2>2. slot'[h].plan = slot[h].plan /\ slot'[h].closed
    BY <1>2, <2>1 DEF Slot
  <2>3. TiedTo(h)'
    BY <1>2, <2>1, <2>2 DEF TiedTo, Quiet
  <2> QED BY <2>1, <2>3, TiedOne
<1>18. ASSUME NEW h \in Handles, Ends(h) PROVE Tied'
  <2>1. /\ sup[h] = "ending" /\ sup'[h] = "gone" /\ UNCHANGED <<book, owned, slot>>
        /\ \A g \in Handles \ {h} : sup'[g] = sup[g]
    BY <1>0, <1>18 DEF Ends, bookVars
  <2>2. TiedTo(h)'
    BY <1>2, <2>1 DEF TiedTo, Quiet
  <2> QED BY <2>1, <2>2, TiedOne
<1>19. ASSUME NEW h \in Handles, Lapse(h) PROVE Tied'
  <2>1. ASSUME NEW g \in Handles PROVE slot'[g].plan = slot[g].plan /\ (slot'[g].closed <=> slot[g].closed)
    <3>1. slot'[g] = slot[g] \/ slot'[g] = [slot[g] EXCEPT !.late = TRUE]
      BY <1>0, <1>19 DEF Lapse
    <3> QED BY <1>2, <3>1 DEF Slot
  <2> QED BY <1>19, <2>1, TiedStays DEF Lapse, supervisorVars
<1>20. CASE UNCHANGED vars
  BY <1>1, <1>20 DEF vars
<1>21. QED
  BY <1>3, <1>4, <1>5, <1>6, <1>7, <1>8, <1>9, <1>10, <1>11, <1>12, <1>14, <1>15, <1>16, <1>17, <1>18, <1>19, <1>20
     DEF Next, Caller, Supervisor

-----------------------------------------------------------------------------
(* What a step leaves standing: of the book, of shutdown and of supervisors. *)

\* Handles join the book by being issued, none after shutdown; a supervisor that has
\* closed stays closed, and none starts after shutdown or for an acknowledged handle.
Standing ==
    /\ terminal => terminal' /\ book' \subseteq book
    /\ issued <= issued' /\ \A h \in book' : h \in book \/ h > issued
    /\ \A h \in Handles : sup[h] \in {"ending", "gone"} => sup'[h] \in {"ending", "gone"}
    /\ \A h \in Handles : sup[h] = "none" /\ (terminal \/ h \in acked) => sup'[h] = "none"

LEMMA StandingStep == TypesOK /\ Tied /\ Acked /\ [Next]_vars => Standing
<1> SUFFICES ASSUME TypesOK, Tied, Acked, [Next]_vars PROVE Standing
  OBVIOUS
<1>0. sup \in [Handles -> Stages] /\ issued \in Nat
  BY ManagerAssumption DEF TypesOK, SupsOK, BookOK
<1>1. ASSUME UNCHANGED sup, issued' = issued, book' \subseteq book, terminal => terminal' PROVE Standing
  BY <1>0, <1>1 DEF Standing
<1>2. ASSUME NEW h \in Handles, NEW l, sup' = [sup EXCEPT ![h] = l], UNCHANGED <<terminal, issued, book>>,
             \/ sup[h] \notin Quiet
             \/ sup[h] = "ending" /\ l = "gone"
      PROVE  Standing
  BY <1>0, <1>2 DEF Standing, Quiet
<1>3. ASSUME NEW c \in Callers, Reserve(c) PROVE Standing
  <2>1. CASE terminal
    BY <1>1, <1>3, <2>1 DEF Reserve, bookVars, supervisorVars
  <2>2. CASE ~terminal /\ issued' = issued
    <3>1. book' \subseteq book
      BY <1>0, <1>3, <2>2 DEF Reserve, Retained
    <3> QED BY <1>1, <1>3, <2>2, <3>1 DEF Reserve, supervisorVars
  <2>3. CASE ~terminal /\ issued' = issued + 1 /\ book' = Retained \cup {issued + 1}
    <3>1. \A h \in book' : h \in book \/ h > issued
      BY <1>0, <2>3 DEF Retained
    <3> QED BY <1>0, <1>3, <2>3, <3>1 DEF Reserve, supervisorVars, Standing
  <2> QED BY <1>3, <2>1, <2>2, <2>3 DEF Reserve
<1>4. ASSUME NEW c \in Callers, NEW h \in Handles,
             PrepareRefused(c, h) \/ SubmitRefused(c, h) \/ Submit(c, h) \/ Stop(c, h)
      PROVE  Standing
  BY <1>1, <1>4 DEF PrepareRefused, SubmitRefused, Submit, Stop, bookVars, supervisorVars
<1>5. ASSUME NEW c \in Callers, \/ Shutdown(c) \/ ShutdownLooks(c) \/ ShutdownClears(c)
                                \/ PrepareLooks(c) \/ StopLooks(c) \/ StopRemoves(c) \/ CallerLeaves(c)
      PROVE  Standing
  BY <1>1, <1>5 DEF Shutdown, ShutdownLooks, ShutdownClears, PrepareLooks, StopLooks, StopRemoves,
                    CallerLeaves, bookVars, supervisorVars
<1>6. ASSUME NEW c \in Callers, NEW h \in Handles, NEW p \in Plans, PrepareAgain(c, h, p) PROVE Standing
  BY <1>1, <1>6 DEF PrepareAgain, bookVars, supervisorVars
<1>7. ASSUME NEW c \in Callers, NEW h \in Handles, NEW p \in Plans, PrepareFirst(c, h, p) PROVE Standing
  <2>1. /\ ~terminal /\ h \in book /\ slot[h].plan = None
        /\ sup' = [sup EXCEPT ![h] = "preparing"] /\ UNCHANGED <<terminal, issued, book>>
    BY <1>7 DEF PrepareFirst, Preparable
  <2>2. sup[h] = "none"
    BY <2>1 DEF Tied, TiedTo
  <2>3. h \notin acked
    BY <2>1, <2>2 DEF Acked, AckedFor
  <2>4. \A g \in Handles \ {h} : sup'[g] = sup[g]
    BY <1>0, <2>1
  <2> QED BY <1>0, <2>1, <2>2, <2>3, <2>4 DEF Standing
<1>8. ASSUME NEW h \in Handles, Prepares(h) \/ Ticks(h) \/ Works(h) \/ CleanFails(h) \/ Lapse(h) PROVE Standing
  BY <1>1, <1>8 DEF Prepares, Ticks, Works, CleanFails, Lapse, managerVars, supervisorVars
<1>9. ASSUME NEW h \in Handles, \/ Prepared(h) \/ Takes(h) \/ Replies(h) \/ SeesStop(h) \/ Panics(h)
                                \/ Cleans(h) \/ Closes(h) \/ Ends(h)
      PROVE  Standing
  <2>1. UNCHANGED <<terminal, issued, book>>
    BY <1>9 DEF Prepared, Takes, Replies, SeesStop, Panics, Cleans, Closes, Ends, managerVars, bookVars
  <2>2. \/ UNCHANGED sup
        \/ sup[h] \notin Quiet /\ \E l : sup' = [sup EXCEPT ![h] = l]
        \/ sup[h] = "ending" /\ sup' = [sup EXCEPT ![h] = "gone"]
    BY <1>9 DEF Prepared, Takes, Replies, SeesStop, Panics, Cleans, Closes, Ends, Quiet
  <2> QED BY <1>1, <1>2, <2>1, <2>2
<1>10. CASE UNCHANGED vars
  BY <1>1, <1>10 DEF vars
<1>11. QED
  BY <1>3, <1>4, <1>5, <1>6, <1>7, <1>8, <1>9, <1>10 DEF Next, Caller, Supervisor

LEMMA AckedStep == TypesOK /\ Tied /\ Acked /\ Seen /\ [Next]_vars => Acked'
<1> SUFFICES ASSUME TypesOK, Tied, Acked, Seen, [Next]_vars PROVE Acked'
  OBVIOUS
<1>0. /\ Standing /\ acked \subseteq Handles /\ book \subseteq Handles
      /\ issued \in Nat /\ book \subseteq 1..issued /\ issued' \in Nat
  <2>1. Standing /\ acked \subseteq Handles /\ book \subseteq Handles
    BY StandingStep, InBook DEF TypesOK, BookOK
  <2>2. issued \in Nat /\ book \subseteq 1..issued
    BY ManagerAssumption DEF TypesOK, BookOK
  <2>3. BookOK'
    BY BookStep DEF TypesOK
  <2>4. issued' \in Nat
    BY <2>3, ManagerAssumption DEF BookOK
  <2> QED BY <2>1, <2>2, <2>4
<1>1. ASSUME NEW h \in acked PROVE AckedFor(h)'
  <2>1. AckedFor(h) /\ h \in Handles
    BY <1>0 DEF Acked
  <2>2. CASE sup[h] # "none"
    BY <1>0, <2>1, <2>2 DEF AckedFor, Standing, Quiet
  <2>3. CASE sup[h] = "none"
    <3>1. sup'[h] = "none"
      BY <1>0, <2>1, <2>3 DEF Standing
    <3>2. CASE terminal
      BY <1>0, <3>1, <3>2 DEF AckedFor, Standing, Quiet
    <3>3. CASE h <= issued /\ h \notin book
      <4>1. h \in Nat
        BY <2>1 DEF Handles
      <4>2. h <= issued' /\ h \notin book'
        BY <1>0, <3>3, <4>1 DEF Standing
      <4> QED BY <3>1, <4>2 DEF AckedFor, Quiet
    <3> QED BY <2>1, <2>3, <3>2, <3>3 DEF AckedFor
  <2> QED BY <2>2, <2>3
<1>2. ASSUME acked' = acked PROVE Acked'
  BY <1>1, <1>2 DEF Acked
<1>3. ASSUME NEW c \in Callers, NEW h \in Handles, Stop(c, h) PROVE Acked'
  <2>1. CASE UNCHANGED acked
    BY <1>2, <2>1
  <2>2. CASE /\ h \in book /\ slot[h].plan = None /\ book' = book \ {h} /\ acked' = acked \cup {h}
    <3>1. sup[h] = "none" /\ sup' = sup /\ issued' = issued
      BY <1>3, <2>2 DEF Tied, TiedTo, Stop, supervisorVars
    <3>2. h <= issued
      BY <1>0, <2>2
    <3>3. AckedFor(h)'
      BY <2>2, <3>1, <3>2 DEF AckedFor, Quiet
    <3> QED BY <1>1, <2>2, <3>3 DEF Acked
  <2> QED BY <1>3, <2>1, <2>2 DEF Stop
<1>4. ASSUME NEW c \in Callers, StopRemoves(c) PROVE Acked'
  <2>1. sup[call[c].h] \in {"ending", "gone"} /\ sup' = sup /\ acked' = acked \cup {call[c].h}
    BY <1>4 DEF StopRemoves, Seen, SeenBy, supervisorVars
  <2>2. PICK h : h = call[c].h
    OBVIOUS
  <2>3. AckedFor(h)'
    BY <2>1, <2>2 DEF AckedFor, Quiet
  <2> QED BY <1>1, <2>1, <2>2, <2>3 DEF Acked
<1>5. ASSUME NEW c \in Callers, ShutdownClears(c) PROVE Acked'
  <2>1. /\ terminal /\ terminal' /\ sup' = sup /\ \A h \in book : sup[h] \in Quiet
    BY <1>5 DEF ShutdownClears, Seen, SeenBy, supervisorVars
  <2>2. ASSUME NEW h \in Handles PROVE sup[h] \in Quiet
    BY <2>1 DEF Tied, TiedTo
  <2>3. ASSUME NEW h \in Handles PROVE AckedFor(h)'
    BY <2>1, <2>2 DEF AckedFor
  <2> QED BY <1>5, <2>3 DEF Acked, ShutdownClears
<1>6. ASSUME NEW c \in Callers, \/ Reserve(c) \/ Shutdown(c) \/ ShutdownLooks(c)
                                \/ PrepareLooks(c) \/ StopLooks(c) \/ CallerLeaves(c)
      PROVE  Acked'
  BY <1>2, <1>6 DEF Reserve, Shutdown, ShutdownLooks, PrepareLooks, StopLooks, CallerLeaves
<1>7. ASSUME NEW c \in Callers, NEW h \in Handles, PrepareRefused(c, h) \/ SubmitRefused(c, h) \/ Submit(c, h)
      PROVE  Acked'
  BY <1>2, <1>7 DEF PrepareRefused, SubmitRefused, Submit
<1>8. ASSUME NEW c \in Callers, NEW h \in Handles, NEW p \in Plans, PrepareFirst(c, h, p) \/ PrepareAgain(c, h, p)
      PROVE  Acked'
  BY <1>2, <1>8 DEF PrepareFirst, PrepareAgain
<1>9. ASSUME NEW h \in Handles, Supervisor(h) \/ Lapse(h) PROVE Acked'
  BY <1>2, <1>9 DEF Supervisor, Prepares, Prepared, Ticks, Takes, Works, Replies, SeesStop, Panics,
                    Cleans, CleanFails, Closes, Ends, Lapse, managerVars
<1>10. CASE UNCHANGED vars
  BY <1>2, <1>10 DEF vars
<1>11. QED
  BY <1>3, <1>4, <1>5, <1>6, <1>7, <1>8, <1>9, <1>10 DEF Next, Caller

-----------------------------------------------------------------------------
(* What calls have seen, and admission.                                     *)

LEMMA SeenStays == ASSUME SupsOK, BookOK, Standing, NEW w, SeenBy(w) PROVE SeenBy(w)'
<1>1. /\ w.op \in {"prepare", "stop", "remove", "command"} => w.h \in Handles
      /\ w.op = "remove" => sup'[w.h] \in {"ending", "gone"}
      /\ w.op \in {"shutdown", "clear"} => terminal'
  BY DEF SeenBy, Standing
<1>2. ASSUME terminal, NEW h \in book', sup[h] \in Quiet PROVE sup'[h] \in Quiet
  BY <1>2, InBook DEF Standing, Quiet
<1>3. w.op = "shutdown" /\ w.ok => \A h \in book' : sup'[h] \in Quiet \/ h \in w.left
  BY <1>2 DEF SeenBy, Standing
<1>4. w.op = "clear" => \A h \in book' : sup'[h] \in Quiet
  BY <1>2 DEF SeenBy, Standing
<1>5. QED
  BY <1>1, <1>3, <1>4 DEF SeenBy

LEMMA SeenStep == TypesOK /\ Tied /\ Acked /\ Seen /\ [Next]_vars => Seen'
<1> SUFFICES ASSUME TypesOK, Tied, Acked, Seen, [Next]_vars, NEW d \in Callers, NEW w, call'[d] = w
             PROVE  SeenBy(w)'
  BY DEF Seen, SeenBy
<1>0. Standing /\ call \in [Callers -> Call] /\ book \subseteq Handles
  BY StandingStep, InBook DEF TypesOK, CallsOK
<1>1. ASSUME SeenBy(w) PROVE SeenBy(w)'
  BY <1>0, <1>1, SeenStays DEF TypesOK
<1>2. ASSUME w = call[d] PROVE SeenBy(w)'
  <2>1. SeenBy(w)
    BY <1>2 DEF Seen
  <2> QED BY <1>1, <2>1
<1>3. ASSUME w = Idle PROVE SeenBy(w)'
  BY <1>3 DEF SeenBy, Idle
<1>4. ASSUME NEW h \in Handles, w.h = h, w.op \in {"prepare", "command", "stop"} PROVE SeenBy(w)'
  BY <1>4 DEF SeenBy
<1>5. ASSUME NEW c \in Callers, NEW k, Return(c, k) PROVE SeenBy(w)'
  BY <1>0, <1>2, <1>3, <1>5 DEF Return
<1>6. ASSUME UNCHANGED call PROVE SeenBy(w)'
  BY <1>2, <1>6
<1>7. ASSUME NEW c \in Callers, \/ Reserve(c) \/ ShutdownClears(c) \/ PrepareLooks(c) \/ StopRemoves(c) \/ CallerLeaves(c)
      PROVE  SeenBy(w)'
  BY <1>5, <1>7 DEF Reserve, ShutdownClears, PrepareLooks, StopRemoves, CallerLeaves
<1>8. ASSUME NEW c \in Callers, NEW h \in Handles, PrepareRefused(c, h) \/ SubmitRefused(c, h) PROVE SeenBy(w)'
  BY <1>5, <1>8 DEF PrepareRefused, SubmitRefused
<1>9. ASSUME NEW c \in Callers, NEW h \in Handles, Submit(c, h) \/ Stop(c, h) PROVE SeenBy(w)'
  <2>1. CASE \E op \in {"command", "stop"} : Wait(c, [Idle EXCEPT !.op = op, !.h = h])
    BY <1>0, <1>2, <1>4, <2>1 DEF Wait, Idle
  <2> QED BY <1>5, <1>9, <2>1 DEF Submit, Stop
<1>10. ASSUME NEW c \in Callers, NEW h \in Handles, NEW p \in Plans, PrepareFirst(c, h, p) \/ PrepareAgain(c, h, p)
       PROVE  SeenBy(w)'
  <2>1. CASE Wait(c, [Idle EXCEPT !.op = "prepare", !.h = h, !.plan = p])
    BY <1>0, <1>2, <1>4, <2>1 DEF Wait, Idle
  <2> QED BY <1>5, <1>10, <2>1 DEF PrepareFirst, PrepareAgain
<1>11. ASSUME NEW c \in Callers, StopLooks(c) PROVE SeenBy(w)'
  <2>1. CASE /\ call[c].op = "stop" /\ slot[call[c].h].closed
             /\ call' = [call EXCEPT ![c].op = "remove"] /\ sup' = sup
    <3>1. call[c].h \in Handles
      BY <2>1 DEF Seen, SeenBy
    <3>2. sup[call[c].h] \in {"ending", "gone"}
      BY <2>1, <3>1 DEF Tied, TiedTo
    <3>3. CASE d = c
      <4>1. w.op = "remove" /\ w.h = call[c].h
        BY <1>0, <2>1, <3>3 DEF Call
      <4> QED BY <2>1, <3>1, <3>2, <4>1 DEF SeenBy
    <3>4. CASE d # c
      BY <1>0, <1>2, <2>1, <3>4
    <3> QED BY <3>3, <3>4
  <2> QED BY <1>5, <1>11, <2>1 DEF StopLooks, supervisorVars
<1>12. ASSUME NEW c \in Callers, Shutdown(c) PROVE SeenBy(w)'
  <2>1. CASE d = c
    <3>1. w.op = "shutdown" /\ w.left = {h \in book : slot[h].plan # None}
      BY <1>0, <1>12, <2>1 DEF Shutdown, Wait, Idle
    <3>2. \A h \in book : sup[h] \in Quiet \/ h \in w.left
      BY <1>0, <3>1 DEF Tied, TiedTo, Quiet
    <3> QED BY <1>12, <3>1, <3>2 DEF SeenBy, Shutdown, supervisorVars
  <2>2. CASE d # c
    BY <1>0, <1>2, <1>12, <2>2 DEF Shutdown, Wait
  <2> QED BY <2>1, <2>2
<1>13. ASSUME NEW c \in Callers, ShutdownLooks(c) PROVE SeenBy(w)'
  <2>0. call[c].op = "shutdown" /\ SeenBy(call[c]) /\ UNCHANGED <<terminal, book, sup>>
    BY <1>13 DEF ShutdownLooks, Seen, bookVars, supervisorVars
  <2>1. CASE d # c
    BY <1>0, <1>2, <1>13, <2>1 DEF ShutdownLooks, Return
  <2>2. CASE d = c /\ \E k : Return(c, k)
    BY <1>5, <2>2
  <2>3. CASE d = c /\ call[c].left = {} /\ call[c].ok /\ call' = [call EXCEPT ![c].op = "clear"]
    <3>1. w.op = "clear"
      BY <1>0, <2>3 DEF Call
    <3> QED BY <2>0, <2>3, <3>1 DEF SeenBy
  <2>4. ASSUME d = c, NEW h \in call[c].left,
               call' = [call EXCEPT ![c].left = @ \ {h}, ![c].ok = @ /\ slot[h].closed]
        PROVE  SeenBy(w)'
    <3>1. w.op = "shutdown" /\ w.left = call[c].left \ {h} /\ (w.ok => call[c].ok /\ slot[h].closed)
      BY <1>0, <2>0, <2>4 DEF Call
    <3>2. h \in Handles
      BY <1>0, <2>4 DEF Call
    <3>3. slot[h].closed => sup[h] \in Quiet
      BY <3>2 DEF Tied, TiedTo, Quiet
    <3> QED BY <2>0, <3>1, <3>3 DEF SeenBy
  <2> QED BY <1>13, <2>1, <2>2, <2>3, <2>4 DEF ShutdownLooks
<1>14. ASSUME NEW S, NEW k, Tell(S, k) PROVE SeenBy(w)'
  BY <1>2, <1>3, <1>14 DEF Tell
<1>15. ASSUME NEW h \in Handles, Replies(h) \/ Panics(h) \/ Ends(h) PROVE SeenBy(w)'
  BY <1>14, <1>15 DEF Replies, Panics, Ends
<1>16. ASSUME NEW h \in Handles,
              \/ Prepares(h) \/ Prepared(h) \/ Ticks(h) \/ Takes(h) \/ Works(h) \/ SeesStop(h)
              \/ Cleans(h) \/ CleanFails(h) \/ Closes(h) \/ Lapse(h)
       PROVE  SeenBy(w)'
  BY <1>6, <1>16 DEF Prepares, Prepared, Ticks, Takes, Works, SeesStop, Cleans, CleanFails, Closes,
                     Lapse, managerVars
<1>17. CASE UNCHANGED vars
  BY <1>6, <1>17 DEF vars
<1>18. QED
  BY <1>7, <1>8, <1>9, <1>10, <1>11, <1>12, <1>13, <1>15, <1>16, <1>17 DEF Next, Caller, Supervisor

LEMMA AdmittedStep == BookOK /\ Admitted /\ [Next]_vars => Admitted'
<1> SUFFICES ASSUME BookOK, Admitted, [Next]_vars PROVE Admitted'
  OBVIOUS
<1>0. /\ IsFiniteSet(book) /\ issued \in Nat /\ book \subseteq 1..issued /\ Capacity \in Nat
      /\ Cardinality(book) \in Nat /\ Cardinality(book) <= Capacity
  <2>1. issued \in Nat /\ book \subseteq 1..issued /\ Capacity \in Nat
    BY ManagerAssumption DEF BookOK
  <2>2. IsFiniteSet(1..issued)
    BY <2>1, FS_Interval, 1 \in Int, issued \in Int
  <2>3. IsFiniteSet(book)
    BY <2>1, <2>2, FS_Subset
  <2> QED BY <2>1, <2>3, FS_CardinalityType DEF Admitted
<1>1. ASSUME book' \subseteq book PROVE Admitted'
  <2>1. Cardinality(book') <= Cardinality(book) /\ Cardinality(book') \in Nat
    BY <1>0, <1>1, FS_Subset, FS_CardinalityType
  <2> QED BY <1>0, <2>1 DEF Admitted
<1>2. ASSUME NEW c \in Callers, Reserve(c) PROVE Admitted'
  <2>1. Retained \subseteq book
    BY DEF Retained
  <2>2. CASE Cardinality(Retained) < Capacity /\ book' = Retained \cup {issued + 1}
    <3>1. IsFiniteSet(Retained)
      BY <1>0, <2>1, FS_Subset
    <3>2. issued + 1 \notin 1..issued
      BY <1>0
    <3>3. issued + 1 \notin Retained
      BY <1>0, <2>1, <3>2
    <3>4. Cardinality(book') = Cardinality(Retained) + 1 /\ Cardinality(Retained) \in Nat
      BY <2>2, <3>1, <3>3, FS_AddElement, FS_CardinalityType
    <3> QED BY <1>0, <2>2, <3>4 DEF Admitted
  <2> QED BY <1>1, <1>2, <2>1, <2>2 DEF Reserve, bookVars
<1>3. ASSUME NEW c \in Callers, \/ Shutdown(c) \/ ShutdownLooks(c) \/ ShutdownClears(c)
                                \/ PrepareLooks(c) \/ StopLooks(c) \/ StopRemoves(c) \/ CallerLeaves(c)
      PROVE  Admitted'
  BY <1>1, <1>3 DEF Shutdown, ShutdownLooks, ShutdownClears, PrepareLooks, StopLooks, StopRemoves,
                    CallerLeaves, bookVars
<1>4. ASSUME NEW c \in Callers, NEW h \in Handles,
             PrepareRefused(c, h) \/ SubmitRefused(c, h) \/ Submit(c, h) \/ Stop(c, h)
      PROVE  Admitted'
  BY <1>1, <1>4 DEF PrepareRefused, SubmitRefused, Submit, Stop, bookVars
<1>5. ASSUME NEW c \in Callers, NEW h \in Handles, NEW p \in Plans, PrepareFirst(c, h, p) \/ PrepareAgain(c, h, p)
      PROVE  Admitted'
  BY <1>1, <1>5 DEF PrepareFirst, PrepareAgain, bookVars
<1>6. ASSUME NEW h \in Handles, Supervisor(h) \/ Lapse(h) PROVE Admitted'
  BY <1>1, <1>6 DEF Supervisor, Prepares, Prepared, Ticks, Takes, Works, Replies, SeesStop, Panics,
                    Cleans, CleanFails, Closes, Ends, Lapse, managerVars, bookVars
<1>7. CASE UNCHANGED vars
  BY <1>1, <1>7 DEF vars
<1>8. QED
  BY <1>2, <1>3, <1>4, <1>5, <1>6, <1>7 DEF Next, Caller

-----------------------------------------------------------------------------
(* Commands and their callers.                                              *)

\* No call starts or stops waiting for a command.
KeepsCommands ==
    \A c \in Callers : /\ call[c].op = "command" => call'[c] = call[c]
                       /\ call'[c].op = "command" => call[c].op = "command"

LEMMA WaitingStays ==
    ASSUME TypesOK, Seen, Waiting, KeepsCommands, UNCHANGED <<queue, busy>>,
           \A h \in Handles : \/ sup'[h] = sup[h]
                              \/ sup[h] # "working" /\ sup'[h] \notin {"none", "gone"}
    PROVE  Waiting'
<1>1. ASSUME NEW h \in Handles PROVE Lined(h)'
  <2>1. Lined(h) /\ busy[h] \in Callers \cup {None} /\ (\A i \in DOMAIN queue[h] : queue[h][i] \in Callers \cup {None})
    BY ElementOfSeq DEF Waiting, TypesOK, SupsOK, QueuesOK
  <2>2. ASSUME NEW c \in Callers, call[c].op = "command" /\ call[c].h = h
        PROVE  call'[c].op = "command" /\ call'[c].h = h
    BY <2>2 DEF KeepsCommands
  <2> QED BY <2>1, <2>2, ManagerAssumption DEF Lined
<1>2. ASSUME NEW c \in Callers PROVE Awaited(c)'
  BY DEF Waiting, Awaited, KeepsCommands
<1>3. QED
  BY <1>1, <1>2 DEF Waiting

\* A caller that waits for no command is in no channel.
LEMMA InNoChannel ==
    ASSUME TypesOK, Waiting, NEW c \in Callers, NEW g \in Handles, call[c].op # "command" \/ call[c].h # g
    PROVE  busy[g] # c /\ \A i \in DOMAIN queue[g] : queue[g][i] # c
BY ManagerAssumption DEF Waiting, Lined

LEMMA WaitingSubmit ==
    ASSUME TypesOK, Tied, Waiting, NEW c \in Callers, NEW h \in Handles, Submit(c, h)
    PROVE  Waiting'
<1>0. /\ call[c].op = "idle" /\ call' = [call EXCEPT ![c] = [Idle EXCEPT !.op = "command", !.h = h]]
      /\ queue' = [queue EXCEPT ![h] = Append(queue[h], c)] /\ UNCHANGED <<sup, busy>>
      /\ ~slot[h].closed /\ slot[h].plan # None
  BY DEF Submit, Ready, Wait, Preparable
<1>1. /\ call \in [Callers -> Call] /\ queue \in [Handles -> Seq(Callers \cup {None})]
      /\ busy \in [Handles -> Callers \cup {None}] /\ sup[h] \notin {"none", "gone"}
  BY <1>0 DEF TypesOK, CallsOK, QueuesOK, SupsOK, Tied, TiedTo
<1>2. /\ call'[c].op = "command" /\ call'[c].h = h
      /\ \A d \in Callers \ {c} : call'[d] = call[d]
      /\ queue'[h] = Append(queue[h], c) /\ \A g \in Handles \ {h} : queue'[g] = queue[g]
  BY <1>0, <1>1 DEF Idle
<1>3. \A g \in Handles : busy[g] # c /\ \A i \in DOMAIN queue[g] : queue[g][i] # c
  BY <1>0, InNoChannel
<1>4. PICK n \in Nat : n = Len(queue[h])
  BY <1>1, LenProperties
<1>5. /\ DOMAIN queue[h] = 1..n /\ DOMAIN queue'[h] = 1..(n + 1) /\ queue'[h][n + 1] = c
      /\ \A i \in 1..n : queue'[h][i] = queue[h][i]
  BY <1>1, <1>2, <1>4, AppendProperties, LenProperties
<1>6. ASSUME NEW g \in Handles PROVE Lined(g)'
  <2>1. Lined(g) /\ busy[g] \in Callers \cup {None} /\ (\A i \in DOMAIN queue[g] : queue[g][i] \in Callers \cup {None})
    BY <1>1, ElementOfSeq DEF Waiting
  <2>2. CASE g # h
    <3>1. queue'[g] = queue[g] /\ busy'[g] = busy[g] /\ sup'[g] = sup[g]
      BY <1>0, <1>2, <2>2
    <3> QED BY <1>2, <1>3, <2>1, <3>1 DEF Lined
  <2>3. CASE g = h
    <3>1. busy'[h] = busy[h] /\ sup'[h] = sup[h]
      BY <1>0
    <3>2. ASSUME NEW i \in 1..(n + 1), queue'[h][i] # None
          PROVE  /\ call'[queue'[h][i]].op = "command" /\ call'[queue'[h][i]].h = h
                 /\ busy'[h] # queue'[h][i]
                 /\ \A j \in 1..(n + 1) : queue'[h][j] = queue'[h][i] => j = i
      <4>1. CASE i = n + 1
        BY <1>2, <1>3, <1>5, <3>1, <4>1
      <4>2. CASE i \in 1..n
        <5>1. /\ queue'[h][i] = queue[h][i] /\ queue[h][i] # c /\ queue[h][i] \in Callers
              /\ call'[queue[h][i]] = call[queue[h][i]]
          BY <1>2, <1>3, <1>5, <2>1, <2>3, <3>2, <4>2
        <5>2. call[queue[h][i]].op = "command" /\ call[queue[h][i]].h = h /\ busy[h] # queue[h][i]
          BY <1>5, <2>1, <2>3, <3>2, <4>2, <5>1 DEF Lined
        <5>3. \A j \in 1..n : queue[h][j] = queue[h][i] => j = i
          BY <1>5, <2>1, <2>3, <3>2, <4>2, <5>1 DEF Lined
        <5>4. \A j \in 1..(n + 1) : j \in 1..n \/ j = n + 1
          OBVIOUS
        <5> QED BY <1>5, <3>1, <5>1, <5>2, <5>3, <5>4
      <4> QED BY <4>1, <4>2
    <3>3. busy[h] # None => sup[h] = "working" /\ call'[busy[h]].op = "command" /\ call'[busy[h]].h = h
      BY <1>2, <1>3, <2>1, <2>3 DEF Lined
    <3> QED BY <1>1, <1>5, <2>3, <3>1, <3>2, <3>3 DEF Lined
  <2> QED BY <2>2, <2>3
<1>7. ASSUME NEW d \in Callers PROVE Awaited(d)'
  <2>1. CASE d = c
    BY <1>2, <1>4, <1>5, <2>1 DEF Awaited
  <2>2. CASE d # c
    <3>1. call'[d] = call[d] /\ Awaited(d) /\ busy' = busy
      BY <1>0, <1>2, <2>2 DEF Waiting
    <3>2. ASSUME NEW g, NEW i \in DOMAIN queue[g], queue[g][i] = d, g = call[d].h
          PROVE  i \in DOMAIN queue'[g] /\ queue'[g][i] = d
      <4>1. CASE g = h
        BY <1>5, <3>2, <4>1
      <4>2. CASE g # h
        BY <1>0, <1>1, <3>2, <4>2
      <4> QED BY <4>1, <4>2
    <3> QED BY <3>1, <3>2 DEF Awaited
  <2> QED BY <2>1, <2>2
<1>8. QED
  BY <1>6, <1>7 DEF Waiting

\* The supervisor answers the caller it serves, or drops its reply sender.
LEMMA WaitingAnswered ==
    ASSUME TypesOK, Seen, Waiting, NEW h \in Handles, NEW l \in Stages \ {"none", "gone"}, NEW k,
           sup' = [sup EXCEPT ![h] = l], busy' = [busy EXCEPT ![h] = None], Tell({busy[h]}, k),
           queue' = queue
    PROVE  Waiting'
<1>0. /\ call \in [Callers -> Call] /\ queue \in [Handles -> Seq(Callers \cup {None})]
      /\ sup \in [Handles -> Stages] /\ busy \in [Handles -> Callers \cup {None}]
  BY DEF TypesOK, CallsOK, QueuesOK, SupsOK
<1>1. /\ \A c \in Callers : c # busy[h] => call'[c] = call[c]
      /\ \A c \in Callers : c = busy[h] => call'[c].op = "idle"
      /\ busy'[h] = None /\ sup'[h] = l
      /\ \A g \in Handles \ {h} : busy'[g] = busy[g] /\ sup'[g] = sup[g]
  BY <1>0 DEF Tell, Idle
<1>2. ASSUME NEW g \in Handles PROVE Lined(g)'
  <2>1. Lined(g) /\ Lined(h) /\ busy[g] \in Callers \cup {None} /\ (\A i \in DOMAIN queue[g] : queue[g][i] \in Callers \cup {None})
    BY <1>0, ElementOfSeq DEF Waiting
  <2>2. ASSUME NEW i \in DOMAIN queue[g], queue[g][i] # None
        PROVE  queue[g][i] # busy[h] /\ call'[queue[g][i]] = call[queue[g][i]]
    BY <1>1, <2>1, <2>2 DEF Lined
  <2>3. CASE g = h
    BY <1>1, <2>1, <2>2, <2>3 DEF Lined
  <2>4. CASE g # h
    <3>1. busy[g] # None => busy[g] # busy[h]
      BY <2>1, <2>4 DEF Lined
    <3>2. busy[g] # None => call'[busy[g]] = call[busy[g]]
      BY <1>1, <2>1, <3>1
    <3> QED BY <1>1, <2>1, <2>2, <2>4, <3>2 DEF Lined
  <2> QED BY <2>3, <2>4
<1>3. ASSUME NEW d \in Callers, d # busy[h] PROVE Awaited(d)'
  <2>1. Awaited(d) /\ call'[d] = call[d] /\ (call[d].op = "command" => call[d].h \in Handles)
    BY <1>1, <1>3 DEF Waiting, Seen, SeenBy
  <2>2. \A g \in Handles : busy[g] = d => busy'[g] = d
    BY <1>1, <1>3
  <2> QED BY <2>1, <2>2 DEF Awaited
<1>4. ASSUME NEW d \in Callers, d = busy[h] PROVE Awaited(d)'
  BY <1>1, <1>4 DEF Awaited
<1>5. QED
  BY <1>2, <1>3, <1>4 DEF Waiting

LEMMA WaitingEnds == ASSUME TypesOK, Seen, Waiting, NEW h \in Handles, Ends(h) PROVE Waiting'
<1>0. /\ call \in [Callers -> Call] /\ queue \in [Handles -> Seq(Callers \cup {None})]
      /\ sup \in [Handles -> Stages] /\ busy \in [Handles -> Callers \cup {None}]
      /\ Lined(h) /\ busy[h] = None
  BY DEF TypesOK, CallsOK, QueuesOK, SupsOK, Waiting, Lined, Ends
<1> DEFINE told_here == {queue[h][i] : i \in DOMAIN queue[h]}
<1>1. /\ \A c \in Callers : c \notin told_here => call'[c] = call[c]
      /\ \A c \in told_here \cap Callers : call'[c].op = "idle"
      /\ queue'[h] = <<>> /\ sup'[h] = "gone" /\ busy' = busy
      /\ \A g \in Handles \ {h} : queue'[g] = queue[g] /\ sup'[g] = sup[g]
  BY <1>0 DEF Ends, Tell, Idle
<1>2. \A c \in told_here \cap Callers : call[c].op = "command" /\ call[c].h = h
  BY <1>0, ManagerAssumption DEF Lined
<1>3. ASSUME NEW c \in Callers, call[c].h # h PROVE call'[c] = call[c]
  BY <1>1, <1>2, <1>3
<1> HIDE DEF told_here
<1>4. ASSUME NEW g \in Handles PROVE Lined(g)'
  <2>1. Lined(g) /\ busy[g] \in Callers \cup {None} /\ (\A i \in DOMAIN queue[g] : queue[g][i] \in Callers \cup {None})
    BY <1>0, ElementOfSeq DEF Waiting
  <2>2. CASE g = h
    BY <1>0, <1>1, <2>2 DEF Lined
  <2>3. CASE g # h
    <3>1. ASSUME NEW c \in Callers, call[c].op = "command" /\ call[c].h = g
          PROVE  call'[c].op = "command" /\ call'[c].h = g
      BY <1>3, <2>3, <3>1
    <3> QED BY <1>1, <2>1, <2>3, <3>1 DEF Lined
  <2> QED BY <2>2, <2>3
<1>5. ASSUME NEW d \in Callers PROVE Awaited(d)'
  <2>1. CASE d \in told_here
    BY <1>1, <2>1 DEF Awaited
  <2>2. CASE d \notin told_here
    <3>1. Awaited(d) /\ call'[d] = call[d] /\ (call[d].op = "command" => call[d].h \in Handles)
      BY <1>1, <2>2 DEF Waiting, Seen, SeenBy
    <3>2. CASE call[d].op = "command" /\ call[d].h = h
      BY <1>0, <2>2, <3>1, <3>2, ManagerAssumption DEF Awaited, told_here
    <3>3. CASE call[d].op # "command" \/ call[d].h # h
      BY <1>1, <3>1, <3>3 DEF Awaited
    <3> QED BY <3>2, <3>3
  <2> QED BY <2>1, <2>2
<1>6. QED
  BY <1>4, <1>5 DEF Waiting

LEMMA WaitingLeaves == ASSUME TypesOK, Seen, Waiting, NEW c \in Callers, CallerLeaves(c) PROVE Waiting'
<1>0. /\ call \in [Callers -> Call] /\ queue \in [Handles -> Seq(Callers \cup {None})]
      /\ busy \in [Handles -> Callers \cup {None}] /\ c # None
  BY ManagerAssumption DEF TypesOK, CallsOK, QueuesOK, SupsOK
<1>1. /\ call'[c].op = "idle" /\ \A d \in Callers \ {c} : call'[d] = call[d]
      /\ \A g \in Handles : busy'[g] = IF busy[g] = c THEN None ELSE busy[g]
      /\ sup' = sup
  BY <1>0 DEF CallerLeaves, Return, Idle
<1>2. ASSUME NEW g \in Handles
      PROVE  /\ DOMAIN queue'[g] = DOMAIN queue[g]
             /\ \A i \in DOMAIN queue[g] : queue'[g][i] = IF queue[g][i] = c THEN None ELSE queue[g][i]
  BY DEF CallerLeaves
<1>3. ASSUME NEW g \in Handles PROVE Lined(g)'
  <2>1. Lined(g) /\ busy[g] \in Callers \cup {None} /\ (\A i \in DOMAIN queue[g] : queue[g][i] \in Callers \cup {None})
    BY <1>0, ElementOfSeq DEF Waiting
  <2>2. ASSUME NEW i \in DOMAIN queue[g], queue'[g][i] # None
        PROVE  /\ call'[queue'[g][i]].op = "command" /\ call'[queue'[g][i]].h = g
               /\ busy'[g] # queue'[g][i]
               /\ \A j \in DOMAIN queue[g] : queue'[g][j] = queue'[g][i] => j = i
    <3>1. queue'[g][i] = queue[g][i] /\ queue[g][i] # c /\ queue[g][i] # None /\ queue[g][i] \in Callers
      BY <1>2, <2>1, <2>2
    <3>2. call'[queue[g][i]] = call[queue[g][i]]
      BY <1>1, <3>1
    <3>3. \A j \in DOMAIN queue[g] : queue'[g][j] = queue[g][i] => queue[g][j] = queue[g][i]
      BY <1>2, <3>1
    <3> QED BY <1>1, <2>1, <3>1, <3>2, <3>3 DEF Lined
  <2>3. busy'[g] # None => sup'[g] = "working" /\ call'[busy'[g]].op = "command" /\ call'[busy'[g]].h = g
    BY <1>0, <1>1, <2>1 DEF Lined
  <2>4. ASSUME queue[g] = <<>> PROVE queue'[g] = <<>>
    BY <2>4 DEF CallerLeaves
  <2> QED BY <1>1, <1>2, <2>1, <2>2, <2>3, <2>4 DEF Lined
<1>4. ASSUME NEW d \in Callers PROVE Awaited(d)'
  <2>1. CASE d = c
    BY <1>1, <2>1 DEF Awaited
  <2>2. CASE d # c
    <3>1. Awaited(d) /\ call'[d] = call[d] /\ (call[d].op = "command" => call[d].h \in Handles)
      BY <1>1, <2>2 DEF Waiting, Seen, SeenBy
    <3>2. ASSUME NEW g \in Handles
          PROVE  /\ busy[g] = d => busy'[g] = d
                 /\ \A i \in DOMAIN queue[g] : queue[g][i] = d => i \in DOMAIN queue'[g] /\ queue'[g][i] = d
      BY <1>1, <1>2, <2>2
    <3> QED BY <3>1, <3>2 DEF Awaited
  <2> QED BY <2>1, <2>2
<1>5. QED
  BY <1>3, <1>4 DEF Waiting

LEMMA WaitingTakes == ASSUME TypesOK, Seen, Waiting, NEW h \in Handles, Takes(h) PROVE Waiting'
<1>0. /\ call \in [Callers -> Call] /\ queue \in [Handles -> Seq(Callers \cup {None})]
      /\ sup \in [Handles -> Stages] /\ busy \in [Handles -> Callers \cup {None}]
      /\ Lined(h) /\ busy[h] = None /\ queue[h] # <<>> /\ sup[h] = "serving" /\ UNCHANGED call
  BY DEF TypesOK, CallsOK, QueuesOK, SupsOK, Waiting, Lined, Takes, managerVars
<1>1. PICK n \in Nat : n = Len(queue[h]) /\ n > 0
  BY <1>0, LenProperties, EmptySeq
<1>2. /\ DOMAIN queue[h] = 1..n /\ DOMAIN queue'[h] = 1..(n - 1) /\ Head(queue[h]) = queue[h][1]
      /\ \A i \in 1..(n - 1) : queue'[h][i] = queue[h][i + 1]
  <2>1. queue'[h] = Tail(queue[h]) /\ queue[h] \in Seq(Callers \cup {None})
    BY <1>0 DEF Takes
  <2>2. Tail(queue[h]) \in Seq(Callers \cup {None}) /\ Len(Tail(queue[h])) = n - 1
    BY <1>0, <1>1, <2>1, HeadTailProperties
  <2>3. DOMAIN queue[h] = 1..n /\ DOMAIN queue'[h] = 1..(n - 1)
    BY <1>1, <2>1, <2>2, LenProperties
  <2>4. \A i \in 1..(n - 1) : Tail(queue[h])[i] = queue[h][i + 1]
    BY <1>0, <1>1, <2>1, HeadTailProperties
  <2> QED BY <2>1, <2>3, <2>4
<1>3. /\ busy'[h] = queue[h][1] /\ sup'[h] \in {"serving", "working"}
      /\ busy'[h] # None => sup'[h] = "working"
      /\ \A g \in Handles \ {h} : queue'[g] = queue[g] /\ busy'[g] = busy[g] /\ sup'[g] = sup[g]
  BY <1>0, <1>2 DEF Takes
<1>4. ASSUME NEW g \in Handles PROVE Lined(g)'
  <2>1. CASE g # h
    BY <1>0, <1>3, <2>1 DEF Waiting, Lined
  <2>2. ASSUME NEW i \in 1..(n - 1), queue'[h][i] # None
        PROVE  /\ call[queue'[h][i]].op = "command" /\ call[queue'[h][i]].h = h
               /\ busy'[h] # queue'[h][i]
               /\ \A j \in 1..(n - 1) : queue'[h][j] = queue'[h][i] => j = i
    <3>1. i + 1 \in 1..n /\ 1 \in 1..n /\ i + 1 # 1 /\ \A j \in 1..(n - 1) : j + 1 \in 1..n
      BY <1>1
    <3>0. queue'[h][i] = queue[h][i + 1] /\ queue[h][i + 1] # None
      BY <1>2, <2>2
    <3>2. /\ call[queue[h][i + 1]].op = "command" /\ call[queue[h][i + 1]].h = h
          /\ \A j \in 1..n : queue[h][j] = queue[h][i + 1] => j = i + 1
      BY <1>0, <1>2, <3>0, <3>1 DEF Lined
    <3>3. \A j \in 1..(n - 1) : queue[h][j + 1] = queue[h][i + 1] => j = i
      BY <3>1, <3>2
    <3> QED BY <1>2, <1>3, <3>0, <3>1, <3>2, <3>3
  <2>3. busy'[h] # None => call[busy'[h]].op = "command" /\ call[busy'[h]].h = h
    <3>1. 1 \in DOMAIN queue[h]
      BY <1>1, <1>2
    <3> QED BY <1>0, <1>3, <3>1 DEF Lined
  <2>4. Lined(h)'
    BY <1>0, <1>2, <1>3, <2>2, <2>3 DEF Lined
  <2> QED BY <2>1, <2>4
<1>5. ASSUME NEW d \in Callers PROVE Awaited(d)'
  <2>1. Awaited(d) /\ call'[d] = call[d] /\ (call[d].op = "command" => call[d].h \in Handles)
    BY <1>0 DEF Waiting, Seen, SeenBy
  <2>2. CASE call[d].op = "command" /\ call[d].h = h
    <3>1. PICK i \in 1..n : queue[h][i] = d
      BY <1>0, <1>2, <2>1, <2>2, ManagerAssumption DEF Awaited
    <3>2. CASE i = 1
      BY <1>3, <2>1, <2>2, <3>1, <3>2 DEF Awaited
    <3>3. CASE i # 1
      <4>1. i - 1 \in 1..(n - 1) /\ (i - 1) + 1 = i
        BY <1>1, <3>3
      <4>2. queue'[h][i - 1] = d
        BY <1>2, <3>1, <4>1
      <4> QED BY <1>2, <2>1, <2>2, <4>1, <4>2 DEF Awaited
    <3> QED BY <3>2, <3>3
  <2>3. CASE call[d].op # "command" \/ call[d].h # h
    BY <1>3, <2>1, <2>3 DEF Awaited
  <2> QED BY <2>2, <2>3
<1>6. QED
  BY <1>4, <1>5 DEF Waiting

LEMMA WaitingStep == TypesOK /\ Tied /\ Seen /\ Waiting /\ [Next]_vars => Waiting'
<1> SUFFICES ASSUME TypesOK, Tied, Seen, Waiting, [Next]_vars PROVE Waiting'
  OBVIOUS
<1>0. call \in [Callers -> Call] /\ sup \in [Handles -> Stages]
  BY DEF TypesOK, CallsOK, SupsOK
<1>1. ASSUME NEW c \in Callers, NEW w, call' = [call EXCEPT ![c] = w],
             call[c].op # "command", w.op # "command"
      PROVE  KeepsCommands
  BY <1>0, <1>1 DEF KeepsCommands
<1>2. ASSUME NEW c \in Callers, NEW k, Return(c, k), call[c].op # "command" PROVE KeepsCommands
  <2>1. Idle.op # "command"
    BY DEF Idle
  <2> QED BY <1>1, <1>2, <2>1 DEF Return
<1>3. ASSUME UNCHANGED <<sup, queue, busy>>, KeepsCommands PROVE Waiting'
  BY <1>3, WaitingStays
<1>4. ASSUME UNCHANGED <<sup, queue, busy, call>> PROVE Waiting'
  BY <1>3, <1>4 DEF KeepsCommands
<1>5. ASSUME NEW c \in Callers, Reserve(c) \/ StopRemoves(c) \/ ShutdownClears(c) \/ PrepareLooks(c) PROVE Waiting'
  <2>1. call[c].op # "command" /\ \E k : Return(c, k)
    BY <1>5 DEF Reserve, StopRemoves, ShutdownClears, PrepareLooks, Ready
  <2> QED BY <1>2, <1>3, <1>5, <2>1 DEF Reserve, StopRemoves, ShutdownClears, PrepareLooks, supervisorVars
<1>6. ASSUME NEW c \in Callers, NEW h \in Handles, PrepareRefused(c, h) \/ SubmitRefused(c, h) PROVE Waiting'
  <2>1. call[c].op # "command" /\ \E k : Return(c, k)
    BY <1>6 DEF PrepareRefused, SubmitRefused, Ready
  <2> QED BY <1>2, <1>3, <1>6, <2>1 DEF PrepareRefused, SubmitRefused, supervisorVars
<1>7. ASSUME NEW c \in Callers, NEW h \in Handles, Stop(c, h) PROVE Waiting'
  <2>1. CASE Wait(c, [Idle EXCEPT !.op = "stop", !.h = h])
    <3>1. [Idle EXCEPT !.op = "stop", !.h = h].op # "command"
      BY DEF Idle
    <3>2. KeepsCommands
      BY <1>1, <1>7, <2>1, <3>1 DEF Stop, Ready, Wait
    <3> QED BY <1>3, <1>7, <3>2 DEF Stop, supervisorVars
  <2>2. CASE \E k : Return(c, k)
    BY <1>2, <1>3, <1>7, <2>2 DEF Stop, Ready, supervisorVars
  <2> QED BY <1>7, <2>1, <2>2 DEF Stop
<1>8. ASSUME NEW c \in Callers, NEW h \in Handles, NEW p \in Plans, PrepareAgain(c, h, p) PROVE Waiting'
  <2>1. CASE Wait(c, [Idle EXCEPT !.op = "prepare", !.h = h, !.plan = p])
    <3>1. [Idle EXCEPT !.op = "prepare", !.h = h, !.plan = p].op # "command"
      BY DEF Idle
    <3>2. KeepsCommands
      BY <1>1, <1>8, <2>1, <3>1 DEF PrepareAgain, Ready, Wait
    <3> QED BY <1>3, <1>8, <3>2 DEF PrepareAgain, supervisorVars
  <2>2. CASE \E k : Return(c, k)
    BY <1>2, <1>3, <1>8, <2>2 DEF PrepareAgain, Ready, supervisorVars
  <2> QED BY <1>8, <2>1, <2>2 DEF PrepareAgain
<1>9. ASSUME NEW c \in Callers, NEW h \in Handles, NEW p \in Plans, PrepareFirst(c, h, p) PROVE Waiting'
  <2>1. KeepsCommands
    <3>1. [Idle EXCEPT !.op = "prepare", !.h = h, !.plan = p].op # "command"
      BY DEF Idle
    <3> QED BY <1>1, <1>9, <3>1 DEF PrepareFirst, Ready, Wait
  <2>2. sup[h] = "none" /\ sup' = [sup EXCEPT ![h] = "preparing"] /\ UNCHANGED <<queue, busy>>
    BY <1>9 DEF PrepareFirst, Tied, TiedTo
  <2> QED BY <1>0, <2>1, <2>2, WaitingStays
<1>10. ASSUME NEW c \in Callers, Shutdown(c) PROVE Waiting'
  <2>1. KeepsCommands
    <3>1. [Idle EXCEPT !.op = "shutdown", !.left = {h \in book : slot[h].plan # None}].op # "command"
      BY DEF Idle
    <3> QED BY <1>1, <1>10, <3>1 DEF Shutdown, Ready, Wait
  <2> QED BY <1>3, <1>10, <2>1 DEF Shutdown, supervisorVars
<1>11. ASSUME NEW c \in Callers, StopLooks(c) \/ ShutdownLooks(c) PROVE Waiting'
  <2>1. call[c].op # "command"
    BY <1>11 DEF StopLooks, ShutdownLooks
  <2>2. CASE \E k : Return(c, k)
    BY <1>2, <1>3, <1>11, <2>1, <2>2 DEF StopLooks, ShutdownLooks, supervisorVars
  <2>3. CASE /\ UNCHANGED <<sup, queue, busy>>
             /\ \E op \in {"remove", "clear"} : call' = [call EXCEPT ![c].op = op]
    <3>1. call'[c].op # "command" /\ \A d \in Callers \ {c} : call'[d] = call[d]
      BY <1>0, <2>3 DEF Call
    <3> QED BY <1>3, <2>1, <2>3, <3>1 DEF KeepsCommands
  <2>4. ASSUME NEW h \in call[c].left, UNCHANGED <<sup, queue, busy>>,
               call' = [call EXCEPT ![c].left = @ \ {h}, ![c].ok = @ /\ slot[h].closed]
        PROVE  Waiting'
    <3>1. call'[c].op = call[c].op /\ \A d \in Callers \ {c} : call'[d] = call[d]
      BY <1>0, <2>4 DEF Call
    <3> QED BY <1>3, <2>1, <2>4, <3>1 DEF KeepsCommands
  <2> QED BY <1>11, <2>2, <2>3, <2>4 DEF StopLooks, ShutdownLooks, supervisorVars
<1>12. ASSUME NEW h \in Handles, Prepares(h) \/ Ticks(h) \/ Works(h) \/ CleanFails(h) \/ Lapse(h) PROVE Waiting'
  BY <1>4, <1>12 DEF Prepares, Ticks, Works, CleanFails, Lapse, managerVars, supervisorVars
<1>13. ASSUME NEW h \in Handles, Prepared(h) \/ SeesStop(h) \/ Cleans(h) \/ Closes(h) PROVE Waiting'
  <2>1. /\ UNCHANGED <<queue, busy, call>> /\ sup[h] # "working"
        /\ \E l \in {"serving", "closing", "cleaned", "ending"} : sup' = [sup EXCEPT ![h] = l]
    BY <1>13 DEF Prepared, SeesStop, Cleans, Closes, managerVars
  <2>2. KeepsCommands
    BY <2>1 DEF KeepsCommands
  <2> QED BY <1>0, <2>1, <2>2, WaitingStays
<1>14. ASSUME NEW h \in Handles, Replies(h) \/ Panics(h) PROVE Waiting'
  <2>1. /\ \E l \in {"serving", "closing"} : sup' = [sup EXCEPT ![h] = l]
        /\ busy' = [busy EXCEPT ![h] = None] /\ queue' = queue /\ \E k : Tell({busy[h]}, k)
    BY <1>14 DEF Replies, Panics
  <2>2. {"serving", "closing"} \subseteq Stages \ {"none", "gone"}
    BY DEF Stages
  <2> QED BY <2>1, <2>2, WaitingAnswered
<1>15. CASE UNCHANGED vars
  BY <1>4, <1>15 DEF vars
<1>16. QED
  BY <1>5, <1>6, <1>7, <1>8, <1>9, <1>10, <1>11, <1>12, <1>13, <1>14, <1>15,
     WaitingSubmit, WaitingLeaves, WaitingTakes, WaitingEnds DEF Next, Caller, Supervisor

-----------------------------------------------------------------------------
(* The theorems.                                                            *)

LEMMA TerminalStep == terminal \in BOOLEAN /\ [Next]_vars => terminal' \in BOOLEAN
<1>1. ASSUME NEW c \in Callers, Caller(c) PROVE terminal' = terminal \/ terminal' = TRUE
  <2>1. ASSUME \/ Reserve(c) \/ Shutdown(c) \/ ShutdownLooks(c) \/ ShutdownClears(c)
               \/ PrepareLooks(c) \/ StopLooks(c) \/ StopRemoves(c) \/ CallerLeaves(c)
        PROVE  terminal' = terminal \/ terminal' = TRUE
    BY <2>1, Zenon DEF Reserve, Shutdown, ShutdownLooks, ShutdownClears, PrepareLooks, StopLooks,
                       StopRemoves, CallerLeaves, bookVars
  <2>2. ASSUME NEW h \in Handles, PrepareRefused(c, h) \/ SubmitRefused(c, h) \/ Submit(c, h) \/ Stop(c, h)
        PROVE  terminal' = terminal
    BY <2>2, Zenon DEF PrepareRefused, SubmitRefused, Submit, Stop, bookVars
  <2>3. ASSUME NEW h \in Handles, NEW p \in Plans, PrepareFirst(c, h, p) \/ PrepareAgain(c, h, p)
        PROVE  terminal' = terminal
    BY <2>3, Zenon DEF PrepareFirst, PrepareAgain, bookVars
  <2> QED BY <1>1, <2>1, <2>2, <2>3, Zenon DEF Caller
<1>2. ASSUME NEW h \in Handles, Supervisor(h) \/ Lapse(h) PROVE terminal' = terminal
  BY <1>2, Zenon DEF Supervisor, Prepares, Prepared, Ticks, Takes, Works, Replies, SeesStop, Panics,
                     Cleans, CleanFails, Closes, Ends, Lapse, managerVars, bookVars
<1>3. QED
  BY <1>1, <1>2, Zenon DEF Next, vars

LEMMA TypesSplit == TypeOK <=> terminal \in BOOLEAN /\ TypesOK
BY Zenon DEF TypeOK, TypesOK, CallsOK, SlotsOK, BookOK, SupsOK, QueuesOK

LEMMA ManagerInitial == Init => ManagerInv
<1> SUFFICES ASSUME Init PROVE ManagerInv
  OBVIOUS
<1>1. terminal \in BOOLEAN
  BY Zenon DEF Init
<1>2. BookOK /\ SlotsOK /\ CallsOK
  <2>1. NewSlot \in Slot
    BY DEF NewSlot, Slot
  <2>2. 0 \in 0..MaxIssued
    BY ManagerAssumption
  <2> QED BY <2>1, <2>2, IdleCall DEF Init, BookOK, SlotsOK, CallsOK, Outcomes
<1>3. SupsOK /\ QueuesOK
  <2>1. <<>> \in Seq(Callers \cup {None}) /\ Len(<<>>) = 0 /\ 0 <= Queue
    BY EmptySeq, ManagerAssumption
  <2> QED BY <2>1 DEF Init, SupsOK, QueuesOK, Stages
<1>4. TypeOK
  BY <1>1, <1>2, <1>3, TypesSplit, Zenon DEF TypesOK
<1>5. Tied
  BY DEF Init, Tied, TiedTo, NewSlot, Quiet
<1>6. Admitted
  BY FS_EmptySet, ManagerAssumption DEF Init, Admitted
<1>7. Acked /\ Seen
  BY DEF Init, Acked, Seen, SeenBy, Idle
<1>8. Waiting
  <2>1. \A c \in Callers : call[c].op = "idle"
    BY DEF Init, Idle
  <2>2. \A h \in Handles : queue[h] = <<>> /\ busy[h] = None
    BY DEF Init
  <2>3. DOMAIN <<>> = {}
    OBVIOUS
  <2> QED BY <2>1, <2>2, <2>3 DEF Waiting, Lined, Awaited
<1>9. QED
  BY <1>4, <1>5, <1>6, <1>7, <1>8 DEF ManagerInv

LEMMA ManagerStep == ManagerInv /\ [Next]_vars => ManagerInv'
<1> SUFFICES ASSUME ManagerInv, [Next]_vars PROVE ManagerInv'
  OBVIOUS
<1>1. terminal \in BOOLEAN /\ TypesOK
  BY TypesSplit, Zenon DEF ManagerInv
<1>2. CallsOK' /\ SlotsOK' /\ BookOK' /\ SupsOK' /\ QueuesOK'
  BY <1>1, CallsStep, SlotsStep, BookStep, SupsStep, QueuesStep DEF ManagerInv, TypesOK
<1>3. TypeOK'
  <2>1. terminal' \in BOOLEAN
    BY <1>1, TerminalStep
  <2>2. (TypeOK <=> terminal \in BOOLEAN /\ TypesOK)'
    BY TypesSplit, PTL
  <2> QED BY <1>2, <2>1, <2>2, Zenon DEF TypesOK
<1>4. Tied' /\ Acked' /\ Seen' /\ Waiting'
  BY <1>1, TiedStep, AckedStep, SeenStep, WaitingStep DEF ManagerInv
<1>5. Admitted'
  BY <1>1, AdmittedStep DEF ManagerInv, TypesOK
<1>6. QED
  BY <1>3, <1>4, <1>5 DEF ManagerInv

\* The state of the manager and of its supervisors keeps to its types for every
\* number of callers and handles; in particular no command channel outgrows QUEUE.
THEOREM ManagerTypeCorrect == Spec => []TypeOK
<1>1. ManagerInv => TypeOK
  BY DEF ManagerInv
<1>2. QED
  BY <1>1, ManagerInitial, ManagerStep, PTL DEF Spec

\* "Stop and shutdown acknowledge only after process-group termination": once stop or
\* shutdown has said Complete of a handle, its supervisor owns nothing and none will be
\* started under it again.
THEOREM ManagerCleanAck == Spec => []CleanAck
<1>1. ManagerInv => CleanAck
  <2> SUFFICES ASSUME ManagerInv, NEW h \in acked PROVE h \notin Live /\ owned[h] = {}
    BY DEF CleanAck
  <2>1. h \in Handles /\ sup[h] \in Quiet
    BY DEF ManagerInv, TypeOK, Acked, AckedFor
  <2> QED BY <2>1 DEF ManagerInv, Tied, TiedTo, Quiet, Live
<1>2. QED
  BY <1>1, ManagerInitial, ManagerStep, PTL DEF Spec

\* "Admission counts live slots": no supervisor, and nothing a supervisor owns, lives
\* outside the book that reserve counts, and there are never more than CAPACITY.
THEOREM ManagerWithinCapacity == Spec => []WithinCapacity
<1>1. ManagerInv => WithinCapacity
  <2> SUFFICES ASSUME ManagerInv PROVE WithinCapacity
    OBVIOUS
  <2> DEFINE alive == Live \cup {h \in Handles : owned[h] # {}}
  <2>1. alive \subseteq book
    BY DEF ManagerInv, Tied, TiedTo, Quiet, Live
  <2>2. issued \in Nat /\ book \subseteq 1..issued /\ Capacity \in Nat /\ Cardinality(book) <= Capacity
    BY ManagerAssumption DEF ManagerInv, TypeOK, Admitted
  <2>3. IsFiniteSet(book)
    <3>1. IsFiniteSet(1..issued)
      BY <2>2, FS_Interval, 1 \in Int, issued \in Int
    <3> QED BY <2>2, <3>1, FS_Subset
  <2>4. /\ Cardinality(alive) <= Cardinality(book)
        /\ Cardinality(alive) \in Nat /\ Cardinality(book) \in Nat
    BY <2>1, <2>3, FS_Subset, FS_CardinalityType
  <2>5. Cardinality(alive) <= Capacity
    BY <2>2, <2>4
  <2> QED BY <2>1, <2>5 DEF WithinCapacity
<1>2. QED
  BY <1>1, ManagerInitial, ManagerStep, PTL DEF Spec

\* A caller that waits for the reply to a command is in the channel of its handle
\* exactly once or is the one being served, and that supervisor has not ended: the
\* reply sender the caller waits on is never lost.
THEOREM ManagerNoLostCaller == Spec => []NoLostCaller
<1>1. ManagerInv => NoLostCaller
  <2> SUFFICES ASSUME ManagerInv, NEW c \in Callers, call[c].op = "command", NEW h, h = call[c].h
               PROVE  /\ sup[h] \notin {"none", "gone"}
                      /\ Cardinality({i \in DOMAIN queue[h] : queue[h][i] = c}) = IF busy[h] = c THEN 0 ELSE 1
    BY DEF NoLostCaller
  <2> DEFINE places == {i \in DOMAIN queue[h] : queue[h][i] = c}
  <2>1. h \in Handles /\ Lined(h) /\ Awaited(c) /\ c # None
    BY ManagerAssumption DEF ManagerInv, Seen, SeenBy, Waiting
  <2>2. sup[h] \notin {"none", "gone"}
    <3>1. DOMAIN <<>> = {}
      OBVIOUS
    <3> QED BY <2>1, <3>1 DEF Lined, Awaited
  <2>3. ASSUME busy[h] = c PROVE Cardinality(places) = 0
    <3>1. places = {}
      BY <2>1, <2>3 DEF Lined
    <3> QED BY <3>1, FS_EmptySet
  <2>4. ASSUME busy[h] # c PROVE Cardinality(places) = 1
    <3>1. PICK i \in DOMAIN queue[h] : queue[h][i] = c
      BY <2>1, <2>4 DEF Awaited
    <3>2. places = {i}
      BY <2>1, <3>1 DEF Lined
    <3> QED BY <3>2, FS_Singleton
  <2> QED BY <2>2, <2>3, <2>4
<1>2. QED
  BY <1>1, ManagerInitial, ManagerStep, PTL DEF Spec
=============================================================================
