-------------------------- MODULE PyServerProofs --------------------------
(* Theorems about PyServer, for any number of callers, servers, children    *)
(* and requests.                                                            *)
EXTENDS PyServer, FiniteSetTheorems, SequenceTheorems, TLAPS

-----------------------------------------------------------------------------
(* The invariant.                                                           *)

Members(q) == {q[i] : i \in DOMAIN q}
HeadOf(q, c) == q # <<>> /\ Head(q) = c

\* Where a caller is in ensure, with the cache's lock or in the queue for it; where
\* it is in the queue of its server; and where it holds one or the other.
Slotted(c) ==
    \/ pc[c] \in {"slot", "discard", "prepare"}
    \/ pc[c] \in {"start", "hello"} /\ attempt[c] = 0
Lined(c) == pc[c] \in {"discard", "start", "hello", "enter", "write", "read", "reset"}

\* A caller is in the queues its place says, and holds what its place says.
PlacedAt(c) ==
    /\ c \in Members(slotQ) <=> Slotted(c)
    /\ \A s \in Servers : c \in Members(server[s].q) <=> Lined(c) /\ ref[c] = s
    /\ Slotted(c) /\ pc[c] # "slot" => HeadOf(slotQ, c)
    /\ pc[c] \in {"hello", "write", "read"} => HeadOf(server[ref[c]].q, c)
    /\ Lined(c) \/ pc[c] = "used" => ref[c] # None
    /\ pc[c] \in {"slot", "prepare"} => ref[c] = None
    /\ pc[c] \in {"idle", "slot", "discard", "prepare", "start"} => attempt[c] = 0
    /\ pc[c] \in {"enter", "write", "read", "reset", "used"} => attempt[c] # 0
    /\ pc[c] = "reset" => attempt[c] = 1
    /\ kid[c] # None <=> pc[c] = "hello"
    /\ attempt[c] # 0 => calls[c] # 0
Placed == \A c \in Callers : PlacedAt(c)

\* The cache is written under its lock.
CachedFor(c) ==
    /\ pc[c] = "discard" => cache.server # None /\ ref[c] = cache.server
    /\ pc[c] = "prepare" => cache.server = None
    /\ pc[c] \in {"start", "hello"} /\ attempt[c] = 0 => cache.server \in {None, ref[c]}
Cached == /\ cache.kind = "Ready" <=> cache.server # None
          /\ \A c \in Callers : CachedFor(c)

\* A server and a child live as long as they have an owner, and a child has one.
KeptServers == \A s \in Servers : ~Held(s) => server[s] = NoServer
KeptChildren ==
    \A k \in Children : /\ Owned(k) => child[k].st # "free"
                        /\ ~Owned(k) => child[k] = NoChild
Solo ==
    /\ \A s, t \in Servers : server[s].child = server[t].child /\ server[s].child # None => s = t
    /\ \A c, d \in Callers : kid[c] = kid[d] /\ kid[c] # None => c = d
    /\ \A s \in Servers, c \in Callers : server[s].child = kid[c] => kid[c] = None

\* A child is spawned for a server without one, and stays while it is used.
SupportedBy(c) ==
    /\ pc[c] = "hello" => server[ref[c]].child = None
    /\ pc[c] \in {"write", "read"} => server[ref[c]].child # None
Supported == \A c \in Callers : SupportedBy(c)

\* Ids grow on a child: the line a caller is about to write has a new one, and what
\* bears the id of a caller that reads is its own.
Ids(ch) == (\A i \in DOMAIN ch.in : ch.in[i].id < ch.nextId) /\ (\A i \in DOMAIN ch.out : ch.out[i].id < ch.nextId)
Numbered == \A k \in Children : Ids(child[k])
Fresh == \A c \in Callers : pc[c] = "hello" => child[kid[c]].in = <<>> /\ child[kid[c]].out = <<>>
Answers(c, ch) ==
    /\ id[c] \in Nat /\ id[c] < ch.nextId
    /\ \A i \in DOMAIN ch.in : ch.in[i].id = id[c] => pc[c] = "read" /\ ch.in[i].by = <<c, calls[c]>>
    /\ \A i \in DOMAIN ch.out : ch.out[i].id = id[c] => pc[c] = "read" /\ ch.out[i].by = <<c, calls[c]>>
Answered == \A c \in Callers : pc[c] \in {"write", "read"} => Answers(c, child[Mine(c)])

\* The child that failed a call is the one its reset will find.
MarkedFor(c) ==
    \A k \in Children : c \in child[k].failed =>
      /\ attempt[c] # 0 => pc[c] \notin {"enter", "hello", "write", "read"}
      /\ pc[c] = "reset" => server[ref[c]].child = k
Marked == \A c \in Callers : MarkedFor(c)

ServerInv ==
    /\ TypeOK /\ Placed /\ Cached /\ KeptServers /\ KeptChildren /\ Solo /\ Supported
    /\ Numbered /\ Fresh /\ Answered /\ Marked

-----------------------------------------------------------------------------
(* Queues.                                                                  *)

\* r is q after something that c did: it came, went or both, and nobody else lost the
\* lock.
Moves(q, r, c) ==
    /\ r \in Seq(Callers) /\ IsInjective(r)
    /\ \A d \in Callers \ {c} : d \in Members(r) <=> d \in Members(q)
    /\ \A d \in Callers \ {c} : HeadOf(q, d) => HeadOf(r, d)

LEMMA Stands == ASSUME NEW q \in Seq(Callers), IsInjective(q), NEW c PROVE Moves(q, q, c)
BY DEF Moves

LEMMA MovesOn == ASSUME NEW q, NEW r, NEW t, NEW c, Moves(q, r, c), Moves(r, t, c) PROVE Moves(q, t, c)
BY DEF Moves

LEMMA Joins ==
    ASSUME NEW q \in Seq(Callers), IsInjective(q), NEW c \in Callers, c \notin Members(q)
    PROVE  Moves(q, Append(q, c), c) /\ c \in Members(Append(q, c))
<1>1. PICK n \in Nat : n = Len(q)
  BY LenProperties
<1>2. /\ DOMAIN q = 1..n /\ DOMAIN Append(q, c) = 1..(n + 1) /\ Append(q, c) \in Seq(Callers)
      /\ Append(q, c)[n + 1] = c /\ \A i \in 1..n : Append(q, c)[i] = q[i]
  BY <1>1, AppendProperties, LenProperties
<1>3. \A i \in 1..(n + 1) : i \in 1..n \/ i = n + 1
  OBVIOUS
<1>4. \A i \in 1..n : q[i] # c /\ i \in 1..(n + 1)
  BY <1>2 DEF Members
<1>5. IsInjective(Append(q, c))
  BY <1>2, <1>3, <1>4 DEF IsInjective
<1>6. c \in Members(Append(q, c)) /\ \A d \in Callers \ {c} : d \in Members(Append(q, c)) <=> d \in Members(q)
  <2>1. n + 1 \in 1..(n + 1)
    OBVIOUS
  <2> QED BY <1>2, <1>3, <1>4, <2>1 DEF Members
<1>7. ASSUME NEW d, HeadOf(q, d) PROVE HeadOf(Append(q, c), d)
  <2>1. n > 0 /\ q[1] = d
    BY <1>1, <1>7, EmptySeq, HeadTailProperties DEF HeadOf
  <2>2. Append(q, c) # <<>> /\ Append(q, c)[1] = d
    BY <1>2, <2>1, AppendProperties
  <2> QED BY <1>2, <2>2, HeadTailProperties DEF HeadOf
<1>8. QED
  BY <1>2, <1>5, <1>6, <1>7 DEF Moves

LEMMA Leaves ==
    ASSUME NEW q \in Seq(Callers), IsInjective(q), NEW c \in Callers
    PROVE  Moves(q, Without(q, c), c) /\ c \notin Members(Without(q, c))
<1>1. PICK n \in Nat : n = Len(q) /\ DOMAIN q = 1..n
  BY LenProperties
<1>2. CASE ~\E i \in DOMAIN q : q[i] = c
  BY <1>2, Stands DEF Without, Members
<1>3. CASE \E i \in DOMAIN q : q[i] = c
  <2>1. PICK m \in 1..n : q[m] = c /\ Without(q, c) = RemoveAt(q, m)
    BY <1>1, <1>3 DEF Without
  <2> DEFINE r == Without(q, c)
             front == SubSeq(q, 1, m - 1)
             back == SubSeq(q, m + 1, n)
  <2>2. \A i \in 1..n : q[i] \in Callers
    BY <1>1, ElementOfSeq
  <2>3. /\ front \in Seq(Callers) /\ Len(front) = m - 1
        /\ \A i \in 1..(m - 1) : front[i] = q[i]
    <3>1. 1 \in Int /\ m - 1 \in Int /\ \A i \in 1..(m - 1) : q[i] \in Callers
      BY <2>2
    <3> HIDE DEF front
    <3>2. /\ front \in Seq(Callers) /\ Len(front) = IF 1 <= m - 1 THEN (m - 1) - 1 + 1 ELSE 0
          /\ \A i \in 1..((m - 1) - 1 + 1) : front[i] = q[1 + i - 1]
      BY <3>1, SubSeqProperties DEF front
    <3> QED BY <3>2
  <2>4. /\ back \in Seq(Callers) /\ Len(back) = n - m
        /\ \A i \in 1..(n - m) : back[i] = q[m + i]
    <3>1. m + 1 \in Int /\ n \in Int /\ \A i \in (m + 1)..n : q[i] \in Callers
      BY <2>2
    <3> HIDE DEF back
    <3>2. /\ back \in Seq(Callers) /\ Len(back) = IF m + 1 <= n THEN n - (m + 1) + 1 ELSE 0
          /\ \A i \in 1..(n - (m + 1) + 1) : back[i] = q[(m + 1) + i - 1]
      BY <3>1, SubSeqProperties DEF back
    <3> QED BY <3>2
  <2>5. r = front \o back
    BY <1>1, <2>1 DEF RemoveAt
  <2> HIDE DEF r, front, back
  <2>6. /\ r \in Seq(Callers) /\ DOMAIN r = 1..(n - 1)
        /\ \A i \in 1..(n - 1) : r[i] = IF i < m THEN q[i] ELSE q[i + 1]
    <3>0. /\ r \in Seq(Callers) /\ Len(r) = Len(front) + Len(back)
          /\ \A i \in 1..Len(front) + Len(back) : r[i] = IF i <= Len(front) THEN front[i] ELSE back[i - Len(front)]
      BY <2>3, <2>4, <2>5, ConcatProperties
    <3>1. r \in Seq(Callers) /\ Len(r) = n - 1
      BY <2>3, <2>4, <3>0
    <3>2. \A i \in 1..(n - 1) : r[i] = IF i <= m - 1 THEN front[i] ELSE back[i - (m - 1)]
      <4>1. Len(front) + Len(back) = n - 1
        BY <2>3, <2>4
      <4> QED BY <2>3, <3>0, <4>1
    <3>3. ASSUME NEW i \in 1..(n - 1) PROVE r[i] = IF i < m THEN q[i] ELSE q[i + 1]
      <4>1. CASE i < m
        BY <2>3, <3>2, <4>1
      <4>2. CASE ~(i < m)
        <5>1. i - (m - 1) \in 1..(n - m) /\ m + (i - (m - 1)) = i + 1
          BY <4>2
        <5>2. r[i] = back[i - (m - 1)]
          BY <3>2, <4>2
        <5> QED BY <2>4, <4>2, <5>1, <5>2
      <4> QED BY <4>1, <4>2
    <3> QED BY <3>1, <3>3, LenProperties
  <2>7. \A i, j \in 1..n : q[i] = q[j] => i = j
    BY <1>1 DEF IsInjective
  <2>8. IsInjective(r) /\ c \notin Members(r)
    <3>0. ASSUME NEW i \in 1..(n - 1)
          PROVE  \E l \in 1..n : r[i] = q[l] /\ l # m /\ l = IF i < m THEN i ELSE i + 1
      <4>1. CASE i < m
        BY <2>6, <4>1
      <4>2. CASE ~(i < m)
        <5>1. i + 1 \in 1..n /\ i + 1 # m
          BY <4>2
        <5> QED BY <2>6, <4>2, <5>1
      <4> QED BY <4>1, <4>2
    <3>1. ASSUME NEW i \in 1..(n - 1) PROVE r[i] # c
      BY <2>1, <2>7, <3>0
    <3>2. ASSUME NEW i \in 1..(n - 1), NEW j \in 1..(n - 1), r[i] = r[j] PROVE i = j
      <4>1. PICK l \in 1..n : r[i] = q[l] /\ l = IF i < m THEN i ELSE i + 1
        BY <3>0
      <4>2. PICK k \in 1..n : r[j] = q[k] /\ k = IF j < m THEN j ELSE j + 1
        BY <3>0
      <4>3. k = l
        BY <2>7, <3>2, <4>1, <4>2
      <4> QED BY <4>1, <4>2, <4>3
    <3> QED BY <2>6, <3>1, <3>2 DEF IsInjective, Members
  <2>9. ASSUME NEW d \in Callers \ {c} PROVE d \in Members(r) <=> d \in Members(q)
    <3>1. ASSUME NEW i \in 1..(n - 1), r[i] = d PROVE \E j \in 1..n : q[j] = d
      BY <2>6, <3>1
    <3>2. ASSUME NEW j \in 1..n, q[j] = d PROVE \E i \in 1..(n - 1) : r[i] = d
      <4>1. CASE j < m
        BY <2>6, <3>2, <4>1
      <4>2. CASE j > m
        <5>1. j - 1 \in 1..(n - 1) /\ ~(j - 1 < m) /\ (j - 1) + 1 = j
          BY <4>2
        <5>2. r[j - 1] = d
          BY <2>6, <3>2, <5>1
        <5> QED BY <5>1, <5>2
      <4> QED BY <2>1, <3>2, <4>1, <4>2
    <3> QED BY <1>1, <2>6, <3>1, <3>2 DEF Members
  <2>10. ASSUME NEW d \in Callers \ {c}, HeadOf(q, d) PROVE HeadOf(r, d)
    <3>1. q[1] = d /\ 1 \in 1..n
      BY <1>1, <2>10, HeadTailProperties DEF HeadOf
    <3>2. 1 < m /\ r[1] = d /\ 1 \in DOMAIN r
      BY <2>1, <2>6, <3>1
    <3>3. r # <<>>
      BY <3>2, EmptySeq
    <3> QED BY <2>6, <3>2, <3>3, HeadTailProperties DEF HeadOf
  <2> QED BY <2>6, <2>8, <2>9, <2>10 DEF Moves, r
<1>4. QED
  BY <1>2, <1>3

LEMMA HeadLeaves ==
    ASSUME NEW q \in Seq(Callers), IsInjective(q), NEW c \in Callers, HeadOf(q, c)
    PROVE  Moves(q, Tail(q), c) /\ c \notin Members(Tail(q))
<1>1. PICK n \in Nat : n = Len(q) /\ DOMAIN q = 1..n /\ n > 0
  BY LenProperties, EmptySeq DEF HeadOf
<1>2. /\ Tail(q) \in Seq(Callers) /\ DOMAIN Tail(q) = 1..(n - 1) /\ q[1] = c
      /\ \A i \in 1..(n - 1) : Tail(q)[i] = q[i + 1]
  <2>1. Tail(q) \in Seq(Callers) /\ Len(Tail(q)) = n - 1 /\ q[1] = c
    BY <1>1, HeadTailProperties DEF HeadOf
  <2>2. \A i \in 1..(n - 1) : Tail(q)[i] = q[i + 1]
    BY <1>1, HeadTailProperties DEF HeadOf
  <2> QED BY <2>1, <2>2, LenProperties
<1>3. \A i, j \in 1..n : q[i] = q[j] => i = j
  BY <1>1 DEF IsInjective
<1>4. IsInjective(Tail(q)) /\ c \notin Members(Tail(q))
  <2>1. \A i \in 1..(n - 1) : i + 1 \in 1..n /\ i + 1 # 1 /\ 1 \in 1..n
    OBVIOUS
  <2>2. \A i, j \in 1..(n - 1) : i + 1 = j + 1 => i = j
    OBVIOUS
  <2> QED BY <1>2, <1>3, <2>1, <2>2 DEF IsInjective, Members
<1>5. ASSUME NEW d \in Callers \ {c} PROVE d \in Members(Tail(q)) <=> d \in Members(q)
  <2>1. ASSUME NEW i \in 1..(n - 1), Tail(q)[i] = d PROVE \E j \in 1..n : q[j] = d
    BY <1>2, <2>1
  <2>2. ASSUME NEW j \in 1..n, q[j] = d PROVE \E i \in 1..(n - 1) : Tail(q)[i] = d
    <3>1. j - 1 \in 1..(n - 1) /\ (j - 1) + 1 = j
      BY <1>2, <2>2
    <3>2. Tail(q)[j - 1] = d
      BY <1>2, <2>2, <3>1
    <3> QED BY <3>1, <3>2
  <2> QED BY <1>1, <1>2, <2>1, <2>2 DEF Members
<1>6. QED
  BY <1>2, <1>4, <1>5 DEF Moves, HeadOf

-----------------------------------------------------------------------------
(* Servers and who waits for them.                                          *)

Ordered(srv) == srv \in [Servers -> Server] /\ \A t \in Servers : IsInjective(srv[t].q)
AllMove(srv, new, c) == Ordered(new) /\ \A t \in Servers : Moves(srv[t].q, new[t].q, c)

LEMMA OrderedAt ==
    ASSUME NEW srv, Ordered(srv), NEW t \in Servers
    PROVE  /\ srv[t] \in Server /\ srv[t].q \in Seq(Callers) /\ IsInjective(srv[t].q)
           /\ srv[t].child \in Children \cup {None} /\ srv[t].idle \in BOOLEAN
BY DEF Ordered, Server

LEMMA AllStand == ASSUME NEW srv, Ordered(srv), NEW c PROVE AllMove(srv, srv, c)
BY OrderedAt, Stands DEF AllMove

LEMMA AllMoveOn ==
    ASSUME NEW a, NEW b, NEW d, NEW c, AllMove(a, b, c), AllMove(b, d, c) PROVE AllMove(a, d, c)
BY MovesOn DEF AllMove

\* One queue changes.
LEMMA OneQueue ==
    ASSUME NEW srv, Ordered(srv), NEW new \in [Servers -> Server], NEW s \in Servers, NEW c,
           Moves(srv[s].q, new[s].q, c), \A t \in Servers \ {s} : new[t] = srv[t]
    PROVE  AllMove(srv, new, c)
<1>1. \A t \in Servers : Moves(srv[t].q, new[t].q, c)
  BY OrderedAt, Stands
<1>2. Ordered(new)
  BY <1>1 DEF Ordered, Moves
<1>3. QED
  BY <1>1, <1>2 DEF AllMove

LEMMA LeaveAt ==
    ASSUME NEW srv, Ordered(srv), NEW s \in Servers, NEW c \in Callers, NEW new, new = Leave(srv, s, c)
    PROVE  /\ AllMove(srv, new, c) /\ c \notin Members(new[s].q) /\ \A t \in Servers \ {s} : new[t] = srv[t]
           /\ \A t \in Servers : new[t].child = srv[t].child /\ new[t].idle = srv[t].idle
<1>1. PICK r \in Seq(Callers) : r = Without(srv[s].q, c) /\ Moves(srv[s].q, r, c) /\ c \notin Members(r)
  <2>1. Moves(srv[s].q, Without(srv[s].q, c), c) /\ c \notin Members(Without(srv[s].q, c))
    BY OrderedAt, Leaves
  <2> QED BY <2>1 DEF Moves
<1>2. new[s] = [srv[s] EXCEPT !.q = r] /\ \A t \in Servers \ {s} : new[t] = srv[t]
  BY <1>1 DEF Leave, Ordered
<1>3. srv[s] \in Server
  BY OrderedAt
<1>4. new[s].q = r /\ new[s].child = srv[s].child /\ new[s].idle = srv[s].idle /\ new[s] \in Server
  BY <1>2, <1>3 DEF Server
<1>5. new \in [Servers -> Server]
  BY <1>2, <1>4 DEF Ordered, Leave
<1>6. AllMove(srv, new, c)
  BY <1>1, <1>2, <1>4, <1>5, OneQueue
<1>7. QED
  BY <1>1, <1>2, <1>4, <1>6

LEMMA JoinAt ==
    ASSUME NEW srv, Ordered(srv), NEW s \in Servers, NEW c \in Callers, c \notin Members(srv[s].q),
           NEW new, new = Join(srv, s, c)
    PROVE  /\ AllMove(srv, new, c) /\ c \in Members(new[s].q) /\ \A t \in Servers \ {s} : new[t] = srv[t]
           /\ \A t \in Servers : new[t].child = srv[t].child /\ new[t].idle = srv[t].idle
<1>1. PICK r \in Seq(Callers) : r = Append(srv[s].q, c) /\ Moves(srv[s].q, r, c) /\ c \in Members(r)
  <2>1. Moves(srv[s].q, Append(srv[s].q, c), c) /\ c \in Members(Append(srv[s].q, c))
    BY OrderedAt, Joins
  <2> QED BY <2>1 DEF Moves
<1>2. new[s] = [srv[s] EXCEPT !.q = r] /\ \A t \in Servers \ {s} : new[t] = srv[t]
  BY <1>1 DEF Join, Ordered
<1>3. srv[s] \in Server
  BY OrderedAt
<1>4. new[s].q = r /\ new[s].child = srv[s].child /\ new[s].idle = srv[s].idle /\ new[s] \in Server
  BY <1>2, <1>3 DEF Server
<1>5. new \in [Servers -> Server]
  BY <1>2, <1>4 DEF Ordered, Join
<1>6. AllMove(srv, new, c)
  BY <1>1, <1>2, <1>4, <1>5, OneQueue
<1>7. QED
  BY <1>1, <1>2, <1>4, <1>6

WithChild(srv, s, k) == [srv EXCEPT ![s].child = k]
WithIdle(srv, s, b) == [srv EXCEPT ![s].idle = b]

LEMMA ChildAt ==
    ASSUME NEW srv, Ordered(srv), NEW s \in Servers, NEW k \in Children \cup {None}, NEW new,
           new = WithChild(srv, s, k)
    PROVE  /\ Ordered(new) /\ \A t \in Servers : new[t].q = srv[t].q /\ new[t].idle = srv[t].idle
           /\ new[s].child = k /\ \A t \in Servers \ {s} : new[t] = srv[t]
<1>1. new[s] = [srv[s] EXCEPT !.child = k] /\ srv[s] \in Server /\ \A t \in Servers \ {s} : new[t] = srv[t]
  BY DEF Ordered, WithChild
<1>2. new[s] \in Server /\ new[s].q = srv[s].q /\ new[s].child = k /\ new[s].idle = srv[s].idle
  BY <1>1 DEF Server
<1>3. QED
  BY <1>1, <1>2 DEF Ordered, WithChild

LEMMA IdleAt ==
    ASSUME NEW srv, Ordered(srv), NEW s \in Servers, NEW b \in BOOLEAN, NEW new,
           new = WithIdle(srv, s, b)
    PROVE  /\ Ordered(new) /\ \A t \in Servers : new[t].q = srv[t].q /\ new[t].child = srv[t].child
           /\ \A t \in Servers \ {s} : new[t] = srv[t]
<1>1. new[s] = [srv[s] EXCEPT !.idle = b] /\ srv[s] \in Server /\ \A t \in Servers \ {s} : new[t] = srv[t]
  BY DEF Ordered, WithIdle
<1>2. new[s] \in Server /\ new[s].q = srv[s].q /\ new[s].child = srv[s].child
  BY <1>1 DEF Server
<1>3. QED
  BY <1>1, <1>2 DEF Ordered, WithIdle

CtlOK ==
    /\ pc \in [Callers -> Labels]
    /\ ref \in [Callers -> Servers \cup {None}] /\ kid \in [Callers -> Children \cup {None}]
    /\ attempt \in [Callers -> 0..2] /\ id \in [Callers -> Nat \cup {NoId}]
    /\ calls \in [Callers -> 0..MaxCalls]
CacheOK == cache \in [kind : {"Empty", "Ready", "Failed"}, server : Servers \cup {None}, retry : BOOLEAN]
SlotOK == slotQ \in Seq(Callers) /\ IsInjective(slotQ)
ChildOK == child \in [Children -> Child]
TypesOK == CtlOK /\ CacheOK /\ SlotOK /\ Ordered(server) /\ ChildOK

LEMMA TypesSplit == TypeOK <=> TypesOK
BY DEF TypeOK, TypesOK, CtlOK, CacheOK, SlotOK, Ordered, ChildOK

OthersStay(c) ==
    \A d \in Callers \ {c} :
      /\ pc'[d] = pc[d] /\ ref'[d] = ref[d] /\ kid'[d] = kid[d]
      /\ attempt'[d] = attempt[d] /\ id'[d] = id[d] /\ calls'[d] = calls[d]

\* A server that is dropped has nobody in its queue.
LEMMA DroppedQueues ==
    ASSUME TypesOK, Placed, NEW c \in Callers, OthersStay(c), NEW srv, NEW ch, AllMove(server, srv, c),
           \A t \in Servers : c \in Members(srv[t].q) => ref'[c] = t,
           DropUnowned(srv, ch)
    PROVE  /\ AllMove(server, server', c)
           /\ \A t \in Servers : /\ server'[t].q = srv[t].q
                                 /\ Held(t)' => server'[t] = srv[t]
                                 /\ ~Held(t)' => server'[t] = NoServer
<1>1. ASSUME NEW t \in Servers, ~Held(t)' PROVE srv[t].q = <<>>
  <2>1. srv[t].q \in Seq(Callers) /\ Moves(server[t].q, srv[t].q, c)
    BY OrderedAt DEF AllMove
  <2>2. ASSUME NEW d \in Callers, d \in Members(srv[t].q) PROVE FALSE
    <3>1. ref'[d] = t
      <4>1. CASE d = c
        BY <2>2, <4>1
      <4>2. CASE d # c
        <5>1. d \in Members(server[t].q)
          BY <2>1, <2>2, <4>2 DEF Moves
        <5>2. ref[d] = t
          BY <5>1 DEF Placed, PlacedAt
        <5> QED BY <4>2, <5>2 DEF OthersStay
      <4> QED BY <4>1, <4>2
    <3> QED BY <1>1, <3>1 DEF Held
  <2>3. ASSUME srv[t].q # <<>> PROVE FALSE
    <3>1. srv[t].q[1] \in Callers /\ 1 \in DOMAIN srv[t].q
      BY <2>1, <2>3, HeadTailProperties, EmptySeq, LenProperties
    <3> QED BY <2>2, <3>1 DEF Members
  <2> QED BY <2>3
<1>2. NoServer \in Server /\ NoServer.q = <<>> /\ IsInjective(NoServer.q)
  <2>1. NoServer.q = <<>>
    BY DEF NoServer
  <2>2. NoServer \in Server
    BY EmptySeq DEF NoServer, Server
  <2> QED BY <2>1, <2>2 DEF IsInjective
<1>3. ASSUME NEW t \in Servers
      PROVE  /\ Held(t)' => server'[t] = srv[t]
             /\ ~Held(t)' => server'[t] = NoServer
  BY DEF DropUnowned
<1>4. ASSUME NEW t \in Servers
      PROVE  server'[t].q = srv[t].q /\ server'[t] \in Server /\ IsInjective(server'[t].q)
  BY <1>1, <1>2, <1>3, OrderedAt DEF AllMove
<1>5. DOMAIN server' = Servers /\ server' = [t \in Servers |-> server'[t]]
  BY DEF DropUnowned
<1>6. QED
  BY <1>3, <1>4, <1>5 DEF AllMove, Ordered

-----------------------------------------------------------------------------
(* Places.                                                                  *)

QueuesMove(c) == Moves(slotQ, slotQ', c) /\ AllMove(server, server', c)
Shifts(c) == OthersStay(c) /\ QueuesMove(c) /\ PlacedAt(c)'

LEMMA PlacedMove ==
    ASSUME TypesOK, Placed, NEW c \in Callers, Shifts(c)
    PROVE  Placed' /\ SlotOK' /\ Ordered(server)'
<1>1. SlotOK' /\ Ordered(server)'
  BY DEF Shifts, QueuesMove, Moves, AllMove, SlotOK, Ordered
<1>2. ASSUME NEW d \in Callers \ {c} PROVE PlacedAt(d)'
  <2>1. PlacedAt(d)
    BY DEF Placed
  <2>2. /\ pc'[d] = pc[d] /\ ref'[d] = ref[d] /\ kid'[d] = kid[d]
        /\ attempt'[d] = attempt[d] /\ calls'[d] = calls[d]
    BY DEF Shifts, OthersStay
  <2>3. (d \in Members(slotQ') <=> d \in Members(slotQ)) /\ (HeadOf(slotQ, d) => HeadOf(slotQ', d))
    BY DEF Shifts, QueuesMove, Moves
  <2>4. \A t \in Servers : /\ d \in Members(server'[t].q) <=> d \in Members(server[t].q)
                           /\ HeadOf(server[t].q, d) => HeadOf(server'[t].q, d)
    BY DEF Shifts, QueuesMove, AllMove, Moves
  <2>5. pc[d] \in {"hello", "write", "read"} => ref[d] \in Servers
    BY <2>1 DEF PlacedAt, Lined, TypesOK, CtlOK
  <2> QED BY <2>1, <2>2, <2>3, <2>4, <2>5 DEF PlacedAt, Slotted, Lined
<1>3. QED
  BY <1>1, <1>2 DEF Shifts, Placed

LEMMA Departs ==
    ASSUME TypesOK, Placed, NEW c \in Callers, NEW s \in Servers, ref[c] = s, NEW new, new = Leave(server, s, c)
    PROVE  /\ AllMove(server, new, c) /\ \A t \in Servers : c \notin Members(new[t].q)
           /\ \A t \in Servers : new[t].child = server[t].child /\ new[t].idle = server[t].idle
<1>1. Ordered(server)
  BY DEF TypesOK
<1>2. /\ AllMove(server, new, c) /\ c \notin Members(new[s].q) /\ \A t \in Servers \ {s} : new[t] = server[t]
      /\ \A t \in Servers : new[t].child = server[t].child /\ new[t].idle = server[t].idle
  BY <1>1, LeaveAt
<1>3. \A t \in Servers \ {s} : c \notin Members(server[t].q)
  BY DEF Placed, PlacedAt
<1>4. QED
  BY <1>2, <1>3

LEMMA Arrives ==
    ASSUME NEW srv, Ordered(srv), NEW c \in Callers, NEW s \in Servers, \A t \in Servers : c \notin Members(srv[t].q),
           NEW new, new = Join(srv, s, c)
    PROVE  /\ AllMove(srv, new, c) /\ \A t \in Servers : c \in Members(new[t].q) <=> t = s
           /\ \A t \in Servers : new[t].child = srv[t].child /\ new[t].idle = srv[t].idle
<1>1. c \notin Members(srv[s].q)
  OBVIOUS
<1>2. /\ AllMove(srv, new, c) /\ c \in Members(new[s].q) /\ \A t \in Servers \ {s} : new[t] = srv[t]
      /\ \A t \in Servers : new[t].child = srv[t].child /\ new[t].idle = srv[t].idle
  BY <1>1, JoinAt
<1>3. QED
  BY <1>2

LEMMA OthersStayStep ==
    ASSUME CtlOK, NEW c \in Callers,
           EnsureCall(c) \/ RequestCall(c) \/ Step(c) \/ Untimed(c) \/ Hello(c) \/ Release(c) \/ Cancel(c)
    PROVE  OthersStay(c)
<1>1. ASSUME NEW l, Goto(c, l) \/ Return(c), UNCHANGED <<ref, kid, calls>> PROVE OthersStay(c)
  BY <1>1 DEF Goto, Return, OthersStay, CtlOK
<1>2. ASSUME NEW s, EnsureReturns(c, s), UNCHANGED calls, kid' = kid \/ kid' = [kid EXCEPT ![c] = None]
      PROVE  OthersStay(c)
  BY <1>2 DEF EnsureReturns, Return, OthersStay, CtlOK
<1>3. ASSUME NEW ch, AttemptFails(c, ch), UNCHANGED <<ref, calls>>, kid' = kid \/ kid' = [kid EXCEPT ![c] = None]
      PROVE  OthersStay(c)
  <2>1. Goto(c, "reset") \/ Return(c)
    BY <1>3 DEF AttemptFails
  <2> QED BY <1>3, <2>1 DEF Goto, Return, OthersStay, CtlOK
<1>4. CASE EnsureCall(c) \/ MarkUsed(c) \/ Write(c)
  BY <1>1, <1>4 DEF EnsureCall, MarkUsed, Write
<1>5. ASSUME NEW same \in BOOLEAN, NEW rule \in BOOLEAN, Look(c, same, rule) PROVE OthersStay(c)
  <2>1. CASE \E l : Goto(c, l) /\ ref' = [ref EXCEPT ![c] = cache.server]
    BY <1>5, <2>1 DEF Look, Goto, OthersStay, CtlOK
  <2>2. CASE \E l : Goto(c, l) /\ UNCHANGED ref
    BY <1>1, <1>5, <2>2 DEF Look
  <2>3. CASE EnsureReturns(c, None)
    BY <1>2, <1>5, <2>3 DEF Look
  <2> QED BY <1>5, <2>1, <2>2, <2>3 DEF Look
<1>6. CASE Discard(c) \/ Prepared(c) \/ Spawn(c)
  BY <1>6 DEF Discard, Prepared, Spawn, Goto, OthersStay, CtlOK
<1>7. CASE PrepareFails(c) \/ AlreadyStarted(c)
  BY <1>2, <1>7 DEF PrepareFails, AlreadyStarted
<1>8. CASE SpawnFails(c)
  BY <1>2, <1>3, <1>8 DEF SpawnFails
<1>9. CASE Hello(c)
  <2>1. CASE EnsureReturns(c, ref[c])
    BY <1>2, <1>9, <2>1 DEF Hello
  <2>2. CASE pc' = [pc EXCEPT ![c] = "write"] /\ id' = [id EXCEPT ![c] = 0] /\ UNCHANGED <<ref, attempt>>
    BY <1>9, <2>2 DEF Hello, OthersStay, CtlOK
  <2> QED BY <1>9, <2>1, <2>2 DEF Hello
<1>10. CASE WriteFails(c) \/ NoLine(c)
  BY <1>3, <1>10 DEF WriteFails, NoLine
<1>11. CASE Read(c)
  <2>1. CASE UNCHANGED <<pc, attempt, id>>
    BY <1>11, <2>1 DEF Read, OthersStay
  <2>2. CASE Goto(c, "used")
    BY <1>1, <1>11, <2>2 DEF Read
  <2>3. CASE \E ch : AttemptFails(c, ch)
    BY <1>3, <1>11, <2>3 DEF Read
  <2> QED BY <1>11, <2>1, <2>2, <2>3 DEF Read
<1>12. CASE RequestCall(c) \/ Enter(c) \/ Reset(c) \/ Release(c)
  BY <1>12 DEF RequestCall, Enter, Reset, Release, OthersStay, CtlOK
<1>13. CASE Cancel(c)
  BY <1>13 DEF Cancel, Return, OthersStay, CtlOK
<1>14. QED
  BY <1>4, <1>5, <1>6, <1>7, <1>8, <1>9, <1>10, <1>11, <1>12, <1>13 DEF Step, Untimed

\* An attempt fails: the caller lets go of its server, and asks for it again to reset it.
LEMMA FailureShifts ==
    ASSUME TypesOK, Placed, NEW c \in Callers, NEW ch, AttemptFails(c, ch), OthersStay(c),
           pc[c] \in {"enter", "hello", "write", "read"}, attempt[c] # 0, kid'[c] = None,
           UNCHANGED <<slotQ, ref, calls>>
    PROVE  Shifts(c)
<1>0. /\ pc \in [Callers -> Labels] /\ attempt \in [Callers -> 0..2] /\ PlacedAt(c)
      /\ slotQ \in Seq(Callers) /\ IsInjective(slotQ) /\ ref[c] \in Servers
      /\ c \notin Members(slotQ) /\ ref[c] # None /\ calls[c] # 0
  <2>1. PlacedAt(c)
    BY DEF Placed
  <2> QED BY <2>1 DEF TypesOK, CtlOK, SlotOK, PlacedAt, Slotted, Lined
<1>1. PICK s \in Servers : s = ref[c]
  BY <1>0
<1>2. PICK left : left = Leave(server, s, c)
  OBVIOUS
<1>3. AllMove(server, left, c) /\ \A t \in Servers : c \notin Members(left[t].q)
  BY <1>1, <1>2, Departs
<1>4. PICK back : back = Join(left, s, c)
  OBVIOUS
<1>5. AllMove(left, back, c) /\ \A t \in Servers : c \in Members(back[t].q) <=> t = s
  BY <1>3, <1>4, Arrives DEF AllMove
<1>6. AllMove(server, back, c)
  BY <1>3, <1>5, AllMoveOn
<1>7. Moves(slotQ, slotQ', c)
  BY <1>0, Stands
<1>8. CASE attempt[c] = 1
  <2>1. /\ Goto(c, "reset") /\ \E h : DropUnowned(back, h)
    BY <1>1, <1>2, <1>4, <1>8 DEF AttemptFails
  <2>2. AllMove(server, server', c) /\ \A t \in Servers : server'[t].q = back[t].q
    BY <1>1, <1>5, <1>6, <2>1, DroppedQueues
  <2>3. pc'[c] = "reset" /\ attempt'[c] = 1 /\ ref'[c] = s /\ calls'[c] = calls[c]
    BY <1>0, <1>1, <1>8, <2>1 DEF Goto
  <2>4. PlacedAt(c)'
    BY <1>0, <1>1, <1>5, <2>2, <2>3 DEF PlacedAt, Slotted, Lined
  <2> QED BY <1>7, <2>2, <2>4 DEF Shifts, QueuesMove
<1>9. CASE attempt[c] = 2
  <2>1. /\ Return(c) /\ \E h : DropUnowned(left, h)
    BY <1>1, <1>2, <1>9 DEF AttemptFails
  <2>2. AllMove(server, server', c) /\ \A t \in Servers : server'[t].q = left[t].q
    BY <1>3, <2>1, DroppedQueues
  <2>3. pc'[c] = "idle" /\ attempt'[c] = 0
    BY <1>0, <2>1 DEF Return
  <2>4. PlacedAt(c)'
    BY <1>0, <1>3, <2>2, <2>3 DEF PlacedAt, Slotted, Lined
  <2> QED BY <1>7, <2>2, <2>4 DEF Shifts, QueuesMove
<1>10. QED
  BY <1>8, <1>9 DEF AttemptFails

\* Steps of ensure.
LEMMA EnsureShifts ==
    ASSUME TypesOK, Placed, Cached, KeptServers, NEW c \in Callers, OthersStay(c),
           \/ EnsureCall(c) \/ Discard(c) \/ Prepared(c) \/ PrepareFails(c) \/ AlreadyStarted(c)
           \/ \E same \in BOOLEAN, rule \in BOOLEAN : Look(c, same, rule)
    PROVE  Shifts(c)
<1>0. /\ pc \in [Callers -> Labels] /\ attempt \in [Callers -> 0..2] /\ ref \in [Callers -> Servers \cup {None}]
      /\ kid \in [Callers -> Children \cup {None}] /\ slotQ \in Seq(Callers) /\ IsInjective(slotQ)
      /\ cache.server \in Servers \cup {None} /\ PlacedAt(c) /\ None \notin Servers
      /\ Ordered(server)
  BY PyServerAssumption DEF TypesOK, CtlOK, SlotOK, CacheOK, Placed
<1>1. ASSUME NEW s \in Servers \cup {None}, EnsureReturns(c, s), HeadOf(slotQ, c), kid'[c] = None,
             AllMove(server, server', c), \A t \in Servers : c \notin Members(server'[t].q)
      PROVE  Shifts(c)
  <2>1. Moves(slotQ, slotQ', c) /\ c \notin Members(slotQ')
    BY <1>0, <1>1, HeadLeaves DEF EnsureReturns
  <2>2. pc'[c] = "idle" /\ attempt'[c] = 0 /\ ref'[c] = s
    BY <1>0, <1>1 DEF EnsureReturns, Return
  <2>3. PlacedAt(c)'
    BY <1>1, <2>1, <2>2 DEF PlacedAt, Slotted, Lined
  <2> QED BY <1>1, <2>1, <2>3 DEF Shifts, QueuesMove
<1>2. Moves(slotQ, slotQ, c) /\ AllMove(server, server, c)
  BY <1>0, Stands, AllStand
<1>3. CASE EnsureCall(c)
  <2>1. c \notin Members(slotQ) /\ \A t \in Servers : c \notin Members(server[t].q)
    BY <1>0, <1>3 DEF EnsureCall, PlacedAt, Slotted, Lined
  <2>2. Moves(slotQ, slotQ', c) /\ c \in Members(slotQ')
    BY <1>0, <1>3, <2>1, Joins DEF EnsureCall
  <2>3. pc'[c] = "slot" /\ attempt'[c] = 0 /\ ref'[c] = None /\ kid'[c] = None /\ server' = server
    BY <1>0, <1>3 DEF EnsureCall, Goto, PlacedAt
  <2>4. PlacedAt(c)'
    BY <2>1, <2>2, <2>3 DEF PlacedAt, Slotted, Lined
  <2> QED BY <1>2, <2>2, <2>3, <2>4 DEF Shifts, QueuesMove
<1>4. ASSUME NEW same \in BOOLEAN, NEW rule \in BOOLEAN, Look(c, same, rule) PROVE Shifts(c)
  <2>0. /\ pc[c] = "slot" /\ HeadOf(slotQ, c) /\ attempt[c] = 0 /\ kid[c] = None /\ kid' = kid /\ ref[c] = None
        /\ c \in Members(slotQ) /\ \A t \in Servers : c \notin Members(server[t].q)
    BY <1>0, <1>4 DEF Look, HoldsSlot, HeadOf, PlacedAt, Lined, Slotted
  <2>1. CASE /\ cache.kind = "Ready" /\ (\E l \in {"discard", "start"} : Goto(c, l))
             /\ ref' = [ref EXCEPT ![c] = cache.server]
             /\ server' = Join(server, cache.server, c) /\ UNCHANGED slotQ
    <3>1. PICK s \in Servers : s = cache.server
      BY <1>0, <2>1 DEF Cached
    <3>2. AllMove(server, server', c) /\ \A t \in Servers : c \in Members(server'[t].q) <=> t = s
      BY <1>0, <2>0, <2>1, <3>1, Arrives
    <3>3. pc'[c] \in {"discard", "start"} /\ attempt'[c] = 0 /\ ref'[c] = s /\ kid'[c] = None /\ s # None
      BY <1>0, <2>0, <2>1, <3>1 DEF Goto
    <3>4. PlacedAt(c)'
      BY <2>0, <2>1, <3>2, <3>3 DEF PlacedAt, Slotted, Lined
    <3> QED BY <1>2, <2>1, <3>2, <3>4 DEF Shifts, QueuesMove
  <2>2. CASE EnsureReturns(c, None) /\ UNCHANGED server
    BY <1>1, <1>2, <2>0, <2>2
  <2>3. CASE Goto(c, "prepare") /\ UNCHANGED <<slotQ, ref, server>>
    <3>1. pc'[c] = "prepare" /\ attempt'[c] = 0 /\ ref'[c] = None /\ kid'[c] = None
      BY <1>0, <2>0, <2>3 DEF Goto
    <3>2. PlacedAt(c)'
      BY <2>0, <2>3, <3>1 DEF PlacedAt, Slotted, Lined
    <3> QED BY <1>2, <2>3, <3>2 DEF Shifts, QueuesMove
  <2> QED BY <1>4, <2>1, <2>2, <2>3 DEF Look
<1>5. CASE Discard(c)
  <2>0. /\ pc[c] = "discard" /\ HeadOf(slotQ, c) /\ attempt[c] = 0 /\ kid[c] = None /\ kid' = kid /\ slotQ' = slotQ
        /\ c \in Members(slotQ) /\ ref[c] \in Servers
    BY <1>0, <1>5 DEF Discard, PlacedAt, Slotted, Lined
  <2>1. PICK s \in Servers : s = ref[c]
    BY <2>0
  <2>2. PICK left : left = Leave(server, s, c)
    OBVIOUS
  <2>3. AllMove(server, left, c) /\ \A t \in Servers : c \notin Members(left[t].q)
    BY <2>1, <2>2, Departs
  <2>4. PICK new : new = WithChild(left, s, None)
    OBVIOUS
  <2>5. Ordered(new) /\ \A t \in Servers : new[t].q = left[t].q
    BY <2>3, <2>4, ChildAt DEF AllMove
  <2>6. AllMove(server, new, c) /\ \A t \in Servers : c \notin Members(new[t].q)
    BY <2>3, <2>5 DEF AllMove
  <2>7. DropUnowned(new, child)
    BY <1>5, <2>1, <2>2, <2>4 DEF Discard, WithChild
  <2>8. AllMove(server, server', c) /\ \A t \in Servers : c \notin Members(server'[t].q)
    BY <2>6, <2>7, DroppedQueues
  <2>9. pc'[c] = "prepare" /\ attempt'[c] = 0 /\ ref'[c] = None /\ kid'[c] = None
    BY <1>0, <1>5, <2>0 DEF Goto, Discard
  <2>10. PlacedAt(c)'
    BY <2>0, <2>8, <2>9 DEF PlacedAt, Slotted, Lined
  <2> QED BY <1>2, <2>0, <2>8, <2>10 DEF Shifts, QueuesMove
<1>6. CASE Prepared(c)
  <2>0. /\ pc[c] = "prepare" /\ HeadOf(slotQ, c) /\ attempt[c] = 0 /\ kid[c] = None /\ kid' = kid /\ slotQ' = slotQ
        /\ c \in Members(slotQ) /\ \A t \in Servers : c \notin Members(server[t].q)
    BY <1>0, <1>6 DEF Prepared, PlacedAt, Slotted, Lined
  <2>1. PICK s \in Servers : ~Held(s) /\ ref' = [ref EXCEPT ![c] = s] /\ server' = [server EXCEPT ![s].q = <<c>>]
    BY <1>6 DEF Prepared
  <2>2. server[s].q = <<>>
    BY <2>1 DEF KeptServers, NoServer
  <2>3. Append(server[s].q, c) = <<c>>
    BY <2>2
  <2>4. server' = Join(server, s, c)
    BY <2>1, <2>3 DEF Join
  <2>5. AllMove(server, server', c) /\ \A t \in Servers : c \in Members(server'[t].q) <=> t = s
    BY <1>0, <2>0, <2>4, Arrives
  <2>6. pc'[c] = "start" /\ attempt'[c] = 0 /\ ref'[c] = s /\ kid'[c] = None /\ s # None
    BY <1>0, <1>6, <2>0, <2>1 DEF Prepared, Goto
  <2>7. PlacedAt(c)'
    BY <2>0, <2>5, <2>6 DEF PlacedAt, Slotted, Lined
  <2> QED BY <1>2, <2>0, <2>5, <2>7 DEF Shifts, QueuesMove
<1>7. CASE PrepareFails(c)
  <2>0. HeadOf(slotQ, c) /\ kid[c] = None /\ \A t \in Servers : c \notin Members(server[t].q)
    BY <1>0, <1>7 DEF PrepareFails, PlacedAt, Slotted, Lined
  <2> QED BY <1>1, <1>2, <1>7, <2>0 DEF PrepareFails
<1>8. CASE AlreadyStarted(c)
  <2>0. HeadOf(slotQ, c) /\ kid[c] = None /\ ref[c] \in Servers
    BY <1>0, <1>8 DEF AlreadyStarted, PlacedAt, Slotted, Lined
  <2>1. AllMove(server, server', c) /\ \A t \in Servers : c \notin Members(server'[t].q)
    BY <1>8, <2>0, Departs DEF AlreadyStarted
  <2> QED BY <1>1, <1>8, <2>0, <2>1 DEF AlreadyStarted
<1>9. QED
  BY <1>3, <1>4, <1>5, <1>6, <1>7, <1>8

\* Steps of spawn_inner and of request.
LEMMA RequestShifts ==
    ASSUME TypesOK, Placed, NEW c \in Callers, OthersStay(c),
           \/ Spawn(c) \/ SpawnFails(c) \/ Hello(c) \/ RequestCall(c) \/ Enter(c) \/ Write(c) \/ WriteFails(c)
           \/ Read(c) \/ NoLine(c) \/ Reset(c) \/ MarkUsed(c)
    PROVE  Shifts(c)
<1>0. /\ pc \in [Callers -> Labels] /\ attempt \in [Callers -> 0..2] /\ ref \in [Callers -> Servers \cup {None}]
      /\ kid \in [Callers -> Children \cup {None}] /\ slotQ \in Seq(Callers) /\ IsInjective(slotQ)
      /\ calls \in [Callers -> 0..MaxCalls] /\ MaxCalls \in Nat
      /\ PlacedAt(c) /\ None \notin Servers /\ None \notin Children /\ Ordered(server)
  BY PyServerAssumption DEF TypesOK, CtlOK, SlotOK, Placed
<1>1. Moves(slotQ, slotQ, c) /\ AllMove(server, server, c)
  BY <1>0, Stands, AllStand
<1>2. ASSUME NEW s \in Servers \cup {None}, EnsureReturns(c, s), HeadOf(slotQ, c), kid'[c] = None,
             AllMove(server, server', c), \A t \in Servers : c \notin Members(server'[t].q)
      PROVE  Shifts(c)
  <2>1. Moves(slotQ, slotQ', c) /\ c \notin Members(slotQ')
    BY <1>0, <1>2, HeadLeaves DEF EnsureReturns
  <2>2. pc'[c] = "idle" /\ attempt'[c] = 0 /\ ref'[c] = s
    BY <1>0, <1>2 DEF EnsureReturns, Return
  <2>3. PlacedAt(c)'
    BY <1>2, <2>1, <2>2 DEF PlacedAt, Slotted, Lined
  <2> QED BY <1>2, <2>1, <2>3 DEF Shifts, QueuesMove
<1>3. ASSUME NEW s \in Servers, s = ref[c], NEW left, left = Leave(server, s, c)
      PROVE  AllMove(server, left, c) /\ \A t \in Servers : c \notin Members(left[t].q)
  BY <1>3, Departs
<1>4. CASE Spawn(c)
  <2>0. /\ pc[c] \in {"start", "enter"} /\ HeadOf(server[ref[c]].q, c) /\ ref[c] # None
        /\ UNCHANGED <<slotQ, server, ref, calls>>
    BY <1>4 DEF Spawn, MustSpawn, HoldsServer, HeadOf
  <2>1. pc'[c] = "hello" /\ attempt'[c] = attempt[c] /\ kid'[c] # None
    BY <1>0, <1>4 DEF Spawn, Goto
  <2>2. PlacedAt(c)'
    BY <1>0, <2>0, <2>1 DEF PlacedAt, Slotted, Lined
  <2> QED BY <1>1, <2>0, <2>2 DEF Shifts, QueuesMove
<1>5. CASE SpawnFails(c)
  <2>0. /\ pc[c] \in {"start", "enter", "hello"} /\ kid'[c] = None /\ UNCHANGED calls /\ ref[c] \in Servers
    BY <1>0, <1>5 DEF SpawnFails, MustSpawn, PlacedAt, Lined
  <2>1. CASE attempt[c] = 0 /\ EnsureReturns(c, None) /\ DropUnowned(Leave(server, ref[c], c), child)
    <3>1. HeadOf(slotQ, c)
      BY <1>0, <2>0, <2>1 DEF PlacedAt, Slotted
    <3>2. PICK left : left = Leave(server, ref[c], c)
      OBVIOUS
    <3>3. AllMove(server, left, c) /\ \A t \in Servers : c \notin Members(left[t].q)
      BY <1>3, <2>0, <3>2
    <3>4. AllMove(server, server', c) /\ \A t \in Servers : c \notin Members(server'[t].q)
      BY <2>1, <3>2, <3>3, DroppedQueues
    <3> QED BY <1>2, <2>0, <2>1, <3>1, <3>4
  <2>2. CASE attempt[c] # 0 /\ UNCHANGED <<cache, slotQ, ref>> /\ AttemptFails(c, child)
    <3>1. pc[c] \in {"enter", "hello"}
      BY <1>0, <2>0, <2>2 DEF PlacedAt
    <3> QED BY <2>0, <2>2, <3>1, FailureShifts
  <2> QED BY <1>5, <2>1, <2>2 DEF SpawnFails
<1>6. CASE Hello(c)
  <2>0. /\ pc[c] = "hello" /\ kid'[c] = None /\ UNCHANGED calls /\ ref[c] \in Servers /\ kid[c] \in Children
        /\ HeadOf(server[ref[c]].q, c)
    BY <1>0, <1>6 DEF Hello, PlacedAt, Lined
  <2>1. PICK s \in Servers : s = ref[c]
    BY <2>0
  <2>7. PICK k \in Children \cup {None} : k = kid[c]
    BY <2>0
  <2>2. PICK new : new = WithChild(server, s, k)
    OBVIOUS
  <2>3. Ordered(new) /\ \A t \in Servers : new[t].q = server[t].q
    <3>1. Ordered(server)
      BY <1>0
    <3> QED BY <2>2, <3>1, ChildAt
  <2>4. AllMove(server, new, c)
    BY <1>1, <2>3 DEF AllMove
  <2>5. CASE attempt[c] = 0 /\ EnsureReturns(c, ref[c]) /\ server' = Leave(new, ref[c], c)
    <3>1. HeadOf(slotQ, c)
      BY <1>0, <2>0, <2>5 DEF PlacedAt, Slotted
    <3>2. AllMove(new, server', c) /\ c \notin Members(server'[s].q) /\ \A t \in Servers \ {s} : server'[t] = new[t]
      BY <2>1, <2>3, <2>5, LeaveAt
    <3>3. ASSUME NEW t \in Servers PROVE c \notin Members(server'[t].q)
      <4>1. CASE t # s
        <5>1. server'[t].q = server[t].q
          BY <2>3, <3>2, <4>1
        <5> QED BY <1>0, <2>1, <4>1, <5>1 DEF PlacedAt
      <4> QED BY <3>2, <4>1
    <3>4. AllMove(server, server', c)
      BY <2>4, <3>2, AllMoveOn
    <3> QED BY <1>2, <2>0, <2>1, <2>5, <3>1, <3>3, <3>4
  <2>6. CASE attempt[c] # 0 /\ pc' = [pc EXCEPT ![c] = "write"] /\ server' = new /\ UNCHANGED <<slotQ, ref, attempt>>
    <3>1. pc'[c] = "write" /\ attempt'[c] = attempt[c] /\ ref'[c] = ref[c] /\ calls'[c] = calls[c]
      BY <1>0, <2>0, <2>6
    <3>2. PlacedAt(c)'
      BY <1>0, <2>0, <2>3, <2>6, <3>1 DEF PlacedAt, Slotted, Lined
    <3> QED BY <1>1, <2>4, <2>6, <3>2 DEF Shifts, QueuesMove
  <2> QED BY <1>6, <2>1, <2>2, <2>5, <2>6, <2>7 DEF Hello, WithChild
<1>7. CASE RequestCall(c)
  <2>0. /\ ref[c] \in Servers /\ c \notin Members(slotQ) /\ \A t \in Servers : c \notin Members(server[t].q)
        /\ UNCHANGED <<slotQ, ref, kid>> /\ kid[c] = None
    BY <1>0, <1>7 DEF RequestCall, PlacedAt, Slotted, Lined
  <2>1. AllMove(server, server', c) /\ \A t \in Servers : c \in Members(server'[t].q) <=> t = ref[c]
    BY <1>0, <1>7, <2>0, Arrives DEF RequestCall
  <2>2. pc'[c] = "enter" /\ attempt'[c] = 1 /\ calls'[c] # 0
    BY <1>0, <1>7 DEF RequestCall
  <2>3. PlacedAt(c)'
    BY <1>0, <2>0, <2>1, <2>2 DEF PlacedAt, Slotted, Lined
  <2> QED BY <1>1, <2>0, <2>1, <2>3 DEF Shifts, QueuesMove
<1>8. CASE Enter(c) \/ Write(c)
  <2>0. /\ pc[c] \in {"enter", "write"} /\ HeadOf(server[ref[c]].q, c)
        /\ UNCHANGED <<slotQ, server, ref, kid, attempt, calls>>
    BY <1>0, <1>8 DEF Enter, Write, Goto, HoldsServer, HeadOf, PlacedAt
  <2>1. pc'[c] \in {"write", "read"}
    BY <1>0, <1>8 DEF Enter, Write, Goto
  <2>2. PlacedAt(c)'
    BY <1>0, <2>0, <2>1 DEF PlacedAt, Slotted, Lined
  <2> QED BY <1>1, <2>0, <2>2 DEF Shifts, QueuesMove
<1>9. ASSUME NEW ch, AttemptFails(c, ch), pc[c] \in {"write", "read"}, UNCHANGED <<slotQ, ref, kid, calls>>
      PROVE  Shifts(c)
  <2>1. kid'[c] = None /\ attempt[c] # 0
    BY <1>0, <1>9 DEF PlacedAt
  <2> QED BY <1>9, <2>1, FailureShifts
<1>10. CASE WriteFails(c) \/ NoLine(c)
  BY <1>9, <1>10 DEF WriteFails, NoLine
<1>11. CASE Read(c)
  <2>0. pc[c] = "read" /\ UNCHANGED <<slotQ, ref, kid, calls>> /\ ref[c] \in Servers
    BY <1>0, <1>11 DEF Read, PlacedAt, Lined
  <2>1. CASE UNCHANGED <<server, pc, attempt>>
    <3>1. PlacedAt(c)'
      BY <1>0, <2>0, <2>1 DEF PlacedAt, Slotted, Lined
    <3> QED BY <1>1, <2>0, <2>1, <3>1 DEF Shifts, QueuesMove
  <2>2. CASE Goto(c, "used") /\ server' = Leave(server, ref[c], c)
    <3>1. AllMove(server, server', c) /\ \A t \in Servers : c \notin Members(server'[t].q)
      BY <1>3, <2>0, <2>2
    <3>2. pc'[c] = "used" /\ attempt'[c] = attempt[c]
      BY <1>0, <2>2 DEF Goto
    <3>3. PlacedAt(c)'
      BY <1>0, <2>0, <3>1, <3>2 DEF PlacedAt, Slotted, Lined
    <3> QED BY <1>1, <2>0, <3>1, <3>3 DEF Shifts, QueuesMove
  <2>3. CASE \E ch : AttemptFails(c, ch)
    BY <1>9, <2>0, <2>3
  <2> QED BY <1>11, <2>1, <2>2, <2>3 DEF Read
<1>12. CASE Reset(c)
  <2>0. /\ pc[c] = "reset" /\ UNCHANGED <<slotQ, ref, kid, calls>> /\ ref[c] \in Servers /\ kid[c] = None
        /\ c \notin Members(slotQ) /\ calls[c] # 0
    BY <1>0, <1>12 DEF Reset, PlacedAt, Slotted, Lined
  <2>1. PICK s \in Servers : s = ref[c]
    BY <2>0
  <2>2. PICK left : left = Leave(server, s, c)
    OBVIOUS
  <2>3. AllMove(server, left, c) /\ \A t \in Servers : c \notin Members(left[t].q)
    BY <1>3, <2>1, <2>2
  <2>4. PICK back : back = Join(left, s, c)
    OBVIOUS
  <2>5. AllMove(left, back, c) /\ \A t \in Servers : c \in Members(back[t].q) <=> t = s
    BY <2>3, <2>4, Arrives DEF AllMove
  <2>6. PICK new : new = WithChild(back, s, None)
    OBVIOUS
  <2>7. Ordered(new) /\ \A t \in Servers : new[t].q = back[t].q
    BY <2>5, <2>6, ChildAt DEF AllMove
  <2>8. AllMove(server, new, c)
    <3>1. AllMove(server, back, c)
      BY <2>3, <2>5, AllMoveOn
    <3> QED BY <2>7, <3>1 DEF AllMove
  <2>9. DropUnowned(new, child)
    BY <1>12, <2>1, <2>2, <2>4, <2>6 DEF Reset, WithChild
  <2>10. AllMove(server, server', c) /\ \A t \in Servers : server'[t].q = new[t].q
    BY <2>0, <2>1, <2>5, <2>7, <2>8, <2>9, DroppedQueues
  <2>11. pc'[c] = "enter" /\ attempt'[c] = 2
    BY <1>0, <1>12 DEF Reset
  <2>12. PlacedAt(c)'
    BY <1>0, <2>0, <2>1, <2>5, <2>7, <2>10, <2>11 DEF PlacedAt, Slotted, Lined
  <2> QED BY <1>1, <2>0, <2>10, <2>12 DEF Shifts, QueuesMove
<1>13. CASE MarkUsed(c)
  <2>0. /\ pc[c] = "used" /\ UNCHANGED <<slotQ, ref, kid, calls>> /\ ref[c] \in Servers /\ kid[c] = None
        /\ c \notin Members(slotQ) /\ \A t \in Servers : c \notin Members(server[t].q)
    BY <1>0, <1>13 DEF MarkUsed, PlacedAt, Slotted, Lined
  <2>1. PICK s \in Servers, b \in BOOLEAN : s = ref[c] /\ server' = WithIdle(server, s, b)
    BY <1>13, <2>0 DEF MarkUsed, WithIdle
  <2>2. Ordered(server') /\ \A t \in Servers : server'[t].q = server[t].q
    BY <1>0, <2>1, IdleAt
  <2>3. AllMove(server, server', c)
    BY <1>1, <2>2 DEF AllMove
  <2>4. pc'[c] = "idle" /\ attempt'[c] = 0
    BY <1>0, <1>13 DEF MarkUsed, Return
  <2>5. PlacedAt(c)'
    BY <1>0, <2>0, <2>2, <2>4 DEF PlacedAt, Slotted, Lined
  <2> QED BY <1>1, <2>0, <2>3, <2>5 DEF Shifts, QueuesMove
<1>14. QED
  BY <1>4, <1>5, <1>6, <1>7, <1>8, <1>10, <1>11, <1>12, <1>13

LEMMA HostShifts ==
    ASSUME TypesOK, Placed, NEW c \in Callers, OthersStay(c), Release(c) \/ Cancel(c)
    PROVE  Shifts(c)
<1>0. /\ pc \in [Callers -> Labels] /\ attempt \in [Callers -> 0..2] /\ ref \in [Callers -> Servers \cup {None}]
      /\ kid \in [Callers -> Children \cup {None}] /\ slotQ \in Seq(Callers) /\ IsInjective(slotQ)
      /\ PlacedAt(c) /\ None \notin Servers /\ Ordered(server)
  BY PyServerAssumption DEF TypesOK, CtlOK, SlotOK, Placed
<1>1. Moves(slotQ, slotQ, c) /\ AllMove(server, server, c)
  BY <1>0, Stands, AllStand
<1>2. CASE Release(c)
  <2>0. /\ pc[c] = "idle" /\ UNCHANGED <<slotQ, pc, kid, attempt>> /\ kid[c] = None /\ attempt[c] = 0
        /\ c \notin Members(slotQ) /\ \A t \in Servers : c \notin Members(server[t].q)
    BY <1>0, <1>2 DEF Release, PlacedAt, Slotted, Lined
  <2>1. AllMove(server, server', c) /\ \A t \in Servers : c \notin Members(server'[t].q)
    BY <1>1, <1>2, <2>0, DroppedQueues DEF Release
  <2>2. PlacedAt(c)'
    BY <2>0, <2>1 DEF PlacedAt, Slotted, Lined
  <2> QED BY <1>1, <2>0, <2>1, <2>2 DEF Shifts, QueuesMove
<1>3. CASE Cancel(c)
  <2>1. PICK left : left = IF ref[c] = None THEN server ELSE Leave(server, ref[c], c)
    OBVIOUS
  <2>2. AllMove(server, left, c) /\ \A t \in Servers : c \notin Members(left[t].q)
    <3>1. CASE ref[c] = None
      BY <1>0, <1>1, <2>1, <3>1 DEF PlacedAt
    <3>2. CASE ref[c] # None
      BY <1>0, <2>1, <3>2, Departs
    <3> QED BY <3>1, <3>2
  <2>3. \E h : DropUnowned(left, h)
    BY <1>3, <2>1 DEF Cancel
  <2>4. AllMove(server, server', c) /\ \A t \in Servers : c \notin Members(server'[t].q)
    BY <2>2, <2>3, DroppedQueues
  <2>5. Moves(slotQ, slotQ', c) /\ c \notin Members(slotQ')
    BY <1>0, <1>3, Leaves DEF Cancel
  <2>6. pc'[c] = "idle" /\ attempt'[c] = 0 /\ kid'[c] = None
    BY <1>0, <1>3 DEF Cancel, Return
  <2>7. PlacedAt(c)'
    BY <2>4, <2>5, <2>6 DEF PlacedAt, Slotted, Lined
  <2> QED BY <2>4, <2>5, <2>7 DEF Shifts, QueuesMove
<1>4. QED
  BY <1>2, <1>3

\* Every step of a caller shifts it.
CallerStep(c) == EnsureCall(c) \/ RequestCall(c) \/ Step(c) \/ Untimed(c) \/ Hello(c) \/ Release(c) \/ Cancel(c)

LEMMA CallerShifts ==
    ASSUME TypesOK, Placed, Cached, KeptServers, NEW c \in Callers, CallerStep(c) PROVE Shifts(c)
<1>1. OthersStay(c)
  BY OthersStayStep DEF CallerStep, TypesOK
<1>2. QED
  BY <1>1, EnsureShifts, RequestShifts, HostShifts DEF CallerStep, Step, Untimed

-----------------------------------------------------------------------------
(* Types of the callers and of the cache.                                   *)

LEMMA CtlStep == ASSUME TypesOK, Placed, NEW c \in Callers, CallerStep(c) PROVE CtlOK'
<1>0. /\ pc \in [Callers -> Labels] /\ attempt \in [Callers -> 0..2] /\ ref \in [Callers -> Servers \cup {None}]
      /\ kid \in [Callers -> Children \cup {None}] /\ id \in [Callers -> Nat \cup {NoId}]
      /\ calls \in [Callers -> 0..MaxCalls] /\ PlacedAt(c) /\ cache.server \in Servers \cup {None}
  BY DEF TypesOK, CtlOK, CacheOK, Placed
<1>1. ASSUME NEW l \in Labels, Goto(c, l) PROVE UNCHANGED <<ref, kid, calls>> => CtlOK'
  BY <1>0, <1>1 DEF Goto, CtlOK
<1>2. ASSUME Return(c)
      PROVE  pc' \in [Callers -> Labels] /\ attempt' \in [Callers -> 0..2] /\ id' \in [Callers -> Nat \cup {NoId}]
  BY <1>0, <1>2 DEF Return, Labels
<1>3. ASSUME NEW l \in Labels, Goto(c, l)
      PROVE  pc' \in [Callers -> Labels] /\ attempt' \in [Callers -> 0..2] /\ id' \in [Callers -> Nat \cup {NoId}]
  BY <1>0, <1>3 DEF Goto
<1>4. \A k \in Children \cup {None} : [kid EXCEPT ![c] = k] \in [Callers -> Children \cup {None}]
  BY <1>0
<1>5. ASSUME NEW s \in Servers \cup {None}, EnsureReturns(c, s), UNCHANGED calls, kid' = kid \/ kid' = [kid EXCEPT ![c] = None]
      PROVE  CtlOK'
  BY <1>0, <1>2, <1>4, <1>5 DEF EnsureReturns, CtlOK
<1>6. ASSUME NEW ch, AttemptFails(c, ch), UNCHANGED <<ref, calls>>, kid' = kid \/ kid' = [kid EXCEPT ![c] = None]
      PROVE  CtlOK'
  <2>1. Goto(c, "reset") \/ Return(c)
    BY <1>6 DEF AttemptFails
  <2>2. "reset" \in Labels
    BY DEF Labels
  <2> QED BY <1>0, <1>2, <1>3, <1>4, <1>6, <2>1, <2>2 DEF CtlOK
<1>7. \A s \in Servers \cup {None} : [ref EXCEPT ![c] = s] \in [Callers -> Servers \cup {None}]
  BY <1>0
<1>8. {"idle", "slot", "discard", "prepare", "start", "hello", "enter", "write", "read", "reset", "used"} \subseteq Labels
  BY DEF Labels
<1>9. CASE EnsureCall(c) \/ Write(c)
  BY <1>1, <1>8, <1>9 DEF EnsureCall, Write
<1>10. CASE MarkUsed(c)
  BY <1>0, <1>2, <1>10 DEF MarkUsed, CtlOK
<1>11. ASSUME NEW same \in BOOLEAN, NEW rule \in BOOLEAN, Look(c, same, rule) PROVE CtlOK'
  <2>1. CASE \E l \in Labels : Goto(c, l) /\ ref' = [ref EXCEPT ![c] = cache.server]
    BY <1>0, <1>3, <1>7, <1>11, <2>1 DEF Look, CtlOK
  <2>2. CASE \E l \in Labels : Goto(c, l) /\ UNCHANGED ref
    BY <1>1, <1>11, <2>2 DEF Look
  <2>3. CASE EnsureReturns(c, None)
    BY <1>5, <1>11, <2>3 DEF Look
  <2> QED BY <1>8, <1>11, <2>1, <2>2, <2>3 DEF Look
<1>12. CASE Discard(c) \/ Prepared(c)
  <2>1. \E l \in Labels : Goto(c, l)
    BY <1>8, <1>12 DEF Discard, Prepared
  <2>2. ref' \in [Callers -> Servers \cup {None}] /\ UNCHANGED <<kid, calls>>
    BY <1>7, <1>12 DEF Discard, Prepared
  <2> QED BY <1>0, <1>3, <2>1, <2>2 DEF CtlOK
<1>13. CASE Spawn(c)
  <2>1. kid' \in [Callers -> Children \cup {None}] /\ UNCHANGED <<ref, calls>> /\ Goto(c, "hello")
    BY <1>4, <1>13 DEF Spawn
  <2> QED BY <1>0, <1>3, <1>8, <2>1 DEF CtlOK
<1>14. CASE PrepareFails(c) \/ AlreadyStarted(c)
  BY <1>0, <1>5, <1>14 DEF PrepareFails, AlreadyStarted
<1>15. CASE SpawnFails(c)
  BY <1>5, <1>6, <1>15 DEF SpawnFails
<1>16. CASE Hello(c)
  <2>1. CASE EnsureReturns(c, ref[c])
    BY <1>0, <1>5, <1>16, <2>1 DEF Hello
  <2>2. CASE pc' = [pc EXCEPT ![c] = "write"] /\ id' = [id EXCEPT ![c] = 0] /\ UNCHANGED <<ref, attempt>>
    BY <1>0, <1>4, <1>8, <1>16, <2>2 DEF Hello, CtlOK
  <2> QED BY <1>16, <2>1, <2>2 DEF Hello
<1>17. CASE WriteFails(c) \/ NoLine(c)
  BY <1>6, <1>17 DEF WriteFails, NoLine
<1>18. CASE Read(c)
  <2>1. CASE UNCHANGED <<pc, attempt, id>>
    BY <1>0, <1>18, <2>1 DEF Read, CtlOK
  <2>2. CASE Goto(c, "used")
    BY <1>1, <1>8, <1>18, <2>2 DEF Read
  <2>3. CASE \E ch : AttemptFails(c, ch)
    BY <1>6, <1>18, <2>3 DEF Read
  <2> QED BY <1>18, <2>1, <2>2, <2>3 DEF Read
<1>19. CASE RequestCall(c)
  <2>1. calls' \in [Callers -> 0..MaxCalls]
    <3>1. calls[c] + 1 \in 0..MaxCalls
      BY <1>0, <1>19, PyServerAssumption DEF RequestCall
    <3> QED BY <1>0, <1>19, <3>1 DEF RequestCall
  <2> QED BY <1>0, <1>8, <1>19, <2>1 DEF RequestCall, CtlOK
<1>20. CASE Enter(c)
  <2>1. child[Mine(c)].nextId \in Nat
    <3>1. ref[c] \in Servers /\ server[ref[c]].child # None
      BY <1>0, <1>20 DEF Enter, HoldsServer
    <3>2. server[ref[c]].child \in Children
      BY <3>1, OrderedAt DEF TypesOK
    <3> QED BY <3>2 DEF TypesOK, ChildOK, Child, Mine
  <2> QED BY <1>0, <1>8, <1>20, <2>1 DEF Enter, CtlOK, Mine
<1>21. CASE Reset(c)
  BY <1>0, <1>8, <1>21 DEF Reset, CtlOK
<1>22. CASE Release(c)
  BY <1>0, <1>7, <1>22 DEF Release, CtlOK
<1>23. CASE Cancel(c)
  <2>1. kid' \in [Callers -> Children \cup {None}] /\ ref' \in [Callers -> Servers \cup {None}] /\ calls' = calls
    BY <1>0, <1>4, <1>7, <1>23 DEF Cancel
  <2> QED BY <1>0, <1>2, <1>23, <2>1 DEF Cancel, CtlOK
<1>24. QED
  BY <1>9, <1>10, <1>11, <1>12, <1>13, <1>14, <1>15, <1>16, <1>17, <1>18, <1>19, <1>20, <1>21, <1>22, <1>23
     DEF CallerStep, Step, Untimed

\* The cache is written by the holder of its lock.
LEMMA CacheStep ==
    ASSUME TypesOK, Placed, Cached, NEW c \in Callers, CallerStep(c)
    PROVE  /\ CacheOK'
           /\ \/ cache' = cache
              \/ /\ HeadOf(slotQ, c)
                 /\ \/ cache'.kind # "Ready" /\ cache'.server = None
                    \/ cache'.kind = "Ready" /\ cache'.server = ref[c] /\ ref[c] # None
<1>0. /\ PlacedAt(c) /\ ref[c] \in Servers \cup {None} /\ pc \in [Callers -> Labels]
  BY DEF TypesOK, CtlOK, Placed
<1>1. ASSUME NEW k \in {"Empty", "Failed"}, cache' = Cache(k, None), HeadOf(slotQ, c)
      PROVE  CacheOK' /\ cache'.kind # "Ready" /\ cache'.server = None
  BY <1>1 DEF Cache, CacheOK
<1>2. ASSUME cache' = cache PROVE CacheOK'
  BY <1>2 DEF TypesOK, CacheOK
<1>3. CASE Discard(c) \/ PrepareFails(c)
  <2>1. HeadOf(slotQ, c)
    BY <1>0, <1>3 DEF Discard, PrepareFails, PlacedAt, Slotted
  <2> QED BY <1>1, <1>3, <2>1 DEF Discard, PrepareFails
<1>4. CASE SpawnFails(c)
  <2>1. CASE UNCHANGED cache
    BY <1>2, <2>1
  <2>2. CASE attempt[c] = 0 /\ cache' = Cache("Failed", None)
    <3>1. HeadOf(slotQ, c)
      BY <1>0, <1>4, <2>2 DEF SpawnFails, MustSpawn, PlacedAt, Slotted
    <3> QED BY <1>1, <2>2, <3>1
  <2> QED BY <1>4, <2>1, <2>2 DEF SpawnFails
<1>5. CASE Hello(c)
  <2>1. CASE UNCHANGED cache
    BY <1>2, <2>1
  <2>2. CASE attempt[c] = 0 /\ cache' = Cache("Ready", ref[c])
    <3>1. HeadOf(slotQ, c) /\ ref[c] # None
      BY <1>0, <1>5, <2>2 DEF Hello, PlacedAt, Slotted, Lined
    <3>2. CacheOK' /\ cache'.kind = "Ready" /\ cache'.server = ref[c]
      BY <1>0, <2>2 DEF Cache, CacheOK
    <3> QED BY <3>1, <3>2
  <2> QED BY <1>5, <2>1, <2>2 DEF Hello
<1>6. CASE \/ EnsureCall(c) \/ RequestCall(c) \/ Release(c) \/ Cancel(c) \/ Prepared(c) \/ AlreadyStarted(c) \/ Spawn(c)
           \/ Enter(c) \/ Write(c) \/ WriteFails(c) \/ Read(c) \/ NoLine(c) \/ Reset(c) \/ MarkUsed(c)
           \/ \E same \in BOOLEAN, rule \in BOOLEAN : Look(c, same, rule)
  BY <1>2, <1>6 DEF EnsureCall, RequestCall, Release, Cancel, Prepared, AlreadyStarted, Spawn, Enter, Write,
                    WriteFails, Read, NoLine, Reset, MarkUsed, Look
<1>7. QED
  BY <1>3, <1>4, <1>5, <1>6 DEF CallerStep, Step, Untimed

LEMMA CachedStep ==
    ASSUME TypesOK, Placed, Cached, NEW c \in Callers, CallerStep(c), Shifts(c)
    PROVE  Cached'
<1>0. /\ PlacedAt(c) /\ ref \in [Callers -> Servers \cup {None}] /\ pc \in [Callers -> Labels]
      /\ attempt \in [Callers -> 0..2] /\ CachedFor(c) /\ (cache.kind = "Ready" <=> cache.server # None)
  BY DEF TypesOK, CtlOK, Placed, Cached
<1>1. cache'.kind = "Ready" <=> cache'.server # None
  BY <1>0, CacheStep
<1>2. ASSUME NEW d \in Callers \ {c} PROVE CachedFor(d)'
  <2>1. pc'[d] = pc[d] /\ ref'[d] = ref[d] /\ attempt'[d] = attempt[d] /\ CachedFor(d) /\ PlacedAt(d)
    BY DEF Shifts, OthersStay, Cached, Placed
  <2>2. CASE cache' = cache
    BY <2>1, <2>2 DEF CachedFor
  <2>3. CASE HeadOf(slotQ, c)
    <3>1. ~(Slotted(d) /\ pc[d] # "slot")
      BY <2>1, <2>3 DEF PlacedAt, HeadOf
    <3> QED BY <2>1, <3>1 DEF CachedFor, Slotted
  <2> QED BY <2>2, <2>3, CacheStep
<1>3. CachedFor(c)'
  <2>1. CASE pc'[c] \notin {"discard", "prepare", "start", "hello"}
    BY <2>1 DEF CachedFor
  <2>2. ASSUME NEW same \in BOOLEAN, NEW rule \in BOOLEAN, Look(c, same, rule) PROVE CachedFor(c)'
    <3>1. CASE /\ cache.kind = "Ready" /\ (\E l \in {"discard", "start"} : Goto(c, l))
               /\ ref' = [ref EXCEPT ![c] = cache.server] /\ cache' = cache
      <4>1. pc'[c] \in {"discard", "start"} /\ ref'[c] = cache.server
        BY <1>0, <3>1 DEF Goto
      <4> QED BY <1>0, <3>1, <4>1 DEF CachedFor
    <3>2. CASE Return(c)
      <4>1. pc'[c] = "idle"
        BY <1>0, <3>2 DEF Return
      <4> QED BY <2>1, <4>1
    <3>3. CASE cache.kind # "Ready" /\ Goto(c, "prepare") /\ cache' = cache
      <4>1. pc'[c] = "prepare"
        BY <1>0, <3>3 DEF Goto
      <4> QED BY <1>0, <3>3, <4>1 DEF CachedFor
    <3> QED BY <2>2, <3>1, <3>2, <3>3 DEF Look, EnsureReturns
  <2>3. CASE Discard(c)
    <3>1. pc'[c] = "prepare" /\ cache'.server = None
      BY <1>0, <2>3 DEF Discard, Goto, Cache
    <3> QED BY <3>1 DEF CachedFor
  <2>4. CASE Prepared(c)
    <3>1. pc'[c] = "start" /\ cache' = cache /\ cache.server = None
      BY <1>0, <2>4 DEF Prepared, Goto, CachedFor
    <3> QED BY <3>1 DEF CachedFor
  <2>5. CASE Spawn(c)
    <3>1. pc[c] \in {"start", "enter"} /\ pc'[c] = "hello" /\ cache' = cache /\ ref' = ref /\ attempt' = attempt
      BY <1>0, <2>5 DEF Spawn, MustSpawn, Goto
    <3> QED BY <1>0, <3>1 DEF CachedFor, PlacedAt
  <2>6. CASE EnsureCall(c) \/ Write(c) \/ Enter(c) \/ RequestCall(c) \/ Reset(c) \/ MarkUsed(c)
             \/ PrepareFails(c) \/ AlreadyStarted(c) \/ Cancel(c)
    <3>1. pc'[c] \notin {"discard", "prepare", "start", "hello"}
      BY <1>0, <2>6 DEF EnsureCall, Write, Enter, RequestCall, Reset, MarkUsed, PrepareFails, AlreadyStarted,
                        Cancel, EnsureReturns, Return, Goto
    <3> QED BY <2>1, <3>1
  <2>7. CASE Hello(c) \/ SpawnFails(c) \/ WriteFails(c) \/ NoLine(c) \/ Read(c) \/ Release(c)
    <3>1. pc'[c] \notin {"discard", "prepare", "start", "hello"}
      BY <1>0, <2>7 DEF Hello, SpawnFails, WriteFails, NoLine, Read, Release, AttemptFails, EnsureReturns, Return, Goto
    <3> QED BY <2>1, <3>1
  <2> QED BY <2>2, <2>3, <2>4, <2>5, <2>6, <2>7 DEF CallerStep, Step, Untimed
<1>4. QED
  BY <1>1, <1>2, <1>3 DEF Cached

-----------------------------------------------------------------------------
(* What a caller does to children.                                          *)

\* c uses the child it awaits, and the child of a server whose lock it holds.
Uses(c, k) == k = kid[c] \/ \E s \in Servers : HeadOf(server[s].q, c) /\ server[s].child = k
Pipe(ch) == <<ch.nextId, ch.in, ch.out>>

\* c leaves the children as ch: it writes to and reads from those it uses, ids still
\* grow, and it marks none but m as having failed it.
Touched(c, m, ch) ==
    /\ ch \in [Children -> Child]
    /\ \A k \in Children :
         /\ ch[k].st = child[k].st
         /\ Ids(ch[k])
         /\ \A d \in ch[k].failed : d \in child[k].failed \/ (d = c /\ k = m)
         /\ Pipe(ch[k]) = Pipe(child[k]) \/ Uses(c, k)
         /\ Owned(k) \/ ch[k] = child[k]

LEMMA Untouched == ASSUME ChildOK, Numbered, NEW c, NEW m PROVE Touched(c, m, child)
BY DEF ChildOK, Numbered, Touched

LEMMA TouchOne ==
    ASSUME ChildOK, Numbered, NEW c, NEW m, NEW k \in Children, Owned(k), NEW new \in Child,
           new.st = child[k].st, Ids(new), \A d \in new.failed : d \in child[k].failed \/ (d = c /\ k = m),
           Pipe(new) = Pipe(child[k]) \/ Uses(c, k), NEW ch, ch = [child EXCEPT ![k] = new]
    PROVE  Touched(c, m, ch)
<1>1. ch \in [Children -> Child] /\ ch[k] = new /\ \A j \in Children \ {k} : ch[j] = child[j]
  BY DEF ChildOK
<1>2. QED
  BY <1>1 DEF Numbered, Touched

Mark(ch, k, c) == [ch EXCEPT ![k].failed = @ \cup {c}]

LEMMA TouchMark ==
    ASSUME NEW c \in Callers, NEW k \in Children, Owned(k), NEW ch, Touched(c, None, ch), NEW new, new = Mark(ch, k, c)
    PROVE  Touched(c, k, new)
<1>1. PICK old \in Child : old = ch[k] /\ ch \in [Children -> Child]
  BY DEF Touched
<1>2. PICK fresh : fresh = [old EXCEPT !.failed = @ \cup {c}]
  OBVIOUS
<1>3. /\ fresh \in Child /\ fresh.st = old.st /\ fresh.failed = old.failed \cup {c}
      /\ fresh.nextId = old.nextId /\ fresh.in = old.in /\ fresh.out = old.out
  BY <1>2 DEF Child
<1>4. Pipe(fresh) = Pipe(old) /\ (Ids(old) => Ids(fresh))
  BY <1>3 DEF Pipe, Ids
<1>5. new \in [Children -> Child] /\ new[k] = fresh /\ \A j \in Children \ {k} : new[j] = ch[j]
  <2>1. new = [ch EXCEPT ![k] = fresh]
    BY <1>1, <1>2 DEF Mark
  <2> QED BY <1>1, <1>3, <2>1
<1>6. None \notin Children
  BY PyServerAssumption
<1>7. QED
  BY <1>1, <1>3, <1>4, <1>5, <1>6 DEF Touched

-----------------------------------------------------------------------------
(* What a caller does to owners.                                            *)

\* The child of a server changes where c holds the lock or the server is dropped, and
\* the child it had is gone.
OwnersMove(c) ==
    \A s \in Servers :
      \/ server'[s].child = server[s].child
      \/ /\ HeadOf(server[s].q, c) \/ ~Held(s)'
         /\ \A k \in Children : k = server[s].child => child'[k] = NoChild

\* Servers and children have their owners after a step of c, and the other callers
\* find what they had.
Handles(c, m) ==
    /\ KeptServers' /\ KeptChildren' /\ Solo' /\ ChildOK' /\ Numbered' /\ OwnersMove(c)
    /\ \A k \in Children : child'[k] = NoChild \/ Pipe(child'[k]) = Pipe(child[k]) \/ Uses(c, k)
    /\ \A k \in Children : \A d \in child'[k].failed : d \in child[k].failed \/ (d = c /\ k = m)

LEMMA NoChildFacts ==
    /\ NoChild \in Child /\ NoChild.st = "free" /\ NoChild.failed = {} /\ Ids(NoChild)
    /\ NoChild.in = <<>> /\ NoChild.out = <<>>
<1>1. /\ NoChild.st = "free" /\ NoChild.failed = {} /\ NoChild.in = <<>> /\ NoChild.out = <<>> /\ NoChild.nextId = 0
      /\ NoChild.torn = FALSE
  BY DEF NoChild
<1>2. NoChild \in Child
  <2>1. <<>> \in Seq(Line) /\ <<>> \in Seq(Answer)
    BY EmptySeq
  <2> QED BY <2>1 DEF NoChild, Child
<1>3. Ids(NoChild)
  <2>1. DOMAIN NoChild.in = {} /\ DOMAIN NoChild.out = {}
    BY <1>1
  <2> QED BY <2>1 DEF Ids
<1>4. QED
  BY <1>1, <1>2, <1>3

LEMMA StayHandles ==
    ASSUME TypesOK, KeptServers, KeptChildren, Solo, NEW c \in Callers, Touched(c, None, child'),
           \A s \in Servers : server'[s].child = server[s].child, kid' = kid,
           \A s \in Servers : Held(s) => Held(s)', \A s \in Servers : Held(s)' \/ server'[s] = server[s]
    PROVE  Handles(c, None)
<1>1. KeptServers' /\ OwnersMove(c) /\ ChildOK'
  BY DEF KeptServers, OwnersMove, Touched, ChildOK
<1>2. \A k \in Children : Owned(k)' <=> Owned(k)
  BY DEF Owned
<1>3. KeptChildren'
  <2>1. ASSUME NEW k \in Children PROVE (Owned(k)' => child'[k].st # "free") /\ (~Owned(k)' => child'[k] = NoChild)
    BY <1>2 DEF KeptChildren, Touched
  <2> QED BY <2>1 DEF KeptChildren
<1>4. Solo'
  <2>1. \A s \in Servers : server'[s].child = server[s].child
    OBVIOUS
  <2> QED BY <2>1 DEF Solo
<1>5. Numbered'
  BY DEF Numbered, Touched
<1>6. QED
  BY <1>1, <1>3, <1>4, <1>5 DEF Handles, Touched

LEMMA DropHandles ==
    ASSUME TypesOK, KeptServers, KeptChildren, Solo, NEW c \in Callers, OthersStay(c), NEW m, NEW ch, NEW srv,
           Touched(c, m, ch), DropUnowned(srv, ch), kid'[c] \in {kid[c], None},
           \A s \in Servers : \/ srv[s].child = server[s].child
                              \/ HeadOf(server[s].q, c) /\ srv[s].child = None
    PROVE  Handles(c, m)
<1>0. None \notin Children /\ NoServer.child = None
  BY PyServerAssumption DEF NoServer
<1>1. \A s \in Servers : (Held(s)' => server'[s] = srv[s]) /\ (~Held(s)' => server'[s] = NoServer)
  BY DEF DropUnowned
<1>2. \A s \in Servers : \/ server'[s].child = server[s].child
                         \/ (HeadOf(server[s].q, c) \/ ~Held(s)') /\ server'[s].child = None
  BY <1>0, <1>1
<1>3. \A d \in Callers : kid'[d] \in {kid[d], None}
  BY DEF OthersStay
<1>4. ASSUME NEW k \in Children PROVE (Owned(k)' => child'[k] = ch[k]) /\ (~Owned(k)' => child'[k] = NoChild)
  BY DEF DropUnowned
<1>5. ASSUME NEW k \in Children, Owned(k)' PROVE Owned(k)
  <2>1. CASE \E s \in Servers : server'[s].child = k
    BY <1>0, <1>2, <2>1 DEF Owned
  <2>2. CASE \E d \in Callers : kid'[d] = k
    BY <1>0, <1>3, <2>2 DEF Owned
  <2> QED BY <1>5, <2>1, <2>2 DEF Owned
<1>6. KeptServers'
  BY <1>1 DEF KeptServers
<1>7. KeptChildren'
  <2>1. ASSUME NEW k \in Children, Owned(k)' PROVE child'[k].st # "free"
    BY <1>4, <1>5, <2>1 DEF KeptChildren, Touched
  <2> QED BY <1>4, <2>1 DEF KeptChildren
<1>8. Solo'
  <2>1. ASSUME NEW s \in Servers, NEW t \in Servers, server'[s].child = server'[t].child, server'[s].child # None
        PROVE  s = t
    BY <1>2, <2>1 DEF Solo
  <2>2. ASSUME NEW d \in Callers, NEW e \in Callers, kid'[d] = kid'[e], kid'[d] # None PROVE d = e
    BY <1>3, <2>2 DEF Solo
  <2>3. ASSUME NEW s \in Servers, NEW d \in Callers, server'[s].child = kid'[d] PROVE kid'[d] = None
    BY <1>2, <1>3, <2>3 DEF Solo
  <2> QED BY <2>1, <2>2, <2>3 DEF Solo
<1>9. ChildOK' /\ Numbered'
  <2>1. child' = [k \in Children |-> child'[k]]
    BY DEF DropUnowned
  <2>2. ASSUME NEW k \in Children PROVE child'[k] \in Child /\ Ids(child'[k])
    BY <1>4, NoChildFacts DEF Touched
  <2> QED BY <2>1, <2>2 DEF ChildOK, Numbered
<1>10. OwnersMove(c)
  <2>1. ASSUME NEW s \in Servers, server'[s].child # server[s].child, NEW k \in Children, k = server[s].child
        PROVE  child'[k] = NoChild
    <3>1. server'[s].child = None
      BY <1>2, <2>1
    <3>2. ASSUME NEW t \in Servers, server'[t].child = k PROVE FALSE
      BY <1>0, <1>2, <2>1, <3>1, <3>2 DEF Solo
    <3>3. ASSUME NEW d \in Callers, kid'[d] = k PROVE FALSE
      BY <1>0, <1>3, <2>1, <3>3 DEF Solo
    <3>4. ~Owned(k)'
      BY <3>2, <3>3 DEF Owned
    <3> QED BY <1>4, <3>4
  <2> QED BY <1>2, <2>1 DEF OwnersMove
<1>11. ASSUME NEW k \in Children
       PROVE  /\ child'[k] = NoChild \/ Pipe(child'[k]) = Pipe(child[k]) \/ Uses(c, k)
              /\ \A d \in child'[k].failed : d \in child[k].failed \/ (d = c /\ k = m)
  <2>1. CASE Owned(k)'
    BY <1>4, <2>1 DEF Touched
  <2>2. CASE ~Owned(k)'
    BY <1>4, <2>2, NoChildFacts
  <2> QED BY <2>1, <2>2
<1>12. QED
  BY <1>6, <1>7, <1>8, <1>9, <1>10, <1>11 DEF Handles

-----------------------------------------------------------------------------
(* The steps of ensure, children and owners.                                *)

LEMMA HeldGrows ==
    ASSUME NEW c \in Callers, OthersStay(c), cache'.server = cache.server, ref'[c] = ref[c] \/ ref[c] = None
    PROVE  \A s \in Servers : Held(s) => Held(s)'
<1>1. None \notin Servers
  BY PyServerAssumption
<1>2. QED
  BY <1>1 DEF Held, OthersStay

LEMMA EnsureHandles ==
    ASSUME TypesOK, Placed, Cached, KeptServers, KeptChildren, Solo, Numbered, NEW c \in Callers, OthersStay(c),
           \/ EnsureCall(c) \/ Prepared(c) \/ PrepareFails(c) \/ AlreadyStarted(c) \/ MarkUsed(c)
           \/ \E same \in BOOLEAN, rule \in BOOLEAN : Look(c, same, rule)
    PROVE  Handles(c, None)
<1>0. /\ ref \in [Callers -> Servers \cup {None}] /\ cache.server \in Servers \cup {None} /\ PlacedAt(c)
      /\ CachedFor(c) /\ None \notin Servers /\ Ordered(server)
  BY PyServerAssumption DEF TypesOK, CtlOK, CacheOK, Placed, Cached
<1>1. Touched(c, None, child)
  BY Untouched DEF TypesOK
<1>2. ASSUME UNCHANGED <<cache, server, child, kid>>, ref'[c] = ref[c] PROVE Handles(c, None)
  <2>1. \A s \in Servers : Held(s) => Held(s)'
    BY <1>2, HeldGrows
  <2>2. Touched(c, None, child')
    BY <1>1, <1>2
  <2> QED BY <1>2, <2>1, <2>2, StayHandles
<1>3. ASSUME NEW s \in Servers, ref'[c] = s, ref[c] \in {s, None}, UNCHANGED <<cache, child, kid>>,
             \A t \in Servers \ {s} : server'[t] = server[t], server'[s].child = server[s].child
      PROVE  Handles(c, None)
  <2>1. \A t \in Servers : Held(t) => Held(t)'
    BY <1>3, HeldGrows
  <2>2. Touched(c, None, child') /\ Held(s)'
    BY <1>1, <1>3 DEF Held
  <2>3. \A t \in Servers : server'[t].child = server[t].child /\ (Held(t)' \/ server'[t] = server[t])
    BY <1>3, <2>2
  <2> QED BY <1>3, <2>1, <2>2, <2>3, StayHandles
<1>4. CASE EnsureCall(c)
  BY <1>2, <1>4 DEF EnsureCall
<1>5. ASSUME NEW same \in BOOLEAN, NEW rule \in BOOLEAN, Look(c, same, rule) PROVE Handles(c, None)
  <2>0. ref[c] = None /\ UNCHANGED <<cache, child, kid>> /\ \A t \in Servers : c \notin Members(server[t].q)
    BY <1>0, <1>5 DEF Look, PlacedAt, Lined
  <2>1. CASE cache.kind = "Ready" /\ ref' = [ref EXCEPT ![c] = cache.server] /\ server' = Join(server, cache.server, c)
    <3>1. PICK s \in Servers : s = cache.server
      BY <1>0, <2>1 DEF Cached
    <3>2. /\ \A t \in Servers \ {s} : server'[t] = server[t]
          /\ server'[s].child = server[s].child
      BY <1>0, <2>0, <2>1, <3>1, JoinAt
    <3>3. ref'[c] = s
      BY <1>0, <2>1, <3>1
    <3> QED BY <1>3, <2>0, <3>2, <3>3
  <2>2. CASE UNCHANGED server /\ (EnsureReturns(c, None) \/ UNCHANGED ref)
    <3>1. ref'[c] = ref[c]
      BY <1>0, <2>0, <2>2 DEF EnsureReturns
    <3> QED BY <1>2, <2>0, <2>2, <3>1
  <2> QED BY <1>5, <2>1, <2>2 DEF Look
<1>6. CASE Prepared(c)
  <2>0. ref[c] = None /\ UNCHANGED <<cache, child, kid>>
    BY <1>0, <1>6 DEF Prepared, PlacedAt
  <2>1. PICK s \in Servers : ref' = [ref EXCEPT ![c] = s] /\ server' = [server EXCEPT ![s].q = <<c>>]
    BY <1>6 DEF Prepared
  <2>2. \A t \in Servers \ {s} : server'[t] = server[t]
    BY <1>0, <2>1 DEF Ordered
  <2>3. server'[s].child = server[s].child
    <3>1. server[s] \in Server /\ server'[s] = [server[s] EXCEPT !.q = <<c>>]
      BY <1>0, <2>1 DEF Ordered
    <3> QED BY <3>1 DEF Server
  <2>4. ref'[c] = s
    BY <1>0, <2>1
  <2> QED BY <1>3, <2>0, <2>2, <2>3, <2>4
<1>7. CASE PrepareFails(c)
  <2>1. ref[c] = None /\ ref'[c] = None /\ cache'.server = cache.server /\ UNCHANGED <<server, child, kid>>
    BY <1>0, <1>7 DEF PrepareFails, PlacedAt, CachedFor, EnsureReturns, Cache
  <2>2. \A s \in Servers : Held(s) => Held(s)'
    BY <2>1, HeldGrows
  <2>3. Touched(c, None, child')
    BY <1>1, <2>1
  <2> QED BY <2>1, <2>2, <2>3, StayHandles
<1>8. CASE AlreadyStarted(c)
  <2>0. UNCHANGED <<cache, child, kid>> /\ ref[c] \in Servers
    BY <1>0, <1>8 DEF AlreadyStarted, HoldsServer
  <2>1. PICK s \in Servers : s = ref[c]
    BY <2>0
  <2>2. server' = Leave(server, s, c) /\ ref'[c] = s
    BY <1>0, <1>8, <2>1 DEF AlreadyStarted, EnsureReturns
  <2>3. /\ \A t \in Servers \ {s} : server'[t] = server[t]
        /\ server'[s].child = server[s].child
    BY <1>0, <2>2, LeaveAt
  <2> QED BY <1>3, <2>0, <2>1, <2>2, <2>3
<1>9. CASE MarkUsed(c)
  <2>0. UNCHANGED <<cache, child, kid, ref>> /\ ref[c] \in Servers
    BY <1>0, <1>9 DEF MarkUsed, PlacedAt
  <2>1. PICK s \in Servers, b \in BOOLEAN : s = ref[c] /\ server' = WithIdle(server, s, b)
    BY <1>9, <2>0 DEF MarkUsed, WithIdle
  <2>2. PICK new : new = WithIdle(server, s, b)
    OBVIOUS
  <2>3. new[s].child = server[s].child /\ \A t \in Servers \ {s} : new[t] = server[t]
    BY <1>0, <2>2, IdleAt
  <2> QED BY <1>3, <2>0, <2>1, <2>2, <2>3
<1>10. QED
  BY <1>4, <1>5, <1>6, <1>7, <1>8, <1>9

\* The steps that let go of a server or take its child, with the child as it is.
LEMMA LetGoHandles ==
    ASSUME TypesOK, Placed, KeptServers, KeptChildren, Solo, Numbered, NEW c \in Callers, OthersStay(c),
           \/ Discard(c) \/ Reset(c) \/ Release(c) \/ (SpawnFails(c) /\ attempt[c] = 0)
    PROVE  Handles(c, None)
<1>0. /\ ref \in [Callers -> Servers \cup {None}] /\ PlacedAt(c) /\ None \notin Servers /\ Ordered(server)
      /\ kid \in [Callers -> Children \cup {None}] /\ Touched(c, None, child)
  BY PyServerAssumption, Untouched DEF TypesOK, CtlOK, Placed
<1>1. CASE Release(c)
  <2>1. DropUnowned(server, child) /\ kid'[c] = kid[c]
    BY <1>1 DEF Release
  <2> QED BY <1>0, <2>1, DropHandles
<1>2. CASE SpawnFails(c) /\ attempt[c] = 0
  <2>0. ref[c] \in Servers /\ kid'[c] = None
    BY <1>0, <1>2 DEF SpawnFails, MustSpawn, PlacedAt, Lined
  <2>1. PICK s \in Servers : s = ref[c]
    BY <2>0
  <2>2. PICK left : left = Leave(server, s, c)
    OBVIOUS
  <2>3. DropUnowned(left, child)
    BY <1>2, <2>1, <2>2 DEF SpawnFails
  <2>4. \A t \in Servers : left[t].child = server[t].child
    BY <1>0, <2>2, LeaveAt
  <2> QED BY <1>0, <2>0, <2>3, <2>4, DropHandles
<1>3. CASE Discard(c)
  <2>0. ref[c] \in Servers /\ kid'[c] = kid[c] /\ HeadOf(server[ref[c]].q, c)
    BY <1>0, <1>3 DEF Discard, HoldsServer, HeadOf
  <2>1. PICK s \in Servers : s = ref[c]
    BY <2>0
  <2>2. PICK left : left = Leave(server, s, c)
    OBVIOUS
  <2>3. Ordered(left) /\ \A t \in Servers : left[t].child = server[t].child
    BY <1>0, <2>2, LeaveAt DEF AllMove
  <2>4. PICK new : new = WithChild(left, s, None)
    OBVIOUS
  <2>5. new[s].child = None /\ \A t \in Servers \ {s} : new[t] = left[t]
    BY <2>3, <2>4, ChildAt
  <2>6. DropUnowned(new, child)
    BY <1>3, <2>1, <2>2, <2>4 DEF Discard, WithChild
  <2>7. \A t \in Servers : new[t].child = server[t].child \/ (HeadOf(server[t].q, c) /\ new[t].child = None)
    BY <2>0, <2>1, <2>3, <2>5
  <2> QED BY <1>0, <2>0, <2>6, <2>7, DropHandles
<1>4. CASE Reset(c)
  <2>0. ref[c] \in Servers /\ kid'[c] = kid[c] /\ HeadOf(server[ref[c]].q, c)
    BY <1>0, <1>4 DEF Reset, HoldsServer, HeadOf
  <2>1. PICK s \in Servers : s = ref[c]
    BY <2>0
  <2>2. PICK left : left = Leave(server, s, c)
    OBVIOUS
  <2>3. Ordered(left) /\ c \notin Members(left[s].q) /\ \A t \in Servers : left[t].child = server[t].child
    BY <1>0, <2>2, LeaveAt DEF AllMove
  <2>4. PICK back : back = Join(left, s, c)
    OBVIOUS
  <2>5. Ordered(back) /\ \A t \in Servers : back[t].child = left[t].child
    BY <2>3, <2>4, JoinAt DEF AllMove
  <2>6. PICK new : new = WithChild(back, s, None)
    OBVIOUS
  <2>7. new[s].child = None /\ \A t \in Servers \ {s} : new[t] = back[t]
    BY <2>5, <2>6, ChildAt
  <2>8. DropUnowned(new, child)
    BY <1>4, <2>1, <2>2, <2>4, <2>6 DEF Reset, WithChild
  <2>9. \A t \in Servers : new[t].child = server[t].child \/ (HeadOf(server[t].q, c) /\ new[t].child = None)
    BY <2>0, <2>1, <2>3, <2>5, <2>7
  <2> QED BY <1>0, <2>0, <2>8, <2>9, DropHandles
<1>5. QED
  BY <1>1, <1>2, <1>3, <1>4

-----------------------------------------------------------------------------
(* The steps of request, children and owners.                               *)

LEMMA MineUsed ==
    ASSUME TypesOK, NEW c \in Callers, NEW s \in Servers, s = ref[c], HeadOf(server[s].q, c), server[s].child # None
    PROVE  /\ server[s].child \in Children /\ Mine(c) = server[s].child
           /\ Owned(server[s].child) /\ Uses(c, server[s].child) /\ child[server[s].child] \in Child
<1>1. server[s].child \in Children
  BY OrderedAt DEF TypesOK
<1>2. QED
  BY <1>1 DEF Mine, Owned, Uses, TypesOK, ChildOK

Popped(chs, k) == [chs EXCEPT ![k].out = Tail(@)]

LEMMA TouchRead ==
    ASSUME TypesOK, Numbered, NEW c \in Callers, NEW k \in Children, Owned(k), Uses(c, k), child[k].out # <<>>,
           NEW ch, ch = Popped(child, k)
    PROVE  /\ Touched(c, None, ch) /\ ch[k].st = child[k].st /\ ch[k].nextId = child[k].nextId /\ ch[k].in = child[k].in
           /\ \A i \in DOMAIN ch[k].out : \E j \in DOMAIN child[k].out : ch[k].out[i] = child[k].out[j]
<1>0. PICK old \in Child : old = child[k] /\ child \in [Children -> Child] /\ Ids(old) /\ old.out # <<>>
  BY DEF TypesOK, ChildOK, Numbered
<1>1. PICK out : out = Tail(old.out)
  OBVIOUS
<1>2. old.out \in Seq(Answer) /\ old.in \in Seq(Line)
  BY DEF Child
<1>3. PICK n \in Nat : n = Len(old.out) /\ DOMAIN old.out = 1..n /\ n > 0
  BY <1>0, <1>2, LenProperties, EmptySeq
<1>4. /\ out \in Seq(Answer) /\ DOMAIN out = 1..(n - 1)
      /\ \A i \in 1..(n - 1) : out[i] = old.out[i + 1]
  <2>1. out \in Seq(Answer) /\ Len(out) = n - 1
    BY <1>0, <1>1, <1>2, <1>3, HeadTailProperties
  <2>2. \A i \in 1..(n - 1) : out[i] = old.out[i + 1]
    BY <1>0, <1>1, <1>2, <1>3, HeadTailProperties
  <2> QED BY <2>1, <2>2, LenProperties
<1>5. \A i \in DOMAIN out : \E j \in DOMAIN old.out : out[i] = old.out[j]
  <2>1. \A i \in 1..(n - 1) : i + 1 \in 1..n
    OBVIOUS
  <2> QED BY <1>3, <1>4, <2>1
<1>6. PICK new : new = [old EXCEPT !.out = out]
  OBVIOUS
<1>7. /\ new \in Child /\ new.st = old.st /\ new.nextId = old.nextId /\ new.in = old.in /\ new.out = out
      /\ new.failed = old.failed
  BY <1>4, <1>6 DEF Child
<1>8. Ids(new)
  BY <1>0, <1>5, <1>7 DEF Ids
<1>9. ch = [child EXCEPT ![k] = new]
  BY <1>0, <1>1, <1>6 DEF Popped
<1>10. Touched(c, None, ch)
  BY <1>0, <1>7, <1>8, <1>9, TouchOne DEF TypesOK
<1>11. ch[k] = new
  BY <1>0, <1>9
<1>12. /\ ch[k].st = child[k].st /\ ch[k].nextId = child[k].nextId /\ ch[k].in = child[k].in
       /\ ch[k].out = out /\ child[k].out = old.out
  BY <1>0, <1>7, <1>11
<1>13. \A i \in DOMAIN ch[k].out : \E j \in DOMAIN child[k].out : ch[k].out[i] = child[k].out[j]
  <2>1. ASSUME NEW i \in DOMAIN ch[k].out PROVE \E j \in DOMAIN child[k].out : ch[k].out[i] = child[k].out[j]
    <3>1. i \in DOMAIN out /\ ch[k].out[i] = out[i] /\ DOMAIN child[k].out = DOMAIN old.out
      BY <1>12
    <3>2. PICK j \in DOMAIN old.out : out[i] = old.out[j]
      BY <1>5, <3>1
    <3>3. child[k].out[j] = old.out[j]
      BY <1>12
    <3> QED BY <3>1, <3>2, <3>3
  <2> QED BY <2>1
<1>14. QED
  BY <1>10, <1>12, <1>13, Zenon

LEMMA FailureHandles ==
    ASSUME TypesOK, Placed, KeptServers, KeptChildren, Solo, NEW c \in Callers, OthersStay(c), ref[c] \in Servers,
           NEW ch, Touched(c, None, ch), AttemptFails(c, ch), kid'[c] \in {kid[c], None}
    PROVE  Handles(c, Mine(c))
<1>0. Ordered(server) /\ None \notin Children
  BY PyServerAssumption DEF TypesOK
<1>1. PICK s \in Servers : s = ref[c]
  OBVIOUS
<1>2. PICK left : left = Leave(server, s, c)
  OBVIOUS
<1>3. Ordered(left) /\ c \notin Members(left[s].q) /\ \A t \in Servers : left[t].child = server[t].child
  BY <1>0, <1>2, LeaveAt DEF AllMove
<1>4. PICK back : back = Join(left, s, c)
  OBVIOUS
<1>5. \A t \in Servers : back[t].child = server[t].child
  BY <1>3, <1>4, JoinAt
<1>6. PICK new : new = IF attempt[c] = 1 THEN back ELSE left
  OBVIOUS
<1>7. \A t \in Servers : new[t].child = server[t].child
  BY <1>3, <1>5, <1>6
<1>8. PICK k \in Children \cup {None} : k = server[s].child /\ k = Mine(c)
  BY <1>0, <1>1, OrderedAt DEF Mine
<1>9. PICK after : after = IF k = None THEN ch ELSE Mark(ch, k, c)
  OBVIOUS
<1>10. DropUnowned(new, after)
  BY <1>1, <1>2, <1>4, <1>6, <1>8, <1>9 DEF AttemptFails, Mark
<1>11. Touched(c, k, after)
  <2>1. CASE k = None
    BY <1>9, <2>1
  <2>2. CASE k # None
    <3>1. k \in Children /\ Owned(k)
      BY <1>8, <2>2 DEF Owned
    <3> QED BY <1>9, <2>2, <3>1, TouchMark
  <2> QED BY <2>1, <2>2
<1>12. Handles(c, k)
  BY <1>7, <1>10, <1>11, DropHandles
<1>13. QED
  BY <1>8, <1>12

FreshFor(c) == pc[c] = "hello" => child[kid[c]].in = <<>> /\ child[kid[c]].out = <<>>
AnsweredFor(c) == pc[c] \in {"write", "read"} => Answers(c, child[Mine(c)])
Served(c) == SupportedBy(c) /\ FreshFor(c) /\ AnsweredFor(c) /\ MarkedFor(c)

LEMMA Away == ASSUME NEW c, pc'[c] \notin {"hello", "write", "read", "enter", "reset"} PROVE Served(c)'
BY DEF Served, SupportedBy, FreshFor, AnsweredFor, MarkedFor

LEMMA Unmarked ==
    ASSUME NEW c \in Callers, Marked, attempt[c] # 0, pc[c] \in {"enter", "hello", "write", "read"}, Handles(c, None)
    PROVE  MarkedFor(c)'
<1>1. \A k \in Children : c \notin child[k].failed
  BY DEF Marked, MarkedFor
<1>2. None \notin Children
  BY PyServerAssumption
<1>3. \A k \in Children : c \notin child'[k].failed
  BY <1>1, <1>2 DEF Handles
<1>4. QED
  BY <1>3 DEF MarkedFor

LEMMA RequestServed ==
    ASSUME TypesOK, Placed, KeptServers, KeptChildren, Solo, Numbered, NEW c \in Callers, OthersStay(c), RequestCall(c)
    PROVE  Handles(c, None) /\ Served(c)'
<1>0. /\ pc \in [Callers -> Labels] /\ PlacedAt(c) /\ Ordered(server) /\ ref[c] \in Servers
      /\ child \in [Children -> Child]
  BY DEF TypesOK, CtlOK, ChildOK, Placed, RequestCall
<1>1. ASSUME NEW k \in Children
      PROVE  /\ child'[k] \in Child /\ child'[k].st = child[k].st /\ child'[k].failed = child[k].failed \ {c}
             /\ Pipe(child'[k]) = Pipe(child[k]) /\ Ids(child'[k])
             /\ Owned(k) \/ child'[k] = child[k]
  <2>1. PICK old \in Child : old = child[k] /\ Ids(old)
    BY <1>0 DEF Numbered
  <2>2. child'[k] = [old EXCEPT !.failed = @ \ {c}]
    BY <2>1 DEF RequestCall
  <2>3. /\ child'[k] \in Child /\ child'[k].st = old.st /\ child'[k].failed = old.failed \ {c}
        /\ child'[k].in = old.in /\ child'[k].out = old.out /\ child'[k].nextId = old.nextId
    BY <2>2 DEF Child
  <2>4. Pipe(child'[k]) = Pipe(old) /\ Ids(child'[k])
    BY <2>1, <2>3 DEF Pipe, Ids
  <2>5. CASE ~Owned(k)
    <3>1. old = NoChild /\ NoChild.failed = {}
      BY <2>1, <2>5, NoChildFacts DEF KeptChildren
    <3>2. old.failed \ {c} = old.failed
      BY <3>1
    <3>3. [old EXCEPT !.failed = @ \ {c}] = old
      BY <3>2 DEF Child
    <3> QED BY <2>1, <2>2, <2>3, <2>4, <3>3
  <2> QED BY <2>1, <2>3, <2>4, <2>5
<1>2. Touched(c, None, child')
  <2>1. child' \in [Children -> Child]
    <3>1. DOMAIN child' = Children /\ child' = [k \in Children |-> child'[k]]
      BY DEF RequestCall
    <3> QED BY <1>1, <3>1
  <2> QED BY <1>1, <2>1 DEF Touched
<1>3. PICK s \in Servers : s = ref[c]
  BY <1>0
<1>4. c \notin Members(server[s].q) /\ ref' = ref /\ kid' = kid /\ cache' = cache
  BY <1>0, <1>3 DEF RequestCall, PlacedAt, Lined
<1>5. server' = Join(server, s, c)
  BY <1>3 DEF RequestCall
<1>6. /\ \A t \in Servers : server'[t].child = server[t].child
      /\ \A t \in Servers \ {s} : server'[t] = server[t]
  BY <1>0, <1>4, <1>5, JoinAt
<1>7. \A t \in Servers : (Held(t) => Held(t)') /\ Held(s)'
  BY <1>3, <1>4, HeldGrows DEF Held
<1>8. Handles(c, None)
  BY <1>2, <1>4, <1>6, <1>7, StayHandles
<1>9. Served(c)'
  <2>1. pc'[c] = "enter"
    BY <1>0 DEF RequestCall
  <2>2. \A k \in Children : c \notin child'[k].failed
    BY <1>1
  <2> QED BY <2>1, <2>2 DEF Served, SupportedBy, FreshFor, AnsweredFor, MarkedFor
<1>10. QED
  BY <1>8, <1>9

\* A step that changes nothing but the child that c uses.
LEMMA UseHandles ==
    ASSUME TypesOK, KeptServers, KeptChildren, Solo, NEW c \in Callers, Touched(c, None, child'),
           UNCHANGED <<cache, server, ref, kid>>
    PROVE  Handles(c, None)
<1>1. \A s \in Servers : Held(s)' <=> Held(s)
  BY DEF Held
<1>2. QED
  BY <1>1, StayHandles

LEMMA LineTypes ==
    ASSUME NEW ch \in Child
    PROVE  /\ \A i \in DOMAIN ch.in : ch.in[i] \in Line /\ ch.in[i].id \in Nat \cup {NoId}
           /\ \A i \in DOMAIN ch.out : ch.out[i] \in Answer /\ ch.out[i].id \in Nat \cup {NoId}
<1>1. PICK in \in Seq(Line), out \in Seq(Answer) : in = ch.in /\ out = ch.out
  BY DEF Child
<1>2. \A i \in DOMAIN in : in[i] \in Line
  BY ElementOfSeq, LenProperties
<1>3. \A i \in DOMAIN out : out[i] \in Answer
  BY ElementOfSeq, LenProperties
<1>4. (\A l \in Line : l.id \in Nat \cup {NoId}) /\ (\A l \in Answer : l.id \in Nat \cup {NoId})
  BY DEF Line, Answer
<1>5. QED
  BY <1>1, <1>2, <1>3, <1>4

LEMMA EnterServed ==
    ASSUME TypesOK, Placed, KeptServers, KeptChildren, Solo, Numbered, Marked, NEW c \in Callers, Enter(c)
    PROVE  Handles(c, None) /\ Served(c)'
<1>0. pc \in [Callers -> Labels] /\ PlacedAt(c) /\ ref[c] \in Servers /\ child \in [Children -> Child]
      /\ id \in [Callers -> Nat \cup {NoId}]
  BY DEF TypesOK, CtlOK, ChildOK, Placed, Enter, HoldsServer
<1>1. PICK s \in Servers : s = ref[c]
  BY <1>0
<1>2. PICK k \in Children : k = server[s].child /\ Owned(k) /\ Uses(c, k) /\ k # None
  <2>1. HeadOf(server[s].q, c) /\ server[s].child # None
    BY <1>1 DEF Enter, HoldsServer, HeadOf
  <2> QED BY <1>1, <2>1, MineUsed
<1>3. PICK old \in Child : old = child[k] /\ Ids(old)
  BY <1>0 DEF Numbered
<1>4. PICK new : new = [old EXCEPT !.nextId = @ + 1]
  OBVIOUS
<1>5. /\ new \in Child /\ new.st = old.st /\ new.nextId = old.nextId + 1 /\ new.in = old.in /\ new.out = old.out
      /\ new.failed = old.failed /\ old.nextId \in Nat /\ old.in \in Seq(Line) /\ old.out \in Seq(Answer)
  BY <1>4 DEF Child
<1>6. \A i \in DOMAIN old.in : old.in[i].id \in Nat \cup {NoId} /\ old.in[i].id < old.nextId
  BY <1>3, LineTypes DEF Ids
<1>7. \A i \in DOMAIN old.out : old.out[i].id \in Nat \cup {NoId} /\ old.out[i].id < old.nextId
  BY <1>3, LineTypes DEF Ids
<1>8. /\ \A i \in DOMAIN old.in : old.in[i].id < old.nextId + 1 /\ old.in[i].id # old.nextId
      /\ \A i \in DOMAIN old.out : old.out[i].id < old.nextId + 1 /\ old.out[i].id # old.nextId
  BY <1>5, <1>6, <1>7 DEF NoId
<1>9. Ids(new)
  BY <1>5, <1>8 DEF Ids
<1>10. child' = [child EXCEPT ![k] = new]
  BY <1>0, <1>1, <1>2, <1>3, <1>4 DEF Enter
<1>11. Touched(c, None, child')
  BY <1>2, <1>3, <1>5, <1>9, <1>10, TouchOne DEF TypesOK
<1>12. Handles(c, None)
  BY <1>11, UseHandles DEF Enter
<1>13. MarkedFor(c)'
  BY <1>0, <1>12, Unmarked DEF Enter, PlacedAt
<1>14. /\ pc'[c] = "write" /\ id'[c] = old.nextId /\ child'[k] = new /\ Mine(c)' = k /\ ref'[c] = s
       /\ server'[s].child = k
  <2>1. ref' = ref /\ server' = server
    BY DEF Enter
  <2>2. pc'[c] = "write" /\ id'[c] = old.nextId
    BY <1>0, <1>1, <1>2, <1>3 DEF Enter
  <2> QED BY <1>0, <1>1, <1>2, <1>10, <2>1, <2>2 DEF Mine
<1>15. Answers(c, child[Mine(c)])'
  <2>1. id'[c] \in Nat /\ id'[c] < new.nextId
    BY <1>5, <1>14
  <2>2. /\ \A i \in DOMAIN new.in : new.in[i].id # id'[c]
        /\ \A i \in DOMAIN new.out : new.out[i].id # id'[c]
    BY <1>5, <1>8, <1>14
  <2> QED BY <1>14, <2>1, <2>2 DEF Answers
<1>16. QED
  BY <1>2, <1>12, <1>13, <1>14, <1>15 DEF Served, SupportedBy, FreshFor, AnsweredFor

\* What a caller that writes or reads has: the lock, a child and an id.
LEMMA InFlight ==
    ASSUME TypesOK, Placed, Supported, Numbered, Answered, NEW c \in Callers, pc[c] \in {"write", "read"}
    PROVE  \E s \in Servers, k \in Children :
             /\ s = ref[c] /\ k = server[s].child /\ k = Mine(c) /\ HeadOf(server[s].q, c)
             /\ Owned(k) /\ Uses(c, k) /\ child[k] \in Child /\ Ids(child[k]) /\ Answers(c, child[k]) /\ k # None
<1>1. PlacedAt(c) /\ SupportedBy(c) /\ ref[c] \in Servers \cup {None} /\ Answers(c, child[Mine(c)])
  BY DEF Placed, Supported, TypesOK, CtlOK, Answered
<1>2. PICK s \in Servers : s = ref[c] /\ HeadOf(server[s].q, c) /\ server[s].child # None
  BY <1>1 DEF PlacedAt, Lined, SupportedBy
<1>3. PICK k \in Children : k = server[s].child /\ k = Mine(c) /\ Owned(k) /\ Uses(c, k) /\ child[k] \in Child
  BY <1>2, MineUsed
<1>4. QED
  BY <1>1, <1>2, <1>3 DEF Numbered

LEMMA WriteServed ==
    ASSUME TypesOK, Placed, KeptServers, KeptChildren, Solo, Supported, Numbered, Answered, Marked,
           NEW c \in Callers, Write(c)
    PROVE  Handles(c, None) /\ Served(c)'
<1>0. /\ pc \in [Callers -> Labels] /\ PlacedAt(c) /\ child \in [Children -> Child] /\ calls[c] \in 0..MaxCalls
      /\ attempt[c] # 0 /\ calls[c] # 0 /\ pc[c] = "write"
  BY DEF TypesOK, CtlOK, ChildOK, Placed, Write, PlacedAt
<1>1. PICK s \in Servers, k \in Children :
        /\ s = ref[c] /\ k = server[s].child /\ k = Mine(c) /\ HeadOf(server[s].q, c)
        /\ Owned(k) /\ Uses(c, k) /\ child[k] \in Child /\ Ids(child[k]) /\ Answers(c, child[k]) /\ k # None
  BY <1>0, InFlight
<1>2. PICK old \in Child : old = child[k] /\ Ids(old) /\ Answers(c, old)
  BY <1>1
<1>3. PICK line : line = [id |-> IF old.torn THEN NoId ELSE id[c], by |-> <<c, calls[c]>>]
  OBVIOUS
<1>4. old.in \in Seq(Line) /\ old.nextId \in Nat /\ id[c] \in Nat /\ id[c] < old.nextId
  BY <1>2 DEF Child, Answers
<1>5. line.id \in {NoId, id[c]} /\ line.by = <<c, calls[c]>>
  BY <1>3
<1>6. line \in Line /\ line.id < old.nextId
  <2>1. calls[c] \in 1..MaxCalls
    BY <1>0, PyServerAssumption
  <2>2. line.id \in Nat \cup {NoId} /\ line.id < old.nextId
    BY <1>4, <1>5 DEF NoId
  <2>3. line = [id |-> line.id, by |-> <<c, calls[c]>>]
    BY <1>3
  <2> QED BY <2>1, <2>2, <2>3 DEF Line
<1>7. PICK in : in = Append(old.in, line)
  OBVIOUS
<1>8. PICK n \in Nat : n = Len(old.in) /\ DOMAIN old.in = 1..n
  BY <1>4, LenProperties
<1>9. /\ in \in Seq(Line) /\ DOMAIN in = 1..(n + 1) /\ in[n + 1] = line /\ \A i \in 1..n : in[i] = old.in[i]
  BY <1>4, <1>6, <1>7, <1>8, AppendProperties, LenProperties
<1>10. \A i \in DOMAIN in : (i \in DOMAIN old.in /\ in[i] = old.in[i]) \/ in[i] = line
  <2>1. \A i \in 1..(n + 1) : i \in 1..n \/ i = n + 1
    OBVIOUS
  <2> QED BY <1>8, <1>9, <2>1
<1>11. PICK new : new = [old EXCEPT !.in = in, !.torn = FALSE]
  OBVIOUS
<1>12. /\ new \in Child /\ new.st = old.st /\ new.nextId = old.nextId /\ new.in = in /\ new.out = old.out
       /\ new.failed = old.failed
  BY <1>9, <1>11 DEF Child
<1>13. Ids(new)
  BY <1>2, <1>6, <1>10, <1>12 DEF Ids
<1>14. child' = [child EXCEPT ![k] = new]
  BY <1>0, <1>1, <1>2, <1>3, <1>7, <1>11 DEF Write
<1>15. Touched(c, None, child')
  BY <1>1, <1>2, <1>12, <1>13, <1>14, TouchOne DEF TypesOK
<1>16. Handles(c, None)
  BY <1>15, UseHandles DEF Write
<1>17. MarkedFor(c)'
  BY <1>0, <1>16, Unmarked
<1>18. /\ pc'[c] = "read" /\ id'[c] = id[c] /\ calls'[c] = calls[c] /\ child'[k] = new /\ Mine(c)' = k /\ ref'[c] = s
       /\ server'[s].child = k
  <2>1. ref' = ref /\ server' = server /\ calls' = calls /\ Goto(c, "read")
    BY DEF Write
  <2> QED BY <1>0, <1>1, <1>14, <2>1 DEF Mine, Goto
<1>19. Answers(c, child[Mine(c)])'
  <2>1. \A i \in DOMAIN new.in : new.in[i].id = id[c] => new.in[i].by = <<c, calls[c]>>
    BY <1>0, <1>2, <1>5, <1>10, <1>12 DEF Answers
  <2>2. \A i \in DOMAIN new.out : new.out[i].id # id[c]
    BY <1>0, <1>2, <1>12 DEF Answers
  <2> QED BY <1>4, <1>12, <1>18, <2>1, <2>2 DEF Answers
<1>20. QED
  BY <1>1, <1>16, <1>17, <1>18, <1>19 DEF Served, SupportedBy, FreshFor, AnsweredFor

\* An attempt that fails marks the child that reset will find.
LEMMA FailureServed ==
    ASSUME TypesOK, Placed, KeptServers, KeptChildren, Solo, Marked, NEW c \in Callers, OthersStay(c), ref[c] \in Servers,
           pc[c] \in {"enter", "hello", "write", "read"}, attempt[c] # 0, ref' = ref,
           NEW ch, Touched(c, None, ch), AttemptFails(c, ch), kid'[c] \in {kid[c], None}
    PROVE  (\E m : Handles(c, m)) /\ Served(c)'
<1>0. pc \in [Callers -> Labels] /\ attempt \in [Callers -> 0..2]
  BY DEF TypesOK, CtlOK
<1>1. Handles(c, Mine(c))
  BY FailureHandles
<1>2. CASE Return(c)
  <2>1. pc'[c] = "idle"
    BY <1>0, <1>2 DEF Return
  <2> QED BY <1>1, <2>1, Away
<1>3. CASE attempt[c] = 1 /\ Goto(c, "reset")
  <2>1. pc'[c] = "reset"
    BY <1>0, <1>3 DEF Goto
  <2>2. PICK s \in Servers : s = ref[c] /\ ref'[c] = s
    OBVIOUS
  <2>3. server'[s].child = server[s].child
    <3>1. PICK left : left = Leave(server, s, c)
      OBVIOUS
    <3>2. Ordered(left) /\ c \notin Members(left[s].q) /\ left[s].child = server[s].child
      BY <3>1, LeaveAt DEF AllMove, TypesOK
    <3>3. PICK back : back = Join(left, s, c)
      OBVIOUS
    <3>4. back[s].child = left[s].child
      BY <3>2, <3>3, JoinAt
    <3>5. \E h : DropUnowned(back, h)
      BY <1>3, <2>2, <3>1, <3>3 DEF AttemptFails
    <3>6. Held(s)'
      BY <2>2 DEF Held
    <3>7. server'[s] = back[s]
      BY <3>5, <3>6 DEF DropUnowned
    <3> QED BY <3>2, <3>4, <3>7
  <2>4. \A k \in Children : c \notin child[k].failed
    BY DEF Marked, MarkedFor
  <2>5. \A k \in Children : c \in child'[k].failed => k = server[s].child
    BY <1>1, <2>2, <2>4 DEF Handles, Mine
  <2>6. MarkedFor(c)'
    BY <2>1, <2>2, <2>3, <2>5 DEF MarkedFor
  <2> QED BY <1>1, <2>1, <2>6 DEF Served, SupportedBy, FreshFor, AnsweredFor
<1>4. QED
  BY <1>2, <1>3 DEF AttemptFails

LEMMA ReadServed ==
    ASSUME TypesOK, Placed, KeptServers, KeptChildren, Solo, Supported, Numbered, Answered, Marked,
           NEW c \in Callers, OthersStay(c), Read(c)
    PROVE  (\E m : Handles(c, m)) /\ Served(c)'
<1>0. pc \in [Callers -> Labels] /\ PlacedAt(c) /\ attempt[c] # 0 /\ pc[c] = "read" /\ UNCHANGED <<cache, ref, kid, calls>>
      /\ Ordered(server)
  BY DEF TypesOK, CtlOK, Placed, Read, PlacedAt
<1>1. PICK s \in Servers, k \in Children :
        /\ s = ref[c] /\ k = server[s].child /\ k = Mine(c) /\ HeadOf(server[s].q, c)
        /\ Owned(k) /\ Uses(c, k) /\ child[k] \in Child /\ Ids(child[k]) /\ Answers(c, child[k]) /\ k # None
  BY <1>0, InFlight
<1>2. PICK ch : ch = Popped(child, k)
  OBVIOUS
<1>3. /\ Touched(c, None, ch) /\ ch[k].nextId = child[k].nextId /\ ch[k].in = child[k].in
      /\ \A i \in DOMAIN ch[k].out : \E j \in DOMAIN child[k].out : ch[k].out[i] = child[k].out[j]
  <2>1. child[k].out # <<>>
    BY <1>1 DEF Read
  <2> QED BY <1>1, <1>2, <2>1, TouchRead
<1>4. CASE child' = ch /\ UNCHANGED <<server, pc, attempt, id>>
  <2>1. Touched(c, None, child') /\ UNCHANGED <<cache, server, ref, kid>>
    BY <1>0, <1>3, <1>4
  <2>2. Handles(c, None)
    BY <2>1, UseHandles
  <2>3. MarkedFor(c)'
    BY <1>0, <2>2, Unmarked
  <2>4. /\ pc'[c] = "read" /\ id'[c] = id[c] /\ calls'[c] = calls[c] /\ child'[k] = ch[k] /\ Mine(c)' = k
        /\ ref'[c] = s /\ server'[s].child = k
    BY <1>0, <1>1, <1>4 DEF Mine
  <2>5. PICK old, new : old = child[k] /\ new = child'[k]
    OBVIOUS
  <2>6. /\ Answers(c, old) /\ new.nextId = old.nextId /\ new.in = old.in
        /\ \A i \in DOMAIN new.out : \E j \in DOMAIN old.out : new.out[i] = old.out[j]
    BY <1>1, <1>3, <2>4, <2>5
  <2>7. Answers(c, new)
    BY <2>6 DEF Answers
  <2>8. Answers(c, child[Mine(c)])'
    <3>1. pc' = pc /\ id' = id /\ calls' = calls
      BY <1>0, <1>4
    <3> QED BY <2>4, <2>5, <2>7, <3>1 DEF Answers
  <2> QED BY <1>1, <2>2, <2>3, <2>4, <2>8 DEF Served, SupportedBy, FreshFor, AnsweredFor
<1>5. CASE Goto(c, "used") /\ server' = Leave(server, ref[c], c) /\ child' = ch
  <2>1. server' = Leave(server, s, c)
    BY <1>1, <1>5
  <2>2. /\ \A t \in Servers : server'[t].child = server[t].child
        /\ \A t \in Servers \ {s} : server'[t] = server[t]
    BY <1>0, <2>1, LeaveAt
  <2>3. \A t \in Servers : (Held(t) => Held(t)') /\ Held(s)'
    BY <1>0, <1>1, HeldGrows DEF Held
  <2>4. Touched(c, None, child')
    BY <1>3, <1>5
  <2>5. Handles(c, None)
    BY <1>0, <2>2, <2>3, <2>4, StayHandles
  <2>6. pc'[c] = "used"
    BY <1>0, <1>5 DEF Goto
  <2> QED BY <2>5, <2>6, Away
<1>6. CASE AttemptFails(c, ch)
  <2>1. ref[c] \in Servers /\ kid'[c] = kid[c] /\ ref' = ref
    BY <1>0, <1>1
  <2> QED BY <1>0, <1>3, <1>6, <2>1, FailureServed
<1>7. QED
  BY <1>1, <1>2, <1>4, <1>5, <1>6 DEF Read, Popped

LEMMA FailsServed ==
    ASSUME TypesOK, Placed, KeptServers, KeptChildren, Solo, Numbered, Marked, NEW c \in Callers, OthersStay(c),
           WriteFails(c) \/ NoLine(c) \/ (SpawnFails(c) /\ attempt[c] # 0)
    PROVE  (\E m : Handles(c, m)) /\ Served(c)'
<1>0. PlacedAt(c) /\ ref \in [Callers -> Servers \cup {None}] /\ kid \in [Callers -> Children \cup {None}]
  BY DEF TypesOK, CtlOK, Placed
<1>1. Touched(c, None, child)
  BY Untouched DEF TypesOK
<1>2. /\ pc[c] \in {"enter", "hello", "write", "read"} /\ attempt[c] # 0 /\ ref' = ref /\ AttemptFails(c, child)
      /\ kid'[c] \in {kid[c], None}
  BY <1>0 DEF WriteFails, NoLine, SpawnFails, MustSpawn, PlacedAt
<1>3. ref[c] \in Servers
  BY <1>0, <1>2 DEF PlacedAt, Lined
<1>4. QED
  BY <1>1, <1>2, <1>3, FailureServed

LEMMA CancelServed ==
    ASSUME TypesOK, Placed, KeptServers, KeptChildren, Solo, Supported, Numbered, Answered, NEW c \in Callers,
           OthersStay(c), Cancel(c)
    PROVE  Handles(c, None) /\ Served(c)'
<1>0. /\ pc \in [Callers -> Labels] /\ ref[c] \in Servers \cup {None} /\ Ordered(server)
      /\ kid \in [Callers -> Children \cup {None}] /\ child \in [Children -> Child]
  BY DEF TypesOK, CtlOK, ChildOK
<1>1. PICK left : left = IF ref[c] = None THEN server ELSE Leave(server, ref[c], c)
  OBVIOUS
<1>2. \A t \in Servers : left[t].child = server[t].child
  <2>1. CASE ref[c] = None
    BY <1>1, <2>1
  <2>2. CASE ref[c] # None
    <3>1. PICK s \in Servers : s = ref[c] /\ left = Leave(server, s, c)
      BY <1>0, <1>1, <2>2
    <3> QED BY <1>0, <3>1, LeaveAt
  <2> QED BY <2>1, <2>2
<1>3. kid'[c] = None /\ pc'[c] = "idle"
  BY <1>0 DEF Cancel, Return
<1>4. CASE DropUnowned(left, child)
  <2>1. Touched(c, None, child)
    BY Untouched DEF TypesOK
  <2> QED BY <1>2, <1>3, <1>4, <2>1, DropHandles, Away
<1>5. CASE pc[c] = "write" /\ DropUnowned(left, [child EXCEPT ![Mine(c)].torn = TRUE])
  <2>1. PICK k \in Children : k = Mine(c) /\ Owned(k) /\ Uses(c, k) /\ child[k] \in Child /\ Ids(child[k])
    BY <1>5, InFlight
  <2>2. PICK old \in Child : old = child[k] /\ Ids(old)
    BY <2>1
  <2>3. PICK new : new = [old EXCEPT !.torn = TRUE]
    OBVIOUS
  <2>4. /\ new \in Child /\ new.st = old.st /\ new.nextId = old.nextId /\ new.in = old.in /\ new.out = old.out
        /\ new.failed = old.failed
    BY <2>3 DEF Child
  <2>5. Ids(new) /\ Pipe(new) = Pipe(old)
    BY <2>2, <2>4 DEF Ids, Pipe
  <2>6. PICK ch : ch = [child EXCEPT ![k] = new]
    OBVIOUS
  <2>7. Touched(c, None, ch)
    BY <2>1, <2>2, <2>4, <2>5, <2>6, TouchOne DEF TypesOK
  <2>8. DropUnowned(left, ch)
    <3>1. ch = [child EXCEPT ![Mine(c)].torn = TRUE]
      BY <1>0, <2>1, <2>2, <2>3, <2>6
    <3> QED BY <1>5, <3>1
  <2> QED BY <1>2, <1>3, <2>7, <2>8, DropHandles, Away
<1>6. QED
  BY <1>1, <1>4, <1>5 DEF Cancel

LEMMA ResetServed ==
    ASSUME TypesOK, Placed, KeptServers, KeptChildren, Solo, Numbered, Marked, NEW c \in Callers, OthersStay(c), Reset(c)
    PROVE  Handles(c, None) /\ Served(c)'
<1>0. pc \in [Callers -> Labels] /\ ref[c] \in Servers /\ pc[c] = "reset" /\ None \notin Children /\ ref' = ref
  BY PyServerAssumption DEF TypesOK, CtlOK, Reset, HoldsServer
<1>1. Handles(c, None)
  BY LetGoHandles
<1>2. pc'[c] = "enter"
  BY <1>0 DEF Reset
<1>3. PICK s \in Servers : s = ref[c] /\ ref'[c] = s
  BY <1>0
<1>4. server'[s].child = None
  <2>1. PICK left : left = Leave(server, s, c)
    OBVIOUS
  <2>2. Ordered(left) /\ c \notin Members(left[s].q)
    BY <2>1, LeaveAt DEF AllMove, TypesOK
  <2>3. PICK back : back = Join(left, s, c)
    OBVIOUS
  <2>4. Ordered(back)
    BY <2>2, <2>3, JoinAt DEF AllMove
  <2>5. PICK new : new = WithChild(back, s, None)
    OBVIOUS
  <2>6. new[s].child = None
    BY <2>4, <2>5, ChildAt
  <2>7. DropUnowned(new, child)
    BY <1>3, <2>1, <2>3, <2>5 DEF Reset, WithChild
  <2>8. Held(s)'
    BY <1>3 DEF Held
  <2>9. server'[s] = new[s]
    BY <2>7, <2>8 DEF DropUnowned
  <2> QED BY <2>6, <2>9
<1>5. ASSUME NEW k \in Children, c \in child'[k].failed PROVE FALSE
  <2>1. c \in child[k].failed
    BY <1>0, <1>1, <1>5 DEF Handles
  <2>2. server[s].child = k
    BY <1>0, <1>3, <2>1 DEF Marked, MarkedFor
  <2>3. child'[k] = NoChild
    BY <1>0, <1>1, <1>4, <2>2 DEF Handles, OwnersMove
  <2> QED BY <1>5, <2>3, NoChildFacts
<1>6. MarkedFor(c)'
  BY <1>5 DEF MarkedFor
<1>7. QED
  BY <1>1, <1>2, <1>6 DEF Served, SupportedBy, FreshFor, AnsweredFor

LEMMA SpawnServed ==
    ASSUME TypesOK, Placed, KeptServers, KeptChildren, Solo, Numbered, Marked, NEW c \in Callers, OthersStay(c), Spawn(c)
    PROVE  Handles(c, None) /\ Served(c)'
<1>0. /\ pc \in [Callers -> Labels] /\ PlacedAt(c) /\ kid \in [Callers -> Children \cup {None}]
      /\ child \in [Children -> Child] /\ None \notin Children /\ attempt' = attempt
      /\ UNCHANGED <<cache, server, ref>> /\ pc'[c] = "hello" /\ server[ref[c]].child = None
      /\ pc[c] \in {"start", "enter"}
  BY PyServerAssumption DEF TypesOK, CtlOK, ChildOK, Placed, Spawn, MustSpawn, Goto
<1>1. PICK k \in Children : child[k].st = "free" /\ kid' = [kid EXCEPT ![c] = k] /\ child' = [child EXCEPT ![k].st = "live"]
  BY DEF Spawn
<1>2. ~Owned(k) /\ child[k] = NoChild /\ kid[c] = None
  BY <1>0, <1>1 DEF KeptChildren, PlacedAt
<1>3. PICK new : new = [NoChild EXCEPT !.st = "live"]
  OBVIOUS
<1>4. /\ new \in Child /\ new.st = "live" /\ new.nextId = NoChild.nextId /\ new.in = <<>> /\ new.out = <<>>
      /\ new.failed = NoChild.failed
  <2>1. PICK old \in Child : old = NoChild /\ old.in = <<>> /\ old.out = <<>>
    BY NoChildFacts
  <2>2. new = [old EXCEPT !.st = "live"]
    BY <1>3, <2>1
  <2>3. /\ new \in Child /\ new.st = "live" /\ new.nextId = old.nextId /\ new.in = old.in /\ new.out = old.out
        /\ new.failed = old.failed
    BY <2>2 DEF Child
  <2> QED BY <2>1, <2>3
<1>5. Ids(new) /\ Pipe(new) = Pipe(NoChild)
  <2>1. DOMAIN new.in = {} /\ DOMAIN new.out = {}
    BY <1>4
  <2> QED BY <1>4, <2>1, NoChildFacts DEF Ids, Pipe
<1>6. /\ child' \in [Children -> Child] /\ child'[k] = new /\ \A j \in Children \ {k} : child'[j] = child[j]
  <2>1. child' = [child EXCEPT ![k] = new]
    BY <1>0, <1>1, <1>2, <1>3
  <2> QED BY <1>0, <1>4, <2>1
<1>7. kid'[c] = k /\ \A d \in Callers \ {c} : kid'[d] = kid[d]
  BY <1>0, <1>1
<1>8. KeptServers' /\ OwnersMove(c)
  BY <1>0 DEF KeptServers, Held, OwnersMove
<1>9. \A j \in Children : Owned(j)' <=> Owned(j) \/ j = k
  BY <1>0, <1>2, <1>7 DEF Owned
<1>10. KeptChildren'
  BY <1>4, <1>6, <1>9 DEF KeptChildren
<1>11. Solo'
  <2>1. (\A s \in Servers : server[s].child # k) /\ (\A d \in Callers : kid[d] # k)
    BY <1>2 DEF Owned
  <2> QED BY <1>0, <1>2, <1>7, <2>1 DEF Solo
<1>12. ChildOK' /\ Numbered'
  BY <1>5, <1>6 DEF ChildOK, Numbered
<1>13. ASSUME NEW j \in Children
       PROVE  Pipe(child'[j]) = Pipe(child[j]) /\ \A d \in child'[j].failed : d \in child[j].failed
  BY <1>2, <1>4, <1>5, <1>6
<1>14. Handles(c, None)
  BY <1>8, <1>10, <1>11, <1>12, <1>13 DEF Handles
<1>15. MarkedFor(c)'
  <2>1. CASE attempt[c] = 0
    BY <1>0, <2>1 DEF MarkedFor
  <2>2. CASE attempt[c] # 0
    BY <1>0, <1>14, <2>2, Unmarked DEF PlacedAt
  <2> QED BY <2>1, <2>2
<1>16. QED
  BY <1>0, <1>4, <1>6, <1>7, <1>14, <1>15 DEF Served, SupportedBy, FreshFor, AnsweredFor

\* The child that c awaited is its server's.
LEMMA HandOver ==
    ASSUME TypesOK, KeptServers, KeptChildren, Solo, NEW c \in Callers, OthersStay(c), NEW s \in Servers,
           NEW k \in Children, kid[c] = k, kid'[c] = None, server[s].child = None, server'[s].child = k,
           HeadOf(server[s].q, c), \A t \in Servers \ {s} : server'[t] = server[t], Held(s)',
           \A t \in Servers : Held(t) => Held(t)', Touched(c, None, child')
    PROVE  Handles(c, None)
<1>0. None \notin Children
  BY PyServerAssumption
<1>1. KeptServers' /\ OwnersMove(c)
  BY <1>0 DEF KeptServers, OwnersMove
<1>2. \A d \in Callers \ {c} : kid'[d] = kid[d]
  BY DEF OthersStay
<1>3. ASSUME NEW j \in Children PROVE Owned(j)' <=> Owned(j)
  <2>1. CASE j = k
    BY <2>1 DEF Owned
  <2>2. CASE j # k
    BY <1>0, <1>2, <2>2 DEF Owned
  <2> QED BY <2>1, <2>2
<1>4. KeptChildren'
  <2>1. ASSUME NEW j \in Children PROVE (Owned(j)' => child'[j].st # "free") /\ (~Owned(j)' => child'[j] = NoChild)
    BY <1>3 DEF KeptChildren, Touched
  <2> QED BY <2>1 DEF KeptChildren
<1>5. Solo'
  <2>1. (\A t \in Servers : server[t].child # k) /\ \A d \in Callers \ {c} : kid[d] # k
    BY <1>0 DEF Solo
  <2> QED BY <1>0, <1>2, <2>1 DEF Solo
<1>6. Numbered' /\ ChildOK'
  BY DEF Numbered, ChildOK, Touched
<1>7. QED
  BY <1>1, <1>4, <1>5, <1>6 DEF Handles, Touched

LEMMA HelloServed ==
    ASSUME TypesOK, Placed, Cached, KeptServers, KeptChildren, Solo, Supported, Numbered, Fresh, Marked,
           NEW c \in Callers, OthersStay(c), Hello(c)
    PROVE  Handles(c, None) /\ Served(c)'
<1>0. /\ pc \in [Callers -> Labels] /\ PlacedAt(c) /\ kid \in [Callers -> Children \cup {None}] /\ pc[c] = "hello"
      /\ ref \in [Callers -> Servers \cup {None}] /\ child \in [Children -> Child] /\ None \notin Children
      /\ Ordered(server) /\ cache.server \in Servers \cup {None} /\ id \in [Callers -> Nat \cup {NoId}]
  BY PyServerAssumption DEF TypesOK, CtlOK, CacheOK, ChildOK, Placed, Hello
<1>1. PICK s \in Servers, k \in Children : s = ref[c] /\ k = kid[c] /\ HeadOf(server[s].q, c) /\ kid'[c] = None
  BY <1>0 DEF PlacedAt, Lined, Hello
<1>2. server[s].child = None /\ child[k].in = <<>> /\ child[k].out = <<>>
  BY <1>0, <1>1 DEF Supported, SupportedBy, Fresh
<1>3. PICK srv : srv = WithChild(server, s, k)
  OBVIOUS
<1>4. Ordered(srv) /\ srv[s].child = k /\ \A t \in Servers \ {s} : srv[t] = server[t]
  <2>1. Ordered(server) /\ k \in Children \cup {None}
    BY <1>0
  <2> QED BY <1>3, <2>1, ChildAt
<1>5. CASE attempt[c] = 0
  <2>1. cache' = Cache("Ready", s) /\ EnsureReturns(c, s) /\ server' = Leave(srv, s, c) /\ child' = child
    BY <1>1, <1>3, <1>5 DEF Hello, WithChild
  <2>2. server'[s].child = k /\ \A t \in Servers \ {s} : server'[t] = server[t]
    BY <1>4, <2>1, LeaveAt
  <2>3. cache'.server = s /\ ref'[c] = s /\ pc'[c] = "idle"
    BY <1>0, <2>1 DEF Cache, EnsureReturns, Return
  <2>4. cache.server \in {None, s}
    BY <1>0, <1>1, <1>5 DEF Cached, CachedFor
  <2>5. Held(s)' /\ \A t \in Servers : Held(t) => Held(t)'
    <3>1. None \notin Servers
      BY PyServerAssumption
    <3> QED BY <1>1, <2>3, <2>4, <3>1 DEF Held, OthersStay
  <2>6. Touched(c, None, child')
    BY <2>1, Untouched DEF TypesOK
  <2> QED BY <1>1, <1>2, <2>2, <2>3, <2>5, <2>6, HandOver, Away
<1>6. CASE attempt[c] # 0
  <2>1. /\ pc'[c] = "write" /\ id'[c] = 0 /\ server' = srv /\ UNCHANGED <<cache, ref>>
    BY <1>0, <1>1, <1>3, <1>6 DEF Hello, WithChild
  <2>2. PICK old \in Child : old = child[k] /\ old.in = <<>> /\ old.out = <<>>
    BY <1>0, <1>2
  <2>3. PICK new : new = [old EXCEPT !.nextId = 1]
    OBVIOUS
  <2>4. /\ new \in Child /\ new.st = old.st /\ new.nextId = 1 /\ new.in = <<>> /\ new.out = <<>>
        /\ new.failed = old.failed
    BY <2>2, <2>3 DEF Child
  <2>5. DOMAIN new.in = {} /\ DOMAIN new.out = {}
    BY <2>4
  <2>6. child' = [child EXCEPT ![k] = new]
    BY <1>0, <1>1, <1>6, <2>2, <2>3 DEF Hello
  <2>7. Touched(c, None, child')
    <3>1. Owned(k) /\ Uses(c, k)
      BY <1>1 DEF Owned, Uses
    <3>2. Ids(new)
      BY <2>5 DEF Ids
    <3> QED BY <2>2, <2>4, <2>6, <3>1, <3>2, TouchOne DEF TypesOK
  <2>8. Held(s)' /\ \A t \in Servers : Held(t) => Held(t)'
    BY <1>1, <2>1 DEF Held
  <2>9. server'[s].child = k /\ \A t \in Servers \ {s} : server'[t] = server[t]
    BY <1>4, <2>1
  <2>10. Handles(c, None)
    BY <1>1, <1>2, <2>7, <2>8, <2>9, HandOver
  <2>11. MarkedFor(c)'
    BY <1>0, <1>6, <2>10, Unmarked
  <2>12. child'[k] = new /\ Mine(c)' = k /\ ref'[c] = s
    BY <1>0, <1>1, <2>1, <2>6, <2>9 DEF Mine
  <2>13. Answers(c, child[Mine(c)])'
    BY <2>1, <2>4, <2>5, <2>12 DEF Answers
  <2> QED BY <1>0, <2>1, <2>9, <2>10, <2>11, <2>12, <2>13 DEF Served, SupportedBy, FreshFor, AnsweredFor
<1>7. QED
  BY <1>5, <1>6

LEMMA CallerServed ==
    ASSUME TypesOK, Placed, Cached, KeptServers, KeptChildren, Solo, Supported, Numbered, Fresh, Answered, Marked,
           NEW c \in Callers, CallerStep(c)
    PROVE  (\E m : Handles(c, m)) /\ Served(c)'
<1>0. OthersStay(c) /\ pc \in [Callers -> Labels]
  BY OthersStayStep DEF CallerStep, TypesOK, CtlOK
<1>1. CASE \/ EnsureCall(c) \/ Prepared(c) \/ PrepareFails(c) \/ AlreadyStarted(c) \/ MarkUsed(c)
           \/ \E same \in BOOLEAN, rule \in BOOLEAN : Look(c, same, rule)
  <2>1. Handles(c, None)
    BY <1>0, <1>1, EnsureHandles
  <2>2. pc'[c] \in {"idle", "slot", "discard", "prepare", "start"}
    <3>1. CASE EnsureCall(c) \/ Prepared(c) \/ PrepareFails(c) \/ AlreadyStarted(c) \/ MarkUsed(c)
      BY <1>0, <3>1 DEF EnsureCall, Prepared, PrepareFails, AlreadyStarted, MarkUsed, EnsureReturns, Return, Goto
    <3>2. ASSUME NEW same \in BOOLEAN, NEW rule \in BOOLEAN, Look(c, same, rule)
          PROVE  pc'[c] \in {"idle", "slot", "discard", "prepare", "start"}
      BY <1>0, <3>2 DEF Look, EnsureReturns, Return, Goto
    <3> QED BY <1>1, <3>1, <3>2
  <2> QED BY <2>1, <2>2, Away
<1>2. CASE Discard(c) \/ Release(c) \/ (SpawnFails(c) /\ attempt[c] = 0)
  <2>1. Handles(c, None)
    BY <1>0, <1>2, LetGoHandles
  <2>2. pc'[c] \in {"idle", "prepare"}
    BY <1>0, <1>2 DEF Discard, Release, SpawnFails, EnsureReturns, Return, Goto
  <2> QED BY <2>1, <2>2, Away
<1>3. CASE Reset(c) \/ Cancel(c) \/ RequestCall(c) \/ Enter(c) \/ Write(c) \/ Spawn(c) \/ Hello(c)
  BY <1>0, <1>3, ResetServed, CancelServed, RequestServed, EnterServed, WriteServed, SpawnServed, HelloServed
<1>4. CASE Read(c) \/ WriteFails(c) \/ NoLine(c) \/ (SpawnFails(c) /\ attempt[c] # 0)
  BY <1>0, <1>4, ReadServed, FailsServed
<1>5. QED
  BY <1>1, <1>2, <1>3, <1>4 DEF CallerStep, Step, Untimed

LEMMA OthersServed ==
    ASSUME TypesOK, Placed, Solo, Supported, Fresh, Answered, Marked, NEW c \in Callers, NEW d \in Callers \ {c},
           NEW m, OthersStay(c), Handles(c, m)
    PROVE  Served(d)'
<1>0. /\ PlacedAt(d) /\ SupportedBy(d) /\ MarkedFor(d) /\ None \notin Children /\ ref[d] \in Servers \cup {None}
      /\ kid[d] \in Children \cup {None}
      /\ pc'[d] = pc[d] /\ ref'[d] = ref[d] /\ kid'[d] = kid[d]
      /\ attempt'[d] = attempt[d] /\ id'[d] = id[d] /\ calls'[d] = calls[d]
  BY PyServerAssumption DEF Placed, Supported, Marked, TypesOK, CtlOK, OthersStay
<1>1. \A k \in Children : child'[k] = NoChild => ~Owned(k)'
  BY NoChildFacts DEF Handles, KeptChildren
<1>2. ASSUME pc[d] \in {"hello", "write", "read"}
      PROVE  \E s \in Servers : s = ref[d] /\ HeadOf(server[s].q, d) /\ server'[s].child = server[s].child
  <2>1. PICK s \in Servers : s = ref[d] /\ HeadOf(server[s].q, d)
    BY <1>0, <1>2 DEF PlacedAt, Lined
  <2>2. ~HeadOf(server[s].q, c) /\ Held(s)'
    BY <1>0, <2>1 DEF HeadOf, Held
  <2>3. server'[s].child = server[s].child
    BY <2>2 DEF Handles, OwnersMove
  <2> QED BY <2>1, <2>3
<1>3. SupportedBy(d)'
  BY <1>0, <1>2 DEF SupportedBy
<1>4. FreshFor(d)'
  <2>1. ASSUME pc[d] = "hello" PROVE child'[kid[d]].in = <<>> /\ child'[kid[d]].out = <<>>
    <3>1. PICK k \in Children : k = kid[d]
      BY <1>0, <2>1 DEF PlacedAt
    <3>2. child'[k] # NoChild
      BY <1>0, <1>1, <3>1 DEF Owned
    <3>3. ~Uses(c, k)
      BY <1>0, <3>1 DEF Uses, Solo
    <3>4. Pipe(child'[k]) = Pipe(child[k])
      BY <3>2, <3>3 DEF Handles
    <3> QED BY <2>1, <3>1, <3>4 DEF Pipe, Fresh
  <2> QED BY <1>0, <2>1 DEF FreshFor
<1>5. AnsweredFor(d)'
  <2>1. ASSUME pc[d] \in {"write", "read"} PROVE Answers(d, child[Mine(d)])'
    <3>1. PICK s \in Servers : s = ref[d] /\ HeadOf(server[s].q, d) /\ server'[s].child = server[s].child
      BY <1>2, <2>1
    <3>2. PICK k \in Children : k = server[s].child
      BY <1>0, <2>1, <3>1, OrderedAt DEF SupportedBy, TypesOK
    <3>3. child'[k] # NoChild
      BY <1>1, <3>1, <3>2 DEF Owned
    <3>4. ~Uses(c, k)
      <4>1. k # kid[c]
        BY <1>0, <3>2 DEF Solo
      <4>2. ASSUME NEW t \in Servers, HeadOf(server[t].q, c), server[t].child = k PROVE FALSE
        <5>1. t = s
          BY <1>0, <3>2, <4>2 DEF Solo
        <5> QED BY <3>1, <4>2, <5>1 DEF HeadOf
      <4> QED BY <4>1, <4>2 DEF Uses
    <3>5. Pipe(child'[k]) = Pipe(child[k])
      BY <3>3, <3>4 DEF Handles
    <3>6. child'[k].nextId = child[k].nextId /\ child'[k].in = child[k].in /\ child'[k].out = child[k].out
      BY <3>5 DEF Pipe
    <3>7. Mine(d) = k /\ Mine(d)' = k /\ Answers(d, child[k])
      BY <1>0, <2>1, <3>1, <3>2 DEF Mine, Answered
    <3> QED BY <1>0, <3>6, <3>7 DEF Answers
  <2> QED BY <1>0, <2>1 DEF AnsweredFor
<1>6. MarkedFor(d)'
  <2>1. ASSUME NEW k \in Children, d \in child'[k].failed
        PROVE  /\ attempt[d] # 0 => pc[d] \notin {"enter", "hello", "write", "read"}
               /\ pc[d] = "reset" => server'[ref[d]].child = k
    <3>1. d \in child[k].failed
      BY <2>1 DEF Handles
    <3>2. child'[k] # NoChild
      BY <2>1, NoChildFacts
    <3>3. ASSUME pc[d] = "reset" PROVE server'[ref[d]].child = k
      <4>1. PICK s \in Servers : s = ref[d] /\ server[s].child = k
        BY <1>0, <3>1, <3>3 DEF MarkedFor, PlacedAt, Lined
      <4>2. server'[s].child = server[s].child
        BY <3>2, <4>1 DEF Handles, OwnersMove
      <4> QED BY <4>1, <4>2
    <3> QED BY <1>0, <3>1, <3>3 DEF MarkedFor
  <2> QED BY <1>0, <2>1 DEF MarkedFor
<1>7. QED
  BY <1>3, <1>4, <1>5, <1>6 DEF Served

-----------------------------------------------------------------------------
(* The whole invariant, step by step.                                       *)

AllServed == \A c \in Callers : Served(c)
CoreInv == TypesOK /\ Placed /\ Cached /\ KeptServers /\ KeptChildren /\ Solo /\ Numbered /\ AllServed

LEMMA CoreSplit == ServerInv <=> CoreInv
<1>1. AllServed <=> Supported /\ Fresh /\ Answered /\ Marked
  BY DEF AllServed, Served, Supported, Fresh, FreshFor, Answered, AnsweredFor, Marked
<1>2. QED
  BY <1>1, TypesSplit DEF ServerInv, CoreInv

LEMMA CallerCore == ASSUME CoreInv, NEW c \in Callers, CallerStep(c) PROVE CoreInv'
<1>0. /\ TypesOK /\ Placed /\ Cached /\ KeptServers /\ KeptChildren /\ Solo /\ Numbered
      /\ Supported /\ Fresh /\ Answered /\ Marked
  BY DEF CoreInv, AllServed, Served, Supported, Fresh, FreshFor, Answered, AnsweredFor, Marked
<1>1. Shifts(c)
  BY <1>0, CallerShifts
<1>2. Placed' /\ SlotOK' /\ Ordered(server)'
  BY <1>0, <1>1, PlacedMove
<1>3. CtlOK' /\ CacheOK' /\ Cached'
  BY <1>0, <1>1, CtlStep, CacheStep, CachedStep
<1>4. PICK m : Handles(c, m) /\ Served(c)'
  BY <1>0, CallerServed
<1>5. OthersStay(c)
  BY <1>1 DEF Shifts
<1>6. \A d \in Callers \ {c} : Served(d)'
  BY <1>0, <1>4, <1>5, OthersServed
<1>7. AllServed'
  BY <1>4, <1>6 DEF AllServed
<1>8. KeptServers' /\ KeptChildren' /\ Solo' /\ Numbered' /\ ChildOK'
  BY <1>4 DEF Handles
<1>9. TypesOK'
  BY <1>2, <1>3, <1>8 DEF TypesOK
<1>10. QED
  BY <1>2, <1>3, <1>7, <1>8, <1>9 DEF CoreInv

\* Time passes.
LEMMA TimeCore == ASSUME CoreInv, BackoffElapses \/ \E s \in Servers : IdleElapses(s) PROVE CoreInv'
<1>0. /\ CtlOK /\ CacheOK /\ SlotOK /\ Ordered(server) /\ ChildOK /\ Placed /\ Cached /\ KeptServers /\ KeptChildren
      /\ Solo /\ Numbered /\ AllServed
  BY DEF CoreInv, TypesOK
<1>1. UNCHANGED <<slotQ, child, pc, ref, kid, attempt, id, calls>> /\ cache'.server = cache.server
  <2>1. CASE BackoffElapses
    BY <1>0, <2>1 DEF BackoffElapses, CacheOK, callVars
  <2>2. CASE \E s \in Servers : IdleElapses(s)
    BY <2>2 DEF IdleElapses, callVars
  <2> QED BY <2>1, <2>2
<1>2. CacheOK' /\ (cache'.kind = "Ready" <=> cache.kind = "Ready")
  <2>1. CASE BackoffElapses
    BY <1>0, <2>1 DEF BackoffElapses, CacheOK
  <2>2. CASE UNCHANGED cache
    BY <1>0, <2>2 DEF CacheOK
  <2> QED BY <2>1, <2>2 DEF IdleElapses
<1>3. /\ Ordered(server') /\ \A t \in Servers : server'[t].q = server[t].q /\ server'[t].child = server[t].child
      /\ \A t \in Servers : Held(t) \/ server'[t] = server[t]
  <2>1. CASE BackoffElapses
    BY <1>0, <2>1 DEF BackoffElapses
  <2>2. ASSUME NEW s \in Servers, IdleElapses(s)
        PROVE  /\ Ordered(server') /\ \A t \in Servers : server'[t].q = server[t].q /\ server'[t].child = server[t].child
               /\ \A t \in Servers : Held(t) \/ server'[t] = server[t]
    <3>1. PICK b \in BOOLEAN : b = TRUE
      OBVIOUS
    <3>2. PICK new : new = WithIdle(server, s, b)
      OBVIOUS
    <3>3. server' = new /\ Held(s)
      BY <2>2, <3>1, <3>2 DEF IdleElapses, WithIdle, Held
    <3>4. Ordered(new) /\ (\A t \in Servers : new[t].q = server[t].q /\ new[t].child = server[t].child)
      BY <1>0, <3>2, IdleAt
    <3>5. \A t \in Servers \ {s} : new[t] = server[t]
      BY <1>0, <3>2, IdleAt
    <3> QED BY <3>3, <3>4, <3>5
  <2> QED BY <2>1, <2>2
<1>4. TypesOK'
  BY <1>0, <1>1, <1>2, <1>3 DEF TypesOK, CtlOK, SlotOK, ChildOK, Ordered
<1>5. \A t \in Servers : Held(t)' <=> Held(t)
  BY <1>1 DEF Held
<1>6. KeptServers' /\ Numbered'
  BY <1>0, <1>1, <1>3, <1>5 DEF KeptServers, Numbered
<1>7. \A k \in Children : Owned(k)' <=> Owned(k)
  BY <1>1, <1>3 DEF Owned
<1>8. KeptChildren' /\ Solo'
  BY <1>0, <1>1, <1>3, <1>7 DEF KeptChildren, Solo
<1>9. ASSUME NEW c \in Callers PROVE PlacedAt(c)' /\ CachedFor(c)' /\ Served(c)'
  <2>1. PlacedAt(c) /\ CachedFor(c) /\ Served(c) /\ ref[c] \in Servers \cup {None}
    BY <1>0 DEF Placed, Cached, AllServed, CtlOK
  <2>2. PlacedAt(c)'
    <3>1. pc[c] \in {"hello", "write", "read"} => ref[c] \in Servers
      BY <2>1 DEF PlacedAt, Lined
    <3> QED BY <1>1, <1>3, <2>1, <3>1 DEF PlacedAt, Slotted, Lined
  <2>3. CachedFor(c)'
    BY <1>1, <2>1 DEF CachedFor
  <2>4. pc[c] \in {"hello", "write", "read", "reset"} => server'[ref[c]].child = server[ref[c]].child
    BY <1>3, <2>1 DEF PlacedAt, Lined
  <2>5. SupportedBy(c)' /\ FreshFor(c)' /\ MarkedFor(c)'
    BY <1>1, <2>1, <2>4 DEF Served, SupportedBy, FreshFor, MarkedFor
  <2>6. AnsweredFor(c)'
    <3>1. ASSUME pc[c] \in {"write", "read"} PROVE Answers(c, child[Mine(c)])'
      <4>1. PICK now : now = child[Mine(c)] /\ Answers(c, now)
        BY <2>1, <3>1 DEF Served, AnsweredFor
      <4>2. child[Mine(c)]' = now
        BY <1>1, <2>4, <3>1, <4>1 DEF Mine
      <4> QED BY <1>1, <4>1, <4>2 DEF Answers
    <3> QED BY <1>1, <3>1 DEF AnsweredFor
  <2> QED BY <2>2, <2>3, <2>5, <2>6 DEF Served
<1>10. Placed' /\ Cached' /\ AllServed'
  BY <1>0, <1>1, <1>2, <1>9 DEF Placed, Cached, AllServed
<1>11. QED
  BY <1>4, <1>6, <1>8, <1>10 DEF CoreInv

\* A child does something.
LEMMA ChildCore ==
    ASSUME CoreInv, UNCHANGED <<cache, slotQ, server, callVars>>, NEW k \in Children, NEW old \in Child, NEW new \in Child,
           old = child[k], child' = [child EXCEPT ![k] = new], old.st # "free", new.st # "free", Ids(new),
           new.failed = old.failed,
           \A c \in Callers : pc[c] = "hello" /\ kid[c] = k /\ old.in = <<>> => new.in = <<>> /\ new.out = old.out,
           \A c \in Callers : Answers(c, old) => Answers(c, new)
    PROVE  CoreInv'
<1>0. /\ CtlOK /\ CacheOK /\ SlotOK /\ Ordered(server) /\ child \in [Children -> Child] /\ Placed /\ Cached /\ KeptServers
      /\ KeptChildren /\ Solo /\ Numbered /\ AllServed /\ UNCHANGED <<pc, ref, kid, attempt, id, calls>>
  BY DEF CoreInv, TypesOK, ChildOK, callVars
<1>1. child' \in [Children -> Child] /\ child'[k] = new /\ \A j \in Children \ {k} : child'[j] = child[j]
  BY <1>0
<1>2. TypesOK' /\ Placed' /\ Cached' /\ KeptServers' /\ Solo'
  <2>1. TypesOK'
    BY <1>0, <1>1 DEF TypesOK, CtlOK, CacheOK, SlotOK, Ordered, ChildOK
  <2>2. Placed'
    BY <1>0 DEF Placed, PlacedAt, Slotted, Lined
  <2>3. Cached' /\ KeptServers' /\ Solo'
    BY <1>0 DEF Cached, CachedFor, KeptServers, Held, Solo
  <2> QED BY <2>1, <2>2, <2>3
<1>3. Numbered'
  BY <1>0, <1>1 DEF Numbered
<1>4. KeptChildren'
  <2>1. \A j \in Children : Owned(j)' <=> Owned(j)
    BY <1>0 DEF Owned
  <2>2. Owned(k)
    BY <1>0, NoChildFacts DEF KeptChildren
  <2> QED BY <1>0, <1>1, <2>1, <2>2 DEF KeptChildren
<1>5. ASSUME NEW c \in Callers PROVE Served(c)'
  <2>0. PlacedAt(c) /\ Served(c) /\ ref[c] \in Servers \cup {None} /\ kid[c] \in Children \cup {None}
    BY <1>0 DEF Placed, AllServed, CtlOK
  <2>1. SupportedBy(c)'
    BY <1>0, <2>0 DEF Served, SupportedBy
  <2>2. FreshFor(c)'
    <3>1. pc[c] = "hello" => kid[c] \in Children
      BY <2>0 DEF PlacedAt
    <3> QED BY <1>0, <1>1, <2>0, <3>1 DEF Served, FreshFor
  <2>3. AnsweredFor(c)'
    <3>1. ASSUME pc[c] \in {"write", "read"} PROVE Answers(c, child[Mine(c)])'
      <4>1. PICK s \in Servers : s = ref[c]
        BY <2>0, <3>1 DEF PlacedAt, Lined
      <4>2. PICK j \in Children : j = server[s].child
        BY <1>0, <2>0, <3>1, <4>1, OrderedAt DEF Served, SupportedBy
      <4>3. Mine(c) = j /\ Mine(c)' = j /\ Answers(c, child[j])
        BY <1>0, <2>0, <3>1, <4>1, <4>2 DEF Mine, Served, AnsweredFor
      <4>4. PICK now : now = child'[j]
        OBVIOUS
      <4>5. Answers(c, now)
        BY <1>1, <4>3, <4>4
      <4> QED BY <1>0, <4>3, <4>4, <4>5 DEF Answers
    <3> QED BY <1>0, <3>1 DEF AnsweredFor
  <2>4. MarkedFor(c)'
    BY <1>0, <1>1, <2>0 DEF Served, MarkedFor
  <2> QED BY <2>1, <2>2, <2>3, <2>4 DEF Served
<1>6. QED
  BY <1>2, <1>3, <1>4, <1>5 DEF CoreInv, AllServed

LEMMA ChildStep ==
    ASSUME CoreInv, NEW k \in Children,
           ChildDies(k) \/ ChildChatters(k) \/ \E ok \in BOOLEAN : ChildAnswers(k, ok)
    PROVE  CoreInv'
<1>0. child \in [Children -> Child] /\ UNCHANGED <<cache, slotQ, server, callVars>> /\ child[k].st = "live"
  BY DEF CoreInv, TypesOK, ChildOK, ChildDies, ChildChatters, ChildAnswers
<1>1. PICK old \in Child : old = child[k] /\ Ids(old)
  BY <1>0 DEF CoreInv, Numbered
<1>2. old.in \in Seq(Line) /\ old.out \in Seq(Answer) /\ old.st = "live"
  BY <1>0, <1>1 DEF Child
<1>3. CASE ChildDies(k)
  <2>1. PICK new : new = [old EXCEPT !.st = "dead", !.in = <<>>]
    OBVIOUS
  <2>2. <<>> \in Seq(Line)
    BY EmptySeq
  <2>3. /\ new \in Child /\ new.st = "dead" /\ new.in = <<>> /\ new.out = old.out /\ new.nextId = old.nextId
        /\ new.failed = old.failed
    BY <2>1, <2>2 DEF Child
  <2>4. DOMAIN new.in = {}
    BY <2>3
  <2>5. Ids(new) /\ \A c \in Callers : Answers(c, old) => Answers(c, new)
    BY <1>1, <2>3, <2>4 DEF Ids, Answers
  <2>6. child' = [child EXCEPT ![k] = new]
    BY <1>0, <1>1, <1>3, <2>1 DEF ChildDies
  <2> QED BY <1>0, <1>1, <1>2, <2>3, <2>5, <2>6, ChildCore
<1>4. ASSUME NEW ok \in BOOLEAN, ChildAnswers(k, ok) PROVE CoreInv'
  <2>1. PICK line, in : line = Head(old.in) /\ in = Tail(old.in) /\ old.in # <<>>
    BY <1>1, <1>4 DEF ChildAnswers
  <2>2. PICK n \in Nat : n = Len(old.in) /\ DOMAIN old.in = 1..n /\ n > 0
    BY <1>2, <2>1, LenProperties, EmptySeq
  <2>3. /\ in \in Seq(Line) /\ DOMAIN in = 1..(n - 1) /\ line = old.in[1] /\ line \in Line
        /\ \A i \in 1..(n - 1) : in[i] = old.in[i + 1]
    <3>1. in \in Seq(Line) /\ Len(in) = n - 1 /\ line = old.in[1] /\ line \in Line
      BY <1>2, <2>1, <2>2, HeadTailProperties
    <3>2. \A i \in 1..(n - 1) : in[i] = old.in[i + 1]
      BY <1>2, <2>1, <2>2, HeadTailProperties
    <3> QED BY <3>1, <3>2, LenProperties
  <2>4. \A i \in DOMAIN in : \E j \in DOMAIN old.in : in[i] = old.in[j]
    <3>1. \A i \in 1..(n - 1) : i + 1 \in 1..n
      OBVIOUS
    <3> QED BY <2>2, <2>3, <3>1
  <2>5. 1 \in DOMAIN old.in
    BY <2>2
  <2>6. (ok /\ line.id # NoId) \in BOOLEAN
    OBVIOUS
  <2>7. PICK b \in BOOLEAN : b = (ok /\ line.id # NoId)
    BY <2>6
  <2>8. PICK ans : ans = [id |-> line.id, by |-> line.by, ok |-> b]
    OBVIOUS
  <2>9. ans \in Answer /\ ans.id = line.id /\ ans.by = line.by
    BY <2>3, <2>8 DEF Line, Answer
  <2>10. PICK out : out = Append(old.out, ans)
    OBVIOUS
  <2>11. PICK l \in Nat : l = Len(old.out) /\ DOMAIN old.out = 1..l
    BY <1>2, LenProperties
  <2>12. out \in Seq(Answer) /\ DOMAIN out = 1..(l + 1) /\ out[l + 1] = ans /\ \A i \in 1..l : out[i] = old.out[i]
    BY <1>2, <2>9, <2>10, <2>11, AppendProperties, LenProperties
  <2>13. \A i \in DOMAIN out : (i \in DOMAIN old.out /\ out[i] = old.out[i]) \/ out[i] = ans
    <3>1. \A i \in 1..(l + 1) : i \in 1..l \/ i = l + 1
      OBVIOUS
    <3> QED BY <2>11, <2>12, <3>1
  <2>14. PICK new : new = [old EXCEPT !.in = in, !.out = out]
    OBVIOUS
  <2>15. /\ new \in Child /\ new.st = old.st /\ new.in = in /\ new.out = out /\ new.nextId = old.nextId
         /\ new.failed = old.failed
    BY <2>3, <2>12, <2>14 DEF Child
  <2>16. Ids(new)
    BY <1>1, <2>3, <2>4, <2>5, <2>9, <2>13, <2>15 DEF Ids
  <2>17. ASSUME NEW c \in Callers, Answers(c, old) PROVE Answers(c, new)
    <3>1. \A i \in DOMAIN in : in[i].id = id[c] => pc[c] = "read" /\ in[i].by = <<c, calls[c]>>
      BY <2>4, <2>17 DEF Answers
    <3>2. ans.id = id[c] => pc[c] = "read" /\ ans.by = <<c, calls[c]>>
      BY <2>3, <2>5, <2>9, <2>17 DEF Answers
    <3>3. \A i \in DOMAIN out : out[i].id = id[c] => pc[c] = "read" /\ out[i].by = <<c, calls[c]>>
      BY <2>13, <2>17, <3>2 DEF Answers
    <3>4. id[c] \in Nat /\ id[c] < new.nextId
      BY <2>15, <2>17 DEF Answers
    <3> QED BY <2>15, <3>1, <3>3, <3>4 DEF Answers
  <2>18. child' = [child EXCEPT ![k] = new]
    BY <1>0, <1>1, <1>4, <2>1, <2>7, <2>8, <2>10, <2>14 DEF ChildAnswers
  <2> QED BY <1>0, <1>1, <1>2, <2>1, <2>15, <2>16, <2>17, <2>18, ChildCore
<1>5. CASE ChildChatters(k)
  <2>1. PICK ans : ans = [id |-> NoId, by |-> NoCall, ok |-> FALSE]
    OBVIOUS
  <2>2. ans \in Answer /\ ans.id = NoId
    BY <2>1 DEF Answer
  <2>3. PICK out : out = Append(old.out, ans)
    OBVIOUS
  <2>4. PICK l \in Nat : l = Len(old.out) /\ DOMAIN old.out = 1..l
    BY <1>2, LenProperties
  <2>5. out \in Seq(Answer) /\ DOMAIN out = 1..(l + 1) /\ out[l + 1] = ans /\ \A i \in 1..l : out[i] = old.out[i]
    BY <1>2, <2>2, <2>3, <2>4, AppendProperties, LenProperties
  <2>6. \A i \in DOMAIN out : (i \in DOMAIN old.out /\ out[i] = old.out[i]) \/ out[i] = ans
    <3>1. \A i \in 1..(l + 1) : i \in 1..l \/ i = l + 1
      OBVIOUS
    <3> QED BY <2>4, <2>5, <3>1
  <2>7. PICK new : new = [old EXCEPT !.out = out]
    OBVIOUS
  <2>8. /\ new \in Child /\ new.st = old.st /\ new.in = old.in /\ new.out = out /\ new.nextId = old.nextId
        /\ new.failed = old.failed /\ new.nextId \in Nat
    BY <2>5, <2>7 DEF Child
  <2>9. Ids(new)
    <3>1. NoId < new.nextId
      BY <2>8 DEF NoId
    <3> QED BY <1>1, <2>2, <2>6, <2>8, <3>1 DEF Ids
  <2>10. ASSUME NEW c \in Callers, Answers(c, old) PROVE Answers(c, new)
    <3>1. id[c] \in Nat /\ id[c] # NoId
      BY <2>10 DEF Answers, NoId
    <3>2. \A i \in DOMAIN out : out[i].id = id[c] => pc[c] = "read" /\ out[i].by = <<c, calls[c]>>
      BY <2>2, <2>6, <2>10, <3>1 DEF Answers
    <3> QED BY <2>8, <2>10, <3>2 DEF Answers
  <2>11. child' = [child EXCEPT ![k] = new]
    BY <1>0, <1>1, <1>5, <2>1, <2>3, <2>7 DEF ChildChatters
  <2>12. ASSUME NEW c \in Callers PROVE ~(pc[c] = "hello" /\ kid[c] = k)
    <3>1. PICK d \in Callers : pc[d] = "read" /\ Mine(d) = k
      BY <1>5 DEF ChildChatters
    <3>2. PICK s \in Servers : s = ref[d] /\ server[s].child = k
      <4>1. PlacedAt(d) /\ ref[d] \in Servers \cup {None}
        BY DEF CoreInv, Placed, TypesOK, CtlOK
      <4> QED BY <3>1, <4>1 DEF PlacedAt, Lined, Mine
    <3>3. k # None
      BY PyServerAssumption
    <3> QED BY <3>2, <3>3 DEF CoreInv, Solo
  <2>13. \A c \in Callers : pc[c] = "hello" /\ kid[c] = k /\ old.in = <<>> => new.in = <<>> /\ new.out = old.out
    BY <2>12
  <2>14. \A c \in Callers : Answers(c, old) => Answers(c, new)
    BY <2>10
  <2>15. old.st # "free" /\ new.st # "free" /\ new.failed = old.failed /\ new \in Child
    BY <1>2, <2>8
  <2> QED BY <1>0, <1>1, <2>9, <2>11, <2>13, <2>14, <2>15, ChildCore
<1>6. QED
  BY <1>3, <1>4, <1>5

LEMMA ServerInitial == Init => ServerInv
<1> SUFFICES ASSUME Init PROVE CoreInv
  BY CoreSplit
<1>0. None \notin Servers /\ None \notin Children /\ <<>> \in Seq(Callers) /\ 0 \in 0..MaxCalls
  <2>1. None \notin Servers /\ None \notin Children
    BY PyServerAssumption
  <2>2. MaxCalls \in Nat
    BY PyServerAssumption
  <2>3. 0 \in 0..MaxCalls
    BY <2>2
  <2>4. <<>> \in Seq(Callers)
    BY EmptySeq
  <2> QED BY <2>1, <2>3, <2>4
<1>1. NoServer.q = <<>> /\ NoServer.child = None /\ NoServer.idle = FALSE /\ NoServer \in Server
  <2>1. NoServer.q = <<>> /\ NoServer.child = None /\ NoServer.idle = FALSE
    BY DEF NoServer
  <2>2. NoServer \in Server
    BY <1>0 DEF NoServer, Server
  <2> QED BY <2>1, <2>2
<1>2. IsInjective(<<>>) /\ Members(<<>>) = {}
  BY DEF IsInjective, Members
<1>3. /\ cache.kind = "Empty" /\ cache.server = None /\ slotQ = <<>>
      /\ \A s \in Servers : server[s] = NoServer
      /\ \A k \in Children : child[k] = NoChild
      /\ \A c \in Callers : pc[c] = "idle" /\ ref[c] = None /\ kid[c] = None /\ attempt[c] = 0
  BY DEF Init, Cache
<1>4. CtlOK /\ CacheOK /\ SlotOK
  <2>1. CtlOK
    BY <1>0 DEF Init, CtlOK, Labels
  <2>2. CacheOK
    BY DEF Init, Cache, CacheOK
  <2>3. SlotOK
    BY <1>0, <1>2, <1>3 DEF SlotOK
  <2> QED BY <2>1, <2>2, <2>3
<1>5. Ordered(server) /\ ChildOK
  BY <1>1, <1>2, <1>3, NoChildFacts DEF Init, Ordered, ChildOK
<1>6. Placed
  BY <1>0, <1>1, <1>2, <1>3 DEF Placed, PlacedAt, Slotted, Lined
<1>7. Cached /\ KeptServers
  BY <1>3 DEF Cached, CachedFor, KeptServers
<1>8. KeptChildren /\ Solo
  <2>1. \A k \in Children : ~Owned(k)
    BY <1>0, <1>1, <1>3 DEF Owned
  <2> QED BY <1>1, <1>3, <2>1 DEF KeptChildren, Solo
<1>9. Numbered
  BY <1>3, NoChildFacts DEF Numbered
<1>10. AllServed
  BY <1>3 DEF AllServed, Served, SupportedBy, FreshFor, AnsweredFor, MarkedFor
<1>11. QED
  BY <1>4, <1>5, <1>6, <1>7, <1>8, <1>9, <1>10 DEF CoreInv, TypesOK

LEMMA CoreStands == ASSUME CoreInv, UNCHANGED vars PROVE CoreInv'
<1>0. UNCHANGED <<cache, slotQ, server, child, pc, ref, kid, attempt, id, calls>>
  BY DEF vars, callVars
<1>1. TypesOK' /\ Cached' /\ KeptServers' /\ KeptChildren' /\ Solo' /\ Numbered'
  BY <1>0 DEF CoreInv, TypesOK, CtlOK, CacheOK, SlotOK, Ordered, ChildOK, Cached, CachedFor, KeptServers, Held,
              KeptChildren, Owned, Solo, Numbered
<1>2. Placed'
  BY <1>0 DEF CoreInv, Placed, PlacedAt, Slotted, Lined
<1>3. AllServed'
  BY <1>0 DEF CoreInv, AllServed, Served, SupportedBy, FreshFor, AnsweredFor, Answers, Mine, MarkedFor
<1>4. QED
  BY <1>1, <1>2, <1>3 DEF CoreInv

LEMMA ServerStep == ServerInv /\ [Next]_vars => ServerInv'
<1> SUFFICES ASSUME CoreInv, [Next]_vars PROVE CoreInv'
  <2>1. (ServerInv <=> CoreInv)'
    BY CoreSplit, PTL
  <2> QED BY <2>1, CoreSplit
<1>1. CASE UNCHANGED vars
  BY <1>1, CoreStands
<1>2. CASE \E c \in Callers : CallerStep(c)
  BY <1>2, CallerCore
<1>3. CASE BackoffElapses \/ \E s \in Servers : IdleElapses(s)
  BY <1>3, TimeCore
<1>4. CASE \E k \in Children : ChildDies(k) \/ ChildChatters(k) \/ \E ok \in BOOLEAN : ChildAnswers(k, ok)
  BY <1>4, ChildStep
<1>5. QED
  BY <1>1, <1>2, <1>3, <1>4 DEF Next, CallerStep

-----------------------------------------------------------------------------
(* The theorems.                                                            *)

LEMMA ServerInvariant == Spec => []ServerInv
BY ServerInitial, ServerStep, PTL DEF Spec

\* The variables of the slot, of its servers and of their children keep to their types,
\* and no caller waits twice for one lock.
THEOREM PyServerTypeCorrect == Spec => []TypeOK
<1>1. ServerInv => TypeOK
  BY DEF ServerInv
<1>2. QED
  BY <1>1, ServerInvariant, PTL

\* Of the lines in the pipe of its child, request_once takes none but the answer to the
\* request it has written, whatever was dropped or given up on that child before.
THEOREM PyServerOwnAnswer == Spec => []OwnAnswer
<1>1. ServerInv => OwnAnswer
  <2> SUFFICES ASSUME ServerInv, NEW c \in Callers, pc[c] = "read", NEW i \in DOMAIN child[Mine(c)].out,
                      child[Mine(c)].out[i].id = id[c]
               PROVE  child[Mine(c)].out[i].by = <<c, calls[c]>>
    BY DEF OwnAnswer
  <2>1. Answers(c, child[Mine(c)])
    BY DEF ServerInv, Answered
  <2> QED BY <2>1 DEF Answers
<1>2. QED
  BY <1>1, ServerInvariant, PTL

\* request never tries a second time on the child that failed its first attempt, whoever
\* uses the server between the failure and the reset.
THEOREM PyServerRetriesElsewhere == Spec => []RetriesElsewhere
<1>1. ServerInv => RetriesElsewhere
  <2> SUFFICES ASSUME ServerInv, NEW c \in Callers, pc[c] \in {"write", "read"}, attempt[c] = 2
               PROVE  c \notin child[Mine(c)].failed
    BY DEF RetriesElsewhere
  <2>1. PICK k \in Children : k = Mine(c)
    BY TypesSplit, InFlight DEF ServerInv
  <2> QED BY <2>1 DEF ServerInv, Marked, MarkedFor
<1>2. QED
  BY <1>1, ServerInvariant, PTL

\* No reset and no discard takes the child from under a request in flight.
THEOREM PyServerUndisturbed == Spec => []Undisturbed
<1>1. ServerInv => Undisturbed
  <2> SUFFICES ASSUME ServerInv, NEW c \in Callers, pc[c] \in {"write", "read"}
               PROVE  HoldsServer(c) /\ Mine(c) # None /\ child[Mine(c)].st # "free"
    BY DEF Undisturbed
  <2>1. PICK s \in Servers, k \in Children :
          s = ref[c] /\ k = Mine(c) /\ HeadOf(server[s].q, c) /\ Owned(k) /\ k # None
    BY TypesSplit, InFlight DEF ServerInv
  <2>2. None \notin Servers
    BY PyServerAssumption
  <2>3. child[k].st # "free"
    BY <2>1 DEF ServerInv, KeptChildren
  <2> QED BY <2>1, <2>2, <2>3 DEF HoldsServer, HeadOf
<1>2. QED
  BY <1>1, ServerInvariant, PTL

\* The server that a child runs for: the one that has it, or the one that the caller
\* awaiting its ready line starts it for.
HomeOf(k, s) == server[s].child = k \/ \E c \in Callers : kid[c] = k /\ ref[c] = s

LEMMA OneHome ==
    ASSUME ServerInv
    PROVE  /\ \A k \in Running : \E s \in Servers : HomeOf(k, s) /\ Held(s)
           /\ \A j, k \in Children, s \in Servers : HomeOf(j, s) /\ HomeOf(k, s) => j = k
<1>0. /\ None \notin Servers /\ None \notin Children /\ ref \in [Callers -> Servers \cup {None}]
      /\ \A c \in Callers : PlacedAt(c) /\ SupportedBy(c)
  BY TypesSplit, PyServerAssumption DEF ServerInv, TypesOK, CtlOK, Placed, Supported
<1>1. ASSUME NEW c \in Callers, kid[c] # None
      PROVE  ref[c] \in Servers /\ HeadOf(server[ref[c]].q, c) /\ server[ref[c]].child = None
  BY <1>0, <1>1 DEF PlacedAt, SupportedBy, Lined
<1>2. ASSUME NEW k \in Running PROVE \E s \in Servers : HomeOf(k, s) /\ Held(s)
  <2>1. k \in Children /\ Owned(k) /\ k # None
    BY <1>0, NoChildFacts DEF Running, ServerInv, KeptChildren
  <2>2. CASE \E s \in Servers : server[s].child = k
    <3>1. PICK s \in Servers : server[s].child = k
      BY <2>2
    <3>2. Held(s)
      <4>1. NoServer.child = None
        BY DEF NoServer
      <4> QED BY <2>1, <3>1, <4>1 DEF ServerInv, KeptServers
    <3> QED BY <3>1, <3>2 DEF HomeOf
  <2>3. CASE \E c \in Callers : kid[c] = k
    <3>1. PICK c \in Callers : kid[c] = k
      BY <2>3
    <3>2. ref[c] \in Servers
      BY <1>1, <2>1, <3>1
    <3>3. HomeOf(k, ref[c]) /\ Held(ref[c])
      BY <3>1 DEF HomeOf, Held
    <3> QED BY <3>2, <3>3
  <2> QED BY <2>1, <2>2, <2>3 DEF Owned
<1>3. ASSUME NEW j \in Children, NEW k \in Children, NEW s \in Servers, HomeOf(j, s), HomeOf(k, s) PROVE j = k
  <2>1. j # None /\ k # None
    BY <1>0
  <2>2. CASE server[s].child = j
    BY <1>1, <1>3, <2>1, <2>2 DEF HomeOf
  <2>3. CASE server[s].child = k
    BY <1>1, <1>3, <2>1, <2>3 DEF HomeOf
  <2>4. CASE server[s].child # j /\ server[s].child # k
    <3>1. PICK c \in Callers, d \in Callers : kid[c] = j /\ ref[c] = s /\ kid[d] = k /\ ref[d] = s
      BY <1>3, <2>4 DEF HomeOf
    <3>2. c = d
      BY <1>1, <2>1, <3>1 DEF HeadOf
    <3> QED BY <3>1, <3>2
  <2> QED BY <2>2, <2>3, <2>4
<1>4. QED
  BY <1>2, <1>3

\* Besides the child of the cached server there are no more children than callers that
\* hold a discarded server or build one: ensure discards and starts under the lock of the
\* cache, and a child goes with its owner.
THEOREM PyServerOneWarmWorker == Spec => []OneWarmWorker
<1>1. ASSUME ServerInv PROVE OneWarmWorker
  <2>1. PICK run, strays, s0 : run = Running /\ strays = Strays /\ s0 = cache.server
    OBVIOUS
  <2>2. PICK refs : refs = {ref[c] : c \in strays}
    OBVIOUS
  <2>3. IsFiniteSet(strays) /\ Cardinality(strays) \in Nat
    <3>1. strays \in SUBSET Callers /\ IsFiniteSet(Callers)
      BY <2>1, PyServerAssumption DEF Strays
    <3>2. IsFiniteSet(strays)
      BY <3>1, FS_Subset
    <3> QED BY <3>2, FS_CardinalityType
  <2>4. IsFiniteSet(refs) /\ Cardinality(refs) <= Cardinality(strays)
    <3>1. PICK f : f = [c \in strays |-> ref[c]]
      OBVIOUS
    <3>2. f \in Surjection(strays, refs)
      BY <2>2, <3>1 DEF Surjection
    <3> QED BY <2>3, <3>2, FS_Surjection
  <2>5. PICK homes : homes = refs \cup {s0}
    OBVIOUS
  <2>6. IsFiniteSet(homes) /\ Cardinality(homes) <= 1 + Cardinality(strays)
    <3>1. /\ IsFiniteSet(refs \cup {s0})
          /\ Cardinality(refs \cup {s0}) = IF s0 \in refs THEN Cardinality(refs) ELSE Cardinality(refs) + 1
      BY <2>4, FS_AddElement
    <3>2. Cardinality(refs) \in Nat
      BY <2>4, FS_CardinalityType
    <3> QED BY <2>3, <2>4, <2>5, <3>1, <3>2
  <2>7. \A k \in run : \E s \in Servers : HomeOf(k, s) /\ s \in homes
    <3>1. ASSUME NEW k \in run PROVE \E s \in Servers : HomeOf(k, s) /\ s \in homes
      <4>1. PICK s \in Servers : HomeOf(k, s) /\ Held(s)
        BY <1>1, <2>1, OneHome
      <4>2. s \in homes
        <5>1. CASE s = cache.server
          BY <2>1, <2>5, <5>1
        <5>2. CASE s # cache.server
          <6>1. PICK c \in Callers : ref[c] = s
            BY <4>1, <5>2 DEF Held
          <6>2. c \in strays
            BY <2>1, <5>2, <6>1, PyServerAssumption DEF Strays
          <6> QED BY <2>2, <2>5, <6>1, <6>2
        <5> QED BY <5>1, <5>2
      <4> QED BY <4>1, <4>2
    <3> QED BY <3>1
  <2>8. PICK g : g = [k \in run |-> CHOOSE s \in Servers : HomeOf(k, s) /\ s \in homes]
    OBVIOUS
  <2>9. \A k \in run : g[k] \in Servers /\ HomeOf(k, g[k]) /\ g[k] \in homes
    BY <2>7, <2>8
  <2>10. g \in Injection(run, homes)
    <3>1. \A j, k \in run : g[j] = g[k] => j = k
      <4>1. \A k \in run : k \in Children
        BY <2>1 DEF Running
      <4> QED BY <1>1, <2>9, <4>1, OneHome
    <3>2. g \in [run -> homes] /\ DOMAIN g = run
      BY <2>8, <2>9
    <3> QED BY <3>1, <3>2 DEF Injection, IsInjective
  <2>11. IsFiniteSet(run) /\ Cardinality(run) <= Cardinality(homes)
    BY <2>6, <2>10, FS_Injection
  <2>12. Cardinality(run) \in Nat /\ Cardinality(homes) \in Nat
    BY <2>6, <2>11, FS_CardinalityType
  <2>13. Cardinality(run) <= 1 + Cardinality(strays)
    BY <2>3, <2>6, <2>11, <2>12
  <2> QED BY <2>1, <2>13 DEF OneWarmWorker
<1>2. QED
  BY <1>1, ServerInvariant, PTL
=============================================================================
