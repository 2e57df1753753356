---------------------------- MODULE EngineProofs ----------------------------
(* Theorems about Engine, for any number of callers, builds and pools.      *)
EXTENDS Engine, FiniteSetTheorems, TLAPS

-----------------------------------------------------------------------------
(* The invariant.                                                           *)

\* A call at p that asked for a, has the toolchain t and the harness of g.
Call(p, a, t, g) ==
    /\ p \in {"describe", "resolve", "harness", "write", "run", "job"} => a \in Asks
    /\ p \in {"harness", "write", "run", "job"} => t \in Tools
    /\ p \in {"write", "run", "job"} => g \in Builds

\* Every call has what its place asks for.
Asked == \A c \in Callers : Call(pc[c], ask[c], tool[c], got[c])

\* The launch l makes the workers that the settings a, the toolchain t and the
\* harness of g ask for.
Serves(l, a, t, g) ==
    /\ l \in Launches /\ l.ask = a /\ l.tool = t
    /\ Shape[l.of] = Shape[g] /\ Protocol[l.of] = Protocol[g]

\* A call keeps a pool exactly while it runs in it, the pool is of its launch, and
\* its worker speaks the protocol of that launch.
InPool(c) ==
    /\ held[c] # None <=> pc[c] \in {"run", "job"}
    /\ pc[c] \in {"run", "job"} => Serves(pool[held[c]].launch, ask[c], tool[c], got[c])
    /\ pc[c] = "job" => runs[c] \in Builds /\ Protocol[runs[c]] = Protocol[pool[held[c]].launch.of]
Running == \A c \in Callers : InPool(c)

\* A pool r with n workers at work: it keeps to its ceiling, and all that it parks
\* speak the protocol of its launch.
Sound(r, n) ==
    /\ r \in [launch : Launches, idle : Seq(Builds)]
    /\ Len(r.idle) + n <= WorkersOf[r.launch.ask]
    /\ \A i \in 1..Len(r.idle) : Protocol[r.idle[i]] = Protocol[r.launch.of]

\* The pools that exist are the pools that somebody keeps.
Existing ==
    \A p \in Pools : IF Kept(p) THEN Sound(pool[p], Cardinality(Busy(p))) ELSE pool[p] = NoPool

EngineInv == TypeOK /\ Asked /\ Running /\ Existing

-----------------------------------------------------------------------------
(* Calls: what they ask for and what they have.                             *)

PCs == {"idle", "describe", "resolve", "plan", "harness", "write", "run", "job"}

CallOK ==
    /\ provider \in Builds
    /\ memo \in [Keys -> Tools \cup {None}]
    /\ file \in Builds \cup {"cut", None}
    /\ writer \in [Callers -> [left : {"nothing", "open", "bytes"}, of : Builds \cup {None}]]
    /\ pc \in [Callers -> PCs]
    /\ ask \in [Callers -> Asks \cup {None}] /\ tool \in [Callers -> Tools \cup {None}]
    /\ got \in [Callers -> Builds \cup {None}]
    /\ Asked

\* A step of one call.
LEMMA OneCall ==
    ASSUME CallOK, NEW c \in Callers, NEW p \in PCs, NEW a \in Asks \cup {None},
           NEW t \in Tools \cup {None}, NEW g \in Builds \cup {None},
           pc' = [pc EXCEPT ![c] = p], ask' = [ask EXCEPT ![c] = a],
           tool' = [tool EXCEPT ![c] = t], got' = [got EXCEPT ![c] = g],
           Call(p, a, t, g)
    PROVE  /\ pc' \in [Callers -> PCs]
           /\ ask' \in [Callers -> Asks \cup {None}] /\ tool' \in [Callers -> Tools \cup {None}]
           /\ got' \in [Callers -> Builds \cup {None}]
           /\ \A d \in Callers : Call(pc'[d], ask'[d], tool'[d], got'[d])
<1>1. /\ pc \in [Callers -> PCs] /\ ask \in [Callers -> Asks \cup {None}]
      /\ tool \in [Callers -> Tools \cup {None}] /\ got \in [Callers -> Builds \cup {None}]
      /\ \A d \in Callers : Call(pc[d], ask[d], tool[d], got[d])
  BY DEF CallOK, Asked
<1>2. /\ pc' \in [Callers -> PCs] /\ ask' \in [Callers -> Asks \cup {None}]
      /\ tool' \in [Callers -> Tools \cup {None}] /\ got' \in [Callers -> Builds \cup {None}]
  BY <1>1
<1>3. /\ pc'[c] = p /\ ask'[c] = a /\ tool'[c] = t /\ got'[c] = g
      /\ \A d \in Callers \ {c} : /\ pc'[d] = pc[d] /\ ask'[d] = ask[d]
                                  /\ tool'[d] = tool[d] /\ got'[d] = got[d]
  BY <1>1
<1>4. \A d \in Callers : Call(pc'[d], ask'[d], tool'[d], got'[d])
  BY <1>1, <1>3
<1>5. QED
  BY <1>2, <1>4

LEMMA CallStep == CallOK /\ [Next]_vars => CallOK'
<1> SUFFICES ASSUME CallOK, [Next]_vars PROVE CallOK'
  OBVIOUS
<1> DEFINE CallsOK == /\ pc \in [Callers -> PCs]
                      /\ ask \in [Callers -> Asks \cup {None}]
                      /\ tool \in [Callers -> Tools \cup {None}]
                      /\ got \in [Callers -> Builds \cup {None}]
                      /\ \A d \in Callers : Call(pc[d], ask[d], tool[d], got[d])
           WriterOK == writer \in [Callers -> [left : {"nothing", "open", "bytes"}, of : Builds \cup {None}]]
           MemoOK == memo \in [Keys -> Tools \cup {None}]
           FileOK == file \in Builds \cup {"cut", None}
           ProviderOK == provider \in Builds
<1>0. CallsOK /\ WriterOK /\ MemoOK /\ FileOK /\ ProviderOK
  BY DEF CallOK, Asked
<1>1. CallsOK' /\ WriterOK' /\ MemoOK' /\ FileOK' /\ ProviderOK' => CallOK'
  BY DEF CallOK, Asked
<1>w. NoWrite \in [left : {"nothing", "open", "bytes"}, of : Builds \cup {None}]
  BY DEF NoWrite
<1>2. ASSUME NEW c \in Callers
      PROVE  /\ pc[c] \in PCs /\ ask[c] \in Asks \cup {None}
             /\ tool[c] \in Tools \cup {None} /\ got[c] \in Builds \cup {None}
             /\ Call(pc[c], ask[c], tool[c], got[c])
             /\ pc = [pc EXCEPT ![c] = pc[c]] /\ ask = [ask EXCEPT ![c] = ask[c]]
             /\ tool = [tool EXCEPT ![c] = tool[c]] /\ got = [got EXCEPT ![c] = got[c]]
             /\ writer[c] \in [left : {"nothing", "open", "bytes"}, of : Builds \cup {None}]
  BY <1>0
<1>3. ASSUME NEW c \in Callers, NEW p \in PCs, NEW a \in Asks \cup {None},
             NEW t \in Tools \cup {None}, NEW g \in Builds \cup {None},
             pc' = [pc EXCEPT ![c] = p], ask' = [ask EXCEPT ![c] = a],
             tool' = [tool EXCEPT ![c] = t], got' = [got EXCEPT ![c] = g],
             Call(p, a, t, g)
      PROVE  CallsOK'
  BY <1>3, OneCall
<1>4. ASSUME NEW c \in Callers, Return(c) PROVE CallsOK'
  <2>1. Call("idle", None, None, None) /\ "idle" \in PCs
    BY DEF Call, PCs
  <2> QED BY <1>3, <1>4, <2>1 DEF Return, Goto
<1>5. ASSUME UNCHANGED <<pc, ask, tool, got>> PROVE CallsOK'
  BY <1>0, <1>5
<1> HIDE DEF CallsOK
\* The call comes to p with what it has.
<1>g. ASSUME NEW c \in Callers, NEW p \in PCs, pc' = [pc EXCEPT ![c] = p], UNCHANGED <<ask, tool, got>>,
             Call(p, ask[c], tool[c], got[c])
      PROVE  CallsOK'
  <2>1. PICK a \in Asks \cup {None}, t \in Tools \cup {None}, g \in Builds \cup {None} :
           a = ask[c] /\ t = tool[c] /\ g = got[c]
    BY <1>2
  <2>2. /\ ask' = [ask EXCEPT ![c] = a] /\ tool' = [tool EXCEPT ![c] = t] /\ got' = [got EXCEPT ![c] = g]
    BY <1>2, <1>g, <2>1
  <2>3. Call(p, a, t, g) /\ pc' = [pc EXCEPT ![c] = p]
    BY <1>g, <2>1
  <2> QED BY <1>3, <2>2, <2>3
<1> USE EngineAssumption DEF Goto
<1>6. ASSUME NEW c \in Callers, NEW a \in Asks, Execute(c, a) PROVE CallOK'
  <2> DEFINE m == memo[KeyOf[a]]
             p == IF m = None THEN "describe" ELSE "harness"
  <2>1. m \in Tools \cup {None}
    BY <1>0
  <2>2. Call(p, a, m, got[c]) /\ p \in PCs
    BY <2>1 DEF Call, PCs
  <2>3. /\ pc' = [pc EXCEPT ![c] = p] /\ ask' = [ask EXCEPT ![c] = a]
        /\ tool' = [tool EXCEPT ![c] = m] /\ got' = [got EXCEPT ![c] = got[c]]
    BY <1>2, <1>6 DEF Execute
  <2> HIDE DEF m, p
  <2>4. CallsOK'
    BY <1>2, <1>3, <2>1, <2>2, <2>3
  <2> QED BY <1>0, <1>1, <1>6, <2>4 DEF Execute
<1>7. ASSUME NEW c \in Callers, Describe(c) PROVE CallOK'
  <2>1. ASSUME Goto(c, "resolve"), UNCHANGED <<ask, tool, got>> PROVE CallsOK'
    <3>1. Call("resolve", ask[c], tool[c], got[c]) /\ "resolve" \in PCs
      BY <1>2, <1>7 DEF Call, PCs, Describe
    <3> QED BY <1>g, <2>1, <3>1
  <2>2. CallsOK'
    BY <1>4, <1>7, <2>1 DEF Describe, Unavailable
  <2> QED BY <1>0, <1>1, <1>7, <2>2 DEF Describe
<1>8. ASSUME NEW c \in Callers, Resolve(c) PROVE CallOK'
  <2>1. ASSUME NEW t \in Tools, memo' = [memo EXCEPT ![KeyOf[ask[c]]] = t],
               tool' = [tool EXCEPT ![c] = t], Goto(c, "harness"), UNCHANGED <<ask, got>>
        PROVE  CallsOK' /\ MemoOK'
    <3>0. ask[c] \in Asks
      BY <1>2, <1>8 DEF Call, Resolve
    <3>1. Call("harness", ask[c], t, got[c]) /\ "harness" \in PCs
      BY <3>0 DEF Call, PCs
    <3>2. /\ pc' = [pc EXCEPT ![c] = "harness"] /\ ask' = [ask EXCEPT ![c] = ask[c]]
          /\ tool' = [tool EXCEPT ![c] = t] /\ got' = [got EXCEPT ![c] = got[c]]
      BY <1>2, <2>1
    <3>3. CallsOK'
      BY <1>2, <1>3, <3>1, <3>2
    <3>4. MemoOK'
      BY <1>0, <2>1, <3>0
    <3> QED BY <3>3, <3>4
  <2>2. ASSUME Return(c), UNCHANGED memo PROVE CallsOK' /\ MemoOK'
    BY <1>0, <1>4, <2>2
  <2>3. CallsOK' /\ MemoOK'
    BY <1>8, <2>1, <2>2 DEF Resolve
  <2> QED BY <1>0, <1>1, <1>8, <2>3 DEF Resolve
<1>9. ASSUME NEW c \in Callers, PrepareEnvironment(c) PROVE CallOK'
  <2>1. Call("plan", ask[c], tool[c], got[c]) /\ "plan" \in PCs
    BY DEF Call, PCs
  <2>2. CallsOK'
    BY <1>9, <1>g, <2>1 DEF PrepareEnvironment
  <2> QED BY <1>0, <1>1, <1>9, <2>2 DEF PrepareEnvironment
<1>10. ASSUME NEW c \in Callers, Plan(c) PROVE CallOK'
  BY <1>0, <1>1, <1>4, <1>10 DEF Plan
<1>11. ASSUME NEW c \in Callers, Harness(c) PROVE CallOK'
  <2>1. ASSUME got' = [got EXCEPT ![c] = provider], Goto(c, "write"),
               writer' = [writer EXCEPT ![c] = [left |-> "open", of |-> provider]],
               UNCHANGED <<ask, tool>>
        PROVE  CallsOK' /\ WriterOK'
    <3>1. provider \in Builds
      BY <1>0
    <3>2. Call("write", ask[c], tool[c], provider) /\ "write" \in PCs
      BY <1>2, <1>11, <3>1 DEF Call, PCs, Harness
    <3>3. ask' = [ask EXCEPT ![c] = ask[c]] /\ tool' = [tool EXCEPT ![c] = tool[c]]
      BY <1>2, <2>1
    <3>4. CallsOK'
      BY <1>2, <1>3, <2>1, <3>1, <3>2, <3>3
    <3>5. WriterOK'
      BY <1>0, <2>1, <3>1
    <3> QED BY <3>4, <3>5
  <2>2. ASSUME Return(c), UNCHANGED writer PROVE CallsOK' /\ WriterOK'
    BY <1>0, <1>4, <2>2
  <2>3. CallsOK' /\ WriterOK'
    BY <1>11, <2>1, <2>2 DEF Harness, Unavailable
  <2> QED BY <1>0, <1>1, <1>11, <2>3 DEF Harness
<1>12. ASSUME NEW c \in Callers, Truncate(c) PROVE CallOK'
  <2>1. WriterOK'
    BY <1>0, <1>12 DEF Truncate
  <2> QED BY <1>0, <1>1, <1>5, <1>12, <2>1 DEF Truncate, callVars
<1>13. ASSUME NEW c \in Callers, WriteBytes(c) PROVE CallOK'
  <2>1. WriterOK'
    BY <1>0, <1>w, <1>13 DEF WriteBytes
  <2>2. FileOK'
    BY <1>2, <1>13 DEF WriteBytes
  <2> QED BY <1>0, <1>1, <1>5, <1>13, <2>1, <2>2 DEF WriteBytes, callVars
<1>14. ASSUME NEW c \in Callers, WriteFails(c) PROVE CallOK'
  <2>1. WriterOK'
    BY <1>0, <1>w, <1>14 DEF WriteFails
  <2>2. CallsOK'
    BY <1>4, <1>5, <1>14 DEF WriteFails
  <2> QED BY <1>0, <1>1, <1>14, <2>1, <2>2 DEF WriteFails
<1>15. ASSUME NEW c \in Callers, Ensure(c) PROVE CallOK'
  <2>1. Call("run", ask[c], tool[c], got[c]) /\ "run" \in PCs
    BY <1>2, <1>15 DEF Call, PCs, Ensure
  <2>2. CallsOK'
    BY <1>15, <1>g, <2>1 DEF Ensure
  <2> QED BY <1>0, <1>1, <1>15, <2>2 DEF Ensure
<1>16. ASSUME NEW c \in Callers, NEW pl, RunReturns(c, pl) PROVE CallOK'
  BY <1>0, <1>1, <1>4, <1>16 DEF RunReturns
<1>17. ASSUME NEW c \in Callers, Spawn(c) \/ \E n \in 1..Len(Idle(c)) : Take(c, n) PROVE CallOK'
  <2>1. Call("job", ask[c], tool[c], got[c]) /\ "job" \in PCs
    BY <1>2, <1>17 DEF Call, PCs, Spawn, Take, Permit
  <2>2. CallsOK'
    BY <1>17, <1>g, <2>1 DEF Spawn, Take
  <2> QED BY <1>0, <1>1, <1>17, <2>2 DEF Spawn, Take
<1>18. ASSUME NEW c \in Callers,
              Shed(c) \/ SpawnFails(c) \/ Cancel(c) \/ \E park \in BOOLEAN : JobEnds(c, park)
       PROVE  CallOK'
  BY <1>16, <1>18 DEF Shed, SpawnFails, Cancel, JobEnds
<1>19. ASSUME NEW p \in Pools, NEW n \in 1..Len(pool[p].idle), Sweep(p, n) PROVE CallOK'
  BY <1>0, <1>1, <1>5, <1>19 DEF Sweep, callVars
<1>20. ASSUME NEW b \in Builds, Reload(b) PROVE CallOK'
  BY <1>0, <1>1, <1>5, <1>20 DEF Reload, callVars
<1>21. CASE UNCHANGED vars
  BY <1>0, <1>1, <1>5, <1>21 DEF vars, callVars
<1>22. QED
  BY <1>6, <1>7, <1>8, <1>9, <1>10, <1>11, <1>12, <1>13, <1>14, <1>15, <1>17, <1>18, <1>19, <1>20, <1>21
     DEF Next, Asking, Writing, Entering, Leaving

-----------------------------------------------------------------------------
(* Pools: who keeps them, of what launch they are, how many workers they    *)
(* have and what these speak.                                               *)

\* With fewer workers at work.
LEMMA SoundFewer ==
    ASSUME NEW r, NEW n \in Nat, NEW m \in Nat, m <= n, Sound(r, n)
    PROVE  Sound(r, m)
<1>1. Len(r.idle) \in Nat /\ WorkersOf[r.launch.ask] \in Nat
  BY EngineAssumption DEF Sound, Launches
<1>2. Len(r.idle) + m <= WorkersOf[r.launch.ask]
  BY <1>1 DEF Sound
<1>3. QED
  BY <1>2 DEF Sound

\* With some of what it parks.
LEMMA SoundPart ==
    ASSUME NEW r, NEW n \in Nat, Sound(r, n), NEW i \in 1..(Len(r.idle) + 1), NEW j \in 0..Len(r.idle),
           NEW m \in Nat, m <= n + Len(r.idle) - Len(SubSeq(r.idle, i, j))
    PROVE  Sound([r EXCEPT !.idle = SubSeq(r.idle, i, j)], m)
<1> DEFINE s == r.idle
           u == SubSeq(s, i, j)
<1>1. s \in Seq(Builds) /\ Len(s) \in Nat /\ r.launch \in Launches /\ WorkersOf[r.launch.ask] \in Nat
  BY EngineAssumption DEF Sound, Launches
<1>2. u \in Seq(Builds) /\ \A x \in 1..Len(u) : u[x] = s[i + x - 1] /\ i + x - 1 \in 1..Len(s)
  BY <1>1
<1>3. Len(u) \in Nat /\ Len(u) + m <= WorkersOf[r.launch.ask]
  BY <1>1, <1>2 DEF Sound
<1>4. \A x \in 1..Len(u) : Protocol[u[x]] = Protocol[r.launch.of]
  BY <1>2 DEF Sound
<1>5. r = [launch |-> r.launch, idle |-> s]
  BY DEF Sound
<1> HIDE DEF u
<1>6. [r EXCEPT !.idle = u] = [launch |-> r.launch, idle |-> u]
  BY <1>5
<1>7. QED
  BY <1>1, <1>2, <1>3, <1>4, <1>6 DEF Sound, u

\* With one more worker, that was at work, parked.
LEMMA SoundMore ==
    ASSUME NEW r, NEW n \in Nat, Sound(r, n + 1), NEW b \in Builds, Protocol[b] = Protocol[r.launch.of]
    PROVE  Sound([r EXCEPT !.idle = Append(r.idle, b)], n)
<1> DEFINE s == r.idle
           u == Append(s, b)
<1>1. s \in Seq(Builds) /\ Len(s) \in Nat /\ r.launch \in Launches /\ WorkersOf[r.launch.ask] \in Nat
  BY EngineAssumption DEF Sound, Launches
<1>2. u \in Seq(Builds) /\ Len(u) = Len(s) + 1 /\ \A x \in 1..Len(u) : u[x] = IF x <= Len(s) THEN s[x] ELSE b
  BY <1>1
<1>3. Len(u) + n <= WorkersOf[r.launch.ask]
  BY <1>1, <1>2 DEF Sound
<1>4. \A x \in 1..Len(u) : Protocol[u[x]] = Protocol[r.launch.of]
  BY <1>1, <1>2 DEF Sound
<1>5. r = [launch |-> r.launch, idle |-> s]
  BY DEF Sound
<1> HIDE DEF u
<1>6. [r EXCEPT !.idle = u] = [launch |-> r.launch, idle |-> u]
  BY <1>5
<1>7. QED
  BY <1>1, <1>2, <1>3, <1>4, <1>6 DEF Sound, u

\* With nothing parked.
LEMMA SoundEmpty ==
    ASSUME NEW l \in Launches, NEW n \in Nat, n <= WorkersOf[l.ask]
    PROVE  Sound([launch |-> l, idle |-> <<>>], n)
<1>1. <<>> \in Seq(Builds) /\ Len(<<>>) = 0
  OBVIOUS
<1>2. 0 + n = n
  OBVIOUS
<1>3. QED
  BY <1>1, <1>2 DEF Sound

LEMMA BusyFinite ==
    ASSUME NEW p
    PROVE  /\ IsFiniteSet(Busy(p)) /\ Cardinality(Busy(p)) \in Nat
           /\ IsFiniteSet(Busy(p)') /\ Cardinality(Busy(p)') \in Nat
<1>1. Busy(p) \subseteq Callers /\ Busy(p)' \subseteq Callers
  BY DEF Busy
<1>2. IsFiniteSet(Busy(p)) /\ IsFiniteSet(Busy(p)')
  BY <1>1, FS_Subset, EngineAssumption
<1>3. QED
  BY <1>2, FS_CardinalityType

PoolType == [launch : Launches \cup {None}, idle : Seq(Builds)]

PoolOK ==
    /\ live \in Pools \cup {None}
    /\ pool \in [Pools -> PoolType]
    /\ held \in [Callers -> Pools \cup {None}]
    /\ runs \in [Callers -> Builds \cup {None}]
    /\ Running /\ Existing

LEMMA PoolTypes == NoPool \in PoolType /\ \A r, n : Sound(r, n) => r \in PoolType
BY DEF NoPool, PoolType, Sound

LEMMA InvSplit == EngineInv <=> CallOK /\ PoolOK
<1>1. CallOK /\ PoolOK => EngineInv
  <2> SUFFICES ASSUME CallOK, PoolOK PROVE EngineInv
    OBVIOUS
  <2>1. live # None => pool[live].launch \in Launches
    <3> SUFFICES ASSUME live # None PROVE pool[live].launch \in Launches
      OBVIOUS
    <3>1. live \in Pools /\ Kept(live)
      BY DEF PoolOK, Kept
    <3> QED BY <3>1 DEF PoolOK, Existing, Sound
  <2> QED BY <2>1 DEF EngineInv, TypeOK, CallOK, PoolOK, PCs, PoolType
<1>2. EngineInv => CallOK /\ PoolOK
  BY DEF EngineInv, TypeOK, CallOK, PoolOK, PCs, PoolType
<1>3. QED
  BY <1>1, <1>2

\* A step that touches no pool and no call in one.
LEMMA PoolsUntouched ==
    ASSUME PoolOK, UNCHANGED <<live, pool, held, runs>>,
           \A c \in Callers : pc'[c] \in {"run", "job"} <=> pc[c] \in {"run", "job"},
           \A c \in Callers : pc[c] \in {"run", "job"} =>
             pc'[c] = pc[c] /\ ask'[c] = ask[c] /\ tool'[c] = tool[c] /\ got'[c] = got[c]
    PROVE  PoolOK'
<1>1. \A p : Busy(p)' = Busy(p)
  BY DEF Busy
<1>2. Existing'
  BY <1>1 DEF PoolOK, Existing, Kept
<1>3. Running'
  BY DEF PoolOK, Running, InPool
<1>4. QED
  BY <1>2, <1>3 DEF PoolOK

\* A step of the call c that makes of the pools what pl says and drops those that
\* nobody keeps.
LEMMA OnePool ==
    ASSUME PoolOK, NEW c \in Callers, NEW pl,
           pool' = [p \in Pools |-> IF Kept(p)' THEN pl[p] ELSE NoPool],
           live' \in Pools \cup {None}, held' \in [Callers -> Pools \cup {None}],
           runs' \in [Callers -> Builds \cup {None}],
           \A p \in Pools : Kept(p)' => Sound(pl[p], Cardinality(Busy(p)')),
           \A d \in Callers \ {c} : /\ pc'[d] = pc[d] /\ ask'[d] = ask[d] /\ tool'[d] = tool[d]
                                    /\ got'[d] = got[d] /\ held'[d] = held[d] /\ runs'[d] = runs[d],
           \A d \in Callers \ {c} : held[d] \in Pools => pl[held[d]].launch = pool[held[d]].launch,
           InPool(c)'
    PROVE  PoolOK'
<1>1. \A p \in Pools : IF Kept(p)' THEN pool'[p] = pl[p] ELSE pool'[p] = NoPool
  OBVIOUS
<1>2. Existing'
  BY <1>1 DEF Existing
<1>3. \A p \in Pools : pool'[p] \in PoolType
  BY <1>1, PoolTypes
<1>4. pool' \in [Pools -> PoolType]
  BY <1>3
<1>5. ASSUME NEW d \in Callers, d # c PROVE InPool(d)'
  <2>1. InPool(d) /\ held[d] \in Pools \cup {None}
    BY DEF PoolOK, Running
  <2>2. /\ pc'[d] = pc[d] /\ ask'[d] = ask[d] /\ tool'[d] = tool[d]
        /\ got'[d] = got[d] /\ held'[d] = held[d] /\ runs'[d] = runs[d]
    BY <1>5
  <2>3. CASE held[d] = None
    BY <2>1, <2>2, <2>3 DEF InPool
  <2>4. CASE held[d] \in Pools
    <3>1. Kept(held[d])'
      BY <2>2 DEF Kept
    <3>2. pool'[held[d]].launch = pool[held[d]].launch
      BY <1>1, <1>5, <2>4, <3>1
    <3> QED BY <2>1, <2>2, <3>2 DEF InPool
  <2> QED BY <2>1, <2>3, <2>4
<1>6. Running'
  BY <1>5 DEF Running
<1>7. QED
  BY <1>2, <1>4, <1>6 DEF PoolOK

\* A call lets go of its pool.
LEMMA Returning ==
    ASSUME CallOK, PoolOK, NEW c \in Callers, NEW pl, RunReturns(c, pl),
           \A p \in Pools : p # held[c] => pl[p] = pool[p],
           held[c] \in Pools => /\ pl[held[c]].launch = pool[held[c]].launch
                                /\ Sound(pl[held[c]], Cardinality(Busy(held[c]) \ {c}))
    PROVE  PoolOK'
<1>t. /\ live \in Pools \cup {None} /\ held \in [Callers -> Pools \cup {None}]
      /\ runs \in [Callers -> Builds \cup {None}] /\ pc \in [Callers -> PCs]
      /\ ask \in [Callers -> Asks \cup {None}] /\ tool \in [Callers -> Tools \cup {None}]
      /\ got \in [Callers -> Builds \cup {None}] /\ None \notin Pools
  BY EngineAssumption DEF PoolOK, CallOK
<1>1. /\ pc' = [pc EXCEPT ![c] = "idle"] /\ ask' = [ask EXCEPT ![c] = None]
      /\ tool' = [tool EXCEPT ![c] = None] /\ got' = [got EXCEPT ![c] = None]
      /\ held' = [held EXCEPT ![c] = None] /\ runs' = [runs EXCEPT ![c] = None] /\ live' = live
      /\ pool' = [p \in Pools |-> IF Kept(p)' THEN pl[p] ELSE NoPool]
  BY DEF RunReturns, Return, Goto, DropDead
<1>2. /\ pc'[c] = "idle" /\ held'[c] = None
      /\ \A d \in Callers \ {c} : /\ pc'[d] = pc[d] /\ ask'[d] = ask[d] /\ tool'[d] = tool[d]
                                  /\ got'[d] = got[d] /\ held'[d] = held[d] /\ runs'[d] = runs[d]
  BY <1>1, <1>t
<1>3. held' \in [Callers -> Pools \cup {None}] /\ runs' \in [Callers -> Builds \cup {None}]
  BY <1>1, <1>t
<1>4. \A p \in Pools : (Kept(p)' => Kept(p)) /\ Busy(p)' = Busy(p) \ {c}
  BY <1>1, <1>2, <1>t DEF Kept, Busy
<1>5. ASSUME NEW p \in Pools, Kept(p)' PROVE Sound(pl[p], Cardinality(Busy(p)'))
  <2>1. CASE p = held[c]
    BY <1>4, <2>1
  <2>2. CASE p # held[c]
    <3>1. Busy(p)' = Busy(p)
      BY <1>4, <2>2 DEF Busy
    <3>2. Sound(pool[p], Cardinality(Busy(p)))
      BY <1>4, <1>5 DEF PoolOK, Existing
    <3> QED BY <2>2, <3>1, <3>2
  <2> QED BY <2>1, <2>2
<1>6. \A d \in Callers \ {c} : held[d] \in Pools => pl[held[d]].launch = pool[held[d]].launch
  OBVIOUS
<1>7. InPool(c)'
  BY <1>2 DEF InPool
<1>8. QED
  BY <1>1, <1>2, <1>3, <1>5, <1>6, <1>7, <1>t, OnePool

\* The pool that a call runs in.
LEMMA Holding ==
    ASSUME PoolOK, NEW c \in Callers, pc[c] \in {"run", "job"}
    PROVE  /\ held[c] \in Pools /\ Kept(held[c])
           /\ Sound(pool[held[c]], Cardinality(Busy(held[c])))
           /\ Serves(pool[held[c]].launch, ask[c], tool[c], got[c])
<1>1. InPool(c) /\ held[c] \in Pools \cup {None}
  BY DEF PoolOK, Running
<1>2. held[c] \in Pools /\ Serves(pool[held[c]].launch, ask[c], tool[c], got[c])
  BY <1>1 DEF InPool
<1>3. Kept(held[c])
  BY DEF Kept
<1>4. QED
  BY <1>2, <1>3 DEF PoolOK, Existing

\* What Park makes of the pools.
LEMMA Parking ==
    ASSUME PoolOK, NEW c \in Callers, pc[c] \in {"run", "job"}, NEW q
    PROVE  /\ Park(c, q) = [pool EXCEPT ![held[c]] = [launch |-> pool[held[c]].launch, idle |-> q]]
           /\ Park(c, q)[held[c]] = [launch |-> pool[held[c]].launch, idle |-> q]
           /\ \A p \in Pools : p # held[c] => Park(c, q)[p] = pool[p]
<1>1. /\ held[c] \in Pools /\ pool \in [Pools -> PoolType]
      /\ pool[held[c]] = [launch |-> pool[held[c]].launch, idle |-> pool[held[c]].idle]
  BY Holding DEF PoolOK, Sound
<1>2. [pool[held[c]] EXCEPT !.idle = q] = [launch |-> pool[held[c]].launch, idle |-> q]
  BY <1>1
<1>3. Park(c, q) = [pool EXCEPT ![held[c]] = [launch |-> pool[held[c]].launch, idle |-> q]]
  BY <1>2 DEF Park
<1>4. QED
  BY <1>1, <1>3

LEMMA BusyLeaves ==
    ASSUME NEW p, NEW c \in Callers
    PROVE  /\ Cardinality(Busy(p) \ {c}) \in Nat
           /\ Cardinality(Busy(p) \ {c}) <= Cardinality(Busy(p))
           /\ c \in Busy(p) => Cardinality(Busy(p)) = Cardinality(Busy(p) \ {c}) + 1
<1>1. IsFiniteSet(Busy(p) \ {c}) /\ Cardinality(Busy(p) \ {c}) <= Cardinality(Busy(p))
  BY BusyFinite, FS_Subset
<1>2. Cardinality(Busy(p) \ {c}) \in Nat
  BY <1>1, FS_CardinalityType
<1>3. c \in Busy(p) => Cardinality(Busy(p) \ {c}) = Cardinality(Busy(p)) - 1
  BY BusyFinite, FS_RemoveElement
<1>4. Cardinality(Busy(p)) \in Nat
  BY BusyFinite
<1>5. QED
  BY <1>1, <1>2, <1>3, <1>4

\* run returns and parks nothing.
LEMMA ReturningBare ==
    ASSUME CallOK, PoolOK, NEW c \in Callers, RunReturns(c, pool)
    PROVE  PoolOK'
<1>1. PICK pl : pl = pool
  OBVIOUS
<1>2. ASSUME held[c] \in Pools PROVE Sound(pl[held[c]], Cardinality(Busy(held[c]) \ {c}))
  <2>1. pc[c] \in {"run", "job"}
    BY <1>2, EngineAssumption DEF PoolOK, Running, InPool
  <2>2. Sound(pool[held[c]], Cardinality(Busy(held[c])))
    BY <2>1, Holding
  <2>3. PICK n \in Nat, m \in Nat : n = Cardinality(Busy(held[c])) /\ m = Cardinality(Busy(held[c]) \ {c}) /\ m <= n
    BY BusyFinite, BusyLeaves
  <2> QED BY <1>1, <2>2, <2>3, SoundFewer
<1>3. RunReturns(c, pl)
  BY <1>1
<1>4. QED
  BY <1>1, <1>2, <1>3, Returning

\* take_or_spawn has found no usable worker and a fresh one does not start.
LEMMA ReturningEmpty ==
    ASSUME CallOK, PoolOK, NEW c \in Callers, SpawnFails(c)
    PROVE  PoolOK'
<1>0. pc[c] = "run"
  BY DEF SpawnFails, Permit
<1>1. PICK pl : pl = Park(c, <<>>)
  OBVIOUS
<1>2. /\ pl[held[c]] = [launch |-> pool[held[c]].launch, idle |-> <<>>]
      /\ \A p \in Pools : p # held[c] => pl[p] = pool[p]
  BY <1>0, <1>1, Parking
<1>3. Sound(pool[held[c]], Cardinality(Busy(held[c])))
  BY <1>0, Holding
<1>4. PICK l \in Launches : l = pool[held[c]].launch
  BY <1>3 DEF Sound
<1>5. Len(pool[held[c]].idle) \in Nat /\ WorkersOf[l.ask] \in Nat
  BY <1>3, EngineAssumption DEF Sound, Launches
<1>6. Cardinality(Busy(held[c]) \ {c}) <= WorkersOf[l.ask]
  <2>1. Len(pool[held[c]].idle) + Cardinality(Busy(held[c])) <= WorkersOf[l.ask]
    BY <1>3, <1>4 DEF Sound
  <2>2. /\ Cardinality(Busy(held[c])) \in Nat /\ Cardinality(Busy(held[c]) \ {c}) \in Nat
        /\ Cardinality(Busy(held[c]) \ {c}) <= Cardinality(Busy(held[c]))
    BY BusyFinite, BusyLeaves
  <2> QED BY <1>5, <2>1, <2>2
<1>7. Sound(pl[held[c]], Cardinality(Busy(held[c]) \ {c}))
  <2>1. PICK n \in Nat : n = Cardinality(Busy(held[c]) \ {c})
    BY BusyLeaves
  <2>2. n <= WorkersOf[l.ask]
    BY <1>6, <2>1
  <2>3. Sound([launch |-> l, idle |-> <<>>], n)
    BY <2>2, SoundEmpty
  <2> QED BY <1>2, <1>4, <2>1, <2>3
<1>8. RunReturns(c, pl)
  BY <1>1 DEF SpawnFails
<1>9. pl[held[c]].launch = pool[held[c]].launch
  BY <1>2
<1>10. QED
  BY <1>2, <1>7, <1>8, <1>9, Returning

\* run returns and its worker is parked.
LEMMA ReturningParked ==
    ASSUME CallOK, PoolOK, NEW c \in Callers, JobEnds(c, TRUE)
    PROVE  PoolOK'
<1>0. pc[c] = "job" /\ held[c] \in Pools
  BY Holding DEF JobEnds
<1>1. PICK pl : pl = Park(c, Append(Idle(c), runs[c]))
  OBVIOUS
<1>2. PICK r : r = pool[held[c]]
  OBVIOUS
<1>3. PICK b \in Builds : b = runs[c] /\ Protocol[b] = Protocol[r.launch.of]
  BY <1>0, <1>2 DEF PoolOK, Running, InPool
<1>4. PICK n \in Nat : n = Cardinality(Busy(held[c]) \ {c})
  BY BusyLeaves
<1>5. Cardinality(Busy(held[c])) = n + 1
  BY <1>0, <1>4, BusyLeaves DEF Busy
<1>6. Sound(r, n + 1)
  BY <1>0, <1>2, <1>5, Holding
<1>7. Sound([r EXCEPT !.idle = Append(r.idle, b)], n)
  BY <1>3, <1>6, SoundMore
<1>8. PICK u : u = Append(Idle(c), runs[c])
  OBVIOUS
<1>9. u = Append(r.idle, b) /\ pl = Park(c, u)
  BY <1>1, <1>2, <1>3, <1>8 DEF Idle
<1>10. /\ pl[held[c]] = [launch |-> r.launch, idle |-> u]
       /\ \A p \in Pools : p # held[c] => pl[p] = pool[p]
  <2>1. pc[c] \in {"run", "job"} /\ pl = Park(c, u)
    BY <1>0, <1>9
  <2>2. /\ pl[held[c]] = [launch |-> pool[held[c]].launch, idle |-> u]
        /\ \A p \in Pools : p # held[c] => pl[p] = pool[p]
    BY <2>1, Parking
  <2> QED BY <1>2, <2>2
<1>11. r = [launch |-> r.launch, idle |-> r.idle]
  BY <1>6 DEF Sound
<1>12. Sound(pl[held[c]], n)
  <2>1. [r EXCEPT !.idle = u] = [launch |-> r.launch, idle |-> u]
    BY <1>11
  <2> QED BY <1>7, <1>9, <1>10, <2>1
<1>13. pl[held[c]].launch = pool[held[c]].launch
  BY <1>2, <1>10
<1>14. RunReturns(c, pl)
  BY <1>1 DEF JobEnds
<1>15. QED
  BY <1>4, <1>10, <1>12, <1>13, <1>14, Returning

\* A call with a permit has found a worker, which runs the harness of b; the pool is
\* left with q.
LEMMA Starting ==
    ASSUME CallOK, PoolOK, NEW c \in Callers, NEW q, NEW b \in Builds,
           pc[c] = "run", pc' = [pc EXCEPT ![c] = "job"], runs' = [runs EXCEPT ![c] = b],
           pool' = Park(c, q), UNCHANGED <<live, ask, tool, got, held>>,
           Protocol[b] = Protocol[pool[held[c]].launch.of],
           Sound([launch |-> pool[held[c]].launch, idle |-> q], Cardinality(Busy(held[c])) + 1)
    PROVE  PoolOK'
<1>t. /\ live \in Pools \cup {None} /\ held \in [Callers -> Pools \cup {None}]
      /\ runs \in [Callers -> Builds \cup {None}] /\ pc \in [Callers -> PCs]
      /\ pool \in [Pools -> PoolType]
  BY DEF PoolOK, CallOK
<1>1. PICK pl : pl = Park(c, q)
  OBVIOUS
<1>2. /\ pl[held[c]] = [launch |-> pool[held[c]].launch, idle |-> q]
      /\ \A p \in Pools : p # held[c] => pl[p] = pool[p]
      /\ pl = [pool EXCEPT ![held[c]] = [launch |-> pool[held[c]].launch, idle |-> q]]
  BY <1>1, Parking
<1>3. held[c] \in Pools /\ Kept(held[c]) /\ Serves(pool[held[c]].launch, ask[c], tool[c], got[c])
  BY Holding
<1>4. pc'[c] = "job" /\ runs'[c] = b /\ \A d \in Callers \ {c} : pc'[d] = pc[d] /\ runs'[d] = runs[d]
  BY <1>t
<1>5. \A p \in Pools : Kept(p)' <=> Kept(p)
  BY DEF Kept
<1>6. pool' = [p \in Pools |-> IF Kept(p)' THEN pl[p] ELSE NoPool]
  <2>1. \A p \in Pools : ~Kept(p) => pl[p] = NoPool
    BY <1>2, <1>3 DEF PoolOK, Existing
  <2>2. pl = [p \in Pools |-> pl[p]]
    BY <1>2, <1>t
  <2> QED BY <1>1, <1>5, <2>1, <2>2
<1>7. ASSUME NEW p \in Pools, Kept(p)' PROVE Sound(pl[p], Cardinality(Busy(p)'))
  <2>1. CASE p = held[c]
    <3>1. Busy(p)' = Busy(p) \cup {c} /\ c \notin Busy(p)
      BY <1>4, <2>1 DEF Busy
    <3>2. Cardinality(Busy(p)') = Cardinality(Busy(p)) + 1
      BY <3>1, BusyFinite, FS_AddElement
    <3> QED BY <1>2, <2>1, <3>2
  <2>2. CASE p # held[c]
    <3>1. Busy(p)' = Busy(p)
      BY <1>4, <2>2 DEF Busy
    <3>2. Sound(pool[p], Cardinality(Busy(p)))
      BY <1>5, <1>7 DEF PoolOK, Existing
    <3> QED BY <1>2, <2>2, <3>1, <3>2
  <2> QED BY <2>1, <2>2
<1>8. pl[held[c]].launch = pool[held[c]].launch
  BY <1>2
<1>9. InPool(c)'
  <2>1. pool'[held'[c]].launch = pool[held[c]].launch
    BY <1>1, <1>8
  <2>2. held'[c] # None
    BY <1>3, EngineAssumption
  <2> QED BY <1>3, <1>4, <2>1, <2>2 DEF InPool
<1>10. runs' \in [Callers -> Builds \cup {None}]
  BY <1>t
<1>11. \A d \in Callers \ {c} : /\ pc'[d] = pc[d] /\ ask'[d] = ask[d] /\ tool'[d] = tool[d]
                                /\ got'[d] = got[d] /\ held'[d] = held[d] /\ runs'[d] = runs[d]
  BY <1>4
<1>12. \A d \in Callers \ {c} : held[d] \in Pools => pl[held[d]].launch = pool[held[d]].launch
  BY <1>2, <1>8
<1>13. live' \in Pools \cup {None} /\ held' \in [Callers -> Pools \cup {None}]
  BY <1>t
<1>14. QED
  BY <1>6, <1>7, <1>9, <1>10, <1>11, <1>12, <1>13, OnePool

\* take_or_spawn finds a parked worker.
LEMMA Taking ==
    ASSUME CallOK, PoolOK, NEW c \in Callers, pc[c] = "run", \E n \in 1..Len(Idle(c)) : Take(c, n)
    PROVE  PoolOK'
<1>1. PICK n \in 1..Len(Idle(c)) : Take(c, n)
  OBVIOUS
<1>2. PICK r : r = pool[held[c]]
  OBVIOUS
<1>3. PICK k \in Nat : k = Cardinality(Busy(held[c]))
  BY BusyFinite
<1>4. Sound(r, k)
  BY <1>2, <1>3, Holding
<1>5. r.idle \in Seq(Builds) /\ Len(r.idle) \in Nat /\ n \in 1..Len(r.idle) /\ Idle(c) = r.idle
  BY <1>1, <1>2, <1>4 DEF Sound, Idle
<1>6. PICK b \in Builds : b = r.idle[n]
  BY <1>5
<1>7. Protocol[b] = Protocol[pool[held[c]].launch.of]
  BY <1>2, <1>4, <1>5, <1>6 DEF Sound
<1>8. PICK q : q = SubSeq(r.idle, 1, n - 1)
  OBVIOUS
<1>9. Len(q) = n - 1 /\ k + 1 <= k + Len(r.idle) - Len(SubSeq(r.idle, 1, n - 1))
  BY <1>5, <1>8
<1>10. 1 \in 1..(Len(r.idle) + 1) /\ n - 1 \in 0..Len(r.idle) /\ k + 1 \in Nat
  BY <1>5
<1>11. Sound([r EXCEPT !.idle = SubSeq(r.idle, 1, n - 1)], k + 1)
  BY <1>4, <1>9, <1>10, SoundPart
<1>12. r = [launch |-> r.launch, idle |-> r.idle]
  BY <1>4 DEF Sound
<1>13. [r EXCEPT !.idle = q] = [launch |-> r.launch, idle |-> q]
  BY <1>12
<1>14. Sound([launch |-> pool[held[c]].launch, idle |-> q], Cardinality(Busy(held[c])) + 1)
  BY <1>2, <1>3, <1>8, <1>11, <1>13
<1>15. /\ pc' = [pc EXCEPT ![c] = "job"] /\ runs' = [runs EXCEPT ![c] = b]
       /\ pool' = Park(c, q) /\ UNCHANGED <<live, ask, tool, got, held>>
  BY <1>1, <1>5, <1>6, <1>8 DEF Take, Goto
<1>16. QED
  BY <1>7, <1>14, <1>15, Starting

\* take_or_spawn starts one, and its handshake is right.
LEMMA Spawning ==
    ASSUME CallOK, PoolOK, NEW c \in Callers, Spawn(c)
    PROVE  PoolOK'
<1>1. pc[c] = "run" /\ Cardinality(Busy(held[c])) < WorkersOf[pool[held[c]].launch.ask]
  BY DEF Spawn, Permit
<1>2. PICK l \in Launches : l = pool[held[c]].launch
  BY <1>1, Holding DEF Serves
<1>3. PICK b \in Builds : b = file
  BY DEF Spawn
<1>4. Protocol[b] = Protocol[pool[held[c]].launch.of]
  BY <1>3 DEF Spawn, Handshake
<1>5. PICK k \in Nat : k = Cardinality(Busy(held[c]))
  BY BusyFinite
<1>6. k + 1 \in Nat /\ k + 1 <= WorkersOf[l.ask]
  <2>1. WorkersOf[l.ask] \in Nat
    BY EngineAssumption DEF Launches
  <2>2. k < WorkersOf[l.ask]
    BY <1>1, <1>2, <1>5
  <2> QED BY <2>1, <2>2
<1>7. Sound([launch |-> l, idle |-> <<>>], k + 1)
  BY <1>6, SoundEmpty
<1>8. PICK q : q = <<>>
  OBVIOUS
<1>9. Sound([launch |-> pool[held[c]].launch, idle |-> q], Cardinality(Busy(held[c])) + 1)
  BY <1>2, <1>5, <1>7, <1>8
<1>10. /\ pc' = [pc EXCEPT ![c] = "job"] /\ runs' = [runs EXCEPT ![c] = b]
       /\ pool' = Park(c, q) /\ UNCHANGED <<live, ask, tool, got, held>>
  BY <1>3, <1>8 DEF Spawn, Goto
<1>11. QED
  BY <1>1, <1>4, <1>9, <1>10, Starting

\* A call comes into the pool p, which is the registry's from then on.
LEMMA Coming ==
    ASSUME CallOK, PoolOK, NEW c \in Callers, NEW p \in Pools, NEW pl,
           pc[c] = "write", pc' = [pc EXCEPT ![c] = "run"], live' = p,
           held' = [held EXCEPT ![c] = p], UNCHANGED <<ask, tool, got, runs>>,
           pool' = [q \in Pools |-> IF Kept(q)' THEN pl[q] ELSE NoPool],
           Serves(pl[p].launch, ask[c], tool[c], got[c]),
           Sound(pl[p], Cardinality(Busy(p))),
           \A q \in Pools : q # p => pl[q] = pool[q],
           \A d \in Callers : held[d] = p => pl[p] = pool[p]
    PROVE  PoolOK'
<1>t. /\ held \in [Callers -> Pools \cup {None}] /\ pc \in [Callers -> PCs] /\ None \notin Pools
      /\ runs \in [Callers -> Builds \cup {None}]
  BY EngineAssumption DEF PoolOK, CallOK
<1>0. held[c] = None
  BY DEF PoolOK, Running, InPool
<1>1. /\ pc'[c] = "run" /\ held'[c] = p
      /\ \A d \in Callers \ {c} : pc'[d] = pc[d] /\ held'[d] = held[d]
  BY <1>t
<1>2. \A q \in Pools : Busy(q)' = Busy(q)
  BY <1>0, <1>1 DEF Busy
<1>3. Kept(p)' /\ \A q \in Pools : q # p /\ Kept(q)' => Kept(q)
  BY <1>1 DEF Kept
<1>4. ASSUME NEW q \in Pools, Kept(q)' PROVE Sound(pl[q], Cardinality(Busy(q)'))
  <2>1. CASE q = p
    BY <1>2, <2>1
  <2>2. CASE q # p
    <3>1. Sound(pool[q], Cardinality(Busy(q)))
      BY <1>3, <1>4, <2>2 DEF PoolOK, Existing
    <3> QED BY <1>2, <2>2, <3>1
  <2> QED BY <2>1, <2>2
<1>5. InPool(c)'
  <2>1. pool'[p] = pl[p]
    BY <1>3
  <2> QED BY <1>1, <1>t, <2>1 DEF InPool
<1>6. \A d \in Callers \ {c} : held[d] \in Pools => pl[held[d]].launch = pool[held[d]].launch
  OBVIOUS
<1>7. held' \in [Callers -> Pools \cup {None}] /\ live' \in Pools \cup {None}
      /\ runs' \in [Callers -> Builds \cup {None}]
  BY <1>t
<1>8. \A d \in Callers \ {c} : /\ pc'[d] = pc[d] /\ ask'[d] = ask[d] /\ tool'[d] = tool[d]
                               /\ got'[d] = got[d] /\ held'[d] = held[d] /\ runs'[d] = runs[d]
  BY <1>1
<1>9. QED
  BY <1>4, <1>5, <1>6, <1>7, <1>8, OnePool

\* Pools::ensure.
LEMMA Ensuring ==
    ASSUME CallOK, PoolOK, NEW c \in Callers, Ensure(c)
    PROVE  PoolOK'
<1> DEFINE match == live # None /\ Fingerprint(pool[live].launch) = Fingerprint(LaunchOf(c))
           free == {q \in Pools : \A d \in Callers : held[d] # q}
<1>1. /\ pc[c] = "write" /\ pc' = [pc EXCEPT ![c] = "run"] /\ UNCHANGED <<ask, tool, got, runs>>
      /\ match \/ free # {}
  BY DEF Ensure, Goto
<1>2. PICK l \in Launches : l = LaunchOf(c) /\ l.ask = ask[c] /\ l.tool = tool[c] /\ l.of = got[c]
  BY <1>1 DEF CallOK, Asked, Call, LaunchOf, Launches
<1>3. CASE match
  <2>1. PICK p \in Pools : p = live
    BY <1>3 DEF PoolOK
  <2>2. PICK pl : pl = pool
    OBVIOUS
  <2>3. live' = p /\ held' = [held EXCEPT ![c] = p] /\ DropDead(pl)
    BY <1>3, <2>1, <2>2 DEF Ensure
  <2>4. Sound(pl[p], Cardinality(Busy(p)))
    BY <2>1, <2>2 DEF PoolOK, Existing, Kept
  <2>5. Serves(pl[p].launch, ask[c], tool[c], got[c])
    <3>1. pl[p].launch \in Launches
      BY <2>4 DEF Sound
    <3>2. Fingerprint(pl[p].launch) = Fingerprint(l)
      BY <1>2, <1>3, <2>1, <2>2
    <3> QED BY <1>2, <3>1, <3>2 DEF Serves, Fingerprint
  <2>6. pool' = [q \in Pools |-> IF Kept(q)' THEN pl[q] ELSE NoPool]
    BY <2>3 DEF DropDead
  <2> QED BY <1>1, <2>2, <2>3, <2>4, <2>5, <2>6, Coming
<1>4. CASE ~match
  <2>1. PICK p \in free : p = CHOOSE q \in free : TRUE
    BY <1>1, <1>4
  <2>2. p \in Pools /\ \A d \in Callers : held[d] # p
    BY <2>1
  <2>3. PICK r : r = [launch |-> l, idle |-> <<>>]
    OBVIOUS
  <2>4. PICK pl : pl = [pool EXCEPT ![p] = r]
    OBVIOUS
  <2>5. pl[p] = r /\ \A q \in Pools : q # p => pl[q] = pool[q]
    BY <2>2, <2>4 DEF PoolOK
  <2>6. live' = p /\ held' = [held EXCEPT ![c] = p] /\ DropDead(pl)
    <3>1. pl = [pool EXCEPT ![p] = [launch |-> LaunchOf(c), idle |-> <<>>]]
      BY <1>2, <2>3, <2>4
    <3> QED BY <1>4, <2>1, <3>1 DEF Ensure
  <2>7. Busy(p) = {}
    BY <2>2 DEF Busy
  <2>8. Cardinality(Busy(p)) = 0
    BY <2>7, FS_EmptySet
  <2>9. WorkersOf[l.ask] \in Nat
    BY EngineAssumption DEF Launches
  <2>10. 0 \in Nat /\ 0 <= WorkersOf[l.ask]
    BY <2>9
  <2>11. Sound(r, 0)
    BY <2>3, <2>10, SoundEmpty
  <2>12. Sound(pl[p], Cardinality(Busy(p)))
    BY <2>5, <2>8, <2>11
  <2>13. Serves(pl[p].launch, ask[c], tool[c], got[c])
    BY <1>2, <2>3, <2>5 DEF Serves
  <2>14. pool' = [q \in Pools |-> IF Kept(q)' THEN pl[q] ELSE NoPool]
    BY <2>6 DEF DropDead
  <2> QED BY <1>1, <2>2, <2>5, <2>6, <2>12, <2>13, <2>14, Coming
<1>5. QED
  BY <1>3, <1>4

\* The reaper of a pool only takes from what it parks.
LEMMA Sweeping ==
    ASSUME PoolOK, NEW p \in Pools, NEW n \in 1..Len(pool[p].idle), Sweep(p, n)
    PROVE  PoolOK'
<1>t. pool \in [Pools -> PoolType]
  BY DEF PoolOK
<1>1. PICK r : r = pool[p]
  OBVIOUS
<1>2. PICK k \in Nat : k = Cardinality(Busy(p))
  BY BusyFinite
<1>3. Kept(p) /\ Sound(r, k)
  BY <1>1, <1>2 DEF Sweep, PoolOK, Existing
<1>4. r.idle \in Seq(Builds) /\ Len(r.idle) \in Nat /\ n \in 1..Len(r.idle)
  BY <1>1, <1>3 DEF Sound
<1>5. /\ n + 1 \in 1..(Len(r.idle) + 1) /\ Len(r.idle) \in 0..Len(r.idle)
      /\ k <= k + Len(r.idle) - Len(SubSeq(r.idle, n + 1, Len(r.idle)))
  BY <1>4
<1>6. Sound([r EXCEPT !.idle = SubSeq(r.idle, n + 1, Len(r.idle))], k)
  BY <1>3, <1>5, SoundPart
<1>7. PICK s : s = [r EXCEPT !.idle = SubSeq(r.idle, n + 1, Len(r.idle))]
  OBVIOUS
<1>8. Sound(s, k)
  BY <1>6, <1>7
<1>9. pool' = [pool EXCEPT ![p] = s] /\ UNCHANGED <<live, pc, ask, tool, got, held, runs>>
  BY <1>1, <1>7 DEF Sweep, callVars
<1>10. s.launch = r.launch
  <2>1. r = [launch |-> r.launch, idle |-> r.idle]
    BY <1>3 DEF Sound
  <2> QED BY <1>7, <2>1
<1>11. pool'[p] = s /\ \A q \in Pools : q # p => pool'[q] = pool[q]
  BY <1>9, <1>t
<1>12. \A q \in Pools : (Kept(q)' <=> Kept(q)) /\ Busy(q)' = Busy(q)
  BY <1>9 DEF Kept, Busy
<1>13. Existing'
  <2> SUFFICES ASSUME NEW q \in Pools
               PROVE  IF Kept(q)' THEN Sound(pool'[q], Cardinality(Busy(q)')) ELSE pool'[q] = NoPool
    BY DEF Existing
  <2>1. CASE q = p
    BY <1>2, <1>3, <1>8, <1>11, <1>12, <2>1
  <2>2. CASE q # p
    BY <1>11, <1>12, <2>2 DEF PoolOK, Existing
  <2> QED BY <2>1, <2>2
<1>14. \A q \in Pools : pool'[q].launch = pool[q].launch
  BY <1>1, <1>10, <1>11
<1>15. Running'
  <2> SUFFICES ASSUME NEW d \in Callers PROVE InPool(d)'
    BY DEF Running
  <2>1. InPool(d) /\ held[d] \in Pools \cup {None}
    BY DEF PoolOK, Running
  <2>2. CASE held[d] = None
    BY <1>9, <2>1, <2>2 DEF InPool
  <2>3. CASE held[d] \in Pools
    BY <1>9, <1>14, <2>1, <2>3 DEF InPool
  <2> QED BY <2>1, <2>2, <2>3
<1>16. pool' \in [Pools -> PoolType]
  <2>1. s \in PoolType
    BY <1>8, PoolTypes
  <2> QED BY <1>9, <1>t, <2>1
<1>17. QED
  BY <1>9, <1>13, <1>15, <1>16 DEF PoolOK

LEMMA PoolStep == CallOK /\ PoolOK /\ [Next]_vars => PoolOK'
<1> SUFFICES ASSUME CallOK, PoolOK, [Next]_vars PROVE PoolOK'
  OBVIOUS
<1>t. /\ pc \in [Callers -> PCs] /\ ask \in [Callers -> Asks \cup {None}]
      /\ tool \in [Callers -> Tools \cup {None}] /\ got \in [Callers -> Builds \cup {None}]
  BY DEF CallOK
\* A call comes from one place outside the pools to another.
<1>1. ASSUME NEW c \in Callers, NEW p, UNCHANGED <<live, pool, held, runs>>,
             pc[c] \notin {"run", "job"}, p \notin {"run", "job"}, pc' = [pc EXCEPT ![c] = p],
             \A d \in Callers \ {c} : ask'[d] = ask[d] /\ tool'[d] = tool[d] /\ got'[d] = got[d]
      PROVE  PoolOK'
  <2>1. pc'[c] = p /\ \A d \in Callers \ {c} : pc'[d] = pc[d]
    BY <1>1, <1>t
  <2> QED BY <1>1, <2>1, PoolsUntouched
<1>2. ASSUME UNCHANGED <<live, pool, held, runs, pc, ask, tool, got>> PROVE PoolOK'
  BY <1>2, PoolsUntouched
<1> USE DEF Goto
<1>4. ASSUME NEW c \in Callers, NEW a \in Asks, Execute(c, a) PROVE PoolOK'
  <2>1. PICK p \in {"describe", "harness"} : pc' = [pc EXCEPT ![c] = p]
    BY <1>4 DEF Execute
  <2>2. /\ \A d \in Callers \ {c} : ask'[d] = ask[d] /\ tool'[d] = tool[d] /\ got'[d] = got[d]
        /\ UNCHANGED <<live, pool, held, runs>> /\ pc[c] = "idle"
    BY <1>4, <1>t DEF Execute
  <2> QED BY <1>1, <2>1, <2>2
<1>5. ASSUME NEW c \in Callers, Return(c), pc[c] \notin {"run", "job"}, UNCHANGED <<live, pool, held, runs>>
      PROVE  PoolOK'
  <2>1. \A d \in Callers \ {c} : ask'[d] = ask[d] /\ tool'[d] = tool[d] /\ got'[d] = got[d]
    BY <1>5, <1>t DEF Return
  <2> QED BY <1>1, <1>5, <2>1 DEF Return
<1>6. ASSUME NEW c \in Callers, Describe(c) \/ Resolve(c) \/ Plan(c) \/ Harness(c) \/ PrepareEnvironment(c)
      PROVE  PoolOK'
  <2>1. UNCHANGED <<live, pool, held, runs>> /\ pc[c] \notin {"run", "job"}
    BY <1>6 DEF Describe, Resolve, Plan, Harness, PrepareEnvironment
  <2>2. CASE Return(c)
    BY <1>5, <2>1, <2>2
  <2>3. CASE ~Return(c)
    <3>1. PICK p \in {"resolve", "harness", "write", "plan"} : pc' = [pc EXCEPT ![c] = p]
      BY <1>6, <2>3 DEF Describe, Resolve, Plan, Harness, PrepareEnvironment, Unavailable
    <3>2. /\ ask' = ask
          /\ tool' = tool \/ \E t \in Tools : tool' = [tool EXCEPT ![c] = t]
          /\ got' = got \/ got' = [got EXCEPT ![c] = provider]
      BY <1>6, <2>3 DEF Describe, Resolve, Plan, Harness, PrepareEnvironment, Unavailable
    <3>3. \A d \in Callers \ {c} : ask'[d] = ask[d] /\ tool'[d] = tool[d] /\ got'[d] = got[d]
      BY <1>t, <3>2
    <3> QED BY <1>1, <2>1, <3>1, <3>3
  <2> QED BY <2>2, <2>3
<1>7. ASSUME NEW c \in Callers, Writing(c) PROVE PoolOK'
  <2>1. CASE Truncate(c) \/ WriteBytes(c)
    BY <1>2, <2>1 DEF Truncate, WriteBytes, callVars
  <2>2. CASE WriteFails(c)
    BY <1>2, <1>5, <2>2 DEF WriteFails
  <2> QED BY <1>7, <2>1, <2>2 DEF Writing
<1>8. ASSUME NEW c \in Callers, NEW park \in BOOLEAN, JobEnds(c, park) PROVE PoolOK'
  <2>1. CASE park = TRUE
    BY <1>8, <2>1, ReturningParked
  <2>2. CASE park = FALSE
    BY <1>8, <2>2, ReturningBare DEF JobEnds
  <2> QED BY <2>1, <2>2
<1>9. ASSUME NEW c \in Callers, Shed(c) \/ Cancel(c) PROVE PoolOK'
  BY <1>9, ReturningBare DEF Shed, Cancel
<1>10. ASSUME NEW c \in Callers, Entering(c) PROVE PoolOK'
  BY <1>10, Taking, Spawning, ReturningEmpty DEF Entering
<1>11. ASSUME NEW b \in Builds, Reload(b) PROVE PoolOK'
  BY <1>2, <1>11 DEF Reload, callVars
<1>12. CASE UNCHANGED vars
  BY <1>2, <1>12 DEF vars, callVars
<1>13. ASSUME NEW p \in Pools, NEW n \in 1..Len(pool[p].idle), Sweep(p, n) PROVE PoolOK'
  BY <1>13, Sweeping
<1>14. QED
  BY <1>4, <1>6, <1>7, <1>8, <1>9, <1>10, <1>11, <1>12, <1>13, Ensuring DEF Next, Asking, Leaving

-----------------------------------------------------------------------------
(* The theorems.                                                            *)

LEMMA EngineInitial == Init => EngineInv
<1> SUFFICES ASSUME Init PROVE EngineInv
  OBVIOUS
<1> USE EngineAssumption DEF Init
<1>1. CallOK
  <2>1. NoWrite \in [left : {"nothing", "open", "bytes"}, of : Builds \cup {None}]
    BY DEF NoWrite
  <2>2. Asked
    BY DEF Asked, Call
  <2> QED BY <2>1, <2>2 DEF CallOK, PCs
<1>2. PoolOK
  <2>1. \A p \in Pools : ~Kept(p) /\ pool[p] = NoPool
    BY DEF Kept
  <2>2. Running
    BY DEF Running, InPool
  <2>3. Existing
    BY <2>1 DEF Existing
  <2> QED BY <2>2, <2>3, PoolTypes DEF PoolOK
<1>3. QED
  BY <1>1, <1>2, InvSplit

LEMMA EngineStep == EngineInv /\ [Next]_vars => EngineInv'
<1> SUFFICES ASSUME EngineInv, [Next]_vars PROVE EngineInv'
  OBVIOUS
<1>1. CallOK /\ PoolOK
  BY InvSplit
<1>2. CallOK' /\ PoolOK'
  BY <1>1, CallStep, PoolStep
<1>3. (EngineInv <=> CallOK /\ PoolOK)'
  BY InvSplit, PTL
<1>4. QED
  BY <1>2, <1>3

\* Every state of the engine is well typed, and the registry's pool exists.
THEOREM EngineTypeCorrect == Spec => []TypeOK
<1>1. EngineInv => TypeOK
  BY DEF EngineInv
<1>2. QED
  BY <1>1, EngineInitial, EngineStep, PTL DEF Spec

\* Whatever replaces the pool of a language between Pools::ensure and the job, and
\* whatever resolutions of one key answer, the job runs in a pool of the settings it
\* asked for, the toolchain it resolved and its own harness's command.
THEOREM EngineRunsAsAsked == Spec => []RunsAsAsked
<1>1. EngineInv => RunsAsAsked
  BY DEF EngineInv, Running, InPool, Serves, RunsAsAsked
<1>2. QED
  BY <1>1, EngineInitial, EngineStep, PTL DEF Spec

\* Every pool keeps to the max_workers of its own settings, and one that neither the
\* registry nor a call keeps has no worker left, however many pools the language
\* has gone through and however its ceiling was retuned.
THEOREM EngineWorkerCeiling == Spec => []WorkerCeiling
<1>1. EngineInv => WorkerCeiling
  <2> SUFFICES ASSUME EngineInv, NEW p \in Pools
               PROVE  Workers(p) <= IF Kept(p) THEN WorkersOf[pool[p].launch.ask] ELSE 0
    BY DEF WorkerCeiling
  <2>1. CASE Kept(p)
    BY <2>1 DEF EngineInv, Existing, Sound, Workers
  <2>2. CASE ~Kept(p)
    <3>1. pool[p] = NoPool
      BY <2>2 DEF EngineInv, Existing
    <3>2. Busy(p) = {}
      BY <2>2 DEF Busy, Kept
    <3>3. Cardinality(Busy(p)) = 0
      BY <3>2, FS_EmptySet
    <3> QED BY <2>2, <3>1, <3>3 DEF Workers, NoPool
  <2> QED BY <2>1, <2>2
<1>2. QED
  BY <1>1, EngineInitial, EngineStep, PTL DEF Spec

\* verify_handshake: whatever build is loaded, checked, remembered or on disk when a
\* worker starts, and through however many jobs it is parked, the job that it comes to
\* has a harness of the protocol it speaks.
THEOREM EngineSpeaksProtocol == Spec => []SpeaksProtocol
<1>1. EngineInv => SpeaksProtocol
  BY DEF EngineInv, Running, InPool, Serves, SpeaksProtocol
<1>2. QED
  BY <1>1, EngineInitial, EngineStep, PTL DEF Spec
=============================================================================
