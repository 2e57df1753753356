--------------------------- MODULE InstallProofs ---------------------------
(* Theorems about Install, for any number of calls, processes, crashes and  *)
(* dropped futures.                                                         *)
EXTENDS Install, TLAPS

-----------------------------------------------------------------------------
(* The invariant.                                                           *)

\* From Acquire on a call holds the lock; up to the second rename the install
\* that it replaces is none that could be used, and then its own tree is in place.
Working == {"fetch", "extract", "aside", "rename"}
Holding == Working \cup {"recheck", "sweep", "tidy", "abort", "confirm"}

\* What is unpacked grows in a staging directory, which no scan looks into, and
\* is complete, though of no more use than its archive, before it is promoted.
Staging ==
    /\ \A x \in {"dest"} \cup Procs : disk[x] # "partial"
    /\ \A c \in Calls : pc[c] \in {"aside", "rename"} => disk[c] \in {"broken", "whole"}
    /\ \A c \in Calls : seen[c] \subseteq {"dest"} \cup Procs

Holders ==
    \A c \in Calls :
      /\ pc[c] \in Holding => lock = c
      /\ pc[c] \in Working => disk["dest"] # "whole"
      /\ pc[c] = "sweep" => disk["dest"] # None

\* What is moved aside could not be used, so the only install that is remembered
\* is the one in place.
Asides == \A p \in Procs : disk[p] # "whole"
Memos == \A p \in Procs : memo[p] \in Paths => memo[p] = "dest" /\ disk["dest"] = "whole"

Serialised ==
    cancels = 0 => Holders /\ Asides /\ Memos /\ NeverNothing

InstallInv == TypeOK /\ Staging /\ Serialised

-----------------------------------------------------------------------------
(* Control: where calls are, what they return and what they remember.       *)

PCs == {"new", "returned"} \cup Awaiting \cup Threaded
Outcomes == Paths \cup {"pending", "system", "NothingProvisioned", "Error", "Dropped"}

ControlOK ==
    /\ archive \in {None, "partial", "broken", "whole"}
    /\ lock \in Calls \cup {None}
    /\ memo \in [Procs -> Paths \cup {"system", None}]
    /\ pc \in [Calls -> PCs]
    /\ seen \in [Calls -> SUBSET ({"dest"} \cup Procs)]
    /\ result \in [Calls -> Outcomes]
    /\ crashes \in 0..MaxCrashes /\ cancels \in 0..MaxCancels

LEMMA Going ==
    ASSUME ControlOK, NEW c \in Calls, NEW l \in PCs, Goto(c, l)
    PROVE  pc' \in [Calls -> PCs] /\ result' \in [Calls -> Outcomes]
BY DEF ControlOK, Goto

LEMMA Returning ==
    ASSUME ControlOK, NEW c \in Calls, NEW r \in Outcomes, Return(c, r)
    PROVE  pc' \in [Calls -> PCs] /\ result' \in [Calls -> Outcomes]
<1>1. "returned" \in PCs
  BY DEF PCs
<1>2. QED
  BY <1>1 DEF ControlOK, Return

LEMMA Remembering ==
    ASSUME ControlOK, NEW c \in Calls, NEW x \in Paths \cup {"system"}, Remember(c, x)
    PROVE  /\ pc' \in [Calls -> PCs] /\ result' \in [Calls -> Outcomes]
           /\ memo' \in [Procs -> Paths \cup {"system", None}]
<1>1. x \in Outcomes /\ HomeOf(c) \in Procs
  BY InstallAssumption DEF Outcomes
<1>2. QED
  BY <1>1, Returning DEF ControlOK, Remember

LEMMA Unlocking ==
    ASSUME ControlOK, NEW c \in Calls, Unlock(c)
    PROVE  lock' \in Calls \cup {None}
BY DEF ControlOK, Unlock

LEMMA ControlStep == ControlOK /\ [Next]_vars => ControlOK'
<1> SUFFICES ASSUME ControlOK, [Next]_vars PROVE ControlOK'
  OBVIOUS
<1>0. /\ {"new", "returned", "scan", "probe", "acquire", "recheck", "fetch", "tidy", "abort",
          "confirm", "extract", "aside", "rename", "sweep"} \subseteq PCs
      /\ {"system", "NothingProvisioned", "Error", "Dropped"} \subseteq Outcomes
      /\ Paths \subseteq Outcomes /\ {"dest"} \cup Procs \subseteq Paths /\ "dest" \in Paths
  BY DEF PCs, Outcomes, Awaiting, Threaded, Paths
<1>1. CASE \E c \in Calls : Resolve(c)
  <2> PICK c \in Calls : Resolve(c)
    BY <1>1
  <2>1. pc' \in [Calls -> PCs] /\ result' \in [Calls -> Outcomes]
    <3>1. HomeOf(c) \in Procs
      BY InstallAssumption
    <3>2. memo[HomeOf(c)] # None => memo[HomeOf(c)] \in Outcomes
      BY <1>0, <3>1 DEF ControlOK
    <3> QED BY <1>0, <3>2, Going, Returning DEF Resolve
  <2> QED BY <2>1 DEF ControlOK, Resolve, boundVars
<1>2. CASE \E c \in Calls : FindSystem(c)
  BY <1>2, Remembering DEF ControlOK, FindSystem, boundVars
<1>3. CASE \E c \in Calls : ListRoot(c)
  <2> PICK c \in Calls : ListRoot(c)
    BY <1>3
  <2>1. Candidates \subseteq {"dest"} \cup Procs
    BY DEF Candidates, Paths
  <2>2. seen' \in [Calls -> SUBSET ({"dest"} \cup Procs)]
    BY <2>1 DEF ControlOK, ListRoot
  <2> QED BY <1>0, <2>2, Going DEF ControlOK, ListRoot, boundVars
<1>4. CASE \E c \in Calls : Probe(c)
  <2> PICK c \in Calls : Probe(c)
    BY <1>4
  <2>1. seen' \in [Calls -> SUBSET ({"dest"} \cup Procs)]
    BY DEF ControlOK, Probe
  <2>2. /\ pc' \in [Calls -> PCs] /\ result' \in [Calls -> Outcomes]
        /\ memo' \in [Procs -> Paths \cup {"system", None}]
    <3>1. CASE UNCHANGED <<memo, pc, result>>
      BY <3>1 DEF ControlOK
    <3>2. CASE UNCHANGED memo /\ (Goto(c, "acquire") \/ Return(c, "NothingProvisioned"))
      BY <1>0, <3>2, Going, Returning DEF ControlOK
    <3>3. CASE \E x \in seen[c] : Remember(c, x)
      BY <1>0, <3>3, Remembering DEF ControlOK
    <3> QED BY <3>1, <3>2, <3>3 DEF Probe
  <2> QED BY <2>1, <2>2 DEF ControlOK, Probe, boundVars
<1>5. CASE \E c \in Calls : Acquire(c)
  BY <1>0, <1>5, Going DEF ControlOK, Acquire, boundVars
<1>6. CASE \E c \in Calls : Recheck(c)
  <2> PICK c \in Calls : Recheck(c)
    BY <1>6
  <2>1. lock' \in Calls \cup {None} /\ archive' \in {None, "partial", "broken", "whole"}
    BY Unlocking DEF ControlOK, Recheck
  <2>2. /\ pc' \in [Calls -> PCs] /\ result' \in [Calls -> Outcomes]
        /\ memo' \in [Procs -> Paths \cup {"system", None}]
    <3>1. CASE Remember(c, "dest")
      BY <1>0, <3>1, Remembering
    <3>2. CASE UNCHANGED memo /\ (Goto(c, "fetch") \/ Return(c, "Error"))
      BY <1>0, <3>2, Going, Returning DEF ControlOK
    <3> QED BY <3>1, <3>2 DEF Recheck
  <2> QED BY <2>1, <2>2 DEF ControlOK, Recheck, boundVars
<1>7. CASE \E c \in Calls : Fetched(c) \/ Tidy(c)
  <2> PICK c \in Calls : Fetched(c) \/ Tidy(c)
    BY <1>7
  <2>1. lock' \in Calls \cup {None} /\ archive' \in {None, "partial", "broken", "whole"}
    BY Unlocking DEF ControlOK, Fetched, Tidy, RemoveArchive
  <2>2. pc' \in [Calls -> PCs] /\ result' \in [Calls -> Outcomes]
    <3>1. Goto(c, "extract") \/ Goto(c, "confirm") \/ Return(c, "Error")
      BY DEF Fetched, Tidy
    <3> QED BY <1>0, <3>1, Going, Returning
  <2> QED BY <2>1, <2>2 DEF ControlOK, Fetched, Tidy, boundVars
<1>8. CASE \E c \in Calls : Extract(c)
  <2> PICK c \in Calls : Extract(c)
    BY <1>8
  <2>1. lock' \in Calls \cup {None} /\ archive' \in {None, "partial", "broken", "whole"}
    BY Unlocking DEF ControlOK, Extract, RemoveArchive
  <2>2. pc' \in [Calls -> PCs] /\ result' \in [Calls -> Outcomes]
    <3>1. UNCHANGED <<pc, result>> \/ Goto(c, "aside") \/ Return(c, "Error") \/ Return(c, "Dropped")
      BY DEF Extract
    <3> QED BY <1>0, <3>1, Going, Returning DEF ControlOK
  <2> QED BY <2>1, <2>2 DEF ControlOK, Extract, boundVars
<1>9. CASE \E c \in Calls : MoveAside(c) \/ Rename(c) \/ RenameFails(c) \/ Sweep(c)
  <2> PICK c \in Calls : MoveAside(c) \/ Rename(c) \/ RenameFails(c) \/ Sweep(c)
    BY <1>9
  <2>1. pc' \in [Calls -> PCs] /\ result' \in [Calls -> Outcomes]
    <3>1. \/ Goto(c, "rename") \/ Goto(c, "sweep") \/ Goto(c, "abort") \/ Goto(c, "tidy")
          \/ Return(c, "Dropped")
      BY DEF MoveAside, Rename, RenameFails, Sweep, Promoted
    <3> QED BY <1>0, <3>1, Going, Returning
  <2> QED BY <2>1 DEF ControlOK, MoveAside, Rename, RenameFails, Sweep, boundVars
<1>10. CASE \E c \in Calls : Confirm(c)
  <2> PICK c \in Calls : Confirm(c)
    BY <1>10
  <2>1. /\ pc' \in [Calls -> PCs] /\ result' \in [Calls -> Outcomes]
        /\ memo' \in [Procs -> Paths \cup {"system", None}]
    BY <1>0, Returning, Remembering DEF ControlOK, Confirm
  <2> QED BY <2>1, Unlocking DEF ControlOK, Confirm, boundVars
<1>11. CASE \E c \in Calls : Cancel(c)
  <2> PICK c \in Calls : Cancel(c)
    BY <1>11
  <2>1. pc' \in [Calls -> PCs] /\ result' \in [Calls -> Outcomes]
    BY <1>0, Returning DEF ControlOK, Cancel
  <2>2. cancels' \in 0..MaxCancels
    BY InstallAssumption DEF ControlOK, Cancel
  <2> QED BY <2>1, <2>2, Unlocking DEF ControlOK, Cancel
<1>12. CASE \E p \in Procs : Crash(p)
  <2> PICK p \in Procs : Crash(p)
    BY <1>12
  <2>1. pc' \in [Calls -> PCs] /\ result' \in [Calls -> Outcomes]
    BY <1>0 DEF ControlOK, Crash
  <2>2. crashes' \in 0..MaxCrashes
    BY InstallAssumption DEF ControlOK, Crash
  <2>3. lock' \in Calls \cup {None} /\ memo' \in [Procs -> Paths \cup {"system", None}]
    BY DEF ControlOK, Crash
  <2> QED BY <2>1, <2>2, <2>3 DEF ControlOK, Crash
<1>13. CASE UNCHANGED vars
  BY <1>13 DEF ControlOK, vars, callVars, boundVars
<1>14. QED
  BY <1>1, <1>2, <1>3, <1>4, <1>5, <1>6, <1>7, <1>8, <1>9, <1>10, <1>11, <1>12, <1>13
     DEF Next, Installing

-----------------------------------------------------------------------------
(* The disk: what is half made stays in staging directories.                *)

FlagsOK == displaced \in [Calls -> BOOLEAN] /\ gone \in [Calls -> BOOLEAN]

DiskOK ==
    /\ disk \in [Paths -> Contents]
    /\ \A x \in {"dest"} \cup Procs : disk[x] # "partial"
    /\ \A c \in Calls : pc[c] \in {"aside", "rename"} => disk[c] \in {"broken", "whole"}

LEMMA FlagsStep == FlagsOK /\ [Next]_vars => FlagsOK'
<1> SUFFICES ASSUME FlagsOK, [Next]_vars PROVE FlagsOK'
  OBVIOUS
<1>1. CASE UNCHANGED <<displaced, gone>>
  BY <1>1 DEF FlagsOK
<1>2. ASSUME NEW c \in Calls, displaced' = [displaced EXCEPT ![c] = TRUE] PROVE displaced' \in [Calls -> BOOLEAN]
  BY <1>2 DEF FlagsOK
<1>3. ASSUME NEW c \in Calls, gone' = [gone EXCEPT ![c] = TRUE] PROVE gone' \in [Calls -> BOOLEAN]
  BY <1>3 DEF FlagsOK
<1>4. CASE \E c \in Calls : MoveAside(c)
  BY <1>2, <1>4 DEF FlagsOK, MoveAside
<1>5. CASE \E c \in Calls : Cancel(c)
  BY <1>3, <1>5 DEF FlagsOK, Cancel
<1>6. QED
  BY <1>1, <1>4, <1>5
     DEF Next, Installing, Resolve, FindSystem, ListRoot, Probe, Acquire, Recheck, Fetched,
         Extract, Rename, RenameFails, Sweep, Tidy, Confirm, Crash, vars, callVars

LEMMA DiskStep == ControlOK /\ DiskOK /\ [Next]_vars => DiskOK'
<1> SUFFICES ASSUME ControlOK, DiskOK, [Next]_vars PROVE DiskOK'
  OBVIOUS
<1>0. /\ disk \in [Paths -> Contents] /\ pc \in [Calls -> PCs]
      /\ None \in Contents /\ "partial" \in Contents /\ "broken" \in Contents /\ "whole" \in Contents
      /\ "dest" \in Paths /\ Procs \subseteq Paths /\ Calls \subseteq Paths
      /\ Calls \cap Procs = {} /\ "dest" \notin Calls /\ "dest" \notin Procs
      /\ None # "partial"
      /\ \A c \in Calls : HomeOf(c) \in Procs
  BY InstallAssumption DEF ControlOK, DiskOK, Contents, Paths
<1>1. ASSUME UNCHANGED disk,
             \A c \in Calls : pc'[c] \in {"aside", "rename"} => pc[c] \in {"aside", "rename"}
      PROVE  DiskOK'
  BY <1>1 DEF DiskOK
<1>2. ASSUME NEW c \in Calls, UNCHANGED disk, NEW l, pc' = [pc EXCEPT ![c] = l], l \notin {"aside", "rename"}
      PROVE  DiskOK'
  BY <1>0, <1>1, <1>2
<1>3. ASSUME NEW c \in Calls, UNCHANGED disk,
             NEW l, l \notin {"aside", "rename"}, NEW r,
             Goto(c, l) \/ Return(c, r) \/ UNCHANGED pc
      PROVE  DiskOK'
  BY <1>0, <1>1, <1>2, <1>3 DEF Goto, Return
<1>4. CASE \E c \in Calls : Resolve(c) \/ FindSystem(c) \/ ListRoot(c) \/ Probe(c)
  BY <1>3, <1>4 DEF Resolve, FindSystem, ListRoot, Probe, Remember
<1>5. CASE \E c \in Calls : Acquire(c) \/ Recheck(c) \/ Fetched(c) \/ Confirm(c) \/ Cancel(c)
  BY <1>3, <1>5 DEF Acquire, Recheck, Fetched, Confirm, Cancel, Remember
<1>6. CASE \E c \in Calls : Extract(c)
  <2> PICK c \in Calls : Extract(c)
    BY <1>6
  <2>1. PICK v \in Contents : disk' = [disk EXCEPT ![c] = v] /\ (pc'[c] = "aside" => v \in {"broken", "whole"})
    BY <1>0 DEF Extract, Goto, Return
  <2>2. pc'[c] # "rename" /\ \A d \in Calls \ {c} : pc'[d] = pc[d]
    BY <1>0 DEF Extract, Goto, Return
  <2> QED BY <1>0, <2>1, <2>2 DEF DiskOK
<1>7. CASE \E c \in Calls : MoveAside(c)
  <2> PICK c \in Calls : MoveAside(c)
    BY <1>7
  <2>1. \A d \in Calls : disk'[d] = disk[d]
    BY <1>0 DEF MoveAside
  <2>2. disk' \in [Paths -> Contents] /\ \A x \in {"dest"} \cup Procs : disk'[x] # "partial"
    BY <1>0 DEF MoveAside, DiskOK
  <2>3. pc[c] = "aside" /\ \A d \in Calls \ {c} : pc'[d] = pc[d]
    BY <1>0 DEF MoveAside, Promoted, Goto, Return
  <2> QED BY <1>0, <2>1, <2>2, <2>3 DEF DiskOK
<1>8. CASE \E c \in Calls : Rename(c)
  <2> PICK c \in Calls : Rename(c)
    BY <1>8
  <2>1. disk[c] \in {"broken", "whole"}
    BY DEF Rename, DiskOK
  <2>2. /\ disk' \in [Paths -> Contents] /\ \A x \in {"dest"} \cup Procs : disk'[x] # "partial"
        /\ \A d \in Calls \ {c} : disk'[d] = disk[d]
    BY <1>0, <2>1 DEF Rename, DiskOK
  <2>3. pc'[c] = "sweep" /\ \A d \in Calls \ {c} : pc'[d] = pc[d]
    BY <1>0 DEF Rename, Goto
  <2> QED BY <1>0, <2>2, <2>3 DEF DiskOK
<1>9. CASE \E c \in Calls : RenameFails(c) \/ Sweep(c)
  <2> PICK c \in Calls : RenameFails(c) \/ Sweep(c)
    BY <1>9
  <2>1. \A d \in Calls : disk'[d] = disk[d]
    BY <1>0 DEF RenameFails, Sweep
  <2>2. disk' \in [Paths -> Contents] /\ \A x \in {"dest"} \cup Procs : disk'[x] # "partial"
    BY <1>0 DEF RenameFails, Sweep, DiskOK
  <2>3. pc'[c] \in {"abort", "tidy", "returned"} /\ \A d \in Calls \ {c} : pc'[d] = pc[d]
    BY <1>0 DEF RenameFails, Sweep, Promoted, Goto, Return
  <2> QED BY <1>0, <2>1, <2>2, <2>3 DEF DiskOK
<1>10. CASE \E c \in Calls : Tidy(c)
  <2> PICK c \in Calls : Tidy(c)
    BY <1>10
  <2>1. disk' = [disk EXCEPT ![c] = None]
    BY DEF Tidy
  <2>2. pc'[c] \in {"confirm", "returned"} /\ \A d \in Calls \ {c} : pc'[d] = pc[d]
    BY <1>0 DEF Tidy, Goto, Return
  <2> QED BY <1>0, <2>1, <2>2 DEF DiskOK
<1>11. CASE \E p \in Procs : Crash(p)
  BY <1>1, <1>11 DEF Crash
<1>12. CASE UNCHANGED vars
  BY <1>1, <1>12 DEF vars, callVars
<1>13. QED
  BY <1>4, <1>5, <1>6, <1>7, <1>8, <1>9, <1>10, <1>11, <1>12 DEF Next, Installing

-----------------------------------------------------------------------------
(* The lock and the second check, as long as no future was dropped.         *)

\* The step of one call, which holds the lock or leaves the lock of others and
\* the install as they are.
LEMMA HoldersStep ==
    ASSUME ControlOK, Holders, NEW c \in Calls, NEW l, pc' = [pc EXCEPT ![c] = l],
           l \in Holding => lock' = c,
           l \in Working => disk'["dest"] # "whole",
           l = "sweep" => disk'["dest"] # None,
           \/ lock = c
           \/ disk'["dest"] = disk["dest"] /\ (lock' = lock \/ lock = None)
    PROVE  Holders'
<1> SUFFICES ASSUME NEW d \in Calls
             PROVE  /\ pc'[d] \in Holding => lock' = d
                    /\ pc'[d] \in Working => disk'["dest"] # "whole"
                    /\ pc'[d] = "sweep" => disk'["dest"] # None
  BY DEF Holders
<1>1. pc'[c] = l /\ (d # c => pc'[d] = pc[d])
  BY DEF ControlOK
<1>2. None \notin Calls /\ (pc[d] \in Working \/ pc[d] = "sweep" => pc[d] \in Holding)
  BY InstallAssumption DEF Holding
<1>3. CASE d = c
  BY <1>1, <1>3
<1>4. CASE d # c /\ pc[d] \in Holding
  BY <1>1, <1>2, <1>4 DEF Holders
<1>5. CASE d # c /\ pc[d] \notin Holding
  BY <1>1, <1>2, <1>5
<1>6. QED
  BY <1>3, <1>4, <1>5

Something == Stale # None => \E x \in {"dest"} \cup Procs : disk[x] # None
Kept == Asides /\ Memos /\ Something

\* Steps that leave the memos and what lies outside the staging directories alone.
LEMMA KeptStays ==
    ASSUME Kept, UNCHANGED memo, \A x \in {"dest"} \cup Procs : disk'[x] = disk[x]
    PROVE  Kept'
<1>1. Asides' /\ Memos'
  BY DEF Kept, Asides, Memos
<1>2. Something'
  BY DEF Kept, Something
<1>3. QED
  BY <1>1, <1>2 DEF Kept

\* A call remembers the install in place, or the host's toolchain.
LEMMA KeptRemembers ==
    ASSUME ControlOK, Kept, NEW c \in Calls, UNCHANGED disk, NEW x, Remember(c, x),
           x = "system" \/ (x = "dest" /\ disk["dest"] = "whole")
    PROVE  Kept'
<1>1. Asides' /\ Something'
  BY DEF Kept, Asides, Something
<1>2. Memos'
  <2>1. "system" \notin Paths /\ HomeOf(c) \in Procs
    BY InstallAssumption DEF Paths
  <2> QED BY <2>1 DEF Kept, Memos, ControlOK, Remember
<1>3. QED
  BY <1>1, <1>2 DEF Kept

LEMMA SerialStep == ControlOK /\ DiskOK /\ Serialised /\ [Next]_vars => Serialised'
<1> SUFFICES ASSUME ControlOK, DiskOK, Serialised, [Next]_vars, cancels' = 0 PROVE Holders' /\ Kept'
  BY DEF Serialised, Kept, Something, NeverNothing
<1>0. /\ disk \in [Paths -> Contents] /\ pc \in [Calls -> PCs] /\ memo \in [Procs -> Paths \cup {"system", None}]
      /\ "dest" \in Paths /\ Procs \subseteq Paths /\ Calls \subseteq Paths
      /\ Calls \cap Procs = {} /\ "dest" \notin Calls /\ "dest" \notin Procs /\ None \notin Calls
      /\ None \notin Paths /\ None # "whole" /\ None # "broken"
      /\ \A c \in Calls : HomeOf(c) \in Procs
  BY InstallAssumption DEF ControlOK, DiskOK, Contents, Paths
<1>1. ~\E c \in Calls : Cancel(c)
  BY DEF ControlOK, Cancel
<1>2. cancels = 0
  <2>1. CASE \E c \in Calls : Installing(c) \/ Fetched(c)
    BY <2>1 DEF Installing, Acquire, Recheck, Fetched, Extract, MoveAside, Rename, RenameFails, Sweep,
                Tidy, Confirm, boundVars
  <2> QED BY <1>1, <2>1 DEF Next, Resolve, FindSystem, ListRoot, Probe, Crash, vars, boundVars
<1>3. Holders /\ Kept
  BY <1>2 DEF Serialised, Kept, Something, NeverNothing
<1>4. ASSUME NEW c \in Calls, pc[c] \in Holding PROVE lock = c
  BY <1>3, <1>4 DEF Holders
<1>5. ASSUME UNCHANGED disk PROVE \A x \in {"dest"} \cup Procs : disk'[x] = disk[x]
  BY <1>5
<1>6. ASSUME NEW c \in Calls, NEW r, Return(c, r), disk'["dest"] = disk["dest"],
             Unlock(c) \/ UNCHANGED lock
      PROVE  Holders'
  <2>1. pc' = [pc EXCEPT ![c] = "returned"] /\ (lock = c \/ lock' = lock)
    BY <1>6 DEF Return, Unlock
  <2>2. "returned" \notin Holding /\ "returned" \notin Working /\ "returned" # "sweep"
    BY DEF Holding, Working
  <2> QED BY <1>3, <1>6, <2>1, <2>2, HoldersStep
<1>7. ASSUME NEW c \in Calls, NEW l \in {"scan", "probe", "acquire"}, Goto(c, l), UNCHANGED <<disk, lock>>
      PROVE  Holders'
  <2>1. l \notin Holding /\ l \notin Working /\ l # "sweep"
    BY DEF Holding, Working
  <2> QED BY <1>3, <1>7, <2>1, HoldersStep DEF Goto
<1>8. ASSUME NEW c \in Calls, lock = c, UNCHANGED lock, NEW l, Goto(c, l), l \in Holding,
             l \in Working => disk'["dest"] # "whole",
             l = "sweep" => disk'["dest"] # None
      PROVE  Holders'
  BY <1>3, <1>8, HoldersStep DEF Goto
<1>9. /\ Working = {"fetch", "extract", "aside", "rename"}
      /\ Holding = {"fetch", "extract", "aside", "rename", "recheck", "sweep", "tidy", "abort", "confirm"}
  BY DEF Working, Holding
<1>10. ASSUME UNCHANGED <<disk, pc, lock>> PROVE Holders'
  BY <1>3, <1>10 DEF Holders
<1>11. CASE \E c \in Calls : Resolve(c)
  <2> PICK c \in Calls : Resolve(c)
    BY <1>11
  <2>1. Holders'
    BY <1>6, <1>7 DEF Resolve
  <2> QED BY <1>3, <1>5, <2>1, KeptStays DEF Resolve
<1>12. CASE \E c \in Calls : FindSystem(c)
  BY <1>3, <1>6, <1>12, KeptRemembers DEF FindSystem, Remember
<1>13. CASE \E c \in Calls : ListRoot(c)
  BY <1>3, <1>5, <1>7, <1>13, KeptStays DEF ListRoot
<1>14. CASE \E c \in Calls : Probe(c)
  <2> PICK c \in Calls : Probe(c)
    BY <1>14
  <2>1. Holders'
    BY <1>6, <1>7, <1>10 DEF Probe, Remember
  <2>2. CASE UNCHANGED memo
    BY <1>3, <1>5, <2>1, <2>2, KeptStays DEF Probe
  <2>3. CASE \E x \in seen[c] : Acceptable(x) /\ Remember(c, x)
    <3> PICK x \in seen[c] : Acceptable(x) /\ Remember(c, x)
      BY <2>3
    <3>1. x \in {"dest"} \cup Procs
      BY DEF ControlOK
    <3>2. disk[x] = "whole"
      BY <3>1 DEF Acceptable, DiskOK
    <3>3. x = "dest"
      BY <1>3, <3>1, <3>2 DEF Kept, Asides
    <3>4. UNCHANGED disk
      BY DEF Probe
    <3> QED BY <1>3, <2>1, <3>2, <3>3, <3>4, KeptRemembers
  <2> QED BY <2>2, <2>3 DEF Probe
<1>15. CASE \E c \in Calls : Acquire(c)
  <2> PICK c \in Calls : Acquire(c)
    BY <1>15
  <2>1. Holders'
    BY <1>3, <1>9, HoldersStep DEF Acquire, Goto
  <2> QED BY <1>3, <1>5, <2>1, KeptStays DEF Acquire
<1>16. CASE \E c \in Calls : Recheck(c)
  <2> PICK c \in Calls : Recheck(c)
    BY <1>16
  <2>1. lock = c /\ UNCHANGED disk
    BY <1>4, <1>9 DEF Recheck
  <2>2. CASE Usable("dest") /\ Remember(c, "dest") /\ Unlock(c)
    BY <1>3, <1>6, <2>1, <2>2, KeptRemembers DEF Remember, Usable
  <2>3. CASE ~Usable("dest") /\ Goto(c, "fetch") /\ UNCHANGED <<lock, memo>>
    BY <1>3, <1>5, <1>8, <1>9, <2>1, <2>3, KeptStays DEF Usable
  <2>4. CASE Return(c, "Error") /\ Unlock(c) /\ UNCHANGED memo
    BY <1>3, <1>5, <1>6, <2>1, <2>4, KeptStays
  <2> QED BY <2>2, <2>3, <2>4 DEF Recheck
<1>17. CASE \E c \in Calls : Fetched(c)
  <2> PICK c \in Calls : Fetched(c)
    BY <1>17
  <2>1. lock = c /\ UNCHANGED disk /\ disk["dest"] # "whole"
    BY <1>3, <1>4, <1>9 DEF Fetched, Holders
  <2>2. Holders'
    BY <1>6, <1>8, <1>9, <2>1 DEF Fetched
  <2> QED BY <1>3, <1>5, <2>2, KeptStays DEF Fetched
<1>18. CASE \E c \in Calls : Extract(c)
  <2> PICK c \in Calls : Extract(c)
    BY <1>18
  <2>1. lock = c /\ disk["dest"] # "whole" /\ pc[c] = "extract"
    BY <1>3, <1>4, <1>9 DEF Extract, Holders
  <2>2. \A x \in {"dest"} \cup Procs : disk'[x] = disk[x]
    BY <1>0 DEF Extract
  <2>3. CASE UNCHANGED <<pc, lock>>
    BY <1>3, <2>2, <2>3, KeptStays DEF Holders, Extract
  <2>4. CASE Goto(c, "aside") /\ UNCHANGED lock
    BY <1>3, <1>8, <1>9, <2>1, <2>2, <2>4, KeptStays DEF Extract
  <2>5. CASE \E r \in {"Error", "Dropped"} : Return(c, r) /\ (Unlock(c) \/ UNCHANGED lock)
    BY <1>3, <1>6, <2>2, <2>5, KeptStays DEF Extract
  <2> QED BY <2>3, <2>4, <2>5 DEF Extract
<1>19. CASE \E c \in Calls : MoveAside(c)
  <2> PICK c \in Calls : MoveAside(c)
    BY <1>19
  <2>1. lock = c /\ disk["dest"] # "whole" /\ UNCHANGED <<lock, memo>>
    BY <1>3, <1>4, <1>9 DEF MoveAside, Holders
  <2>2. CASE UNCHANGED disk /\ Goto(c, "rename")
    BY <1>3, <1>5, <1>8, <1>9, <2>1, <2>2, KeptStays
  <2>3. CASE /\ disk["dest"] # None /\ Goto(c, "rename")
             /\ disk' = [disk EXCEPT !["dest"] = None, ![HomeOf(c)] = disk["dest"]]
    <3>1. /\ disk'["dest"] = None /\ disk'[HomeOf(c)] = disk["dest"]
          /\ \A p \in Procs \ {HomeOf(c)} : disk'[p] = disk[p]
      BY <1>0, <2>3
    <3>2. Holders'
      BY <1>0, <1>8, <1>9, <2>1, <2>3, <3>1
    <3>3. Asides'
      BY <1>3, <2>1, <3>1 DEF Kept, Asides
    <3>4. Memos'
      BY <1>3, <2>1 DEF Kept, Memos
    <3>5. Something'
      BY <1>0, <2>3, <3>1 DEF Something
    <3> QED BY <3>2, <3>3, <3>4, <3>5 DEF Kept
  <2>4. CASE /\ disk["dest"] # None /\ Promoted(c, "abort")
             /\ disk' = [disk EXCEPT ![HomeOf(c)] = None]
    <3>1. /\ disk'["dest"] = disk["dest"] /\ disk'[HomeOf(c)] = None
          /\ \A p \in Procs \ {HomeOf(c)} : disk'[p] = disk[p]
      BY <1>0, <2>4
    <3>2. Holders'
      BY <1>6, <1>8, <1>9, <2>1, <2>4, <3>1 DEF Promoted
    <3>3. Asides'
      BY <1>0, <1>3, <3>1 DEF Kept, Asides
    <3>4. Memos'
      BY <1>3, <2>1 DEF Kept, Memos
    <3>5. Something'
      BY <2>4, <3>1 DEF Something
    <3> QED BY <3>2, <3>3, <3>4, <3>5 DEF Kept
  <2> QED BY <2>2, <2>3, <2>4 DEF MoveAside
<1>20. CASE \E c \in Calls : Rename(c)
  <2> PICK c \in Calls : Rename(c)
    BY <1>20
  <2>1. /\ lock = c /\ disk["dest"] # "whole" /\ UNCHANGED <<lock, memo>> /\ Goto(c, "sweep")
        /\ disk[c] \in {"broken", "whole"}
    BY <1>3, <1>4, <1>9 DEF Rename, Holders, DiskOK
  <2>2. disk'["dest"] # None /\ \A p \in Procs : disk'[p] = disk[p]
    BY <1>0, <2>1 DEF Rename
  <2>3. Holders'
    BY <1>8, <1>9, <2>1, <2>2
  <2>4. Asides' /\ Memos'
    BY <1>3, <2>1, <2>2 DEF Kept, Asides, Memos
  <2>5. Something'
    BY <1>0, <2>2 DEF Something
  <2> QED BY <2>3, <2>4, <2>5 DEF Kept
<1>21. CASE \E c \in Calls : RenameFails(c)
  <2> PICK c \in Calls : RenameFails(c)
    BY <1>21
  <2>1. lock = c /\ disk["dest"] # "whole" /\ UNCHANGED <<lock, memo>> /\ Promoted(c, "abort")
    BY <1>3, <1>4, <1>9 DEF RenameFails, Holders
  <2>2. CASE UNCHANGED disk
    BY <1>3, <1>5, <1>6, <1>8, <1>9, <2>1, <2>2, KeptStays DEF Promoted
  <2>3. CASE /\ disk["dest"] = None
             /\ disk' = [disk EXCEPT !["dest"] = disk[HomeOf(c)], ![HomeOf(c)] = None]
    <3>1. /\ disk'["dest"] = disk[HomeOf(c)] /\ disk'[HomeOf(c)] = None
          /\ \A p \in Procs \ {HomeOf(c)} : disk'[p] = disk[p]
      BY <1>0, <2>3
    <3>2. PICK l \in {"abort", "returned"} : pc' = [pc EXCEPT ![c] = l]
      BY <2>1 DEF Promoted, Goto, Return
    <3>3. Holders'
      BY <1>3, <1>9, <2>1, <3>2, HoldersStep
    <3>4. Asides'
      BY <1>0, <1>3, <3>1 DEF Kept, Asides
    <3>5. Memos'
      BY <1>3, <2>1 DEF Kept, Memos
    <3>6. Something'
      BY <1>0, <1>3, <2>3, <3>1 DEF Kept, Something
    <3> QED BY <3>3, <3>4, <3>5, <3>6 DEF Kept
  <2> QED BY <2>2, <2>3 DEF RenameFails
<1>22. CASE \E c \in Calls : Sweep(c)
  <2> PICK c \in Calls : Sweep(c)
    BY <1>22
  <2>1. lock = c /\ disk["dest"] # None /\ UNCHANGED <<lock, memo>> /\ Promoted(c, "tidy")
    BY <1>3, <1>4, <1>9 DEF Sweep, Holders
  <2>2. disk'["dest"] = disk["dest"] /\ \A p \in Procs : disk'[p] \in {disk[p], None}
    BY <1>0 DEF Sweep
  <2>3. Holders'
    BY <1>6, <1>8, <1>9, <2>1, <2>2 DEF Promoted
  <2>4. Asides' /\ Memos'
    BY <1>0, <1>3, <2>1, <2>2 DEF Kept, Asides, Memos
  <2>5. Something'
    BY <1>0, <2>1, <2>2 DEF Something
  <2> QED BY <2>3, <2>4, <2>5 DEF Kept
<1>23. CASE \E c \in Calls : Tidy(c)
  <2> PICK c \in Calls : Tidy(c)
    BY <1>23
  <2>1. lock = c
    BY <1>4, <1>9 DEF Tidy
  <2>2. \A x \in {"dest"} \cup Procs : disk'[x] = disk[x]
    BY <1>0 DEF Tidy
  <2>3. Holders'
    BY <1>6, <1>8, <1>9, <2>1, <2>2 DEF Tidy
  <2> QED BY <1>3, <2>2, <2>3, KeptStays DEF Tidy
<1>24. CASE \E c \in Calls : Confirm(c)
  <2> PICK c \in Calls : Confirm(c)
    BY <1>24
  <2>1. Holders'
    BY <1>6 DEF Confirm, Remember
  <2>2. CASE UNCHANGED memo
    BY <1>3, <1>5, <2>1, <2>2, KeptStays DEF Confirm
  <2>3. CASE Usable("dest") /\ Remember(c, "dest")
    BY <1>3, <2>1, <2>3, KeptRemembers DEF Confirm, Usable
  <2> QED BY <2>2, <2>3 DEF Confirm
<1>25. CASE \E p \in Procs : Crash(p)
  <2> PICK p \in Procs : Crash(p)
    BY <1>25
  <2>1. UNCHANGED disk /\ memo' = [memo EXCEPT ![p] = None]
    BY DEF Crash
  <2>2. Holders'
    <3> SUFFICES ASSUME NEW d \in Calls
                 PROVE  /\ pc'[d] \in Holding => lock' = d
                        /\ pc'[d] \in Working => disk'["dest"] # "whole"
                        /\ pc'[d] = "sweep" => disk'["dest"] # None
      BY DEF Holders
    <3> DEFINE dead == {c \in Calls : HomeOf(c) = p /\ pc[c] \notin {"new", "returned"}}
    <3>1. CASE d \in dead
      <4>1. pc'[d] = "returned"
        BY <3>1 DEF Crash
      <4> QED BY <1>9, <4>1
    <3>2. CASE d \notin dead
      <4>1. pc'[d] = pc[d] /\ (lock = d => lock' = d)
        BY <3>2 DEF Crash
      <4> QED BY <1>3, <2>1, <4>1 DEF Holders
    <3> QED BY <3>1, <3>2
  <2>3. Asides' /\ Something'
    BY <1>3, <2>1 DEF Kept, Asides, Something
  <2>4. Memos'
    BY <1>0, <1>3, <2>1 DEF Kept, Memos
  <2> QED BY <2>2, <2>3, <2>4 DEF Kept
<1>26. CASE UNCHANGED vars
  BY <1>3, <1>5, <1>10, <1>26, KeptStays DEF vars, callVars
<1>27. QED
  BY <1>1, <1>11, <1>12, <1>13, <1>14, <1>15, <1>16, <1>17, <1>18, <1>19, <1>20, <1>21, <1>22,
     <1>23, <1>24, <1>25, <1>26 DEF Next, Installing

-----------------------------------------------------------------------------
(* The theorems.                                                            *)

LEMMA InvSplit == InstallInv <=> ControlOK /\ FlagsOK /\ DiskOK /\ Serialised
<1>1. {"dest"} \cup Procs \subseteq Paths
  BY DEF Paths
<1>2. (seen \in [Calls -> SUBSET Paths] /\ \A c \in Calls : seen[c] \subseteq {"dest"} \cup Procs)
      <=> seen \in [Calls -> SUBSET ({"dest"} \cup Procs)]
  BY <1>1
<1>3. ASSUME InstallInv PROVE ControlOK /\ FlagsOK /\ DiskOK /\ Serialised
  <2>1. TypeOK /\ Staging /\ Serialised
    BY <1>3 DEF InstallInv
  <2>2. seen \in [Calls -> SUBSET ({"dest"} \cup Procs)]
    BY <1>2, <2>1 DEF TypeOK, Staging
  <2>3. ControlOK
    BY <2>1, <2>2 DEF TypeOK, ControlOK, PCs, Outcomes
  <2>4. FlagsOK
    BY <2>1, Zenon DEF TypeOK, FlagsOK
  <2>5. DiskOK
    BY <2>1 DEF TypeOK, Staging, DiskOK
  <2> QED BY <2>1, <2>3, <2>4, <2>5
<1>4. ASSUME ControlOK, FlagsOK, DiskOK, Serialised PROVE InstallInv
  <2>1. seen \in [Calls -> SUBSET Paths] /\ \A c \in Calls : seen[c] \subseteq {"dest"} \cup Procs
    BY <1>2, <1>4 DEF ControlOK
  <2>2. Staging
    BY <1>4, <2>1 DEF DiskOK, Staging
  <2>3. /\ disk \in [Paths -> Contents] /\ disk["dest"] # "partial"
        /\ archive \in {None, "partial", "broken", "whole"} /\ lock \in Calls \cup {None}
        /\ memo \in [Procs -> Paths \cup {"system", None}]
        /\ pc \in [Calls -> {"new", "returned"} \cup Awaiting \cup Threaded]
        /\ result \in [Calls -> Paths \cup {"pending", "system", "NothingProvisioned", "Error", "Dropped"}]
        /\ crashes \in 0..MaxCrashes /\ cancels \in 0..MaxCancels
    BY <1>4 DEF ControlOK, DiskOK, PCs, Outcomes
  <2>4. displaced \in [Calls -> BOOLEAN] /\ gone \in [Calls -> BOOLEAN]
    BY <1>4, Zenon DEF FlagsOK
  <2>5. TypeOK
    BY <2>1, <2>3, <2>4, Zenon DEF TypeOK
  <2> QED BY <1>4, <2>2, <2>5 DEF InstallInv
<1>5. QED
  BY <1>3, <1>4

LEMMA InstallInitial == Init => InstallInv
<1> SUFFICES ASSUME Init PROVE InstallInv
  OBVIOUS
<1> USE InstallAssumption DEF Init
<1>1. ControlOK
  BY DEF ControlOK, PCs, Outcomes
<1>2. FlagsOK
  BY DEF FlagsOK
<1>3. DiskOK
  BY DEF DiskOK, Contents, Paths
<1>4. Serialised
  <2>1. Holders
    BY DEF Holders, Holding, Working
  <2>2. Asides
    BY DEF Asides, Paths
  <2>3. Memos
    BY DEF Memos, Paths
  <2>4. NeverNothing
    BY DEF NeverNothing, Paths
  <2> QED BY <2>1, <2>2, <2>3, <2>4 DEF Serialised
<1>5. QED
  BY <1>1, <1>2, <1>3, <1>4, InvSplit

LEMMA InstallStep == InstallInv /\ [Next]_vars => InstallInv'
<1> SUFFICES ASSUME InstallInv, [Next]_vars PROVE InstallInv'
  OBVIOUS
<1>1. ControlOK /\ FlagsOK /\ DiskOK /\ Serialised
  BY InvSplit
<1>2. ControlOK' /\ FlagsOK' /\ DiskOK' /\ Serialised'
  BY <1>1, ControlStep, FlagsStep, DiskStep, SerialStep
<1>3. (InstallInv <=> ControlOK /\ FlagsOK /\ DiskOK /\ Serialised)'
  BY InvSplit, PTL
<1>4. QED
  BY <1>2, <1>3

\* Every state is well typed, and the install directory never holds a tree that is
\* half unpacked, futures dropped in the middle of a promotion included.
THEOREM InstallTypeCorrect == Spec => []TypeOK
<1>1. InstallInv => TypeOK
  BY DEF InstallInv
<1>2. QED
  BY <1>1, InstallInitial, InstallStep, PTL DEF Spec

\* With no future dropped, what Resolver.resolved answers from stays usable, through
\* every crash and every failed rename of any process that shares the cache root.
THEOREM InstallMemoStands == Spec => []MemoStands
<1>1. InstallInv => MemoStands
  BY DEF InstallInv, Serialised, Memos, MemoStands, Usable
<1>2. QED
  BY <1>1, InstallInitial, InstallStep, PTL DEF Spec

\* The second check under the install lock: with no future dropped, nobody fetches,
\* unpacks or promotes beside an install that can be used.
THEOREM InstallNotRedundant == Spec => []NoRedundantInstall
<1>1. InstallInv => NoRedundantInstall
  BY DEF InstallInv, Serialised, Holders, Working, NoRedundantInstall, Usable
<1>2. QED
  BY <1>1, InstallInitial, InstallStep, PTL DEF Spec

\* promote_blocking: with no future dropped, a toolchain that was there at first is
\* replaced or kept, in its place or beside it, and never lost to nothing at all.
THEOREM InstallNeverNothing == Spec => []NeverNothing
<1>1. InstallInv => NeverNothing
  BY DEF InstallInv, Serialised, NeverNothing
<1>2. QED
  BY <1>1, InstallInitial, InstallStep, PTL DEF Spec
=============================================================================
