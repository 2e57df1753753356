------------------------------ MODULE Install ------------------------------
(* Resolving a language to a toolchain and installing one: resolve/mod.rs,  *)
(* resolve/reuse.rs, resolve/install.rs, store/mod.rs, store/lock.rs,       *)
(* download/mod.rs and archive/mod.rs, for one distribution and the         *)
(* processes that share one cache root.                                     *)
(*                                                                          *)
(* A call is one resolve.  Its pc is where its future waits or, from        *)
(* "extract" to "sweep", where the blocking thread works for it: dropping   *)
(* the future releases the lock, and the thread carries on.                 *)
EXTENDS Integers, FiniteSets

CONSTANTS
    Calls,       \* calls of resolve, each made once
    Procs,       \* processes that share the cache root
    HomeOf(_),   \* HomeOf(c): the process that c runs in
    MaxCrashes,  \* bound: process crashes
    MaxCancels,  \* bound: futures dropped half way
    Stale,       \* what the install directory holds at first: None or "broken"
    None

ASSUME InstallAssumption ==
    /\ \A c \in Calls : HomeOf(c) \in Procs
    /\ Calls \cap Procs = {} /\ {"dest", "system", None} \cap (Calls \cup Procs) = {}
    /\ None \notin {"dest", "system", "partial", "broken", "whole"}
    /\ MaxCrashes \in Nat /\ MaxCancels \in Nat
    /\ Stale \in {None, "broken"}

\* The install directory, the place of process p for what it displaces, and the
\* staging directory of call c.
Paths == {"dest"} \cup Procs \cup Calls

VARIABLES
    disk,      \* disk[x]: what is at x
    archive,   \* the archive file, at one path for all
    lock,      \* the call that holds the install lock
    memo,      \* memo[p]: Resolver.resolved of process p
    pc,
    seen,      \* seen[c]: candidates of the scan of c still to be probed
    displaced, \* displaced[c]: the promotion of c moved an install aside
    gone,      \* gone[c]: the future of c was dropped
    result,    \* result[c]: what the call of c returned
    crashes, cancels

callVars == <<pc, seen, displaced, gone, result>>
boundVars == <<crashes, cancels>>
vars == <<disk, archive, lock, memo, callVars, boundVars>>

Contents == {None, "partial", "broken", "whole"}
Threaded == {"extract", "aside", "rename", "sweep"}
Awaiting == {"scan", "probe", "acquire", "recheck", "fetch", "tidy", "abort", "confirm"}

Init ==
    /\ disk = [x \in Paths |-> IF x = "dest" THEN Stale ELSE None]
    /\ archive = None /\ lock = None
    /\ memo = [p \in Procs |-> None]
    /\ pc = [c \in Calls |-> "new"]
    /\ seen = [c \in Calls |-> {}]
    /\ displaced = [c \in Calls |-> FALSE]
    /\ gone = [c \in Calls |-> FALSE]
    /\ result = [c \in Calls |-> "pending"]
    /\ crashes = 0 /\ cancels = 0

\* provider.layout: external; it accepts a whole toolchain and may be deceived
\* by the tree of an install in progress.
Usable(x) == disk[x] = "whole"
Acceptable(x) == disk[x] \in {"whole", "partial"}

Goto(c, l) == pc' = [pc EXCEPT ![c] = l] /\ UNCHANGED result
Return(c, r) == pc' = [pc EXCEPT ![c] = "returned"] /\ result' = [result EXCEPT ![c] = r]
Unlock(c) == lock' = IF lock = c THEN None ELSE lock

\* remember, and the return that follows it.
Remember(c, x) == memo' = [memo EXCEPT ![HomeOf(c)] = x] /\ Return(c, x)

-----------------------------------------------------------------------------
(* resolve: the memo, the host's toolchain and the scan.                    *)

Resolve(c) ==
    /\ pc[c] = "new"
    /\ \/ memo[HomeOf(c)] # None /\ Return(c, memo[HomeOf(c)])
       \/ memo[HomeOf(c)] = None /\ Goto(c, "scan")
       \* disabled, unknown, unavailable or of another contract
       \/ Return(c, "Error")
    /\ UNCHANGED <<disk, archive, lock, memo, seen, displaced, gone, boundVars>>

\* detect_system finds a toolchain on the host.
FindSystem(c) ==
    /\ pc[c] = "scan"
    /\ Remember(c, "system")
    /\ UNCHANGED <<disk, archive, lock, seen, displaced, gone, boundVars>>

\* Mutant: the scan probes the staging directories too.
CandidatesAll == {x \in Paths : disk[x] # None}

\* The directories that the scan will probe: staging directories are skipped.
Candidates == {x \in Paths : disk[x] # None /\ x \notin Calls}

ListRoot(c) ==
    /\ pc[c] = "scan"
    /\ seen' = [seen EXCEPT ![c] = Candidates]
    /\ Goto(c, "probe")
    /\ UNCHANGED <<disk, archive, lock, memo, displaced, gone, boundVars>>

Probe(c) ==
    /\ pc[c] = "probe"
    /\ \/ \E x \in seen[c] :
            \/ Acceptable(x) /\ Remember(c, x) /\ UNCHANGED seen
            \* it is not one, or the provider could not tell
            \/ seen' = [seen EXCEPT ![c] = @ \ {x}] /\ UNCHANGED <<memo, pc, result>>
       \/ seen[c] = {} /\ Goto(c, "acquire") /\ UNCHANGED <<memo, seen>>
       \/ seen[c] = {} /\ Return(c, "NothingProvisioned") /\ UNCHANGED <<memo, seen>>
    /\ UNCHANGED <<disk, archive, lock, displaced, gone, boundVars>>

-----------------------------------------------------------------------------
(* install::run.                                                            *)

\* A dropped acquire leaves a thread that takes the lock and lets it go at once.
Acquire(c) ==
    /\ pc[c] = "acquire" /\ lock = None
    /\ lock' = c
    /\ Goto(c, "recheck")
    /\ UNCHANGED <<disk, archive, memo, seen, displaced, gone, boundVars>>

\* Mutant: the check is not made again once the lock is held.
RecheckSkipped(c) ==
    /\ pc[c] = "recheck"
    /\ Goto(c, "fetch") /\ archive' = "partial"
    /\ UNCHANGED <<disk, lock, memo, seen, displaced, gone, boundVars>>

\* The second check, after the lock; otherwise fetch creates the archive file.
Recheck(c) ==
    /\ pc[c] = "recheck"
    /\ \/ Usable("dest") /\ Remember(c, "dest") /\ Unlock(c) /\ UNCHANGED archive
       \/ ~Usable("dest") /\ Goto(c, "fetch") /\ archive' = "partial" /\ UNCHANGED <<lock, memo>>
       \/ Return(c, "Error") /\ Unlock(c) /\ UNCHANGED <<archive, memo>>
    /\ UNCHANGED <<disk, seen, displaced, gone, boundVars>>

\* Mutant: a transfer that failed verification keeps the lock.
FetchedKeepsLock(c) ==
    /\ pc[c] = "fetch"
    /\ \/ archive' \in {"whole", "broken"} /\ Goto(c, "extract")
       \/ archive' = None /\ Return(c, "Error")
    /\ UNCHANGED <<disk, lock, memo, seen, displaced, gone, boundVars>>

\* fetch returns: what arrived has the published digest, or it is removed; where
\* no digest is published, whatever arrived is kept.
Fetched(c) ==
    /\ pc[c] = "fetch"
    /\ \E arrived \in {"whole", "broken"}, published \in BOOLEAN :
         IF published /\ arrived # "whole"
         THEN archive' = None /\ Return(c, "Error") /\ Unlock(c)
         ELSE archive' = arrived /\ Goto(c, "extract") /\ UNCHANGED lock
    /\ UNCHANGED <<disk, memo, seen, displaced, gone, boundVars>>

\* Mutant: the archive is unpacked straight into the install directory.
ExtractInPlace(c) ==
    /\ pc[c] = "extract"
    /\ \/ disk["dest"] # "partial" /\ disk' = [disk EXCEPT !["dest"] = "partial"]
            /\ UNCHANGED <<pc, result>>
       \/ disk["dest"] = "partial" /\ disk' = [disk EXCEPT !["dest"] = "whole"] /\ Goto(c, "tidy")
    /\ UNCHANGED <<archive, lock, memo, seen, displaced, gone, boundVars>>

RemoveArchive == archive' = None

\* The blocking thread unpacks: the tree grows in the staging directory, and
\* comes out whole only if the archive is.
Extract(c) ==
    /\ pc[c] = "extract"
    /\ \/ disk[c] = None /\ disk' = [disk EXCEPT ![c] = "partial"]
            /\ UNCHANGED <<archive, lock, pc, result>>
       \/ disk[c] = "partial" /\ archive \in {"whole", "broken"} /\ ~gone[c]
            /\ disk' = [disk EXCEPT ![c] = archive] /\ Goto(c, "aside")
            /\ UNCHANGED <<archive, lock>>
       \/ ~gone[c] /\ disk' = [disk EXCEPT ![c] = None] /\ RemoveArchive
            /\ Return(c, "Error") /\ Unlock(c)
       \/ gone[c] /\ disk' = [disk EXCEPT ![c] = "whole"] /\ Return(c, "Dropped")
            /\ UNCHANGED <<archive, lock>>
    /\ UNCHANGED <<memo, seen, displaced, gone, boundVars>>

\* promote_blocking ends: its future, if there still is one, tidies up.
Promoted(c, next) == IF gone[c] THEN Return(c, "Dropped") ELSE Goto(c, next)

\* Mutant: the existing install is deleted rather than moved aside.
MoveAsideDeletes(c) ==
    /\ pc[c] = "aside"
    /\ disk' = [disk EXCEPT !["dest"] = None]
    /\ Goto(c, "rename")
    /\ UNCHANGED <<archive, lock, memo, seen, displaced, gone, boundVars>>

\* The first rename, after what an earlier promotion left there is removed.
MoveAside(c) ==
    /\ pc[c] = "aside"
    /\ \/ disk["dest"] = None /\ Goto(c, "rename") /\ UNCHANGED <<disk, displaced>>
       \/ /\ disk["dest"] # None
          /\ disk' = [disk EXCEPT !["dest"] = None, ![HomeOf(c)] = disk["dest"]]
          /\ displaced' = [displaced EXCEPT ![c] = TRUE]
          /\ Goto(c, "rename")
       \/ /\ disk["dest"] # None                      \* the rename fails
          /\ disk' = [disk EXCEPT ![HomeOf(c)] = None]
          /\ UNCHANGED displaced
          /\ Promoted(c, "abort")
    /\ UNCHANGED <<archive, lock, memo, seen, gone, boundVars>>

\* The second rename; it cannot land on a directory that is not empty.
Rename(c) ==
    /\ pc[c] = "rename" /\ disk["dest"] = None
    /\ disk' = [disk EXCEPT !["dest"] = disk[c], ![c] = None]
    /\ Goto(c, "sweep")
    /\ UNCHANGED <<archive, lock, memo, seen, displaced, gone, boundVars>>

\* The second rename fails, and what was moved aside is put back if it can be.
RenameFails(c) ==
    /\ pc[c] = "rename"
    /\ \/ /\ displaced[c] /\ disk["dest"] = None
          /\ disk' = [disk EXCEPT !["dest"] = disk[HomeOf(c)], ![HomeOf(c)] = None]
       \/ UNCHANGED disk
    /\ Promoted(c, "abort")
    /\ UNCHANGED <<archive, lock, memo, seen, displaced, gone, boundVars>>

Sweep(c) ==
    /\ pc[c] = "sweep"
    /\ disk' = IF displaced[c] THEN [disk EXCEPT ![HomeOf(c)] = None] ELSE disk
    /\ Promoted(c, "tidy")
    /\ UNCHANGED <<archive, lock, memo, seen, displaced, gone, boundVars>>

\* The staging directory and the archive go, whether or not promote succeeded.
Tidy(c) ==
    /\ disk' = [disk EXCEPT ![c] = None]
    /\ RemoveArchive
    /\ \/ pc[c] = "tidy" /\ Goto(c, "confirm") /\ UNCHANGED lock
       \/ pc[c] = "abort" /\ Return(c, "Error") /\ Unlock(c)
    /\ UNCHANGED <<memo, seen, displaced, gone, boundVars>>

Confirm(c) ==
    /\ pc[c] = "confirm"
    /\ \/ Usable("dest") /\ Remember(c, "dest")
       \* EmptyInstall, or the provider could not tell
       \/ Return(c, "Error") /\ UNCHANGED memo
    /\ Unlock(c)
    /\ UNCHANGED <<disk, archive, seen, displaced, gone, boundVars>>

-----------------------------------------------------------------------------
\* The future of c is dropped: its locals go, the lock among them.
Cancel(c) ==
    /\ cancels < MaxCancels /\ ~gone[c] /\ pc[c] \in Awaiting \cup Threaded
    /\ cancels' = cancels + 1
    /\ gone' = [gone EXCEPT ![c] = TRUE]
    /\ IF pc[c] \in Threaded THEN UNCHANGED <<pc, result>> ELSE Return(c, "Dropped")
    /\ Unlock(c)
    /\ UNCHANGED <<disk, archive, memo, seen, displaced, crashes>>

\* A process dies with its calls, its threads, its memo and its lock.
Crash(p) ==
    LET dead == {c \in Calls : HomeOf(c) = p /\ pc[c] \notin {"new", "returned"}} IN
    /\ crashes < MaxCrashes
    /\ crashes' = crashes + 1
    /\ pc' = [c \in Calls |-> IF c \in dead THEN "returned" ELSE pc[c]]
    /\ result' = [c \in Calls |-> IF c \in dead THEN "Dropped" ELSE result[c]]
    /\ lock' = IF lock \in dead THEN None ELSE lock
    /\ memo' = [memo EXCEPT ![p] = None]
    /\ UNCHANGED <<disk, archive, seen, displaced, gone, cancels>>

Installing(c) ==
    \/ Acquire(c) \/ Recheck(c) \/ Extract(c) \/ MoveAside(c) \/ Rename(c)
    \/ RenameFails(c) \/ Sweep(c) \/ Tidy(c) \/ Confirm(c)

Next ==
    \/ \E c \in Calls :
         \/ Resolve(c) \/ FindSystem(c) \/ ListRoot(c) \/ Probe(c)
         \/ Installing(c) \/ Fetched(c) \/ Cancel(c)
    \/ \E p \in Procs : Crash(p)

Spec == Init /\ [][Next]_vars

\* Probes and file operations end, and flock favours no waiter for ever.  Fetched is
\* left out: no deadline is set on a transfer, so it ends only if the peer sees to it.
Fairness == \A c \in Calls :
    WF_vars(ListRoot(c) \/ Probe(c)) /\ SF_vars(Acquire(c)) /\ WF_vars(Installing(c))
FairSpec == Spec /\ Fairness

-----------------------------------------------------------------------------
(* Properties.                                                              *)

\* The variables keep to their types; the install directory never holds a
\* half-populated tree.
TypeOK ==
    /\ disk \in [Paths -> Contents] /\ disk["dest"] # "partial"
    /\ archive \in {None, "partial", "broken", "whole"}
    /\ lock \in Calls \cup {None}
    /\ memo \in [Procs -> Paths \cup {"system", None}]
    /\ pc \in [Calls -> {"new", "returned"} \cup Awaiting \cup Threaded]
    /\ seen \in [Calls -> SUBSET Paths]
    /\ displaced \in [Calls -> BOOLEAN] /\ gone \in [Calls -> BOOLEAN]
    /\ result \in [Calls -> Paths \cup {"pending", "system", "NothingProvisioned", "Error", "Dropped"}]
    /\ crashes \in 0..MaxCrashes /\ cancels \in 0..MaxCancels

\* What a process remembers of an install can be used for as long as it is
\* remembered, as long as no future was dropped: the memo is answered from
\* without looking at the disk again.
MemoStands == cancels = 0 => \A p \in Procs : memo[p] \in Paths => Usable(memo[p])

\* The lock and the second check make a waiting install "find the first one's
\* work already there, rather than unpacking over it": as long as no future was
\* dropped, nobody downloads, unpacks or promotes beside a usable install.
NoRedundantInstall ==
    cancels = 0 =>
      \A c \in Calls : pc[c] \in {"fetch", "extract", "aside", "rename"} => ~Usable("dest")

\* "A failure at the rename leaves the previous toolchain in place rather than
\* nothing at all": renames failing, restores failing or processes crashing at
\* any step, some tree is left under the install's name or beside it, as long as
\* no future was dropped.
NeverNothing == Stale # None /\ cancels = 0 => \E x \in {"dest"} \cup Procs : disk[x] # None

\* "A reader either sees the old install or the new one": a usable install never
\* vanishes from its place.
StaysInstalled == [][Usable("dest") => Usable("dest")']_vars

\* No transfer hangs for ever.
TransfersEnd == \A c \in Calls : []<>(pc[c] # "fetch")

\* As long as no transfer hangs for ever, every call of resolve returns, whoever
\* holds the lock, whatever fails under it and whoever crashes.  Without that
\* hypothesis it is false: fetch runs under the install lock and without a
\* deadline, and whoever waits in lock::acquire waits with it.
EveryResolveReturns ==
    TransfersEnd => \A c \in Calls : pc[c] = "scan" ~> pc[c] = "returned"
=============================================================================
