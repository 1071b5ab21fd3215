-------------------------------- MODULE FxGate --------------------------------
(***************************************************************************)
(* The gates in front of the effects system (EffectsCore): the iterator    *)
(* word, which counts the threads that iterate over the effects or says    *)
(* that one thread owns them; the archive gate, closed by a save, a        *)
(* restore, or a reset of the system; the kill gate, closed by a thread    *)
(* that kills or rewinds effects; the lock of the pool allocator; and the  *)
(* lease of a restored effect table.                                       *)
(*                                                                         *)
(* A thread passes them one atomic access at a time.  What it has read     *)
(* while the word keeps the others from changing it is read in one step.   *)
(***************************************************************************)
EXTENDS Integers, FiniteSets

CONSTANTS
  Threads,   \* the main thread and the workers
  Nobody,    \* the owner of a free lock
  MayDo,     \* [Threads -> SUBSET Tasks]: what each thread is asked to do
  MaxDepth,  \* bound of the model: nested iterations of one thread
  MaxRare    \* bound of the model: saves, restores and resets

Tasks == {"iterate", "try", "sort", "kill", "rewind", "save", "restore",
          "reset", "allocate"}

ASSUME FxGateAssumption ==
  /\ IsFiniteSet(Threads)
  /\ Nobody \notin Threads
  /\ MayDo \in [Threads -> SUBSET Tasks]
  /\ MaxDepth \in Nat \ {0}
  /\ MaxRare \in Nat

VARIABLES
  archiveGate,    \* fx_archiveGate: 0 open, 1 pending, 2 exclusive
  killGate,       \* fx_effectKillGate: 0 open, 1 closed, 2 and exclusive
  iteratorCount,  \* FxSystem.iteratorCount: readers, or -1
  generation,     \* of the life of the system, counted up by each reset
  isInitialized,
  needsGarbageCollection,
  allocOwner,     \* CRITSECT_FX_ALLOC
  leaseOwner,     \* g_restoreOwnerCookie
  \* the threads: what each does next, how far it is in the allocator, the
  \* generation it started in, its nested iterations, whether it waits
  pc,
  alloc,
  admission,
  depth,
  waits,
  \* history
  rare,           \* the saves, restores and resets begun
  leaked          \* readers counted in the word that no thread answers for

gates == <<archiveGate, killGate>>
life == <<generation, isInitialized, needsGarbageCollection>>
owners == <<allocOwner, leaseOwner>>
locals == <<alloc, admission, depth, waits>>
history == <<rare, leaked>>
vars == <<gates, iteratorCount, life, owners, pc, locals, history>>

-----------------------------------------------------------------------------

Init ==
  /\ archiveGate = 0
  /\ killGate = 0
  /\ iteratorCount = 0
  /\ generation = 0
  /\ isInitialized = TRUE
  /\ needsGarbageCollection = FALSE
  /\ allocOwner = Nobody
  /\ leaseOwner = Nobody
  /\ pc = [t \in Threads |-> "idle"]
  /\ alloc = [t \in Threads |-> "outside"]
  /\ admission = [t \in Threads |-> 0]
  /\ depth = [t \in Threads |-> 0]
  /\ waits = [t \in Threads |-> FALSE]
  /\ rare = 0
  /\ leaked = 0

\* The system is the one the thread set out for, and initialized.
SameLife(t) == admission[t] = generation /\ isInitialized

Goes(t, from, to) ==
  /\ pc[t] = from
  /\ alloc[t] = "outside"
  /\ pc' = [pc EXCEPT ![t] = to]

\* A thread waits until it sees that something holds.
Sees(t, from, holds, to) ==
  /\ holds
  /\ Goes(t, from, to)
  /\ UNCHANGED <<gates, iteratorCount, life, owners, locals, history>>

\* A thread looks, and goes on by what it saw.
Looks(t, from, holds, to, otherwise) ==
  \/ Sees(t, from, holds, to)
  \/ Sees(t, from, ~holds, otherwise)

\* A thread starts a task of the life it sees now.
Starts(t, task, to) ==
  /\ task \in MayDo[t]
  /\ Goes(t, "idle", to)
  /\ admission' = [admission EXCEPT ![t] = generation]
  /\ UNCHANGED <<gates, iteratorCount, life, owners, alloc, depth>>

\* FxIteratorTryBeginExclusive, FxIteratorEndExclusive
Takes(t, from, to) ==
  /\ Goes(t, from, to)
  /\ iteratorCount = 0
  /\ iteratorCount' = -1
  /\ UNCHANGED <<gates, life, owners, locals, history>>

Releases(t, from, to) ==
  /\ Goes(t, from, to)
  /\ iteratorCount' = IF iteratorCount = -1 THEN 0 ELSE iteratorCount
  /\ UNCHANGED <<gates, life, owners, locals, history>>

\* FxIteratorBeginCooperative, FxIteratorEndCooperative
Joins(t, from, to) ==
  /\ Goes(t, from, to)
  /\ iteratorCount >= 0
  /\ iteratorCount' = iteratorCount + 1
  /\ depth' = [depth EXCEPT ![t] = @ + 1]
  /\ UNCHANGED <<gates, life, owners, alloc, admission, waits, history>>

Leaves(t, from, to) ==
  /\ Goes(t, from, to)
  /\ iteratorCount' = iteratorCount - 1
  /\ depth' = [depth EXCEPT ![t] = @ - 1]
  /\ UNCHANGED <<gates, life, owners, alloc, admission, waits, history>>

\* The exchanges of the gates.
SetsArchiveGate(t, from, old, new, to) ==
  /\ Goes(t, from, to)
  /\ archiveGate = old
  /\ archiveGate' = new
  /\ UNCHANGED <<killGate, iteratorCount, life, owners, locals, history>>

SetsKillGate(t, from, old, new, to) ==
  /\ Goes(t, from, to)
  /\ killGate = old
  /\ killGate' = new
  /\ UNCHANGED <<archiveGate, iteratorCount, life, owners, locals, history>>

-----------------------------------------------------------------------------
(* FX_BeginIteratingOverEffects_Cooperative, which waits for the gates, and  *)
(* the Try form, which gives up instead.                                     *)

BeginIterating(t) ==
  /\ \E task \in {"iterate", "try"} :
       /\ Starts(t, task, "seeArchive")
       /\ waits' = [waits EXCEPT ![t] = task = "iterate"]
  /\ UNCHANGED history

SeeGates(t) ==
  \/ Sees(t, "seeArchive", archiveGate = 0, "seeKill")
  \/ Sees(t, "seeKill", killGate = 0, "join")
  \/ Sees(t, "seeArchive", archiveGate # 0 /\ ~waits[t], "idle")
  \/ Sees(t, "seeKill", killGate # 0 /\ ~waits[t], "idle")
  \/ Sees(t, "join", iteratorCount < 0 /\ ~waits[t], "idle")

Join(t) == Joins(t, "join", "recheckArchive")

\* A faulty entrant that trusts what it saw before it was counted.
TrustKillGate(t) ==
  \/ Looks(t, "recheckArchive", archiveGate = 0 /\ SameLife(t), "recheckKill",
           "rollBack")
  \/ Sees(t, "recheckKill", TRUE, "reading")

\* The gates and the life are read again once the thread is counted.
Recheck(t) ==
  \/ Looks(t, "recheckArchive", archiveGate = 0 /\ SameLife(t), "recheckKill",
           "rollBack")
  \/ Looks(t, "recheckKill", killGate = 0, "reading", "rollBack")

RollBack(t) ==
  \/ waits[t] /\ SameLife(t) /\ Leaves(t, "rollBack", "seeArchive")
  \/ ~(waits[t] /\ SameLife(t)) /\ Leaves(t, "rollBack", "idle")

\* A faulty nested iteration that waits for the gates like the first.
NestBehindGates(t) ==
  /\ Goes(t, "reading", "seeArchive")
  /\ depth[t] < MaxDepth
  /\ waits' = [waits EXCEPT ![t] = TRUE]
  /\ UNCHANGED <<gates, iteratorCount, life, owners, alloc, admission, depth,
                 history>>

\* A thread that iterates already passes the gates.
Nest(t) ==
  /\ depth[t] < MaxDepth
  /\ \E place \in {"reading", "restarting"} : Joins(t, place, place)

\* FX_EndIteratingOverEffects_Cooperative: the last one out looks whether a
\* collection was asked for.  An error that unwinds the thread releases all
\* its iterations and does not look.
EndIterating(t) ==
  \/ /\ depth[t] > 1
     /\ \E place \in {"reading", "restarting"} : Leaves(t, place, place)
  \/ depth[t] = 1 /\ iteratorCount = 1 /\ Leaves(t, "reading", "seeRequest")
  \/ depth[t] = 1 /\ Leaves(t, "reading", "idle")

\* An effect whose last reference was dropped.
RequestGarbageCollection(t) ==
  /\ pc[t] \in {"reading", "killing"}
  /\ needsGarbageCollection' = TRUE
  /\ UNCHANGED <<gates, iteratorCount, generation, isInitialized, owners, pc,
                 locals, history>>

-----------------------------------------------------------------------------
(* FX_RunGarbageCollection, FX_BeginIteratingOverEffects_Exclusive: tries.   *)

SeeRequest(t) ==
  \/ Sees(t, "seeRequest", ~needsGarbageCollection, "idle")
  \/ /\ needsGarbageCollection
     /\ Goes(t, "seeRequest", "seeArchiveCollect")
     /\ admission' = [admission EXCEPT ![t] = generation]
     /\ UNCHANGED <<gates, iteratorCount, life, owners, alloc, depth, waits,
                    history>>

TakeCollect(t) ==
  \/ Looks(t, "seeArchiveCollect", archiveGate = 0, "takeCollect", "idle")
  \/ Takes(t, "takeCollect", "recheckCollect")
  \/ Sees(t, "takeCollect", iteratorCount # 0, "idle")

RecheckCollect(t) ==
  \/ Sees(t, "recheckCollect", ~(archiveGate = 0 /\ SameLife(t)), "endCollect")
  \/ /\ archiveGate = 0 /\ SameLife(t)
     /\ Goes(t, "recheckCollect", "collecting")
     /\ needsGarbageCollection' = FALSE
     /\ UNCHANGED <<gates, iteratorCount, generation, isInitialized, owners,
                    locals, history>>

EndCollect(t) ==
  \E place \in {"collecting", "endCollect"} : Releases(t, place, "idle")

-----------------------------------------------------------------------------
(* FX_SortEffects, FX_WaitBeginIteratingOverEffects_Exclusive: waits, but    *)
(* not for the kill gate.                                                    *)

BeginSort(t) ==
  /\ Starts(t, "sort", "seeSort")
  /\ UNCHANGED <<waits, history>>

TakeSort(t) ==
  \/ Sees(t, "seeSort", archiveGate = 0, "takeSort")
  \/ Takes(t, "takeSort", "recheckSort")

\* A faulty sort that does not look whether the system is still the same.
SortAnyLife(t) ==
  Looks(t, "recheckSort", archiveGate = 0, "sorting", "undoSort")

RecheckSort(t) ==
  Looks(t, "recheckSort", archiveGate = 0 /\ SameLife(t), "sorting", "undoSort")

EndSort(t) ==
  \/ Releases(t, "sorting", "idle")
  \/ SameLife(t) /\ Releases(t, "undoSort", "seeSort")
  \/ ~SameLife(t) /\ Releases(t, "undoSort", "idle")

-----------------------------------------------------------------------------
(* FX_BeginEffectKillExclusive and its End, for a kill and for a rewind.     *)

BeginKill(t) ==
  /\ \E task \in {"kill", "rewind"} : Starts(t, task, "closeKill")
  /\ UNCHANGED <<waits, history>>

\* An archive that only waits for the word lets the kill go first.
TakeKill(t) ==
  \/ SetsKillGate(t, "closeKill", 0, 1, "seeArchiveKill")
  \/ Sees(t, "seeArchiveKill", archiveGate = 0, "takeKill")
  \/ Takes(t, "takeKill", "recheckArchiveKill")
  \/ Looks(t, "recheckArchiveKill", archiveGate # 2 /\ SameLife(t),
           "promoteKill", "undoKill")
  \/ SetsKillGate(t, "promoteKill", 1, 2, "killing")

UndoKill(t) ==
  \/ SameLife(t) /\ Releases(t, "undoKill", "seeArchiveKill")
  \/ ~SameLife(t) /\ Releases(t, "undoKill", "failKill")

\* The kill gives up and leaves its work to the collector; a rewind fails.
FailKill(t) ==
  /\ Goes(t, "failKill", "idle")
  /\ killGate = 1
  /\ killGate' = 0
  /\ needsGarbageCollection' \in {needsGarbageCollection, TRUE}
  /\ UNCHANGED <<archiveGate, iteratorCount, generation, isInitialized, owners,
                 locals, history>>

EndKill(t) ==
  \/ Releases(t, "killing", "openKill")
  \/ \E to \in {"seeRequest", "idle"} : SetsKillGate(t, "openKill", 2, 0, to)

\* A rewind collects under the word it owns already ...
CollectKilled(t) ==
  /\ "rewind" \in MayDo[t]
  /\ pc[t] = "killing"
  /\ needsGarbageCollection
  /\ needsGarbageCollection' = FALSE
  /\ UNCHANGED <<gates, iteratorCount, generation, isInitialized, owners, pc,
                 locals, history>>

\* ... and becomes a reader to restart effects
\* (FX_DowngradeEffectKillExclusiveToCooperative).
Downgrade(t) ==
  /\ "rewind" \in MayDo[t]
  /\ Goes(t, "killing", "confirmDowngrade")
  /\ iteratorCount = -1
  /\ iteratorCount' = 1
  /\ depth' = [depth EXCEPT ![t] = 1]
  /\ UNCHANGED <<gates, life, owners, alloc, admission, waits, history>>

\* The kill gate is closed, but an entrant that saw it open may be counted
\* already: then the rewind fails, and drops the iteration it was given.
ConfirmDowngrade(t) ==
  Looks(t, "confirmDowngrade", iteratorCount = 1, "restarting", "failDowngrade")

\* The word is taken back if it is as the rewind left it; what remains is left
\* to FX_AbandonCurrentThreadEffectKillExclusiveForError.
FailDowngrade(t) ==
  /\ depth' = [depth EXCEPT ![t] = 0]
  /\ \/ /\ iteratorCount = 1
        /\ Goes(t, "failDowngrade", "abandonWord")
        /\ iteratorCount' = -1
        /\ UNCHANGED leaked
     \/ /\ iteratorCount # 1
        /\ Goes(t, "failDowngrade", "abandonKill")
        /\ leaked' = leaked + 1
        /\ UNCHANGED iteratorCount
  /\ UNCHANGED <<gates, life, owners, alloc, admission, waits, rare>>

Abandon(t) ==
  \/ Releases(t, "abandonWord", "abandonKill")
  \/ SetsKillGate(t, "abandonKill", 2, 0, "idle")

\* FX_EndEffectRestartGate
EndRestart(t) == SetsKillGate(t, "restarting", 2, 0, "reading")

-----------------------------------------------------------------------------
(* FX_BeginArchive (AcquireArchiveGate) and FX_EndArchive, for a save and,   *)
(* once the effect table is restored, for a restore.                         *)

BeginRare(t, task, to) ==
  /\ rare < MaxRare
  /\ rare' = rare + 1
  /\ Starts(t, task, to)
  /\ UNCHANGED <<waits, leaked>>

BeginSave(t) == BeginRare(t, "save", "claimArchive")

\* A faulty claim that stores instead of comparing first.
OverwriteArchiveGate(t) ==
  \/ Sees(t, "claimArchive", leaseOwner = Nobody, "closePending")
  \/ SetsArchiveGate(t, "closePending", archiveGate, 1, "recheckLease")

ClaimArchive(t) ==
  \/ Looks(t, "claimArchive", leaseOwner = Nobody, "closePending", "idle")
  \/ SetsArchiveGate(t, "closePending", 0, 1, "recheckLease")
  \/ Sees(t, "closePending", archiveGate # 0, "idle")

\* A faulty claim that does not look at the lease again.
TrustLease(t) == Sees(t, "recheckLease", TRUE, "takeArchive")

RecheckLease(t) ==
  Looks(t, "recheckLease", leaseOwner = Nobody, "takeArchive", "openPending")

\* The claim keeps new iterations out while it waits for the word.
TakeArchive(t) ==
  \/ Takes(t, "takeArchive", "promoteArchive")
  \/ Sees(t, "takeArchive", iteratorCount # 0 /\ ~SameLife(t), "openPending")
  \/ SetsArchiveGate(t, "openPending", 1, 0, "idle")
  \/ SetsArchiveGate(t, "promoteArchive", 1, 2, "validateArchive")
  \/ Looks(t, "validateArchive", SameLife(t) /\ leaseOwner = Nobody,
           "drainAllocator", "endArchive")

\* The snapshot is taken under the allocator's lock, and once it is released
\* the gate keeps new allocations out.
DrainAllocator(t) ==
  /\ \/ /\ Goes(t, "drainAllocator", "drained")
        /\ allocOwner = Nobody
        /\ allocOwner' = t
     \/ Goes(t, "drained", "archiving") /\ allocOwner' = Nobody
  /\ UNCHANGED <<gates, iteratorCount, life, leaseOwner, locals, history>>

EndArchive(t) ==
  \/ \E place \in {"archiving", "endArchive"} : Releases(t, place, "openArchive")
  \/ SetsArchiveGate(t, "openArchive", 2, 0, "idle")

-----------------------------------------------------------------------------
(* RestoreEffectTable: the lease and the archive gate are a handshake.       *)

BeginRestore(t) == BeginRare(t, "restore", "precheck")

\* FX_EffectTableRestoreLifecycleIsCurrent: the gate is read first, and the
\* generation only grows, so that one step with both is the same.
IsCurrent(t) == archiveGate = 0 /\ admission[t] = generation

TakeLease(t) ==
  \/ Looks(t, "precheck", IsCurrent(t), "takeLease", "idle")
  \/ Sees(t, "takeLease", leaseOwner # Nobody, "idle")
  \/ /\ Goes(t, "takeLease", "validateLease")
     /\ leaseOwner = Nobody
     /\ leaseOwner' = t
     /\ UNCHANGED <<gates, iteratorCount, life, allocOwner, locals, history>>

\* The table is read, and its effects are registered, while the lease is valid.
ValidateLease(t) ==
  \/ Looks(t, "validateLease", IsCurrent(t), "restoring", "failRestore")
  \/ Sees(t, "restoring", TRUE, "failRestore")

ReleaseLease(t) ==
  /\ \/ Goes(t, "failRestore", "idle")
     \/ Goes(t, "restoring", "beginArchive")
  /\ leaseOwner' = Nobody
  /\ UNCHANGED <<gates, iteratorCount, life, allocOwner, locals, history>>

BeginArchive(t) ==
  Looks(t, "beginArchive", admission[t] = generation, "claimArchive", "idle")

-----------------------------------------------------------------------------
(* FX_InitSystem, FX_ResetSystem, FX_ShutdownSystem: FX_BeginLifecycleClaim  *)
(* never waits for a gate, it fails.                                         *)

BeginReset(t) ==
  BeginRare(t, "reset", IF leaseOwner = Nobody THEN "closeArchive" ELSE "idle")

\* The lease is looked at again whenever the claim has got further.
ClaimReset(t) ==
  \/ SetsArchiveGate(t, "closeArchive", 0, 2, "seeLease")
  \/ Sees(t, "closeArchive", archiveGate # 0, "idle")
  \/ Looks(t, "seeLease", leaseOwner = Nobody, "closeKillReset", "openReset")
  \/ SetsKillGate(t, "closeKillReset", 0, 1, "drainReset")
  \/ Sees(t, "closeKillReset", killGate # 0, "openReset")
  \/ Looks(t, "seeLeaseDrained", leaseOwner = Nobody, "takeReset",
           "openKillReset")
  \/ Takes(t, "takeReset", "seeLeaseTaken")
  \/ Sees(t, "takeReset", iteratorCount # 0, "openKillReset")
  \/ Looks(t, "seeLeaseTaken", leaseOwner = Nobody, "resetting", "endReset")

DrainReset(t) ==
  /\ \/ /\ Goes(t, "drainReset", "drainedReset")
        /\ allocOwner = Nobody
        /\ allocOwner' = t
     \/ Goes(t, "drainedReset", "seeLeaseDrained") /\ allocOwner' = Nobody
  /\ UNCHANGED <<gates, iteratorCount, life, leaseOwner, locals, history>>

\* A new life begins, or the old one ends.
Reset(t) ==
  /\ Goes(t, "resetting", "endReset")
  /\ generation' = generation + 1
  /\ isInitialized' \in BOOLEAN
  /\ needsGarbageCollection' = FALSE
  /\ UNCHANGED <<gates, iteratorCount, owners, locals, history>>

EndReset(t) ==
  \/ Releases(t, "endReset", "openKillReset")
  \/ SetsKillGate(t, "openKillReset", 1, 0, "openReset")
  \/ SetsArchiveGate(t, "openReset", 2, 0, "idle")

-----------------------------------------------------------------------------
(* FX_EnterArchiveAwarePoolCriticalSection, from wherever pools are used.    *)

Enters(t, from, to) ==
  /\ alloc[t] = from
  /\ alloc' = [alloc EXCEPT ![t] = to]

SeeAllocGate(t) ==
  /\ \/ /\ "allocate" \in MayDo[t]
        /\ depth[t] <= 1
        /\ pc[t] \in {"idle", "reading", "restarting", "killing", "collecting"}
        /\ Enters(t, "outside", "see")
     \/ archiveGate # 2 /\ Enters(t, "see", "lock")
  /\ UNCHANGED <<gates, iteratorCount, life, owners, pc, admission, depth,
                 waits, history>>

LockAlloc(t) ==
  /\ Enters(t, "lock", "recheck")
  /\ allocOwner = Nobody
  /\ allocOwner' = t
  /\ UNCHANGED <<gates, iteratorCount, life, leaseOwner, pc, admission, depth,
                 waits, history>>

\* A faulty entrant that does not look at the gate again.
TrustAllocGate(t) ==
  /\ Enters(t, "recheck", "inside")
  /\ UNCHANGED <<gates, iteratorCount, life, owners, pc, admission, depth,
                 waits, history>>

RecheckAllocGate(t) ==
  /\ archiveGate # 2
  /\ Enters(t, "recheck", "inside")
  /\ UNCHANGED <<gates, iteratorCount, life, owners, pc, admission, depth,
                 waits, history>>

UnlockAlloc(t) ==
  /\ \/ archiveGate = 2 /\ Enters(t, "recheck", "see")
     \/ Enters(t, "inside", "outside")
  /\ allocOwner' = Nobody
  /\ UNCHANGED <<gates, iteratorCount, life, leaseOwner, pc, admission, depth,
                 waits, history>>

-----------------------------------------------------------------------------

Iterate(t) ==
  \/ SeeGates(t) \/ Join(t) \/ Recheck(t) \/ RollBack(t) \/ EndIterating(t)

Collect(t) ==
  \/ SeeRequest(t) \/ TakeCollect(t) \/ RecheckCollect(t) \/ EndCollect(t)

Sort(t) == TakeSort(t) \/ RecheckSort(t) \/ EndSort(t)

Kill(t) == TakeKill(t) \/ UndoKill(t) \/ FailKill(t) \/ EndKill(t)

Rewind(t) ==
  \/ Downgrade(t) \/ ConfirmDowngrade(t) \/ FailDowngrade(t) \/ Abandon(t)
  \/ EndRestart(t)

Archive(t) ==
  \/ ClaimArchive(t) \/ RecheckLease(t) \/ TakeArchive(t) \/ DrainAllocator(t)
  \/ EndArchive(t)

Restore(t) ==
  \/ TakeLease(t) \/ ValidateLease(t) \/ ReleaseLease(t) \/ BeginArchive(t)

ResetSystem(t) == ClaimReset(t) \/ DrainReset(t) \/ Reset(t) \/ EndReset(t)

Allocate(t) ==
  SeeAllocGate(t) \/ LockAlloc(t) \/ RecheckAllocGate(t) \/ UnlockAlloc(t)

Begin(t) ==
  \/ BeginIterating(t) \/ BeginSort(t) \/ BeginKill(t) \/ BeginSave(t)
  \/ BeginRestore(t) \/ BeginReset(t)

Next ==
  \E t \in Threads :
    \/ Begin(t) \/ Iterate(t) \/ Nest(t) \/ RequestGarbageCollection(t)
    \/ Collect(t) \/ Sort(t) \/ Kill(t) \/ CollectKilled(t) \/ Rewind(t)
    \/ Archive(t) \/ Restore(t) \/ ResetSystem(t) \/ Allocate(t)

Spec == Init /\ [][Next]_vars

\* A thread that finds again and again that it may go on goes on, the end of a
\* spin included; and what it does inside an iteration, it finishes.
Advance(t) ==
  /\ \/ Iterate(t) \/ Collect(t) \/ Sort(t) \/ Kill(t) \/ Rewind(t)
     \/ Archive(t) \/ Restore(t) \/ ResetSystem(t)
  /\ pc'[t] # pc[t]

Fairness ==
  \A t \in Threads :
    /\ SF_vars(Advance(t))
    /\ SF_vars(EndIterating(t) \/ (Allocate(t) /\ alloc[t] # "outside"))

FairSpec == Spec /\ Fairness

-----------------------------------------------------------------------------
(* Properties.                                                              *)

\* The threads that are counted in the word, those that own it alone, those
\* that hold the kill gate or the archive gate, by what they have done.
Counted == {"recheckArchive", "recheckKill", "rollBack", "reading",
            "confirmDowngrade", "failDowngrade", "restarting"}
CollectOwners == {"recheckCollect", "collecting", "endCollect"}
SortOwners == {"recheckSort", "sorting", "undoSort"}
KillOwners == {"recheckArchiveKill", "undoKill", "promoteKill", "killing",
               "abandonWord"}
ArchiveOwners == {"promoteArchive", "validateArchive", "drainAllocator",
                  "drained", "archiving", "endArchive"}
ResetOwners == {"seeLeaseTaken", "resetting", "endReset"}
Owners == CollectOwners \cup SortOwners \cup KillOwners \cup ArchiveOwners
            \cup ResetOwners

KillClosed ==
  {"seeArchiveKill", "takeKill", "recheckArchiveKill", "undoKill",
   "promoteKill", "failKill", "drainReset", "drainedReset", "seeLeaseDrained",
   "takeReset", "seeLeaseTaken", "resetting", "endReset", "openKillReset"}
KillExclusive ==
  {"killing", "openKill", "confirmDowngrade", "failDowngrade", "abandonWord",
   "abandonKill", "restarting"}
ArchivePending == {"recheckLease", "takeArchive", "openPending",
                   "promoteArchive"}
ArchiveExclusive ==
  {"validateArchive", "drainAllocator", "drained", "archiving", "endArchive",
   "openArchive", "seeLease", "closeKillReset", "drainReset", "drainedReset",
   "seeLeaseDrained", "takeReset", "seeLeaseTaken", "resetting", "endReset",
   "openKillReset", "openReset"}

Places ==
  {"idle", "seeArchive", "seeKill", "join", "seeRequest", "seeArchiveCollect",
   "takeCollect", "seeSort", "takeSort", "closeKill", "claimArchive",
   "closePending", "precheck", "takeLease", "validateLease", "restoring",
   "failRestore", "beginArchive", "closeArchive"}
    \cup Counted \cup Owners
    \cup KillClosed \cup KillExclusive \cup ArchivePending
    \cup ArchiveExclusive

TypeOK ==
  /\ archiveGate \in 0..2
  /\ killGate \in 0..2
  /\ iteratorCount \in Nat \cup {-1}
  /\ generation \in Nat
  /\ isInitialized \in BOOLEAN
  /\ needsGarbageCollection \in BOOLEAN
  /\ allocOwner \in Threads \cup {Nobody}
  /\ leaseOwner \in Threads \cup {Nobody}
  /\ pc \in [Threads -> Places]
  /\ alloc \in [Threads -> {"outside", "see", "lock", "recheck", "inside"}]
  /\ admission \in [Threads -> Nat]
  /\ depth \in [Threads -> 0..MaxDepth]
  /\ waits \in [Threads -> BOOLEAN]
  /\ rare \in Nat
  /\ leaked \in Nat

\* Every release and promotion finds the word and the gates as its caller
\* left them: the returns false, the drops "failed to release ..." and
\* "failed to roll back ..." and the Sys_Error "Unable to roll back FX
\* lifecycle ownership safely" never happen.
ChecksHold ==
  \A t \in Threads :
    /\ pc[t] \in Counted => iteratorCount > 0
    /\ pc[t] \in Owners => iteratorCount = -1
    /\ pc[t] \in KillClosed => killGate = 1
    /\ pc[t] \in KillExclusive => killGate = 2
    /\ pc[t] \in ArchivePending => archiveGate = 1
    /\ pc[t] \in ArchiveExclusive => archiveGate = 2

\* No pool is changed while it is archived or reset: an allocator that saw
\* the gate open before is drained, a later one turns back.
AllocatorsExcluded ==
  \A t, u \in Threads :
    ~ (pc[t] \in {"archiving", "resetting"} /\ alloc[u] = "inside")

\* Who restores the effect table has the lease of the life he began in, and
\* no archive and no reset gets past its second look at the lease.
LeaseExcludes ==
  \A t \in Threads :
    pc[t] = "restoring" =>
      /\ leaseOwner = t
      /\ admission[t] = generation
      /\ \A u \in Threads :
           pc[u] \notin ArchiveOwners \cup ResetOwners \cup {"takeArchive"}

\* Nobody works on the effects of a system that was reset since he set out.
AdmittedInThisLife ==
  \A t \in Threads :
    pc[t] \in {"reading", "restarting", "collecting", "sorting", "killing",
               "drainAllocator", "drained", "archiving"} => SameLife(t)

WhoIs(places) == {t \in Threads : pc[t] \in places}

\* The readers, and among them the rewind that keeps the others out.
Alone == {"confirmDowngrade", "failDowngrade", "restarting"}
Readers == {"reading"} \cup Alone

\* The five words together are a readers-writer lock: whoever iterates is a
\* reader, whoever collects, sorts, kills, archives or resets is the writer,
\* and a rewind becomes a reader without letting a writer in between.
Lock ==
  INSTANCE ReadersWriters WITH
    Threads <- Threads,
    readers <- WhoIs(Readers),
    writer <- WhoIs(Owners),
    alone <- WhoIs(Alone)

ImplementsReadersWriters == Lock!Spec

\* A kill gets in although threads come and go, nest and sort: its gate keeps
\* the new ones out.  Unless a failed rewind has left a reader behind.
KillGetsIn ==
  \A t \in Threads :
    pc[t] = "closeKill" ~> pc[t] \in {"killing", "idle"} \/ leaked > 0

\* A save ends: it gets the effects, or it is refused.
ArchiveEnds ==
  \A t \in Threads :
    pc[t] = "claimArchive" ~> pc[t] = "idle" \/ leaked > 0

\* The word counts no reader who has gone: what an error unwinds is released
\* by FX_ErrorCleanup, a failed rewind's iteration too.
NothingLeaked == leaked = 0

-----------------------------------------------------------------------------
(* Why it works: each gate has one owner at a time, the word counts the      *)
(* iterations of the threads, and a thread that got past its last look at    *)
(* the lease or at the allocator keeps the others from getting as far.       *)

KillInv ==
  /\ \A t \in Threads :
       /\ pc[t] \in KillClosed => killGate = 1
       /\ pc[t] \in KillExclusive => killGate = 2
  /\ \A t, u \in Threads :
       /\ pc[t] \in KillClosed \cup KillExclusive
       /\ pc[u] \in KillClosed \cup KillExclusive
       => t = u

ArchiveInv ==
  /\ \A t \in Threads :
       /\ pc[t] \in ArchivePending => archiveGate = 1
       /\ pc[t] \in ArchiveExclusive => archiveGate = 2
  /\ \A t, u \in Threads :
       /\ pc[t] \in ArchivePending \cup ArchiveExclusive
       /\ pc[u] \in ArchivePending \cup ArchiveExclusive
       => t = u

Iterations == {i \in Threads \X (1..MaxDepth) : i[2] <= depth[i[1]]}

WordInv ==
  /\ \A t \in Threads :
       /\ pc[t] \in Owners => iteratorCount = -1
       /\ pc[t] \in Counted <=> depth[t] > 0
       /\ pc[t] \in Counted \ {"reading", "restarting"} => depth[t] = 1
  /\ \A t, u \in Threads : pc[t] \in Owners /\ pc[u] \in Owners => t = u
  /\ iteratorCount + (IF iteratorCount = -1 THEN 1 ELSE 0)
       = Cardinality(Iterations) + leaked

\* The places behind the last look at the lease.
PastLease == ArchiveOwners \cup ResetOwners
               \cup {"takeArchive", "closeKillReset", "drainReset",
                     "drainedReset", "seeLeaseDrained", "takeReset"}

LeaseInv ==
  \A t \in Threads :
    /\ pc[t] \in {"validateLease", "restoring", "failRestore"}
         <=> leaseOwner = t
    /\ pc[t] = "restoring" =>
         /\ admission[t] = generation
         /\ \A u \in Threads : pc[u] \notin PastLease

\* The places where an archive or a reset has the allocator's lock or had it.
PastDrain == {"drained", "archiving", "drainedReset", "seeLeaseDrained",
              "takeReset", "seeLeaseTaken", "resetting"}

AllocatorInv ==
  \A t \in Threads :
    /\ alloc[t] # "outside" =>
         pc[t] \in {"idle", "reading", "restarting", "killing", "collecting"}
    /\ alloc[t] \in {"recheck", "inside"}
         \/ pc[t] \in {"drained", "drainedReset"} => allocOwner = t
    /\ pc[t] \in PastDrain => \A u \in Threads : alloc[u] # "inside"

LifeInv ==
  \A t \in Threads :
    pc[t] \in {"recheckKill", "reading", "confirmDowngrade", "restarting",
               "collecting", "sorting", "promoteKill", "killing",
               "drainAllocator", "drained", "archiving"} => SameLife(t)

FxInv ==
  TypeOK /\ KillInv /\ ArchiveInv /\ WordInv /\ LeaseInv /\ AllocatorInv
    /\ LifeInv

=============================================================================
