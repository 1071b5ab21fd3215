---------------------------- MODULE FxGate_proofs ----------------------------
(***************************************************************************)
(* Proofs about FxGate, for any number of threads and whatever each of     *)
(* them does.  Every action is one of a few kinds as far as a gate, the    *)
(* word, the lease, the allocator or the life of the system is concerned:  *)
(* first the actions are sorted, then each part of FxInv is shown to       *)
(* survive the kinds of steps that touch it.                               *)
(***************************************************************************)
EXTENDS FxGate, FiniteSetTheorems, TLAPS

\* What a step does to the kill gate: nothing, or its owner changes it.
KillKind(t) ==
  \/ /\ killGate' = killGate
     /\ pc'[t] \in KillClosed <=> pc[t] \in KillClosed
     /\ pc'[t] \in KillExclusive <=> pc[t] \in KillExclusive
  \/ killGate = 0 /\ killGate' = 1 /\ pc'[t] \in KillClosed
  \/ pc[t] \in KillClosed /\ killGate' = 2 /\ pc'[t] \in KillExclusive
  \/ /\ pc[t] \in KillClosed \cup KillExclusive
     /\ killGate' = 0
     /\ pc'[t] \notin KillClosed \cup KillExclusive

ArchiveKind(t) ==
  \/ /\ archiveGate' = archiveGate
     /\ pc'[t] \in ArchivePending <=> pc[t] \in ArchivePending
     /\ pc'[t] \in ArchiveExclusive <=> pc[t] \in ArchiveExclusive
  \/ archiveGate = 0 /\ archiveGate' = 1 /\ pc'[t] \in ArchivePending
  \/ /\ archiveGate = 0 \/ pc[t] \in ArchivePending
     /\ archiveGate' = 2
     /\ pc'[t] \in ArchiveExclusive
  \/ /\ pc[t] \in ArchivePending \cup ArchiveExclusive
     /\ archiveGate' = 0
     /\ pc'[t] \notin ArchivePending \cup ArchiveExclusive

Loose == {"reading", "restarting"}

\* What a step does to the word: it stays, an owner takes it or gives it back,
\* an iteration begins or ends, and the four steps of a downgrade.
StaysKind(t) ==
  /\ iteratorCount' = iteratorCount
  /\ depth' = depth
  /\ leaked' = leaked
  /\ pc'[t] \in Owners <=> pc[t] \in Owners
  /\ pc'[t] \in Counted <=> pc[t] \in Counted
  /\ pc[t] \in Loose => pc'[t] \in Loose

TakesKind(t) ==
  /\ iteratorCount = 0
  /\ iteratorCount' = -1
  /\ depth' = depth
  /\ leaked' = leaked
  /\ pc[t] \notin Counted
  /\ pc'[t] \in Owners

ReleasesKind(t) ==
  /\ pc[t] \in Owners
  /\ iteratorCount' = IF iteratorCount = -1 THEN 0 ELSE iteratorCount
  /\ depth' = depth
  /\ leaked' = leaked
  /\ pc'[t] \notin Owners \cup Counted

JoinsKind(t) ==
  /\ iteratorCount >= 0
  /\ iteratorCount' = iteratorCount + 1
  /\ depth' = [depth EXCEPT ![t] = @ + 1]
  /\ leaked' = leaked
  /\ \/ pc[t] \notin Counted \cup Owners /\ pc'[t] \in Counted \ Loose
     \/ pc[t] \in Loose /\ depth[t] < MaxDepth /\ pc'[t] \in Loose

LeavesKind(t) ==
  /\ pc[t] \in Counted
  /\ iteratorCount' = iteratorCount - 1
  /\ depth' = [depth EXCEPT ![t] = @ - 1]
  /\ leaked' = leaked
  /\ \/ /\ pc[t] \notin Loose \/ depth[t] = 1
        /\ pc'[t] \notin Counted \cup Owners
     \/ pc[t] \in Loose /\ depth[t] > 1 /\ pc'[t] \in Loose

DowngradesKind(t) ==
  /\ pc[t] \in Owners
  /\ iteratorCount' = 1
  /\ depth' = [depth EXCEPT ![t] = 1]
  /\ leaked' = leaked
  /\ pc'[t] \in Counted \ Loose

UpgradesKind(t) ==
  /\ pc[t] \in Counted \ Loose
  /\ iteratorCount = 1
  /\ iteratorCount' = -1
  /\ depth' = [depth EXCEPT ![t] = 0]
  /\ leaked' = leaked
  /\ pc'[t] \in Owners

LeaksKind(t) ==
  /\ pc[t] \in Counted \ Loose
  /\ iteratorCount' = iteratorCount
  /\ depth' = [depth EXCEPT ![t] = 0]
  /\ leaked' = leaked + 1
  /\ pc'[t] \notin Counted \cup Owners

WordKind(t) ==
  \/ StaysKind(t) \/ TakesKind(t) \/ ReleasesKind(t) \/ JoinsKind(t)
  \/ LeavesKind(t) \/ DowngradesKind(t) \/ UpgradesKind(t) \/ LeaksKind(t)

Leasing == {"validateLease", "restoring", "failRestore"}

LeaseKind(t) ==
  \/ /\ UNCHANGED <<leaseOwner, generation, admission>>
     /\ pc'[t] \in Leasing <=> pc[t] \in Leasing
     /\ pc'[t] = "restoring" => pc[t] = "restoring" \/ IsCurrent(t)
     /\ pc'[t] \in PastLease => pc[t] \in PastLease \/ leaseOwner = Nobody
  \/ /\ UNCHANGED <<generation, admission>>
     /\ leaseOwner = Nobody
     /\ leaseOwner' = t
     /\ pc'[t] = "validateLease"
  \/ /\ UNCHANGED <<generation, admission>>
     /\ pc[t] \in Leasing
     /\ leaseOwner' = Nobody
     /\ pc'[t] \notin Leasing \cup PastLease
  \/ /\ UNCHANGED <<leaseOwner, generation>>
     /\ pc[t] \notin Leasing
     /\ admission' = [admission EXCEPT ![t] = generation]
     /\ pc'[t] \notin Leasing \cup PastLease
  \/ /\ UNCHANGED <<leaseOwner, admission>>
     /\ pc[t] = "resetting"
     /\ pc'[t] = "endReset"

Draining == {"drained", "drainedReset"}
Allocating == {"idle", "reading", "restarting", "killing", "collecting"}
Locking == {"recheck", "inside"}

AllocatorKind(t) ==
  \/ /\ UNCHANGED <<alloc, allocOwner>>
     /\ alloc[t] = "outside" \/ pc'[t] = pc[t]
     /\ pc'[t] \in Draining <=> pc[t] \in Draining
     /\ pc'[t] \in PastDrain => pc[t] \in PastDrain
  \/ /\ UNCHANGED alloc
     /\ alloc[t] = "outside"
     /\ allocOwner = Nobody
     /\ allocOwner' = t
     /\ pc'[t] \in Draining
  \/ /\ UNCHANGED alloc
     /\ alloc[t] = "outside"
     /\ pc[t] \in Draining
     /\ allocOwner' = Nobody
     /\ pc'[t] \in PastDrain \ Draining
  \/ /\ UNCHANGED <<pc, allocOwner>>
     /\ alloc' = [alloc EXCEPT ![t] = alloc'[t]]
     /\ \/ pc[t] \in Allocating /\ alloc'[t] = "see"
        \/ alloc[t] = "see" /\ alloc'[t] = "lock"
        \/ alloc[t] = "recheck" /\ alloc'[t] = "inside" /\ archiveGate # 2
     /\ alloc[t] = "recheck" <=> alloc'[t] = "inside"
     /\ alloc[t] # "inside"
  \/ /\ UNCHANGED pc
     /\ alloc[t] = "lock"
     /\ alloc' = [alloc EXCEPT ![t] = "recheck"]
     /\ allocOwner = Nobody
     /\ allocOwner' = t
  \/ /\ UNCHANGED pc
     /\ alloc[t] \in Locking
     /\ alloc' = [alloc EXCEPT ![t] = alloc'[t]]
     /\ alloc'[t] \in {"see", "outside"}
     /\ allocOwner' = Nobody

\* What a step does to the life of the system: one that is at work stays in it.
AtWork == {"recheckKill", "reading", "confirmDowngrade", "restarting",
           "collecting", "sorting", "promoteKill", "killing",
           "drainAllocator", "drained", "archiving"}

LifeKind(t) ==
  \/ /\ UNCHANGED <<generation, isInitialized, admission>>
     /\ pc'[t] \in AtWork => pc[t] \in AtWork \/ SameLife(t)
  \/ /\ UNCHANGED <<generation, isInitialized>>
     /\ admission' = [admission EXCEPT ![t] = generation]
     /\ pc'[t] \notin AtWork
  \/ /\ UNCHANGED admission
     /\ pc[t] = "resetting"
     /\ pc'[t] = "endReset"

\* What a step does to who reads: nothing; a rewind opens its gate, a reader
\* leaves, an owner becomes a reader; or a reader enters by the open kill gate.
ReadRoute(from, to) ==
  \/ /\ to \in Readers <=> from \in Readers
     /\ to \in Alone <=> from \in Alone
  \/ from \in Alone /\ to \in Readers \ Alone
  \/ from \in Readers /\ to \notin Readers
  \/ from \in Owners /\ to \in Alone

Reads(from, to) ==
  /\ killGate = 0
  /\ from \in Counted \ Readers
  /\ to \in Readers \ Alone

ReadKind(t) == ReadRoute(pc[t], pc'[t]) \/ Reads(pc[t], pc'[t])

\* The variables keep their types, and the other threads stay where they are.
Typed(t) ==
  /\ pc' = [pc EXCEPT ![t] = pc'[t]]
  /\ pc'[t] \in Places
  /\ archiveGate' \in 0..2
  /\ killGate' \in 0..2
  /\ generation' \in Nat
  /\ isInitialized' \in BOOLEAN
  /\ needsGarbageCollection' \in BOOLEAN
  /\ allocOwner' \in Threads \cup {Nobody}
  /\ leaseOwner' \in Threads \cup {Nobody}
  /\ alloc' \in [Threads -> {"outside", "see", "lock", "recheck", "inside"}]
  /\ admission' \in [Threads -> Nat]
  /\ waits' \in [Threads -> BOOLEAN]
  /\ rare' \in Nat

Step(t) ==
  /\ Typed(t)
  /\ KillKind(t)
  /\ ArchiveKind(t)
  /\ WordKind(t)
  /\ LeaseKind(t)
  /\ AllocatorKind(t)
  /\ LifeKind(t)
  /\ ReadKind(t)

-----------------------------------------------------------------------------
(* Routes: what the places a step leads from and to say about it.            *)

SameKill(from, to) ==
  /\ to \in KillClosed <=> from \in KillClosed
  /\ to \in KillExclusive <=> from \in KillExclusive

SameArchive(from, to) ==
  /\ to \in ArchivePending <=> from \in ArchivePending
  /\ to \in ArchiveExclusive <=> from \in ArchiveExclusive

SameWord(from, to) ==
  /\ to \in Owners <=> from \in Owners
  /\ to \in Counted <=> from \in Counted
  /\ from \in Loose => to \in Loose

SameLease(from, to) == to \in Leasing <=> from \in Leasing

SameDrain(from, to) ==
  /\ to \in Draining <=> from \in Draining
  /\ to \in PastDrain => from \in PastDrain

\* Who gets to such a place has looked at the life, the gate or the lease.
Admitted(t, from, to) ==
  /\ to = "restoring" => from = "restoring" \/ IsCurrent(t)
  /\ to \in PastLease => from \in PastLease \/ leaseOwner = Nobody
  /\ to \in AtWork => from \in AtWork \/ SameLife(t)
  /\ ReadRoute(from, to) \/ Reads(from, to)

Plain(from, to) ==
  /\ to = "restoring" => from = "restoring"
  /\ to \in PastLease => from \in PastLease
  /\ to \in AtWork => from \in AtWork
  /\ ReadRoute(from, to)

QuietRoute(from, to) ==
  /\ SameKill(from, to) /\ SameArchive(from, to) /\ SameWord(from, to)
  /\ SameLease(from, to) /\ SameDrain(from, to) /\ to \in Places

WordRoute(from, to) ==
  /\ SameKill(from, to) /\ SameArchive(from, to) /\ Plain(from, to)
  /\ SameLease(from, to) /\ SameDrain(from, to) /\ to \in Places

KillRoute(from, to) ==
  /\ SameWord(from, to) /\ SameArchive(from, to) /\ Plain(from, to)
  /\ SameLease(from, to) /\ SameDrain(from, to) /\ to \in Places

ArchiveRoute(from, to) ==
  /\ SameKill(from, to) /\ SameWord(from, to) /\ Plain(from, to)
  /\ SameLease(from, to) /\ SameDrain(from, to) /\ to \in Places

LeaseRoute(from, to) ==
  /\ SameKill(from, to) /\ SameArchive(from, to) /\ Plain(from, to)
  /\ SameWord(from, to) /\ SameDrain(from, to) /\ to \in Places

DrainRoute(from, to) ==
  /\ SameKill(from, to) /\ SameArchive(from, to) /\ Plain(from, to)
  /\ SameWord(from, to) /\ SameLease(from, to) /\ to \in Places

-----------------------------------------------------------------------------
(* Steps along a route.                                                     *)

LEMMA GoesMoves ==
  ASSUME TypeOK, NEW t \in Threads, NEW from, NEW to, Goes(t, from, to)
  PROVE  /\ pc[t] = from
         /\ alloc[t] = "outside"
         /\ pc'[t] = to
         /\ pc' = [pc EXCEPT ![t] = pc'[t]]
  BY DEF Goes, TypeOK

LEMMA PlainAdmitted ==
  ASSUME NEW t \in Threads, NEW from, NEW to, Plain(from, to)
  PROVE  Admitted(t, from, to)
  BY DEF Plain, Admitted

Quietly(t, from, to) ==
  /\ Goes(t, from, to)
  /\ needsGarbageCollection' \in BOOLEAN
  /\ UNCHANGED <<gates, iteratorCount, generation, isInitialized, owners,
                 locals, history>>

LEMMA QuietStep ==
  ASSUME TypeOK, NEW t \in Threads, NEW from, NEW to,
         Quietly(t, from, to), QuietRoute(from, to), Admitted(t, from, to)
  PROVE  Step(t)
  <1> USE GoesMoves DEF Quietly, QuietRoute, gates, owners, locals, history
  <1>1. Typed(t)
    BY DEF Typed, TypeOK
  <1>2. KillKind(t) /\ ArchiveKind(t)
    BY DEF SameKill, SameArchive, KillKind, ArchiveKind
  <1>3. WordKind(t)
    BY DEF SameWord, WordKind, StaysKind
  <1>4. LeaseKind(t)
    BY DEF SameLease, Admitted, LeaseKind
  <1>5. AllocatorKind(t)
    BY DEF SameDrain, AllocatorKind
  <1>6. LifeKind(t)
    BY DEF Admitted, LifeKind
  <1>7. ReadKind(t)
    BY DEF Admitted, ReadKind
  <1> QED
    BY <1>1, <1>2, <1>3, <1>4, <1>5, <1>6, <1>7 DEF Step

Starting(t, from, to) ==
  /\ Goes(t, from, to)
  /\ admission' = [admission EXCEPT ![t] = generation]
  /\ waits' \in [Threads -> BOOLEAN]
  /\ rare' \in Nat
  /\ UNCHANGED <<gates, iteratorCount, life, owners, alloc, depth, leaked>>

StartRoute(from, to) ==
  /\ QuietRoute(from, to)
  /\ ReadRoute(from, to)
  /\ from \notin Leasing
  /\ to \notin PastLease \cup AtWork

LEMMA StartStep ==
  ASSUME TypeOK, NEW t \in Threads, NEW from, NEW to,
         Starting(t, from, to), StartRoute(from, to)
  PROVE  Step(t)
  <1> USE GoesMoves
      DEF Starting, StartRoute, QuietRoute, gates, owners, life
  <1>1. Typed(t)
    BY DEF Typed, TypeOK
  <1>2. KillKind(t) /\ ArchiveKind(t)
    BY DEF SameKill, SameArchive, KillKind, ArchiveKind
  <1>3. WordKind(t)
    BY DEF SameWord, WordKind, StaysKind
  <1>4. LeaseKind(t)
    BY DEF SameLease, LeaseKind
  <1>5. AllocatorKind(t)
    BY DEF SameDrain, AllocatorKind
  <1>6. LifeKind(t)
    BY DEF LifeKind
  <1>7. ReadKind(t)
    BY DEF ReadKind
  <1> QED
    BY <1>1, <1>2, <1>3, <1>4, <1>5, <1>6, <1>7 DEF Step

WordMoves(t, from, to) ==
  /\ Goes(t, from, to)
  /\ UNCHANGED <<gates, life, owners, alloc, admission, waits, rare>>

LEMMA WordStep ==
  ASSUME TypeOK, NEW t \in Threads, NEW from, NEW to,
         WordMoves(t, from, to), WordRoute(from, to), WordKind(t)
  PROVE  Step(t)
  <1> USE GoesMoves DEF WordMoves, WordRoute, gates, owners, life
  <1>1. Typed(t)
    BY DEF Typed, TypeOK
  <1>2. KillKind(t) /\ ArchiveKind(t)
    BY DEF SameKill, SameArchive, KillKind, ArchiveKind
  <1>4. LeaseKind(t)
    BY DEF SameLease, Plain, LeaseKind
  <1>5. AllocatorKind(t)
    BY DEF SameDrain, AllocatorKind
  <1>6. LifeKind(t)
    BY DEF Plain, LifeKind
  <1>7. ReadKind(t)
    BY DEF Plain, ReadKind
  <1> QED
    BY <1>1, <1>2, <1>4, <1>5, <1>6, <1>7 DEF Step

KillMoves(t, from, to) ==
  /\ Goes(t, from, to)
  /\ killGate' \in 0..2
  /\ needsGarbageCollection' \in BOOLEAN
  /\ UNCHANGED <<archiveGate, iteratorCount, generation, isInitialized, owners,
                 locals, history>>

LEMMA KillStep ==
  ASSUME TypeOK, NEW t \in Threads, NEW from, NEW to,
         KillMoves(t, from, to), KillRoute(from, to), KillKind(t)
  PROVE  Step(t)
  <1> USE GoesMoves DEF KillMoves, KillRoute, owners, locals, history
  <1>1. Typed(t)
    BY DEF Typed, TypeOK
  <1>2. ArchiveKind(t)
    BY DEF SameArchive, ArchiveKind
  <1>3. WordKind(t)
    BY DEF SameWord, WordKind, StaysKind
  <1>4. LeaseKind(t)
    BY DEF SameLease, Plain, LeaseKind
  <1>5. AllocatorKind(t)
    BY DEF SameDrain, AllocatorKind
  <1>6. LifeKind(t)
    BY DEF Plain, LifeKind
  <1>7. ReadKind(t)
    BY DEF Plain, ReadKind
  <1> QED
    BY <1>1, <1>2, <1>3, <1>4, <1>5, <1>6, <1>7 DEF Step

ArchiveMoves(t, from, to) ==
  /\ Goes(t, from, to)
  /\ archiveGate' \in 0..2
  /\ UNCHANGED <<killGate, iteratorCount, life, owners, locals, history>>

LEMMA ArchiveStep ==
  ASSUME TypeOK, NEW t \in Threads, NEW from, NEW to,
         ArchiveMoves(t, from, to), ArchiveRoute(from, to), ArchiveKind(t)
  PROVE  Step(t)
  <1> USE GoesMoves DEF ArchiveMoves, ArchiveRoute, owners, life, locals,
      history
  <1>1. Typed(t)
    BY DEF Typed, TypeOK
  <1>2. KillKind(t)
    BY DEF SameKill, KillKind
  <1>3. WordKind(t)
    BY DEF SameWord, WordKind, StaysKind
  <1>4. LeaseKind(t)
    BY DEF SameLease, Plain, LeaseKind
  <1>5. AllocatorKind(t)
    BY DEF SameDrain, AllocatorKind
  <1>6. LifeKind(t)
    BY DEF Plain, LifeKind
  <1>7. ReadKind(t)
    BY DEF Plain, ReadKind
  <1> QED
    BY <1>1, <1>2, <1>3, <1>4, <1>5, <1>6, <1>7 DEF Step

LeaseMoves(t, from, to) ==
  /\ Goes(t, from, to)
  /\ leaseOwner' \in Threads \cup {Nobody}
  /\ UNCHANGED <<gates, iteratorCount, life, allocOwner, locals, history>>

LEMMA LeaseStep ==
  ASSUME TypeOK, NEW t \in Threads, NEW from, NEW to,
         LeaseMoves(t, from, to), LeaseRoute(from, to), LeaseKind(t)
  PROVE  Step(t)
  <1> USE GoesMoves DEF LeaseMoves, LeaseRoute, gates, life, locals, history
  <1>1. Typed(t)
    BY DEF Typed, TypeOK
  <1>2. KillKind(t) /\ ArchiveKind(t)
    BY DEF SameKill, SameArchive, KillKind, ArchiveKind
  <1>3. WordKind(t)
    BY DEF SameWord, WordKind, StaysKind
  <1>5. AllocatorKind(t)
    BY DEF SameDrain, AllocatorKind
  <1>6. LifeKind(t)
    BY DEF Plain, LifeKind
  <1>7. ReadKind(t)
    BY DEF Plain, ReadKind
  <1> QED
    BY <1>1, <1>2, <1>3, <1>5, <1>6, <1>7 DEF Step

DrainMoves(t, from, to) ==
  /\ Goes(t, from, to)
  /\ allocOwner' \in Threads \cup {Nobody}
  /\ UNCHANGED <<gates, iteratorCount, life, leaseOwner, locals, history>>

LEMMA DrainStep ==
  ASSUME TypeOK, NEW t \in Threads, NEW from, NEW to,
         DrainMoves(t, from, to), DrainRoute(from, to), AllocatorKind(t)
  PROVE  Step(t)
  <1> USE GoesMoves DEF DrainMoves, DrainRoute, gates, life, locals, history
  <1>1. Typed(t)
    BY DEF Typed, TypeOK
  <1>2. KillKind(t) /\ ArchiveKind(t)
    BY DEF SameKill, SameArchive, KillKind, ArchiveKind
  <1>3. WordKind(t)
    BY DEF SameWord, WordKind, StaysKind
  <1>4. LeaseKind(t)
    BY DEF SameLease, Plain, LeaseKind
  <1>6. LifeKind(t)
    BY DEF Plain, LifeKind
  <1>7. ReadKind(t)
    BY DEF Plain, ReadKind
  <1> QED
    BY <1>1, <1>2, <1>3, <1>4, <1>6, <1>7 DEF Step

-----------------------------------------------------------------------------
(* The routes of the actions.                                               *)

PlainRoute(from, to) == QuietRoute(from, to) /\ Plain(from, to)

TakeRoute(from, to) ==
  WordRoute(from, to) /\ from \notin Counted /\ to \in Owners

ReleaseRoute(from, to) ==
  WordRoute(from, to) /\ from \in Owners /\ to \notin Owners \cup Counted

KillCloseRoute(from, to) == KillRoute(from, to) /\ to \in KillClosed

KillPromoteRoute(from, to) ==
  KillRoute(from, to) /\ from \in KillClosed /\ to \in KillExclusive

KillOpenRoute(from, to) ==
  /\ KillRoute(from, to)
  /\ from \in KillClosed \cup KillExclusive
  /\ to \notin KillClosed \cup KillExclusive

ArchiveCloseRoute(from, to) ==
  ArchiveRoute(from, to) /\ to \in ArchivePending

ArchivePromoteRoute(from, to) ==
  ArchiveRoute(from, to) /\ to \in ArchiveExclusive

ArchiveOpenRoute(from, to) ==
  /\ ArchiveRoute(from, to)
  /\ from \in ArchivePending \cup ArchiveExclusive
  /\ to \notin ArchivePending \cup ArchiveExclusive

LEMMA PlainRoutes ==
  /\ PlainRoute("seeArchive", "seeKill")
  /\ PlainRoute("seeKill", "join")
  /\ PlainRoute("seeArchive", "idle")
  /\ PlainRoute("seeKill", "idle")
  /\ PlainRoute("join", "idle")
  /\ PlainRoute("recheckArchive", "rollBack")
  /\ PlainRoute("recheckKill", "rollBack")
  /\ PlainRoute("seeRequest", "idle")
  /\ PlainRoute("seeArchiveCollect", "takeCollect")
  /\ PlainRoute("seeArchiveCollect", "idle")
  /\ PlainRoute("takeCollect", "idle")
  /\ PlainRoute("recheckCollect", "endCollect")
  /\ PlainRoute("seeSort", "takeSort")
  /\ PlainRoute("recheckSort", "undoSort")
  /\ PlainRoute("seeArchiveKill", "takeKill")
  /\ PlainRoute("recheckArchiveKill", "undoKill")
  /\ PlainRoute("confirmDowngrade", "restarting")
  /\ PlainRoute("confirmDowngrade", "failDowngrade")
  /\ PlainRoute("claimArchive", "closePending")
  /\ PlainRoute("claimArchive", "idle")
  /\ PlainRoute("closePending", "idle")
  /\ PlainRoute("recheckLease", "openPending")
  /\ PlainRoute("takeArchive", "openPending")
  /\ PlainRoute("validateArchive", "endArchive")
  /\ PlainRoute("precheck", "takeLease")
  /\ PlainRoute("precheck", "idle")
  /\ PlainRoute("takeLease", "idle")
  /\ PlainRoute("validateLease", "failRestore")
  /\ PlainRoute("restoring", "failRestore")
  /\ PlainRoute("beginArchive", "claimArchive")
  /\ PlainRoute("beginArchive", "idle")
  /\ PlainRoute("closeArchive", "idle")
  /\ PlainRoute("seeLease", "openReset")
  /\ PlainRoute("closeKillReset", "openReset")
  /\ PlainRoute("seeLeaseDrained", "takeReset")
  /\ PlainRoute("seeLeaseDrained", "openKillReset")
  /\ PlainRoute("takeReset", "openKillReset")
  /\ PlainRoute("seeLeaseTaken", "resetting")
  /\ PlainRoute("seeLeaseTaken", "endReset")
  BY DEF PlainRoute, QuietRoute, Plain, SameKill, SameArchive, SameWord,
         SameLease, SameDrain, Places, Counted, Owners, CollectOwners,
         SortOwners, KillOwners, ArchiveOwners, ResetOwners, KillClosed,
         KillExclusive, ArchivePending, ArchiveExclusive, Loose, Leasing,
         PastLease, Draining, PastDrain, AtWork, ReadRoute, Readers, Alone

LEMMA DutyRoutes ==
  /\ QuietRoute("recheckArchive", "recheckKill")
  /\ QuietRoute("recheckKill", "reading")
  /\ QuietRoute("recheckCollect", "collecting")
  /\ QuietRoute("recheckSort", "sorting")
  /\ QuietRoute("recheckArchiveKill", "promoteKill")
  /\ QuietRoute("recheckLease", "takeArchive")
  /\ QuietRoute("validateArchive", "drainAllocator")
  /\ QuietRoute("validateLease", "restoring")
  /\ QuietRoute("seeLease", "closeKillReset")
  BY DEF QuietRoute, SameKill, SameArchive, SameWord, SameLease, SameDrain,
         Places, Counted, Owners, CollectOwners, SortOwners,
         KillOwners, ArchiveOwners, ResetOwners, KillClosed, KillExclusive,
         ArchivePending, ArchiveExclusive, Loose, Leasing, PastLease, Draining,
         PastDrain, AtWork, ReadRoute, Readers, Alone

LEMMA StartRoutes ==
  /\ StartRoute("idle", "seeArchive")
  /\ StartRoute("idle", "seeSort")
  /\ StartRoute("idle", "closeKill")
  /\ StartRoute("idle", "claimArchive")
  /\ StartRoute("idle", "precheck")
  /\ StartRoute("idle", "closeArchive")
  /\ StartRoute("idle", "idle")
  /\ StartRoute("seeRequest", "seeArchiveCollect")
  BY DEF StartRoute, QuietRoute, SameKill, SameArchive, SameWord, SameLease,
         SameDrain, Places, Counted, Owners, CollectOwners, SortOwners,
         KillOwners, ArchiveOwners, ResetOwners, KillClosed, KillExclusive,
         ArchivePending, ArchiveExclusive, Loose, Leasing, PastLease,
         Draining, PastDrain, AtWork, ReadRoute, Readers, Alone

LEMMA TakeRoutes ==
  /\ TakeRoute("takeCollect", "recheckCollect")
  /\ TakeRoute("takeSort", "recheckSort")
  /\ TakeRoute("takeKill", "recheckArchiveKill")
  /\ TakeRoute("takeArchive", "promoteArchive")
  /\ TakeRoute("takeReset", "seeLeaseTaken")
  BY DEF TakeRoute, WordRoute, Plain, SameKill, SameArchive,
         SameLease, SameDrain,
         Places, Counted, Owners, CollectOwners, SortOwners,
         KillOwners, ArchiveOwners, ResetOwners, KillClosed, KillExclusive,
         ArchivePending, ArchiveExclusive, Loose, Leasing, PastLease, Draining,
         PastDrain, AtWork, ReadRoute, Readers, Alone

LEMMA ReleaseRoutes ==
  /\ ReleaseRoute("collecting", "idle")
  /\ ReleaseRoute("endCollect", "idle")
  /\ ReleaseRoute("sorting", "idle")
  /\ ReleaseRoute("undoSort", "seeSort")
  /\ ReleaseRoute("undoSort", "idle")
  /\ ReleaseRoute("undoKill", "seeArchiveKill")
  /\ ReleaseRoute("undoKill", "failKill")
  /\ ReleaseRoute("killing", "openKill")
  /\ ReleaseRoute("abandonWord", "abandonKill")
  /\ ReleaseRoute("archiving", "openArchive")
  /\ ReleaseRoute("endArchive", "openArchive")
  /\ ReleaseRoute("endReset", "openKillReset")
  BY DEF ReleaseRoute, WordRoute, Plain, SameKill, SameArchive,
         SameLease, SameDrain,
         Places, Counted, Owners, CollectOwners, SortOwners,
         KillOwners, ArchiveOwners, ResetOwners, KillClosed, KillExclusive,
         ArchivePending, ArchiveExclusive, Loose, Leasing, PastLease, Draining,
         PastDrain, AtWork, ReadRoute, Readers, Alone

LEMMA KillRoutes ==
  /\ KillCloseRoute("closeKill", "seeArchiveKill")
  /\ KillCloseRoute("closeKillReset", "drainReset")
  /\ KillPromoteRoute("promoteKill", "killing")
  /\ KillOpenRoute("failKill", "idle")
  /\ KillOpenRoute("openKill", "seeRequest")
  /\ KillOpenRoute("openKill", "idle")
  /\ KillOpenRoute("abandonKill", "idle")
  /\ KillOpenRoute("restarting", "reading")
  /\ KillOpenRoute("openKillReset", "openReset")
  BY DEF KillCloseRoute, KillPromoteRoute, KillOpenRoute, KillRoute, Plain,
         SameArchive, SameWord, SameLease, SameDrain, Places, Counted, Owners,
         CollectOwners, SortOwners, KillOwners, ArchiveOwners, ResetOwners,
         KillClosed, KillExclusive, ArchivePending, ArchiveExclusive, Loose,
         Leasing, PastLease, Draining, PastDrain, AtWork, ReadRoute, Readers,
         Alone

LEMMA ArchiveRoutes ==
  /\ ArchiveCloseRoute("closePending", "recheckLease")
  /\ ArchivePromoteRoute("closeArchive", "seeLease")
  /\ ArchivePromoteRoute("promoteArchive", "validateArchive")
  /\ ArchiveOpenRoute("openPending", "idle")
  /\ ArchiveOpenRoute("openArchive", "idle")
  /\ ArchiveOpenRoute("openReset", "idle")
  BY DEF ArchiveCloseRoute, ArchivePromoteRoute, ArchiveOpenRoute,
         ArchiveRoute, Plain, SameKill, SameWord, SameLease, SameDrain,
         Places, Counted, Owners, CollectOwners, SortOwners, KillOwners,
         ArchiveOwners, ResetOwners, KillClosed, KillExclusive,
         ArchivePending, ArchiveExclusive, Loose, Leasing, PastLease,
         Draining, PastDrain, AtWork, ReadRoute, Readers, Alone

LEMMA LeaseRoutes ==
  /\ LeaseRoute("takeLease", "validateLease")
  /\ LeaseRoute("failRestore", "idle")
  /\ LeaseRoute("restoring", "beginArchive")
  /\ {"idle", "beginArchive"} \cap (Leasing \cup PastLease) = {}
  BY DEF LeaseRoute, Plain, SameKill, SameArchive, SameWord, SameDrain,
         Places, Counted, Owners, CollectOwners, SortOwners,
         KillOwners, ArchiveOwners, ResetOwners, KillClosed, KillExclusive,
         ArchivePending, ArchiveExclusive, Loose, Leasing, PastLease, Draining,
         PastDrain, AtWork, ReadRoute, Readers, Alone

LEMMA DrainRoutes ==
  /\ DrainRoute("drainAllocator", "drained")
  /\ DrainRoute("drained", "archiving")
  /\ DrainRoute("drainReset", "drainedReset")
  /\ DrainRoute("drainedReset", "seeLeaseDrained")
  /\ {"archiving", "seeLeaseDrained"} \subseteq PastDrain \ Draining
  BY DEF DrainRoute, Plain, SameKill, SameArchive, SameWord, SameLease,
         Places, Counted, Owners, CollectOwners, SortOwners,
         KillOwners, ArchiveOwners, ResetOwners, KillClosed, KillExclusive,
         ArchivePending, ArchiveExclusive, Loose, Leasing, PastLease, Draining,
         PastDrain, AtWork, ReadRoute, Readers, Alone

LEMMA PlainStep ==
  ASSUME TypeOK, NEW t \in Threads, NEW from, NEW to,
         Quietly(t, from, to), PlainRoute(from, to)
  PROVE  Step(t)
  BY PlainAdmitted, QuietStep DEF PlainRoute

LEMMA StaysInPlace ==
  ASSUME TypeOK, UNCHANGED life
  PROVE  needsGarbageCollection' \in BOOLEAN
  BY DEF TypeOK, life

LEMMA TakeStep ==
  ASSUME TypeOK, NEW t \in Threads, NEW from, NEW to,
         Takes(t, from, to), TakeRoute(from, to)
  PROVE  Step(t)
  <1>1. WordMoves(t, from, to)
    BY DEF Takes, WordMoves, locals, history
  <1>2. WordKind(t)
    BY GoesMoves DEF Takes, TakeRoute, WordKind, TakesKind, locals, history
  <1> QED
    BY <1>1, <1>2, WordStep DEF TakeRoute

LEMMA ReleaseStep ==
  ASSUME TypeOK, NEW t \in Threads, NEW from, NEW to,
         Releases(t, from, to), ReleaseRoute(from, to)
  PROVE  Step(t)
  <1>1. WordMoves(t, from, to)
    BY DEF Releases, WordMoves, locals, history
  <1>2. WordKind(t)
    BY GoesMoves DEF Releases, ReleaseRoute, WordKind, ReleasesKind, locals,
                     history
  <1> QED
    BY <1>1, <1>2, WordStep DEF ReleaseRoute

LEMMA KillCloseStep ==
  ASSUME TypeOK, NEW t \in Threads, NEW from, NEW to,
         SetsKillGate(t, from, 0, 1, to), KillCloseRoute(from, to)
  PROVE  Step(t)
  <1>1. KillMoves(t, from, to)
    BY StaysInPlace DEF SetsKillGate, KillMoves, life
  <1>2. KillKind(t)
    BY GoesMoves DEF SetsKillGate, KillCloseRoute, KillKind
  <1> QED
    BY <1>1, <1>2, KillStep DEF KillCloseRoute

LEMMA KillPromoteStep ==
  ASSUME TypeOK, NEW t \in Threads, NEW from, NEW to,
         SetsKillGate(t, from, 1, 2, to), KillPromoteRoute(from, to)
  PROVE  Step(t)
  <1>1. KillMoves(t, from, to)
    BY StaysInPlace DEF SetsKillGate, KillMoves, life
  <1>2. KillKind(t)
    BY GoesMoves DEF SetsKillGate, KillPromoteRoute, KillKind
  <1> QED
    BY <1>1, <1>2, KillStep DEF KillPromoteRoute

LEMMA KillOpenStep ==
  ASSUME TypeOK, NEW t \in Threads, NEW from, NEW old, NEW to,
         SetsKillGate(t, from, old, 0, to), KillOpenRoute(from, to)
  PROVE  Step(t)
  <1>1. KillMoves(t, from, to)
    BY StaysInPlace DEF SetsKillGate, KillMoves, life
  <1>2. KillKind(t)
    BY GoesMoves DEF SetsKillGate, KillOpenRoute, KillKind
  <1> QED
    BY <1>1, <1>2, KillStep DEF KillOpenRoute

LEMMA ArchiveCloseStep ==
  ASSUME TypeOK, NEW t \in Threads, NEW from, NEW to,
         SetsArchiveGate(t, from, 0, 1, to), ArchiveCloseRoute(from, to)
  PROVE  Step(t)
  <1>1. ArchiveMoves(t, from, to)
    BY DEF SetsArchiveGate, ArchiveMoves
  <1>2. ArchiveKind(t)
    BY GoesMoves DEF SetsArchiveGate, ArchiveCloseRoute, ArchiveKind
  <1> QED
    BY <1>1, <1>2, ArchiveStep DEF ArchiveCloseRoute

LEMMA ArchivePromoteStep ==
  ASSUME TypeOK, NEW t \in Threads, NEW from, NEW old, NEW to,
         SetsArchiveGate(t, from, old, 2, to), ArchivePromoteRoute(from, to),
         old = 0 \/ from \in ArchivePending
  PROVE  Step(t)
  <1>1. ArchiveMoves(t, from, to)
    BY DEF SetsArchiveGate, ArchiveMoves
  <1>2. ArchiveKind(t)
    BY GoesMoves DEF SetsArchiveGate, ArchivePromoteRoute, ArchiveKind
  <1> QED
    BY <1>1, <1>2, ArchiveStep DEF ArchivePromoteRoute

LEMMA ArchiveOpenStep ==
  ASSUME TypeOK, NEW t \in Threads, NEW from, NEW old, NEW to,
         SetsArchiveGate(t, from, old, 0, to), ArchiveOpenRoute(from, to)
  PROVE  Step(t)
  <1>1. ArchiveMoves(t, from, to)
    BY DEF SetsArchiveGate, ArchiveMoves
  <1>2. ArchiveKind(t)
    BY GoesMoves DEF SetsArchiveGate, ArchiveOpenRoute, ArchiveKind
  <1> QED
    BY <1>1, <1>2, ArchiveStep DEF ArchiveOpenRoute

JoinRoute(from, to) ==
  WordRoute(from, to) /\ from \notin Counted \cup Owners
    /\ to \in Counted \ Loose

LeaveRoute(from, to) ==
  WordRoute(from, to) /\ from \in Counted /\ to \notin Counted \cup Owners

NestRoute(from, to) == WordRoute(from, to) /\ from \in Loose /\ to \in Loose

LEMMA ReaderRoutes ==
  /\ JoinRoute("join", "recheckArchive")
  /\ LeaveRoute("rollBack", "seeArchive")
  /\ LeaveRoute("rollBack", "idle")
  /\ "rollBack" \notin Loose
  /\ LeaveRoute("reading", "seeRequest")
  /\ LeaveRoute("reading", "idle")
  /\ NestRoute("reading", "reading")
  /\ NestRoute("restarting", "restarting")
  BY DEF JoinRoute, LeaveRoute, NestRoute, WordRoute, Plain, SameKill,
         SameArchive, SameLease, SameDrain,
         Places, Counted, Owners, CollectOwners, SortOwners,
         KillOwners, ArchiveOwners, ResetOwners, KillClosed, KillExclusive,
         ArchivePending, ArchiveExclusive, Loose, Leasing, PastLease, Draining,
         PastDrain, AtWork, ReadRoute, Readers, Alone

LEMMA DowngradeRoutes ==
  /\ WordRoute("killing", "confirmDowngrade")
  /\ WordRoute("failDowngrade", "abandonWord")
  /\ WordRoute("failDowngrade", "abandonKill")
  /\ "killing" \in Owners
  /\ {"confirmDowngrade", "failDowngrade"} \subseteq Counted \ Loose
  /\ "abandonWord" \in Owners
  /\ "abandonKill" \notin Counted \cup Owners
  BY DEF WordRoute, Plain, SameKill, SameArchive, SameLease, SameDrain,
         Places, Counted, Owners, CollectOwners, SortOwners,
         KillOwners, ArchiveOwners, ResetOwners, KillClosed, KillExclusive,
         ArchivePending, ArchiveExclusive, Loose, Leasing, PastLease, Draining,
         PastDrain, AtWork, ReadRoute, Readers, Alone

LEMMA ResetRoute ==
  /\ QuietRoute("resetting", "endReset")
  /\ ReadRoute("resetting", "endReset")
  /\ "endReset" \notin AtWork
  BY DEF QuietRoute, SameKill, SameArchive, SameWord, SameLease, SameDrain,
         Places, Counted, Owners, CollectOwners, SortOwners,
         KillOwners, ArchiveOwners, ResetOwners, KillClosed, KillExclusive,
         ArchivePending, ArchiveExclusive, Loose, Leasing, PastLease, Draining,
         PastDrain, AtWork, ReadRoute, Readers, Alone

LEMMA DutiesAdmitted ==
  ASSUME NEW t \in Threads
  PROVE  /\ SameLife(t) => Admitted(t, "recheckArchive", "recheckKill")
         /\ killGate = 0 => Admitted(t, "recheckKill", "reading")
         /\ SameLife(t) => Admitted(t, "recheckCollect", "collecting")
         /\ SameLife(t) => Admitted(t, "recheckSort", "sorting")
         /\ SameLife(t) => Admitted(t, "recheckArchiveKill", "promoteKill")
         /\ SameLife(t) => Admitted(t, "validateArchive", "drainAllocator")
         /\ IsCurrent(t) => Admitted(t, "validateLease", "restoring")
         /\ leaseOwner = Nobody => Admitted(t, "recheckLease", "takeArchive")
         /\ leaseOwner = Nobody => Admitted(t, "seeLease", "closeKillReset")
  BY DEF Admitted, PastLease, ArchiveOwners, ResetOwners, AtWork, Counted,
         Readers, Alone, ReadRoute, Reads, Owners, CollectOwners, SortOwners,
         KillOwners

LEMMA JoinStep ==
  ASSUME TypeOK, NEW t \in Threads, NEW from, NEW to,
         Joins(t, from, to), JoinRoute(from, to)
  PROVE  Step(t)
  <1>1. WordMoves(t, from, to)
    BY DEF Joins, WordMoves, history
  <1>2. WordKind(t)
    BY GoesMoves DEF Joins, JoinRoute, WordKind, JoinsKind, history
  <1> QED
    BY <1>1, <1>2, WordStep DEF JoinRoute

LEMMA RejoinStep ==
  ASSUME TypeOK, NEW t \in Threads, NEW from, NEW to,
         Joins(t, from, to), NestRoute(from, to), depth[t] < MaxDepth
  PROVE  Step(t)
  <1>1. WordMoves(t, from, to)
    BY DEF Joins, WordMoves, history
  <1>2. WordKind(t)
    BY GoesMoves DEF Joins, NestRoute, WordKind, JoinsKind, history
  <1> QED
    BY <1>1, <1>2, WordStep DEF NestRoute

LEMMA LeaveStep ==
  ASSUME TypeOK, NEW t \in Threads, NEW from, NEW to, Leaves(t, from, to),
         \/ LeaveRoute(from, to) /\ (from \notin Loose \/ depth[t] = 1)
         \/ NestRoute(from, to) /\ depth[t] > 1
  PROVE  Step(t)
  <1>1. WordMoves(t, from, to)
    BY DEF Leaves, WordMoves, history
  <1>2. CASE LeaveRoute(from, to) /\ (from \notin Loose \/ depth[t] = 1)
    <2>1. WordKind(t)
      BY <1>2, GoesMoves DEF Leaves, LeaveRoute, WordKind, LeavesKind, history
    <2> QED
      BY <1>1, <1>2, <2>1, WordStep DEF LeaveRoute
  <1>3. CASE NestRoute(from, to) /\ depth[t] > 1
    <2>0. Loose \subseteq Counted
      BY DEF Loose, Counted
    <2>1. WordKind(t)
      BY <1>3, <2>0, GoesMoves
      DEF Leaves, NestRoute, WordKind, LeavesKind, history
    <2> QED
      BY <1>1, <1>3, <2>1, WordStep DEF NestRoute
  <1> QED
    BY <1>2, <1>3

\* Steps that leave the threads where they are.
StandsStill(t) ==
  /\ needsGarbageCollection' \in BOOLEAN
  /\ allocOwner' \in Threads \cup {Nobody}
  /\ alloc' \in [Threads -> {"outside", "see", "lock", "recheck", "inside"}]
  /\ UNCHANGED <<gates, iteratorCount, generation, isInitialized, leaseOwner,
                 pc, admission, depth, waits, history>>

LEMMA StillStep ==
  ASSUME TypeOK, NEW t \in Threads, StandsStill(t), AllocatorKind(t)
  PROVE  Step(t)
  <1> USE DEF StandsStill, gates, history
  <1>1. Typed(t)
    BY DEF Typed, TypeOK
  <1>2. KillKind(t) /\ ArchiveKind(t)
    BY DEF KillKind, ArchiveKind
  <1>3. WordKind(t)
    BY DEF WordKind, StaysKind
  <1>4. LeaseKind(t)
    BY DEF LeaseKind
  <1>5. LifeKind(t)
    BY DEF LifeKind
  <1>6. ReadKind(t)
    BY DEF ReadKind, ReadRoute
  <1> QED
    BY <1>1, <1>2, <1>3, <1>4, <1>5, <1>6 DEF Step

-----------------------------------------------------------------------------
(* Sorting the actions.                                                     *)

LEMMA SeesQuietly ==
  ASSUME TypeOK, NEW t \in Threads, NEW from, NEW to, Goes(t, from, to),
         UNCHANGED <<gates, iteratorCount, life, owners, locals, history>>
  PROVE  Quietly(t, from, to)
  BY StaysInPlace DEF Quietly, life

LEMMA SeeGatesStep ==
  ASSUME TypeOK, NEW t \in Threads, SeeGates(t)
  PROVE  Step(t)
  <1>1. \/ Quietly(t, "seeArchive", "seeKill")
        \/ Quietly(t, "seeKill", "join")
        \/ Quietly(t, "seeArchive", "idle")
        \/ Quietly(t, "seeKill", "idle")
        \/ Quietly(t, "join", "idle")
    BY SeesQuietly DEF SeeGates, Sees
  <1> QED
    BY <1>1, PlainRoutes, PlainStep

LEMMA JoinActionStep ==
  ASSUME TypeOK, NEW t \in Threads, Join(t)
  PROVE  Step(t)
  <1>1. Joins(t, "join", "recheckArchive")
    BY DEF Join
  <1>2. JoinRoute("join", "recheckArchive")
    BY ReaderRoutes
  <1> QED
    BY <1>1, <1>2, JoinStep

LEMMA RecheckStep ==
  ASSUME TypeOK, NEW t \in Threads, Recheck(t)
  PROVE  Step(t)
  <1>1. \/ Quietly(t, "recheckArchive", "recheckKill") /\ SameLife(t)
        \/ Quietly(t, "recheckArchive", "rollBack")
        \/ Quietly(t, "recheckKill", "reading") /\ killGate = 0
        \/ Quietly(t, "recheckKill", "rollBack")
    BY SeesQuietly DEF Recheck, Looks, Sees
  <1> QED
    BY <1>1, PlainRoutes, PlainStep, DutyRoutes, DutiesAdmitted, QuietStep

LEMMA RollBackStep ==
  ASSUME TypeOK, NEW t \in Threads, RollBack(t)
  PROVE  Step(t)
  BY ReaderRoutes, LeaveStep DEF RollBack

LEMMA NestStep ==
  ASSUME TypeOK, NEW t \in Threads, Nest(t)
  PROVE  Step(t)
  BY ReaderRoutes, RejoinStep DEF Nest

LEMMA EndIteratingStep ==
  ASSUME TypeOK, NEW t \in Threads, EndIterating(t)
  PROVE  Step(t)
  <1>1. CASE /\ depth[t] > 1
             /\ \/ Leaves(t, "reading", "reading")
                \/ Leaves(t, "restarting", "restarting")
    BY <1>1, ReaderRoutes, LeaveStep
  <1>2. CASE /\ depth[t] = 1
             /\ \/ Leaves(t, "reading", "seeRequest")
                \/ Leaves(t, "reading", "idle")
    BY <1>2, ReaderRoutes, LeaveStep
  <1> QED
    BY <1>1, <1>2 DEF EndIterating

LEMMA RequestGarbageCollectionStep ==
  ASSUME TypeOK, NEW t \in Threads, RequestGarbageCollection(t)
  PROVE  Step(t)
  <1>1. StandsStill(t)
    BY DEF RequestGarbageCollection, StandsStill, TypeOK, owners, locals
  <1>2. AllocatorKind(t)
    BY DEF RequestGarbageCollection, AllocatorKind, owners, locals
  <1> QED
    BY <1>1, <1>2, StillStep

LEMMA CollectKilledStep ==
  ASSUME TypeOK, NEW t \in Threads, CollectKilled(t)
  PROVE  Step(t)
  <1>1. StandsStill(t)
    BY DEF CollectKilled, StandsStill, TypeOK, owners, locals
  <1>2. AllocatorKind(t)
    BY DEF CollectKilled, AllocatorKind, owners, locals
  <1> QED
    BY <1>1, <1>2, StillStep

LEMMA CollectStep ==
  ASSUME TypeOK, NEW t \in Threads, Collect(t)
  PROVE  Step(t)
  <1>1. ASSUME SeeRequest(t)
        PROVE  \/ Quietly(t, "seeRequest", "idle")
               \/ Starting(t, "seeRequest", "seeArchiveCollect")
    BY <1>1, SeesQuietly
    DEF SeeRequest, Sees, Starting, TypeOK, locals, history
  <1>2. ASSUME TakeCollect(t)
        PROVE  \/ Quietly(t, "seeArchiveCollect", "takeCollect")
               \/ Quietly(t, "seeArchiveCollect", "idle")
               \/ Takes(t, "takeCollect", "recheckCollect")
               \/ Quietly(t, "takeCollect", "idle")
    BY <1>2, SeesQuietly DEF TakeCollect, Looks, Sees
  <1>3. ASSUME RecheckCollect(t)
        PROVE  \/ Quietly(t, "recheckCollect", "endCollect")
               \/ Quietly(t, "recheckCollect", "collecting") /\ SameLife(t)
    BY <1>3, SeesQuietly DEF RecheckCollect, Sees, Quietly
  <1>4. ASSUME EndCollect(t)
        PROVE  \/ Releases(t, "collecting", "idle")
               \/ Releases(t, "endCollect", "idle")
    BY <1>4 DEF EndCollect
  <1>5. CASE SeeRequest(t)
    BY <1>1, <1>5, PlainRoutes, PlainStep, StartRoutes, StartStep
  <1>6. CASE TakeCollect(t)
    BY <1>2, <1>6, PlainRoutes, PlainStep, TakeRoutes, TakeStep
  <1>7. CASE RecheckCollect(t)
    BY <1>3, <1>7, PlainRoutes, PlainStep, DutyRoutes, DutiesAdmitted,
       QuietStep
  <1>8. CASE EndCollect(t)
    BY <1>4, <1>8, ReleaseRoutes, ReleaseStep
  <1> QED
    BY <1>5, <1>6, <1>7, <1>8 DEF Collect

LEMMA SortStep ==
  ASSUME TypeOK, NEW t \in Threads, Sort(t)
  PROVE  Step(t)
  <1>1. \/ Quietly(t, "seeSort", "takeSort")
        \/ Takes(t, "takeSort", "recheckSort")
        \/ Quietly(t, "recheckSort", "sorting") /\ SameLife(t)
        \/ Quietly(t, "recheckSort", "undoSort")
        \/ Releases(t, "sorting", "idle")
        \/ Releases(t, "undoSort", "seeSort")
        \/ Releases(t, "undoSort", "idle")
    BY SeesQuietly DEF Sort, TakeSort, RecheckSort, EndSort, Looks, Sees
  <1> QED
    BY <1>1, PlainRoutes, PlainStep, TakeRoutes, TakeStep, DutyRoutes,
       DutiesAdmitted, QuietStep, ReleaseRoutes, ReleaseStep

LEMMA KillActionStep ==
  ASSUME TypeOK, NEW t \in Threads, Kill(t)
  PROVE  Step(t)
  <1>1. CASE TakeKill(t)
    <2>1. \/ SetsKillGate(t, "closeKill", 0, 1, "seeArchiveKill")
          \/ Quietly(t, "seeArchiveKill", "takeKill")
          \/ Takes(t, "takeKill", "recheckArchiveKill")
          \/ Quietly(t, "recheckArchiveKill", "promoteKill") /\ SameLife(t)
          \/ Quietly(t, "recheckArchiveKill", "undoKill")
          \/ SetsKillGate(t, "promoteKill", 1, 2, "killing")
      BY <1>1, SeesQuietly DEF TakeKill, Looks, Sees
    <2> QED
      BY <2>1, KillRoutes, KillCloseStep, KillPromoteStep, PlainRoutes,
         PlainStep, TakeRoutes, TakeStep, DutyRoutes, DutiesAdmitted, QuietStep
  <1>2. CASE UndoKill(t)
    BY <1>2, ReleaseRoutes, ReleaseStep DEF UndoKill
  <1>3. CASE FailKill(t)
    <2>0. needsGarbageCollection' \in BOOLEAN
      BY <1>3 DEF FailKill, TypeOK
    <2>1. KillMoves(t, "failKill", "idle")
      BY <1>3, <2>0 DEF FailKill, KillMoves
    <2>2. KillKind(t)
      BY <1>3, GoesMoves, KillRoutes DEF FailKill, KillOpenRoute, KillKind
    <2> QED
      BY <2>1, <2>2, KillRoutes, KillStep DEF KillOpenRoute
  <1>4. CASE EndKill(t)
    BY <1>4, ReleaseRoutes, ReleaseStep, KillRoutes, KillOpenStep DEF EndKill
  <1> QED
    BY <1>1, <1>2, <1>3, <1>4 DEF Kill

LEMMA RewindStep ==
  ASSUME TypeOK, NEW t \in Threads, Rewind(t)
  PROVE  Step(t)
  <1>1. CASE Downgrade(t)
    <2>1. WordMoves(t, "killing", "confirmDowngrade")
      BY <1>1 DEF Downgrade, WordMoves, history
    <2>2. WordKind(t)
      BY <1>1, GoesMoves, DowngradeRoutes
      DEF Downgrade, WordKind, DowngradesKind, history
    <2> QED
      BY <2>1, <2>2, DowngradeRoutes, WordStep
  <1>2. CASE ConfirmDowngrade(t)
    <2>1. \/ Quietly(t, "confirmDowngrade", "restarting")
          \/ Quietly(t, "confirmDowngrade", "failDowngrade")
      BY <1>2, SeesQuietly DEF ConfirmDowngrade, Looks, Sees
    <2> QED
      BY <2>1, PlainRoutes, PlainStep
  <1>3. CASE FailDowngrade(t)
    <2>1. \/ WordMoves(t, "failDowngrade", "abandonWord") /\ UpgradesKind(t)
          \/ WordMoves(t, "failDowngrade", "abandonKill") /\ LeaksKind(t)
      BY <1>3, GoesMoves, DowngradeRoutes
      DEF FailDowngrade, WordMoves, UpgradesKind, LeaksKind
    <2> QED
      BY <2>1, DowngradeRoutes, WordStep DEF WordKind
  <1>4. CASE Abandon(t) \/ EndRestart(t)
    BY <1>4, ReleaseRoutes, ReleaseStep, KillRoutes, KillOpenStep
    DEF Abandon, EndRestart
  <1> QED
    BY <1>1, <1>2, <1>3, <1>4 DEF Rewind

LEMMA DrainActionStep ==
  ASSUME TypeOK, NEW t \in Threads, DrainAllocator(t) \/ DrainReset(t)
  PROVE  Step(t)
  <1> USE DEF DrainAllocator, DrainReset
  <1>1. PICK from \in {"drainAllocator", "drained", "drainReset",
                       "drainedReset"},
             to \in {"drained", "archiving", "drainedReset",
                     "seeLeaseDrained"} :
          /\ DrainMoves(t, from, to)
          /\ DrainRoute(from, to)
          /\ \/ allocOwner = Nobody /\ allocOwner' = t /\ to \in Draining
             \/ /\ from \in Draining
                /\ allocOwner' = Nobody
                /\ to \in PastDrain \ Draining
    BY DrainRoutes DEF DrainMoves, Draining
  <1>2. AllocatorKind(t)
    BY <1>1, GoesMoves DEF DrainMoves, AllocatorKind, locals
  <1> QED
    BY <1>1, <1>2, DrainStep

LEMMA ArchiveActionStep ==
  ASSUME TypeOK, NEW t \in Threads, Archive(t)
  PROVE  Step(t)
  <1>0. "promoteArchive" \in ArchivePending
    BY DEF ArchivePending
  <1>1. CASE ClaimArchive(t)
    <2>1. \/ Quietly(t, "claimArchive", "closePending")
          \/ Quietly(t, "claimArchive", "idle")
          \/ SetsArchiveGate(t, "closePending", 0, 1, "recheckLease")
          \/ Quietly(t, "closePending", "idle")
      BY <1>1, SeesQuietly DEF ClaimArchive, Looks, Sees
    <2> QED
      BY <2>1, PlainRoutes, PlainStep, ArchiveRoutes, ArchiveCloseStep
  <1>2. CASE RecheckLease(t)
    <2>1. \/ Quietly(t, "recheckLease", "takeArchive") /\ leaseOwner = Nobody
          \/ Quietly(t, "recheckLease", "openPending")
      BY <1>2, SeesQuietly DEF RecheckLease, Looks, Sees
    <2> QED
      BY <2>1, PlainRoutes, PlainStep, DutyRoutes, DutiesAdmitted, QuietStep
  <1>3. CASE TakeArchive(t)
    <2>1. \/ Takes(t, "takeArchive", "promoteArchive")
          \/ Quietly(t, "takeArchive", "openPending")
          \/ SetsArchiveGate(t, "openPending", 1, 0, "idle")
          \/ SetsArchiveGate(t, "promoteArchive", 1, 2, "validateArchive")
          \/ Quietly(t, "validateArchive", "drainAllocator") /\ SameLife(t)
          \/ Quietly(t, "validateArchive", "endArchive")
      BY <1>3, SeesQuietly DEF TakeArchive, Looks, Sees
    <2> QED
      BY <1>0, <2>1, TakeRoutes, TakeStep, PlainRoutes, PlainStep,
         ArchiveRoutes, ArchiveOpenStep, ArchivePromoteStep, DutyRoutes,
         DutiesAdmitted, QuietStep
  <1>4. CASE DrainAllocator(t)
    BY <1>4, DrainActionStep
  <1>5. CASE EndArchive(t)
    BY <1>5, ReleaseRoutes, ReleaseStep, ArchiveRoutes, ArchiveOpenStep
    DEF EndArchive
  <1> QED
    BY <1>1, <1>2, <1>3, <1>4, <1>5 DEF Archive

LEMMA RestoreStep ==
  ASSUME TypeOK, NEW t \in Threads, Restore(t)
  PROVE  Step(t)
  <1>1. CASE TakeLease(t)
    <2>1. CASE /\ Goes(t, "takeLease", "validateLease")
               /\ leaseOwner = Nobody
               /\ leaseOwner' = t
               /\ UNCHANGED <<gates, iteratorCount, life, allocOwner, locals,
                              history>>
      <3>1. LeaseMoves(t, "takeLease", "validateLease")
        BY <2>1 DEF LeaseMoves
      <3>2. LeaseKind(t)
        BY <2>1, GoesMoves DEF LeaseKind, life, locals
      <3> QED
        BY <3>1, <3>2, LeaseRoutes, LeaseStep
    <2>2. CASE \/ Quietly(t, "precheck", "takeLease")
               \/ Quietly(t, "precheck", "idle")
               \/ Quietly(t, "takeLease", "idle")
      BY <2>2, PlainRoutes, PlainStep
    <2> QED
      BY <1>1, <2>1, <2>2, SeesQuietly DEF TakeLease, Looks, Sees
  <1>2. CASE ValidateLease(t) \/ BeginArchive(t)
    <2>1. \/ Quietly(t, "validateLease", "restoring") /\ IsCurrent(t)
          \/ Quietly(t, "validateLease", "failRestore")
          \/ Quietly(t, "restoring", "failRestore")
          \/ Quietly(t, "beginArchive", "claimArchive")
          \/ Quietly(t, "beginArchive", "idle")
      BY <1>2, SeesQuietly DEF ValidateLease, BeginArchive, Looks, Sees
    <2> QED
      BY <2>1, PlainRoutes, PlainStep, DutyRoutes, DutiesAdmitted, QuietStep
  <1>3. CASE ReleaseLease(t)
    <2>1. PICK from \in {"failRestore", "restoring"},
               to \in {"idle", "beginArchive"} :
            Goes(t, from, to) /\ LeaseRoute(from, to)
      BY <1>3, LeaseRoutes DEF ReleaseLease
    <2>2. LeaseMoves(t, from, to)
      BY <1>3, <2>1 DEF ReleaseLease, LeaseMoves
    <2>3. LeaseKind(t)
      <3>1. from \in Leasing /\ to \notin Leasing \cup PastLease
        BY LeaseRoutes DEF Leasing
      <3> QED
        BY <1>3, <2>1, <3>1, GoesMoves DEF ReleaseLease, LeaseKind, life, locals
    <2> QED
      BY <2>1, <2>2, <2>3, LeaseStep
  <1> QED
    BY <1>1, <1>2, <1>3 DEF Restore

LEMMA ResetSystemStep ==
  ASSUME TypeOK, NEW t \in Threads, ResetSystem(t)
  PROVE  Step(t)
  <1>1. CASE ClaimReset(t)
    <2>1. \/ SetsArchiveGate(t, "closeArchive", 0, 2, "seeLease")
          \/ Quietly(t, "closeArchive", "idle")
          \/ Quietly(t, "seeLease", "closeKillReset") /\ leaseOwner = Nobody
          \/ Quietly(t, "seeLease", "openReset")
          \/ SetsKillGate(t, "closeKillReset", 0, 1, "drainReset")
          \/ Quietly(t, "closeKillReset", "openReset")
          \/ Quietly(t, "seeLeaseDrained", "takeReset")
          \/ Quietly(t, "seeLeaseDrained", "openKillReset")
          \/ Takes(t, "takeReset", "seeLeaseTaken")
          \/ Quietly(t, "takeReset", "openKillReset")
          \/ Quietly(t, "seeLeaseTaken", "resetting")
          \/ Quietly(t, "seeLeaseTaken", "endReset")
      BY <1>1, SeesQuietly DEF ClaimReset, Looks, Sees
    <2> QED
      BY <2>1, ArchiveRoutes, ArchivePromoteStep, KillRoutes, KillCloseStep,
         TakeRoutes, TakeStep, PlainRoutes, PlainStep, DutyRoutes,
         DutiesAdmitted, QuietStep
  <1>2. CASE DrainReset(t)
    BY <1>2, DrainActionStep
  <1>3. CASE Reset(t)
    <2> USE <1>3, ResetRoute, GoesMoves
        DEF Reset, QuietRoute, gates, owners, locals, history
    <2>0. isInitialized' \in BOOLEAN /\ needsGarbageCollection' \in BOOLEAN
      BY <1>3 DEF Reset
    <2>1. Typed(t)
      BY <2>0 DEF Typed, TypeOK
    <2>2. KillKind(t) /\ ArchiveKind(t)
      BY DEF SameKill, SameArchive, KillKind, ArchiveKind
    <2>3. WordKind(t)
      BY DEF SameWord, WordKind, StaysKind
    <2>4. LeaseKind(t) /\ LifeKind(t)
      BY DEF LeaseKind, LifeKind
    <2>5. AllocatorKind(t)
      BY DEF SameDrain, AllocatorKind
    <2>6. ReadKind(t)
      BY DEF ReadKind
    <2> QED
      BY <2>1, <2>2, <2>3, <2>4, <2>5, <2>6 DEF Step
  <1>4. CASE EndReset(t)
    BY <1>4, ReleaseRoutes, ReleaseStep, KillRoutes, KillOpenStep,
       ArchiveRoutes, ArchiveOpenStep DEF EndReset
  <1> QED
    BY <1>1, <1>2, <1>3, <1>4 DEF ResetSystem

LEMMA AllocateStep ==
  ASSUME TypeOK, NEW t \in Threads, Allocate(t)
  PROVE  Step(t)
  <1>1. StandsStill(t)
    BY DEF Allocate, SeeAllocGate, LockAlloc, RecheckAllocGate, UnlockAlloc,
           Enters, StandsStill, TypeOK, owners, life
  <1>2. AllocatorKind(t)
    <2>1. CASE SeeAllocGate(t)
      BY <2>1 DEF SeeAllocGate, Enters, AllocatorKind, Allocating, TypeOK,
                  owners
    <2>2. CASE LockAlloc(t)
      BY <2>2 DEF LockAlloc, Enters, AllocatorKind
    <2>3. CASE RecheckAllocGate(t)
      BY <2>3 DEF RecheckAllocGate, Enters, AllocatorKind, TypeOK, owners
    <2>4. CASE UnlockAlloc(t)
      BY <2>4 DEF UnlockAlloc, Enters, AllocatorKind, Locking, TypeOK
    <2> QED
      BY <2>1, <2>2, <2>3, <2>4 DEF Allocate
  <1> QED
    BY <1>1, <1>2, StillStep

LEMMA BeginStep ==
  ASSUME TypeOK, NEW t \in Threads, Begin(t)
  PROVE  Step(t)
  <1>1. CASE BeginIterating(t)
    <2>1. waits' \in [Threads -> BOOLEAN]
      BY <1>1 DEF BeginIterating, TypeOK
    <2>2. Starting(t, "idle", "seeArchive")
      BY <1>1, <2>1 DEF BeginIterating, Starts, Starting, history, TypeOK
    <2> QED
      BY <2>2, StartRoutes, StartStep
  <1>2. CASE BeginSort(t) \/ BeginKill(t)
    <2>1. Starting(t, "idle", "seeSort") \/ Starting(t, "idle", "closeKill")
      BY <1>2 DEF BeginSort, BeginKill, Starts, Starting, history, TypeOK
    <2> QED
      BY <2>1, StartRoutes, StartStep
  <1>3. CASE BeginSave(t) \/ BeginRestore(t) \/ BeginReset(t)
    <2>1. \/ Starting(t, "idle", "claimArchive")
          \/ Starting(t, "idle", "precheck")
          \/ Starting(t, "idle", "closeArchive")
          \/ Starting(t, "idle", "idle")
      BY <1>3 DEF BeginSave, BeginRestore, BeginReset, BeginRare, Starts,
                  Starting, TypeOK
    <2> QED
      BY <2>1, StartRoutes, StartStep
  <1> QED
    BY <1>1, <1>2, <1>3 DEF Begin

\* Every step is the step of a thread, and of one kind for each part.
LEMMA NextStep ==
  ASSUME TypeOK, Next
  PROVE  \E t \in Threads : Step(t)
  <1>1. PICK t \in Threads :
          \/ Begin(t) \/ Iterate(t) \/ Nest(t) \/ RequestGarbageCollection(t)
          \/ Collect(t) \/ Sort(t) \/ Kill(t) \/ CollectKilled(t) \/ Rewind(t)
          \/ Archive(t) \/ Restore(t) \/ ResetSystem(t) \/ Allocate(t)
    BY DEF Next
  <1>2. CASE Iterate(t)
    BY <1>2, SeeGatesStep, JoinActionStep, RecheckStep, RollBackStep,
       EndIteratingStep DEF Iterate
  <1> QED
    BY <1>1, <1>2, BeginStep, NestStep, RequestGarbageCollectionStep,
       CollectStep, SortStep, KillActionStep, CollectKilledStep, RewindStep,
       ArchiveActionStep, RestoreStep, ResetSystemStep, AllocateStep

-----------------------------------------------------------------------------
(* The parts of FxInv survive every step.                                   *)

LEMMA OthersStay ==
  ASSUME TypeOK, NEW t \in Threads, Typed(t)
  PROVE  /\ pc' \in [Threads -> Places]
         /\ \A u \in Threads : u # t => pc'[u] = pc[u]
  BY DEF TypeOK, Typed

LEMMA KillStays ==
  ASSUME TypeOK, KillInv, NEW t \in Threads, Typed(t), KillKind(t)
  PROVE  KillInv'
  <1>1. KillClosed \cap KillExclusive = {}
    BY DEF KillClosed, KillExclusive
  <1> QED
    BY <1>1, OthersStay DEF KillInv, KillKind

LEMMA ArchiveStays ==
  ASSUME TypeOK, ArchiveInv, NEW t \in Threads, Typed(t), ArchiveKind(t)
  PROVE  ArchiveInv'
  <1>1. ArchivePending \cap ArchiveExclusive = {}
    BY DEF ArchivePending, ArchiveExclusive
  <1> QED
    BY <1>1, OthersStay DEF ArchiveInv, ArchiveKind

LEMMA LeaseStays ==
  ASSUME TypeOK, ArchiveInv, LeaseInv, NEW t \in Threads, Typed(t),
         LeaseKind(t)
  PROVE  LeaseInv'
  <1>1. PastLease \subseteq ArchivePending \cup ArchiveExclusive
    BY DEF PastLease, ArchivePending, ArchiveExclusive, ArchiveOwners,
           ResetOwners
  <1>2. /\ "restoring" \in Leasing /\ "validateLease" \in Leasing
        /\ "resetting" \in PastLease
        /\ "restoring" \notin PastLease /\ "validateLease" \notin PastLease
        /\ "endReset" \notin Leasing
        /\ Leasing \cap PastLease = {}
    BY DEF Leasing, PastLease, ArchiveOwners, ResetOwners
  <1>3. archiveGate = 0 => \A u \in Threads : pc[u] \notin PastLease
    BY <1>1 DEF ArchiveInv
  <1>4. \A u \in Threads : pc[u] \in Leasing <=> leaseOwner = u
    BY DEF LeaseInv, Leasing
  <1>5. \A u \in Threads :
          pc[u] = "restoring" =>
            /\ admission[u] = generation
            /\ \A v \in Threads : pc[v] \notin PastLease
    BY DEF LeaseInv
  <1>6. \A u \in Threads : pc'[u] \in Leasing <=> leaseOwner' = u
    BY <1>2, <1>4, OthersStay, FxGateAssumption DEF LeaseKind
  <1>7. ASSUME NEW u \in Threads, pc'[u] = "restoring"
        PROVE  /\ admission'[u] = generation'
               /\ \A v \in Threads : pc'[v] \notin PastLease
    <2>1. \/ pc[u] = "restoring"
          \/ u = t /\ IsCurrent(t) /\ UNCHANGED <<generation, admission>>
      BY <1>2, <1>7, OthersStay DEF LeaseKind
    <2>2. CASE pc[u] = "restoring"
      <3>1. leaseOwner = u /\ leaseOwner # Nobody
        BY <1>2, <1>4, <2>2, FxGateAssumption
      <3>2. pc[t] # "resetting"
        BY <1>2, <1>5, <2>2
      <3>3. admission'[u] = generation'
        BY <1>2, <1>5, <2>2, <3>2, OthersStay DEF LeaseKind, TypeOK
      <3>4. pc'[t] \notin PastLease
        BY <1>2, <1>5, <2>2, <3>1, <3>2 DEF LeaseKind
      <3> QED
        BY <1>5, <2>2, <3>3, <3>4, OthersStay
    <2>3. CASE u = t /\ IsCurrent(t) /\ UNCHANGED <<generation, admission>>
      BY <1>2, <1>3, <1>7, <2>3, OthersStay DEF IsCurrent
    <2> QED
      BY <2>1, <2>2, <2>3
  <1> QED
    BY <1>6, <1>7 DEF LeaseInv, Leasing

LEMMA AllocatorStays ==
  ASSUME TypeOK, ArchiveInv, AllocatorInv, NEW t \in Threads, Typed(t),
         AllocatorKind(t)
  PROVE  AllocatorInv'
  <1>1. /\ PastDrain \subseteq ArchiveExclusive
        /\ Draining \subseteq PastDrain
        /\ Draining \cap Allocating = {}
        /\ PastDrain \cap Allocating = {}
    BY DEF PastDrain, Draining, Allocating, ArchiveExclusive
  <1>2. archiveGate # 2 => \A u \in Threads : pc[u] \notin PastDrain
    BY <1>1 DEF ArchiveInv
  <1>3. \A u \in Threads :
          /\ alloc[u] # "outside" => pc[u] \in Allocating
          /\ alloc[u] \in Locking \/ pc[u] \in Draining => allocOwner = u
          /\ pc[u] \in PastDrain => \A v \in Threads : alloc[v] # "inside"
    BY DEF AllocatorInv, Allocating, Locking, Draining
  <1>4. /\ "recheck" \in Locking /\ "inside" \in Locking
        /\ \A x \in {"outside", "see", "lock"} : x \notin Locking
    BY DEF Locking
  <1>5. \A u \in Threads : u # t => alloc'[u] = alloc[u]
    BY DEF AllocatorKind, TypeOK
  <1>6. \A u \in Threads : alloc'[u] # "outside" => pc'[u] \in Allocating
    BY <1>1, <1>3, <1>4, <1>5, OthersStay DEF AllocatorKind, TypeOK, Locking
  <1>7. \A u \in Threads :
          alloc'[u] \in Locking \/ pc'[u] \in Draining => allocOwner' = u
    BY <1>1, <1>3, <1>4, <1>5, OthersStay, FxGateAssumption
    DEF AllocatorKind, TypeOK
  <1>8. ASSUME NEW u \in Threads, pc'[u] \in PastDrain, NEW v \in Threads,
               alloc'[v] = "inside"
        PROVE  FALSE
    <2>1. CASE UNCHANGED alloc
      <3>1. allocOwner = v
        BY <1>3, <1>4, <1>8, <2>1
      <3>2. pc[u] \notin PastDrain
        BY <1>3, <1>8, <2>1
      <3>3. u = t /\ pc[t] \notin PastDrain
        BY <1>8, <3>2, OthersStay
      <3>4. allocOwner = Nobody
        BY <1>1, <1>4, <1>8, <2>1, <3>3 DEF AllocatorKind, TypeOK
      <3> QED
        BY <3>1, <3>4, FxGateAssumption
    <2>2. CASE UNCHANGED pc /\ archiveGate # 2
      BY <1>2, <1>8, <2>2
    <2>3. CASE UNCHANGED pc /\ (alloc'[v] = "inside" => alloc[v] = "inside")
      BY <1>3, <1>8, <2>3
    <2> QED
      BY <1>4, <1>5, <1>8, <2>1, <2>2, <2>3 DEF AllocatorKind, TypeOK
  <1> QED
    BY <1>6, <1>7, <1>8 DEF AllocatorInv, Allocating, Locking, Draining

-----------------------------------------------------------------------------
(* The word: its count is the number of iterations.                         *)

LEMMA IterationsFinite ==
  ASSUME TypeOK
  PROVE  IsFiniteSet(Iterations) /\ Cardinality(Iterations) \in Nat
  <1>1. IsFiniteSet(1..MaxDepth)
    BY FS_Interval, FxGateAssumption
  <1>2. IsFiniteSet(Threads \X (1..MaxDepth))
    BY <1>1, FS_Product, FxGateAssumption
  <1>3. Iterations \subseteq Threads \X (1..MaxDepth)
    BY DEF Iterations
  <1> QED
    BY <1>2, <1>3, FS_Subset, FS_CardinalityType

LEMMA NoIterations ==
  ASSUME TypeOK, Cardinality(Iterations) = 0, NEW t \in Threads
  PROVE  depth[t] = 0
  <1>1. Iterations = {}
    BY IterationsFinite, FS_EmptySet
  <1>2. depth[t] > 0 => <<t, 1>> \in Iterations
    BY FxGateAssumption DEF Iterations, TypeOK
  <1> QED
    BY <1>1, <1>2 DEF TypeOK

LEMMA OneIteration ==
  ASSUME TypeOK, Cardinality(Iterations) = 1, NEW t \in Threads,
         NEW u \in Threads, depth[t] > 0, depth[u] > 0
  PROVE  t = u
  <1>1. PICK i : Iterations = {i}
    BY IterationsFinite, FS_Singleton
  <1>2. <<t, 1>> \in Iterations /\ <<u, 1>> \in Iterations
    BY FxGateAssumption DEF Iterations, TypeOK
  <1> QED
    BY <1>1, <1>2

LEMMA IterationBegins ==
  ASSUME TypeOK, NEW t \in Threads, depth[t] < MaxDepth,
         depth' = [depth EXCEPT ![t] = depth[t] + 1]
  PROVE  /\ Cardinality(Iterations') = Cardinality(Iterations) + 1
         /\ depth' \in [Threads -> 0..MaxDepth]
  <1>1. Iterations' = Iterations \cup {<<t, depth[t] + 1>>}
    BY FxGateAssumption DEF Iterations, TypeOK
  <1>2. <<t, depth[t] + 1>> \notin Iterations
    BY DEF Iterations, TypeOK
  <1>3. depth' \in [Threads -> 0..MaxDepth]
    BY FxGateAssumption DEF TypeOK
  <1> QED
    BY <1>1, <1>2, <1>3, IterationsFinite, FS_AddElement

LEMMA IterationEnds ==
  ASSUME TypeOK, NEW t \in Threads, depth[t] > 0,
         depth' = [depth EXCEPT ![t] = depth[t] - 1]
  PROVE  /\ Cardinality(Iterations') = Cardinality(Iterations) - 1
         /\ Cardinality(Iterations) > 0
         /\ depth' \in [Threads -> 0..MaxDepth]
  <1>1. Iterations' = Iterations \ {<<t, depth[t]>>}
    BY FxGateAssumption DEF Iterations, TypeOK
  <1>2. <<t, depth[t]>> \in Iterations
    BY FxGateAssumption DEF Iterations, TypeOK
  <1>3. depth' \in [Threads -> 0..MaxDepth]
    BY FxGateAssumption DEF TypeOK
  <1>4. Cardinality(Iterations) > 0
    BY <1>2, IterationsFinite, FS_EmptySet
  <1>5. Cardinality(Iterations \ {<<t, depth[t]>>})
          = Cardinality(Iterations) - 1
    BY <1>2, IterationsFinite, FS_RemoveElement
  <1> QED
    BY <1>1, <1>3, <1>4, <1>5

\* Who owns the word is alone in it.
LEMMA OwnerIsAlone ==
  ASSUME TypeOK, WordInv, NEW t \in Threads, pc[t] \in Owners,
         NEW u \in Threads
  PROVE  pc[u] \notin Counted /\ (pc[u] \in Owners => u = t)
  <1>1. Cardinality(Iterations) = 0
    BY IterationsFinite DEF WordInv, TypeOK
  <1>2. depth[u] = 0
    BY <1>1, NoIterations
  <1> QED
    BY <1>2 DEF WordInv, TypeOK

\* Whoever is counted finds the word positive.
LEMMA CountedIsPositive ==
  ASSUME TypeOK, WordInv, NEW t \in Threads, pc[t] \in Counted
  PROVE  iteratorCount > 0
  <1>1. depth[t] > 0
    BY DEF WordInv
  <1>2. Cardinality(Iterations) # 0
    BY <1>1, NoIterations
  <1> QED
    BY <1>2, IterationsFinite DEF WordInv, TypeOK

WordCount ==
  /\ iteratorCount \in Nat \cup {-1}
  /\ leaked \in Nat
  /\ depth \in [Threads -> 0..MaxDepth]
  /\ iteratorCount + (IF iteratorCount = -1 THEN 1 ELSE 0)
       = Cardinality(Iterations) + leaked

\* The threads and the word agree about who is counted and who owns it.
WordPlaces ==
  /\ \A t \in Threads :
       /\ pc[t] \in Owners => iteratorCount = -1
       /\ pc[t] \in Counted <=> depth[t] > 0
       /\ pc[t] \in Counted \ Loose => depth[t] = 1
  /\ \A t, u \in Threads : pc[t] \in Owners /\ pc[u] \in Owners => t = u

LEMMA WordStays ==
  ASSUME TypeOK, WordInv, NEW t \in Threads, Typed(t), WordKind(t)
  PROVE  WordCount' /\ WordPlaces'
  <1>1. WordCount
    BY DEF TypeOK, WordInv, WordCount
  <1>2. WordPlaces
    BY DEF WordInv, WordPlaces, Loose
  <1>3. Owners \cap Counted = {} /\ Loose \subseteq Counted
    BY DEF Owners, CollectOwners, SortOwners, KillOwners, ArchiveOwners,
           ResetOwners, Counted, Loose
  <1>4. Cardinality(Iterations) \in Nat
    BY IterationsFinite
  <1>5. CASE StaysKind(t)
    <2>1. WordCount'
      BY <1>1, <1>5 DEF WordCount, StaysKind, Iterations
    <2>2. WordPlaces'
      BY <1>2, <1>5, OthersStay DEF WordPlaces, StaysKind
    <2> QED
      BY <2>1, <2>2
  <1>6. CASE TakesKind(t)
    <2>1. Iterations' = Iterations
      BY <1>6 DEF TakesKind, Iterations
    <2>2. WordCount'
      BY <1>1, <1>4, <1>6, <2>1 DEF WordCount, TakesKind
    <2>3. WordPlaces'
      BY <1>2, <1>3, <1>6, OthersStay DEF WordPlaces, TakesKind
    <2> QED
      BY <2>2, <2>3
  <1>7. CASE ReleasesKind(t)
    <2>1. Iterations' = Iterations
      BY <1>7 DEF ReleasesKind, Iterations
    <2>2. iteratorCount = -1 /\ iteratorCount' = 0
      BY <1>2, <1>7 DEF WordPlaces, ReleasesKind
    <2>4. WordCount'
      BY <1>1, <1>4, <1>7, <2>1, <2>2 DEF WordCount, ReleasesKind
    <2>3. WordPlaces'
      BY <1>2, <1>3, <1>7, OthersStay DEF WordPlaces, ReleasesKind
    <2> QED
      BY <2>3, <2>4
  <1>8. CASE JoinsKind(t)
    <2>1. depth[t] < MaxDepth
      BY <1>1, <1>2, <1>8, FxGateAssumption
      DEF JoinsKind, WordPlaces, WordCount
    <2>2. /\ Cardinality(Iterations') = Cardinality(Iterations) + 1
          /\ depth' \in [Threads -> 0..MaxDepth]
      BY <1>8, <2>1, IterationBegins DEF JoinsKind
    <2>3. WordCount'
      BY <1>1, <1>4, <1>8, <2>2 DEF WordCount, JoinsKind
    <2>4. WordPlaces'
      BY <1>1, <1>2, <1>3, <1>8, OthersStay
      DEF WordPlaces, JoinsKind, WordCount
    <2> QED
      BY <2>3, <2>4
  <1>9. CASE LeavesKind(t)
    <2>1. depth[t] > 0
      BY <1>2, <1>9 DEF LeavesKind, WordPlaces
    <2>2. /\ Cardinality(Iterations') = Cardinality(Iterations) - 1
          /\ Cardinality(Iterations) > 0
          /\ depth' \in [Threads -> 0..MaxDepth]
      BY <1>9, <2>1, IterationEnds DEF LeavesKind
    <2>3. WordCount' /\ iteratorCount # -1
      BY <1>1, <1>4, <1>9, <2>2 DEF WordCount, LeavesKind
    <2>4. WordPlaces'
      BY <1>1, <1>2, <1>3, <1>9, <2>3, OthersStay
      DEF WordPlaces, LeavesKind, WordCount
    <2> QED
      BY <2>3, <2>4
  <1>10. CASE DowngradesKind(t)
    <2>1. iteratorCount = -1 /\ depth[t] = 0
      BY <1>1, <1>2, <1>3, <1>10 DEF DowngradesKind, WordPlaces, WordCount
    <2>2. Cardinality(Iterations) = 0 /\ leaked = 0
      BY <1>1, <1>4, <2>1 DEF WordCount
    <2>0. /\ depth' = [depth EXCEPT ![t] = depth[t] + 1]
          /\ depth[t] < MaxDepth
      BY <1>10, <2>1, FxGateAssumption DEF DowngradesKind
    <2>3. /\ Cardinality(Iterations') = Cardinality(Iterations) + 1
          /\ depth' \in [Threads -> 0..MaxDepth]
      BY <2>0, IterationBegins
    <2>4. WordCount'
      BY <1>10, <2>2, <2>3 DEF WordCount, DowngradesKind
    <2>5. WordPlaces'
      BY <1>1, <1>2, <1>3, <1>10, OthersStay
      DEF WordPlaces, DowngradesKind, WordCount
    <2> QED
      BY <2>4, <2>5
  <1>11. CASE UpgradesKind(t)
    <2>1. depth[t] = 1
      BY <1>2, <1>11 DEF UpgradesKind, WordPlaces
    <2>0. depth' = [depth EXCEPT ![t] = depth[t] - 1] /\ depth[t] > 0
      BY <1>11, <2>1 DEF UpgradesKind
    <2>2. /\ Cardinality(Iterations') = Cardinality(Iterations) - 1
          /\ Cardinality(Iterations) > 0
          /\ depth' \in [Threads -> 0..MaxDepth]
      BY <2>0, IterationEnds
    <2>3. WordCount'
      BY <1>1, <1>4, <1>11, <2>2 DEF WordCount, UpgradesKind
    <2>4. WordPlaces'
      BY <1>1, <1>2, <1>3, <1>11, OthersStay
      DEF WordPlaces, UpgradesKind, WordCount
    <2> QED
      BY <2>3, <2>4
  <1>12. CASE LeaksKind(t)
    <2>1. depth[t] = 1
      BY <1>2, <1>12 DEF LeaksKind, WordPlaces
    <2>0. depth' = [depth EXCEPT ![t] = depth[t] - 1] /\ depth[t] > 0
      BY <1>12, <2>1 DEF LeaksKind
    <2>2. /\ Cardinality(Iterations') = Cardinality(Iterations) - 1
          /\ Cardinality(Iterations) > 0
          /\ depth' \in [Threads -> 0..MaxDepth]
      BY <2>0, IterationEnds
    <2>3. WordCount'
      BY <1>1, <1>4, <1>12, <2>2 DEF WordCount, LeaksKind
    <2>4. WordPlaces'
      BY <1>1, <1>2, <1>3, <1>12, OthersStay
      DEF WordPlaces, LeaksKind, WordCount
    <2> QED
      BY <2>3, <2>4
  <1> QED
    BY <1>5, <1>6, <1>7, <1>8, <1>9, <1>10, <1>11, <1>12 DEF WordKind

LEMMA LifeStays ==
  ASSUME TypeOK, WordInv, LifeInv, NEW t \in Threads, Typed(t), LifeKind(t)
  PROVE  LifeInv'
  <1>1. /\ "resetting" \in Owners /\ "resetting" \notin AtWork
        /\ AtWork \subseteq Owners \cup Counted
        /\ "endReset" \notin AtWork
    BY DEF Owners, CollectOwners, SortOwners, KillOwners, ArchiveOwners,
           ResetOwners, Counted, AtWork
  <1>2. \A u \in Threads : pc[u] \in AtWork => SameLife(u)
    BY DEF LifeInv, AtWork
  <1>3. pc[t] = "resetting" => \A u \in Threads : pc[u] \notin AtWork
    BY <1>1, OwnerIsAlone
  <1>4. \A u \in Threads : pc'[u] \in AtWork => SameLife(u)'
    BY <1>1, <1>2, <1>3, OthersStay DEF LifeKind, SameLife, TypeOK
  <1> QED
    BY <1>4 DEF LifeInv, AtWork

-----------------------------------------------------------------------------
(* The invariant.                                                           *)

LEMMA InitFxInv ==
  ASSUME Init
  PROVE  FxInv
  <1> USE DEF Init
  <1>1. /\ "idle" \in Places
        /\ "idle" \notin Counted \cup Owners \cup KillClosed \cup KillExclusive
             \cup ArchivePending \cup ArchiveExclusive \cup PastLease
             \cup PastDrain
    BY DEF Places, Counted, Owners, CollectOwners, SortOwners, KillOwners,
           ArchiveOwners, ResetOwners, KillClosed, KillExclusive,
           ArchivePending, ArchiveExclusive, PastLease, PastDrain
  <1>2. TypeOK
    <2>1. waits \in [Threads -> BOOLEAN]
      OBVIOUS
    <2>2. isInitialized \in BOOLEAN /\ needsGarbageCollection \in BOOLEAN
      OBVIOUS
    <2>3. pc \in [Threads -> Places]
      BY <1>1
    <2>4. /\ alloc \in [Threads -> {"outside", "see", "lock", "recheck",
                                    "inside"}]
          /\ admission \in [Threads -> Nat]
          /\ depth \in [Threads -> 0..MaxDepth]
      BY FxGateAssumption
    <2> QED
      BY <2>1, <2>2, <2>3, <2>4 DEF TypeOK
  <1>3. KillInv /\ ArchiveInv
    BY <1>1 DEF KillInv, ArchiveInv
  <1>4. WordInv
    <2>1. Iterations = {}
      BY DEF Iterations
    <2>2. Cardinality(Iterations) = 0
      BY <2>1, FS_EmptySet
    <2> QED
      BY <1>1, <2>2 DEF WordInv
  <1>5. LeaseInv /\ AllocatorInv
    BY <1>1, FxGateAssumption DEF LeaseInv, AllocatorInv, PastDrain
  <1>6. LifeInv
    BY DEF LifeInv
  <1> QED
    BY <1>2, <1>3, <1>4, <1>5, <1>6 DEF FxInv

LEMMA StepFxInv ==
  ASSUME FxInv, NEW t \in Threads, Step(t)
  PROVE  FxInv'
  <1> USE DEF FxInv, Step
  <1>1. WordCount' /\ WordPlaces'
    BY WordStays
  <1>2. WordInv'
    BY <1>1 DEF WordInv, WordCount, WordPlaces, Loose
  <1>3. TypeOK'
    BY <1>1, OthersStay DEF TypeOK, WordCount, Typed
  <1> QED
    BY <1>2, <1>3, KillStays, ArchiveStays, LeaseStays, AllocatorStays,
       LifeStays

LEMMA NextFxInv ==
  ASSUME FxInv, [Next]_vars
  PROVE  FxInv'
  <1>1. CASE Next
    <2>1. PICK t \in Threads : Step(t)
      BY <1>1, NextStep DEF FxInv
    <2> QED
      BY <2>1, StepFxInv
  <1>2. CASE UNCHANGED vars
    BY <1>2 DEF FxInv, TypeOK, KillInv, ArchiveInv, WordInv, LeaseInv,
                AllocatorInv, LifeInv, SameLife, Iterations, vars, gates,
                life, owners, locals, history
  <1> QED
    BY <1>1, <1>2

\* The invariant the theorems rest on holds for any number of threads.
THEOREM Invariant == Spec => []FxInv
  BY InitFxInv, NextFxInv, PTL DEF Spec

\* Every variable keeps its type: no depth runs over, the word is never below
\* -1 whatever the threads do.
THEOREM TypeCorrect == Spec => []TypeOK
  <1>1. FxInv => TypeOK
    BY DEF FxInv
  <1> QED
    BY <1>1, Invariant, PTL

\* No release or promotion of a gate or of the word finds it changed.
THEOREM ChecksSucceed == Spec => []ChecksHold
  <1>1. FxInv => ChecksHold
    BY CountedIsPositive DEF FxInv, ChecksHold, KillInv, ArchiveInv, WordInv
  <1> QED
    BY <1>1, Invariant, PTL

\* An archive and a reset have the pools to themselves.
THEOREM PoolsAreStill == Spec => []AllocatorsExcluded
  <1>1. FxInv => AllocatorsExcluded
    BY DEF FxInv, AllocatorsExcluded, AllocatorInv, PastDrain
  <1> QED
    BY <1>1, Invariant, PTL

\* A restore, a save and a reset exclude each other by the lease and the gate.
THEOREM LeaseHandshake == Spec => []LeaseExcludes
  <1>1. FxInv => LeaseExcludes
    BY DEF FxInv, LeaseExcludes, LeaseInv, PastLease
  <1> QED
    BY <1>1, Invariant, PTL

\* Nobody works in a life he was not admitted to.
THEOREM OneLife == Spec => []AdmittedInThisLife
  <1>1. FxInv => AdmittedInThisLife
    BY DEF FxInv, AdmittedInThisLife, LifeInv
  <1> QED
    BY <1>1, Invariant, PTL

-----------------------------------------------------------------------------
(* The gate implements the lock.                                            *)

LEMMA LockPlaces ==
  /\ Alone \subseteq Readers
  /\ Readers \subseteq Counted
  /\ Loose \subseteq Readers
  /\ Readers \ Loose \subseteq Alone
  /\ Alone \subseteq KillExclusive
  /\ Owners \cap Counted = {}
  BY DEF Alone, Readers, Counted, Loose, KillExclusive, Owners, CollectOwners,
         SortOwners, KillOwners, ArchiveOwners, ResetOwners

\* A step moves one thread into or out of the readers, the writer, the alone.
LEMMA OneMoves ==
  ASSUME TypeOK, NEW t \in Threads, Typed(t), NEW S
  PROVE  /\ pc'[t] \in S => WhoIs(S)' = WhoIs(S) \cup {t}
         /\ pc'[t] \notin S => WhoIs(S)' = WhoIs(S) \ {t}
  BY OthersStay DEF WhoIs

LEMMA InIts ==
  ASSUME NEW t \in Threads, NEW S
  PROVE  t \in WhoIs(S) <=> pc[t] \in S
  BY DEF WhoIs

LEMMA OwnerExcludes ==
  ASSUME FxInv, NEW t \in Threads, pc[t] \in Owners
  PROVE  WhoIs(Readers) = {} /\ WhoIs(Alone) = {} /\ WhoIs(Owners) = {t}
  BY OwnerIsAlone, LockPlaces DEF FxInv, WhoIs

LEMMA CountedExcludes ==
  ASSUME FxInv, NEW t \in Threads, pc[t] \in Counted
  PROVE  WhoIs(Owners) = {}
  BY OwnerIsAlone DEF FxInv, WhoIs

LEMMA AloneIsOne ==
  ASSUME FxInv, NEW t \in Threads, pc[t] \in Alone
  PROVE  WhoIs(Alone) = {t}
  BY LockPlaces DEF FxInv, KillInv, WhoIs

LEMMA OpenMeansNoneAlone ==
  ASSUME FxInv, killGate = 0
  PROVE  WhoIs(Alone) = {}
  BY LockPlaces DEF FxInv, KillInv, WhoIs

LEMMA FreeMeansNobody ==
  ASSUME FxInv, iteratorCount = 0
  PROVE  WhoIs(Readers) = {} /\ WhoIs(Owners) = {} /\ WhoIs(Alone) = {}
  BY CountedIsPositive, LockPlaces DEF FxInv, WordInv, WhoIs

\* A counted thread that finds the word at one is the only reader.
LEMMA OneMeansAlone ==
  ASSUME FxInv, iteratorCount = 1, NEW t \in Threads, pc[t] \in Counted
  PROVE  WhoIs(Readers) \subseteq {t}
  <1>1. depth[t] > 0
    BY DEF FxInv, WordInv
  <1>2. Cardinality(Iterations) # 0
    BY <1>1, NoIterations DEF FxInv
  <1>3. Cardinality(Iterations) = 1
    BY <1>2, IterationsFinite DEF FxInv, TypeOK, WordInv
  <1>4. \A u \in Threads : pc[u] \in Readers => u = t
    BY <1>1, <1>3, OneIteration, LockPlaces DEF FxInv, WordInv
  <1> QED
    BY <1>4 DEF WhoIs

LEMMA LockStep ==
  ASSUME FxInv, NEW t \in Threads, Step(t)
  PROVE  [Lock!Next]_(Lock!lockVars)
  <1> DEFINE Stutters ==
        /\ WhoIs(Readers)' = WhoIs(Readers)
        /\ WhoIs(Owners)' = WhoIs(Owners)
        /\ WhoIs(Alone)' = WhoIs(Alone)
  <1>0. TypeOK /\ Typed(t) /\ ReadKind(t) /\ WordKind(t)
    BY DEF FxInv, Step
  <1>1. \A S \in {Readers, Owners, Alone} :
          /\ pc'[t] \in S => WhoIs(S)' = WhoIs(S) \cup {t}
          /\ pc'[t] \notin S => WhoIs(S)' = WhoIs(S) \ {t}
          /\ t \in WhoIs(S) <=> pc[t] \in S
    BY <1>0, OneMoves, InIts
  <1>2. \/ Stutters
        \/ Lock!BeginRead(t) \/ Lock!EndRead(t) \/ Lock!BeginWrite(t)
        \/ Lock!EndWrite(t) \/ Lock!Downgrade(t) \/ Lock!Upgrade(t)
        \/ Lock!Reopen(t)
    <2>1. CASE StaysKind(t)
      <3>1. CASE ReadRoute(pc[t], pc'[t])
        BY <1>1, <2>1, <3>1, LockPlaces, AloneIsOne, CountedExcludes
        DEF StaysKind, ReadRoute, Lock!EndRead, Lock!Reopen
      <3>2. CASE Reads(pc[t], pc'[t])
        BY <1>1, <2>1, <3>2, LockPlaces, OpenMeansNoneAlone, CountedExcludes
        DEF StaysKind, Reads, Lock!BeginRead
      <3> QED
        BY <1>0, <3>1, <3>2 DEF ReadKind
    <2>2. CASE TakesKind(t)
      BY <1>1, <2>2, LockPlaces, FreeMeansNobody
      DEF TakesKind, Lock!BeginWrite
    <2>3. CASE ReleasesKind(t)
      BY <1>1, <2>3, LockPlaces, OwnerExcludes DEF ReleasesKind, Lock!EndWrite
    <2>4. CASE JoinsKind(t)
      BY <1>0, <1>1, <2>4, LockPlaces, AloneIsOne
      DEF JoinsKind, ReadKind, ReadRoute, Reads, Lock!Reopen
    <2>5. CASE LeavesKind(t)
      <3>1. CASE pc'[t] \notin Counted \cup Owners
        <4>1. /\ WhoIs(Readers)' = WhoIs(Readers) \ {t}
              /\ WhoIs(Alone)' = WhoIs(Alone) \ {t}
              /\ WhoIs(Owners)' = WhoIs(Owners) \ {t}
          BY <1>1, <3>1, LockPlaces
        <4>2. t \notin WhoIs(Owners)
          BY <1>1, <2>5, LockPlaces DEF LeavesKind
        <4>3. CASE pc[t] \in Readers
          BY <1>1, <4>1, <4>2, <4>3 DEF Lock!EndRead
        <4>4. CASE pc[t] \notin Readers
          BY <1>1, <4>1, <4>2, <4>4, LockPlaces
        <4> QED
          BY <4>3, <4>4
      <3>2. CASE pc[t] \in Loose /\ pc'[t] \in Loose
        BY <1>0, <1>1, <3>2, LockPlaces, AloneIsOne
        DEF ReadKind, ReadRoute, Reads, Lock!Reopen
      <3> QED
        BY <2>5, <3>1, <3>2 DEF LeavesKind
    <2>6. CASE DowngradesKind(t)
      <3>1. /\ WhoIs(Readers) = {} /\ WhoIs(Alone) = {}
            /\ WhoIs(Owners) = {t} /\ WhoIs(Owners)' = {}
        BY <1>1, <2>6, LockPlaces, OwnerExcludes DEF DowngradesKind
      <3>2. CASE pc'[t] \in Alone
        <4>1. WhoIs(Readers)' = {t} /\ WhoIs(Alone)' = {t}
          BY <1>1, <3>1, <3>2, LockPlaces
        <4> QED
          BY <3>1, <4>1 DEF Lock!Downgrade
      <3>3. CASE pc'[t] \notin Alone
        <4>1. pc'[t] \notin Readers
          BY <1>0, <2>6, <3>3, LockPlaces
          DEF DowngradesKind, ReadKind, ReadRoute, Reads
        <4>2. WhoIs(Readers)' = {} /\ WhoIs(Alone)' = {}
          BY <1>1, <3>1, <3>3, <4>1
        <4> QED
          BY <3>1, <4>2 DEF Lock!EndWrite
      <3> QED
        BY <3>2, <3>3
    <2>7. CASE UpgradesKind(t)
      <3>1. /\ WhoIs(Readers) \subseteq {t} /\ WhoIs(Readers)' = {}
            /\ WhoIs(Owners) = {} /\ WhoIs(Owners)' = {t}
        BY <1>1, <2>7, LockPlaces, OneMeansAlone, CountedExcludes
        DEF UpgradesKind
      <3>2. CASE pc[t] \in Readers
        <4>1. pc[t] \in Alone /\ pc'[t] \notin Alone
          BY <2>7, <3>2, LockPlaces DEF UpgradesKind
        <4>2. WhoIs(Alone) = {t} /\ WhoIs(Alone)' = {}
          BY <1>1, <4>1, AloneIsOne
        <4>3. WhoIs(Readers) = {t}
          BY <1>1, <3>1, <3>2
        <4> QED
          BY <3>1, <4>2, <4>3 DEF Lock!Upgrade
      <3>3. CASE pc[t] \notin Readers
        <4>1. WhoIs(Readers) = {}
          BY <1>1, <3>1, <3>3
        <4>2. WhoIs(Alone) = {} /\ WhoIs(Alone)' = {}
          <5>1. WhoIs(Alone) \subseteq WhoIs(Readers)
            BY LockPlaces DEF WhoIs
          <5>2. pc'[t] \notin Alone
            BY <2>7, LockPlaces DEF UpgradesKind
          <5> QED
            BY <1>1, <4>1, <5>1, <5>2
        <4> QED
          BY <3>1, <4>1, <4>2 DEF Lock!BeginWrite
      <3> QED
        BY <3>2, <3>3
    <2>8. CASE LeaksKind(t)
      BY <1>0, <1>1, <2>8, LockPlaces DEF LeaksKind, Lock!EndRead
    <2> QED
      BY <1>0, <2>1, <2>2, <2>3, <2>4, <2>5, <2>6, <2>7, <2>8 DEF WordKind
  <1> QED
    BY <1>2 DEF Lock!Next, Lock!lockVars

\* The five words implement a readers-writer lock, with any number of threads.
THEOREM GateIsALock == Spec => ImplementsReadersWriters
  <1>1. Init => Lock!Init
    BY DEF Init, Lock!Init, WhoIs, Readers, Alone, Owners, CollectOwners,
           SortOwners, KillOwners, ArchiveOwners, ResetOwners
  <1>2. ASSUME FxInv, [Next]_vars
        PROVE  [Lock!Next]_(Lock!lockVars)
    <2>1. CASE Next
      <3>1. PICK t \in Threads : Step(t)
        BY <1>2, <2>1, NextStep DEF FxInv
      <3> QED
        BY <1>2, <3>1, LockStep
    <2>2. CASE UNCHANGED vars
      BY <2>2 DEF vars, Lock!lockVars, WhoIs
    <2> QED
      BY <1>2, <2>1, <2>2
  <1> QED
    BY <1>1, <1>2, Invariant, PTL DEF Spec, ImplementsReadersWriters, Lock!Spec

=============================================================================
