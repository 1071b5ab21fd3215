------------------------------ MODULE WorkerQueue ------------------------------
(***************************************************************************)
(* One queue of renderer commands (g_workerCmds[type] in                   *)
(* gfx_d3d/r_workercmds.cpp): a ring of Capacity slots between the threads *)
(* that submit commands of this type and the threads that execute them.    *)
(* Any thread may do either; a thread that finds the ring full executes    *)
(* its command itself.  One step is one access to a shared word or slot.   *)
(*                                                                         *)
(* The event that wakes an idle thread is waited for at most a millisecond *)
(* at a time, so it is no step's guard.                                    *)
(***************************************************************************)
EXTENDS Integers, Sequences, FiniteSets

CONSTANTS
  Threads,     \* the main thread and the workers
  Submitters,  \* those of them that submit commands
  MaxCommands, \* how many commands are submitted
  Capacity,    \* WorkerCmds.bufCount
  BatchCount,  \* kWorkerBatchCount, or 1 for a type with a busy predicate
  MayBeBusy    \* the type has a busy predicate

ASSUME WorkerQueueAssumption ==
  /\ IsFiniteSet(Threads)
  /\ Submitters \subseteq Threads
  /\ Capacity \in Nat \ {0}
  /\ BatchCount \in Nat \ {0}
  /\ MaxCommands \in Nat
  /\ MayBeBusy \in BOOLEAN

VARIABLES
  \* WorkerCmds
  startPos,
  endPos,
  producerGuard,
  inSize,            \* slots reserved, published, or being executed from
  outSize,           \* slots published and not claimed
  consumerGuard,
  outstandingCount,  \* commands being submitted, queued, or executed
  buf,
  \* the threads: what each does next, the command it submits, the slot it
  \* writes, the number of commands it claimed and their copies
  pc,
  item,
  slot,
  count,
  data,
  \* history
  submitted,         \* how many commands were handed to AddWorkerCmd
  executed           \* how often each was executed

words == <<startPos, endPos, producerGuard, inSize, outSize, consumerGuard,
           outstandingCount, buf>>
locals == <<item, slot, count, data>>
vars == <<words, pc, locals, submitted, executed>>

-----------------------------------------------------------------------------

Slots == 0..Capacity - 1

\* The commands, named in the order in which they are submitted, and the content
\* of a slot never written.
Commands == 1..MaxCommands
NoCommand == 0

Init ==
  /\ startPos = 0
  /\ endPos = 0
  /\ producerGuard = FALSE
  /\ inSize = 0
  /\ outSize = 0
  /\ consumerGuard = FALSE
  /\ outstandingCount = 0
  /\ buf = [s \in Slots |-> NoCommand]
  /\ pc = [t \in Threads |-> "idle"]
  /\ item = [t \in Threads |-> NoCommand]
  /\ slot = [t \in Threads |-> 0]
  /\ count = [t \in Threads |-> 0]
  /\ data = [t \in Threads |-> << >>]
  /\ submitted = 0
  /\ executed = [c \in Commands |-> 0]

Goes(t, from, to) ==
  /\ pc[t] = from
  /\ pc' = [pc EXCEPT ![t] = to]

\* R_ProcessWorkerCmdInternal
Execute(c) == executed' = [executed EXCEPT ![c] = @ + 1]

-----------------------------------------------------------------------------
(* AddWorkerCmd. *)

\* The submission is counted first.  With the workers switched off
\* (r_smp_worker) the command is executed at once.
Submit(t) ==
  LET c == submitted + 1 IN
    /\ c \in Commands
    /\ \E next \in {"lockProducer", "executeInline"} : Goes(t, "idle", next)
    /\ submitted' = c
    /\ item' = [item EXCEPT ![t] = c]
    /\ outstandingCount' = outstandingCount + 1
    /\ UNCHANGED <<startPos, endPos, producerGuard, inSize, outSize,
                   consumerGuard, buf, slot, count, data, executed>>

LockProducer(t) ==
  /\ ~producerGuard
  /\ producerGuard' = TRUE
  /\ Goes(t, "lockProducer", "reserve")
  /\ UNCHANGED <<startPos, endPos, inSize, outSize, consumerGuard,
                 outstandingCount, buf, locals, submitted, executed>>

\* A faulty reservation that allows one slot too many.
ReserveOneMore(t) ==
  /\ IF inSize <= Capacity
     THEN inSize' = inSize + 1 /\ Goes(t, "reserve", "advanceEnd")
     ELSE inSize' = inSize /\ Goes(t, "reserve", "giveUp")
  /\ UNCHANGED <<startPos, endPos, producerGuard, outSize, consumerGuard,
                 outstandingCount, buf, locals, submitted, executed>>

Reserve(t) ==
  /\ IF inSize < Capacity
     THEN inSize' = inSize + 1 /\ Goes(t, "reserve", "advanceEnd")
     ELSE inSize' = inSize /\ Goes(t, "reserve", "giveUp")
  /\ UNCHANGED <<startPos, endPos, producerGuard, outSize, consumerGuard,
                 outstandingCount, buf, locals, submitted, executed>>

AdvanceEnd(t) ==
  /\ Goes(t, "advanceEnd", "write")
  /\ slot' = [slot EXCEPT ![t] = endPos]
  /\ endPos' = (endPos + 1) % Capacity
  /\ UNCHANGED <<startPos, producerGuard, inSize, outSize, consumerGuard,
                 outstandingCount, buf, item, count, data, submitted, executed>>

Write(t) ==
  /\ Goes(t, "write", "publish")
  /\ buf' = [buf EXCEPT ![slot[t]] = item[t]]
  /\ UNCHANGED <<startPos, endPos, producerGuard, inSize, outSize,
                 consumerGuard, outstandingCount, locals, submitted, executed>>

Publish(t) ==
  /\ Goes(t, "publish", "unlockProducer")
  /\ outSize' = outSize + 1
  /\ UNCHANGED <<startPos, endPos, producerGuard, inSize, consumerGuard,
                 outstandingCount, buf, locals, submitted, executed>>

UnlockProducer(t) ==
  /\ \/ Goes(t, "unlockProducer", "idle")
     \/ Goes(t, "giveUp", "executeInline")
  /\ producerGuard' = FALSE
  /\ UNCHANGED <<startPos, endPos, inSize, outSize, consumerGuard,
                 outstandingCount, buf, locals, submitted, executed>>

ExecuteInline(t) ==
  /\ Goes(t, "executeInline", "completeInline")
  /\ Execute(item[t])
  /\ UNCHANGED <<words, locals, submitted>>

CompleteInline(t) ==
  /\ Goes(t, "completeInline", "idle")
  /\ outstandingCount' = outstandingCount - 1
  /\ UNCHANGED <<startPos, endPos, producerGuard, inSize, outSize,
                 consumerGuard, buf, locals, submitted, executed>>

-----------------------------------------------------------------------------
(* R_ProcessWorkerCmd.  A thread that finds the guard taken returns at once. *)

LockConsumer(t) ==
  /\ ~consumerGuard
  /\ consumerGuard' = TRUE
  /\ Goes(t, "idle", "check")
  /\ UNCHANGED <<startPos, endPos, producerGuard, inSize, outSize,
                 outstandingCount, buf, locals, submitted, executed>>

Check(t) ==
  /\ \/ outSize > 0 /\ Goes(t, "check", "claim")
     \/ (outSize = 0 \/ MayBeBusy) /\ Goes(t, "check", "leave")
  /\ UNCHANGED <<words, locals, submitted, executed>>

\* A faulty claim that frees the slots before they are copied.
ClaimAndFree(t) ==
  LET n == IF outSize < BatchCount THEN outSize ELSE BatchCount
  IN  /\ Goes(t, "claim", "copy")
      /\ outSize' = outSize - n
      /\ inSize' = inSize - n
      /\ count' = [count EXCEPT ![t] = n]
      /\ data' = [data EXCEPT ![t] = << >>]
      /\ UNCHANGED <<startPos, endPos, producerGuard, consumerGuard,
                     outstandingCount, buf, item, slot, submitted, executed>>

\* A faulty claim that counts the commands as completed.
ClaimAndComplete(t) ==
  LET n == IF outSize < BatchCount THEN outSize ELSE BatchCount
  IN  /\ Goes(t, "claim", "copy")
      /\ outSize' = outSize - n
      /\ outstandingCount' = outstandingCount - n
      /\ count' = [count EXCEPT ![t] = n]
      /\ data' = [data EXCEPT ![t] = << >>]
      /\ UNCHANGED <<startPos, endPos, producerGuard, inSize, consumerGuard,
                     buf, item, slot, submitted, executed>>

Claim(t) ==
  LET n == IF outSize < BatchCount THEN outSize ELSE BatchCount
  IN  /\ Goes(t, "claim", "copy")
      /\ outSize' = outSize - n
      /\ count' = [count EXCEPT ![t] = n]
      /\ data' = [data EXCEPT ![t] = << >>]
      /\ UNCHANGED <<startPos, endPos, producerGuard, inSize, consumerGuard,
                     outstandingCount, buf, item, slot, submitted, executed>>

\* One slot at a time, around the end of the ring.
Copy(t) ==
  /\ \/ Len(data[t]) + 1 < count[t] /\ Goes(t, "copy", "copy")
     \/ Len(data[t]) + 1 = count[t] /\ Goes(t, "copy", "advanceStart")
  /\ data' = [data EXCEPT ![t] =
                Append(@, buf[(startPos + Len(data[t])) % Capacity])]
  /\ UNCHANGED <<words, item, slot, count, submitted, executed>>

AdvanceStart(t) ==
  /\ Goes(t, "advanceStart", "unlockConsumer")
  /\ startPos' = (startPos + count[t]) % Capacity
  /\ UNCHANGED <<endPos, producerGuard, inSize, outSize, consumerGuard,
                 outstandingCount, buf, locals, submitted, executed>>

\* A faulty consumer that keeps the guard of an empty ring.
KeepGuardWhenEmpty(t) ==
  /\ \/ Goes(t, "leave", "idle") /\ consumerGuard' = consumerGuard
     \/ Goes(t, "unlockConsumer", "execute") /\ consumerGuard' = FALSE
  /\ UNCHANGED <<startPos, endPos, producerGuard, inSize, outSize,
                 outstandingCount, buf, locals, submitted, executed>>

UnlockConsumer(t) ==
  /\ \/ Goes(t, "leave", "idle")
     \/ Goes(t, "unlockConsumer", "execute")
  /\ consumerGuard' = FALSE
  /\ UNCHANGED <<startPos, endPos, producerGuard, inSize, outSize,
                 outstandingCount, buf, locals, submitted, executed>>

ExecuteClaimed(t) ==
  /\ \/ Len(data[t]) > 1 /\ Goes(t, "execute", "execute")
     \/ Len(data[t]) = 1 /\ Goes(t, "execute", "freeSlots")
  /\ Execute(Head(data[t]))
  /\ data' = [data EXCEPT ![t] = Tail(@)]
  /\ UNCHANGED <<words, item, slot, count, submitted>>

FreeSlots(t) ==
  /\ Goes(t, "freeSlots", "complete")
  /\ inSize' = inSize - count[t]
  /\ UNCHANGED <<startPos, endPos, producerGuard, outSize, consumerGuard,
                 outstandingCount, buf, locals, submitted, executed>>

Complete(t) ==
  /\ Goes(t, "complete", "idle")
  /\ outstandingCount' = outstandingCount - count[t]
  /\ UNCHANGED <<startPos, endPos, producerGuard, inSize, outSize,
                 consumerGuard, buf, locals, submitted, executed>>

-----------------------------------------------------------------------------

Produce(t) ==
  \/ Reserve(t) \/ AdvanceEnd(t) \/ Write(t) \/ Publish(t)
  \/ UnlockProducer(t) \/ ExecuteInline(t) \/ CompleteInline(t)

Consume(t) ==
  \/ Check(t) \/ Claim(t) \/ Copy(t) \/ AdvanceStart(t) \/ UnlockConsumer(t)
  \/ ExecuteClaimed(t) \/ FreeSlots(t) \/ Complete(t)

Next ==
  \E t \in Threads :
    \/ t \in Submitters /\ Submit(t)
    \/ LockProducer(t) \/ Produce(t) \/ LockConsumer(t) \/ Consume(t)

Spec == Init /\ [][Next]_vars

\* A thread that looks for commands, finds one and may execute it: the type is
\* not busy.
FindCommand(t) == Check(t) /\ outSize > 0 /\ pc'[t] = "claim"

\* The scheduler runs every thread, and a guard that is free again and again
\* is taken in the end by a thread that spins for it.  Some thread keeps
\* looking for commands, as the main thread does while it waits for them, and
\* a type is not busy for ever.
Fairness ==
  /\ \A t \in Threads : WF_vars(Produce(t) \/ Consume(t))
  /\ \A t \in Threads : SF_vars(LockProducer(t))
  /\ SF_vars(outSize > 0 /\ \E t \in Threads : LockConsumer(t))
  /\ SF_vars(\E t \in Threads : FindCommand(t))

FairSpec == Spec /\ Fairness

-----------------------------------------------------------------------------
(* Properties. *)

Locations ==
  {"idle", "lockProducer", "reserve", "advanceEnd", "write", "publish",
   "unlockProducer", "giveUp", "executeInline", "completeInline", "check",
   "leave", "claim", "copy", "advanceStart", "unlockConsumer", "execute",
   "freeSlots", "complete"}

\* The values of the queue's words and of what the threads hold.
TypeOK ==
  /\ startPos \in Slots
  /\ endPos \in Slots
  /\ producerGuard \in BOOLEAN
  /\ inSize \in 0..Capacity
  /\ outSize \in 0..Capacity
  /\ consumerGuard \in BOOLEAN
  /\ outstandingCount \in Nat
  /\ buf \in [Slots -> Commands \cup {NoCommand}]
  /\ pc \in [Threads -> Locations]
  /\ item \in [Threads -> Commands \cup {NoCommand}]
  /\ slot \in [Threads -> Slots]
  /\ count \in [Threads -> 0..BatchCount]
  /\ data \in [Threads -> Seq(Commands \cup {NoCommand})]
  /\ submitted \in 0..MaxCommands
  /\ executed \in [Commands -> Nat]

\* No command is lost to another that was written over it, executed from two
\* places, or read from a slot before it was written there.
ExecutedOnce ==
  \A c \in Commands : executed[c] <= IF c <= submitted THEN 1 ELSE 0

\* A thread that sees no outstanding command of this type may rely on every
\* one that was submitted being finished (R_WorkerQueuePending).
DrainedMeansDone ==
  outstandingCount = 0 => \A c \in 1..submitted : executed[c] = 1

\* None of the queue's own checks fails (R_WorkerQueueInvariantFailure).
ChecksHold ==
  \A t \in Threads :
    /\ pc[t] = "publish" => outSize < Capacity
    /\ pc[t] = "check" => outSize <= Capacity
    /\ pc[t] = "claim" => outSize \in 1..Capacity
    /\ pc[t] \in {"unlockProducer", "giveUp"} => producerGuard
    /\ pc[t] \in {"unlockConsumer", "leave"} => consumerGuard
    /\ pc[t] = "freeSlots" => inSize \in count[t]..Capacity
    /\ pc[t] = "complete" => outstandingCount >= count[t]
    /\ pc[t] = "completeInline" => outstandingCount > 0

\* Every command that is submitted is executed.
SubmittedIsExecuted ==
  \A c \in Commands : c <= submitted ~> executed[c] = 1

-----------------------------------------------------------------------------
(* Why it works: the counters count what the threads hold and what is in the *)
(* ring, and every command not executed yet is in exactly one place.         *)

ProducerSection ==
  {"reserve", "advanceEnd", "write", "publish", "unlockProducer", "giveUp"}

ConsumerSection ==
  {"check", "leave", "claim", "copy", "advanceStart", "unlockConsumer"}

\* The guards exclude.
GuardsInv ==
  /\ \A t \in Threads : pc[t] \in ProducerSection => producerGuard
  /\ \A t \in Threads : pc[t] \in ConsumerSection => consumerGuard
  /\ \A t, u \in Threads :
       pc[t] \in ProducerSection /\ pc[u] \in ProducerSection => t = u
  /\ \A t, u \in Threads :
       pc[t] \in ConsumerSection /\ pc[u] \in ConsumerSection => t = u

Producing == {"advanceEnd", "write", "publish"}
Claiming == {"copy", "advanceStart", "unlockConsumer", "execute", "freeSlots"}

\* The slots reserved for a thread, and the commands it is responsible for.
SlotsHeld ==
  [t \in Threads |-> IF pc[t] \in Producing THEN 1
                     ELSE IF pc[t] \in Claiming THEN count[t] ELSE 0]

CommandsHeld ==
  [t \in Threads |->
     IF pc[t] \in Producing \cup {"lockProducer", "reserve", "giveUp",
                                  "executeInline", "completeInline"} THEN 1
     ELSE IF pc[t] \in Claiming \cup {"complete"} THEN count[t] ELSE 0]

Units(held) ==
  {p \in Threads \X (0..BatchCount - 1) : p[2] < held[p[1]]}

Total(held) == Cardinality(Units(held))

CountsInv ==
  /\ inSize = outSize + Total(SlotsHeld)
  /\ inSize <= Capacity
  /\ outstandingCount = outSize + Total(CommandsHeld)

\* A consumer claims what is there, and executes what it copied.
ClaimsInv ==
  \A t \in Threads :
    /\ pc[t] = "claim" => outSize > 0
    /\ pc[t] \in Claiming \cup {"complete"} => count[t] > 0
    /\ Len(data[t]) <= count[t]
    /\ pc[t] = "copy" => Len(data[t]) < count[t]
    /\ pc[t] \in {"advanceStart", "unlockConsumer"} => Len(data[t]) = count[t]
    /\ pc[t] = "execute" => Len(data[t]) > 0
    /\ pc[t] \notin Claiming \ {"freeSlots"} => data[t] = << >>

\* The slots claimed that the start of the ring has not left behind, and those
\* of them that were copied.
Copying == {t \in Threads : pc[t] \in {"copy", "advanceStart"}}
Claimed == IF Copying = {} THEN 0 ELSE count[CHOOSE t \in Copying : TRUE]
Copied == IF Copying = {} THEN 0 ELSE Len(data[CHOOSE t \in Copying : TRUE])

Position(n) == (startPos + n) % Capacity

\* The slots from which commands have still to be copied.
Window == {Position(n) : n \in Copied..Claimed + outSize - 1}

WindowInv ==
  /\ endPos = Position(Claimed + outSize +
                IF \E t \in Threads : pc[t] \in {"write", "publish"}
                THEN 1 ELSE 0)
  /\ \A t \in Threads :
       /\ pc[t] \in {"write", "publish"} => slot[t] = Position(Claimed + outSize)
       /\ pc[t] = "publish" => buf[slot[t]] = item[t]

\* A thread has a command of its own until it publishes or executes it.
Carries(t) ==
  pc[t] \in Producing \cup {"lockProducer", "reserve", "giveUp", "executeInline"}

Waits(c) == c \in 1..submitted /\ executed[c] = 0

CarriedInv ==
  \A t \in Threads :
    Carries(t) =>
      /\ Waits(item[t])
      /\ \A u \in Threads : Carries(u) /\ item[u] = item[t] => u = t

QueuedInv ==
  \A s \in Window :
    /\ Waits(buf[s])
    /\ \A r \in Window : buf[r] = buf[s] => r = s
    /\ \A t \in Threads : Carries(t) => item[t] # buf[s]

CopiedInv ==
  \A t \in Threads : \A i \in 1..Len(data[t]) :
    /\ Waits(data[t][i])
    /\ \A u \in Threads : \A j \in 1..Len(data[u]) :
         data[u][j] = data[t][i] => u = t /\ j = i
    /\ \A u \in Threads : Carries(u) => item[u] # data[t][i]
    /\ \A s \in Window : buf[s] # data[t][i]

\* What waits for its execution is somewhere, and all the rest is done.
DoneInv ==
  \A c \in Commands :
    \/ c > submitted /\ executed[c] = 0
    \/ c <= submitted /\ executed[c] = 1
    \/ \E t \in Threads : Carries(t) /\ item[t] = c
    \/ \E s \in Window : buf[s] = c
    \/ \E t \in Threads : \E i \in 1..Len(data[t]) : data[t][i] = c

\* The words of the queue, the threads and the history agree.
QueueInv ==
  /\ TypeOK
  /\ GuardsInv /\ CountsInv /\ ClaimsInv /\ WindowInv
  /\ CarriedInv /\ QueuedInv /\ CopiedInv /\ DoneInv

=============================================================================
