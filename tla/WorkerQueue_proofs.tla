--------------------------- MODULE WorkerQueue_proofs ---------------------------
(***************************************************************************)
(* Proofs about WorkerQueue, for every number of threads, commands and     *)
(* slots and every size of a batch.                                        *)
(***************************************************************************)
EXTENDS WorkerQueue, RingFacts, FiniteSetTheorems, SequenceTheorems

LEMMA Sizes ==
  /\ IsFiniteSet(Threads)
  /\ Capacity \in Nat \ {0} /\ BatchCount \in Nat \ {0} /\ MaxCommands \in Nat
BY WorkerQueueAssumption

-----------------------------------------------------------------------------
(* Sums over the threads.                                                    *)

LEMMA UnitsFinite ==
  ASSUME NEW held
  PROVE  IsFiniteSet(Units(held)) /\ Total(held) \in Nat
<1>1. IsFiniteSet(0..BatchCount - 1)
  BY Sizes, FS_Interval
<1>2. IsFiniteSet(Threads \X (0..BatchCount - 1))
  BY <1>1, Sizes, FS_Product
<1>3. Units(held) \in SUBSET (Threads \X (0..BatchCount - 1))
  BY DEF Units
<1>4. IsFiniteSet(Units(held))
  BY <1>2, <1>3, FS_Subset
<1>. QED BY <1>4, FS_CardinalityType DEF Total

LEMMA TotalSplits ==
  ASSUME NEW held \in [Threads -> 0..BatchCount], NEW t \in Threads
  PROVE  Total(held) = Cardinality({p \in Units(held) : p[1] # t}) + held[t]
<1> DEFINE Rest == {p \in Units(held) : p[1] # t}
           Own == {t} \X (0..held[t] - 1)
<1>1. IsFiniteSet(Rest)
  <2>1. Rest \in SUBSET Units(held)
    OBVIOUS
  <2>. QED BY <2>1, UnitsFinite, FS_Subset
<1>2. IsFiniteSet(Own) /\ Cardinality(Own) = held[t]
  <2>1. held[t] \in Nat
    BY Sizes
  <2>2. IsFiniteSet(0..held[t] - 1) /\ Cardinality(0..held[t] - 1) = held[t]
    <3>1. 0 \in Int /\ held[t] - 1 \in Int
      BY <2>1
    <3>2. /\ IsFiniteSet(0..held[t] - 1)
          /\ Cardinality(0..held[t] - 1) =
               IF 0 > held[t] - 1 THEN 0 ELSE held[t] - 1 - 0 + 1
      BY <3>1, FS_Interval
    <3>. QED BY <2>1, <3>2
  <2>3. IsFiniteSet({t}) /\ Cardinality({t}) = 1
    BY FS_Singleton
  <2>4. IsFiniteSet(Own) /\ Cardinality(Own) = 1 * held[t]
    BY <2>2, <2>3, FS_Product
  <2>. QED BY <2>1, <2>4
<1>3. Units(held) = Rest \cup Own
  BY Sizes DEF Units
<1>4. Rest \cap Own = {}
  OBVIOUS
<1> HIDE DEF Rest, Own
<1>5. Cardinality(Rest \cup Own) =
        Cardinality(Rest) + Cardinality(Own) - Cardinality(Rest \cap Own)
  BY <1>1, <1>2, FS_Union
<1>6. Cardinality(Rest) \in Nat
  BY <1>1, FS_CardinalityType
<1>7. held[t] \in Nat
  BY Sizes
<1>8. Cardinality(Rest \cap Own) = 0
  BY <1>4, FS_EmptySet
<1>9. Cardinality(Units(held)) = Cardinality(Rest) + held[t]
  BY <1>2, <1>3, <1>5, <1>6, <1>7, <1>8
<1>. QED BY <1>9 DEF Total, Rest

\* A sum changes by what one thread's part changes.
LEMMA TotalMoves ==
  ASSUME NEW old \in [Threads -> 0..BatchCount],
         NEW new \in [Threads -> 0..BatchCount],
         NEW t \in Threads, \A u \in Threads : u # t => new[u] = old[u]
  PROVE  Total(new) = Total(old) - old[t] + new[t]
<1> DEFINE Rest(held) == {p \in Units(held) : p[1] # t}
<1>1. Rest(new) = Rest(old)
  BY DEF Units
<1>2. /\ Total(old) = Cardinality(Rest(old)) + old[t]
      /\ Total(new) = Cardinality(Rest(new)) + new[t]
  BY TotalSplits
<1>3. Cardinality(Rest(old)) \in Nat
  <2>1. Rest(old) \in SUBSET Units(old)
    OBVIOUS
  <2>. QED BY <2>1, UnitsFinite, FS_Subset, FS_CardinalityType
<1> HIDE DEF Rest
<1>4. old[t] \in Nat /\ new[t] \in Nat
  BY Sizes
<1>. QED BY <1>1, <1>2, <1>3, <1>4

LEMMA TotalBounds ==
  ASSUME NEW held \in [Threads -> 0..BatchCount], NEW t \in Threads
  PROVE  /\ Total(held) \in Nat
         /\ held[t] <= Total(held)
         /\ \A u \in Threads : u # t => held[t] + held[u] <= Total(held)
<1>1. Total(held) \in Nat
  BY UnitsFinite
<1> DEFINE less == [held EXCEPT ![t] = 0]
<1>2. less \in [Threads -> 0..BatchCount] /\ less[t] = 0
      /\ \A u \in Threads : u # t => less[u] = held[u]
  BY Sizes
<1>3. Total(less) = Total(held) - held[t] + 0 /\ Total(less) \in Nat
  BY <1>2, TotalMoves, UnitsFinite
<1> HIDE DEF less
<1>4. ASSUME NEW u \in Threads, u # t
      PROVE  held[t] + held[u] <= Total(held)
  <2> DEFINE least == [less EXCEPT ![u] = 0]
  <2>1. least \in [Threads -> 0..BatchCount] /\ least[u] = 0
        /\ \A v \in Threads : v # u => least[v] = less[v]
    BY <1>2, Sizes
  <2>2. Total(least) = Total(less) - less[u] + 0 /\ Total(least) \in Nat
    BY <1>2, <2>1, TotalMoves, UnitsFinite
  <2> HIDE DEF least
  <2>3. held[t] \in Nat /\ held[u] \in Nat /\ less[u] = held[u]
    BY <1>2, <1>4, Sizes
  <2>. QED BY <1>1, <1>3, <2>2, <2>3
<1>5. held[t] \in Nat
  BY Sizes
<1>. QED BY <1>1, <1>3, <1>4, <1>5

LEMMA TotalOfNothing ==
  ASSUME NEW held, \A t \in Threads : held[t] = 0
  PROVE  Total(held) = 0
<1>1. Units(held) = {}
  BY Sizes DEF Units
<1>. QED BY <1>1, FS_EmptySet DEF Total

LEMMA TotalOfNothingOnly ==
  ASSUME NEW held \in [Threads -> 0..BatchCount], Total(held) = 0,
         NEW t \in Threads
  PROVE  held[t] = 0
<1>1. held[t] <= 0 /\ held[t] \in Nat
  BY TotalBounds, Sizes
<1>. QED BY <1>1

-----------------------------------------------------------------------------
(* What the invariant gives.                                                 *)

LEMMA TypeFacts ==
  ASSUME TypeOK
  PROVE  /\ startPos \in Slots /\ endPos \in Slots
         /\ producerGuard \in BOOLEAN /\ consumerGuard \in BOOLEAN
         /\ inSize \in Nat /\ outSize \in Nat /\ outstandingCount \in Nat
         /\ buf \in [Slots -> Commands \cup {NoCommand}]
         /\ pc \in [Threads -> Locations]
         /\ item \in [Threads -> Commands \cup {NoCommand}]
         /\ slot \in [Threads -> Slots]
         /\ count \in [Threads -> 0..BatchCount]
         /\ data \in [Threads -> Seq(Commands \cup {NoCommand})]
         /\ submitted \in 0..MaxCommands
         /\ executed \in [Commands -> Nat]
         /\ \A t \in Threads : count[t] \in Nat /\ Len(data[t]) \in Nat
         /\ SlotsHeld \in [Threads -> 0..BatchCount]
         /\ CommandsHeld \in [Threads -> 0..BatchCount]
<1>1. 0 \in 0..BatchCount /\ 1 \in 0..BatchCount
  BY Sizes
<1>2. \A t \in Threads : count[t] \in 0..BatchCount /\ Len(data[t]) \in Nat
  BY LenProperties DEF TypeOK
<1>3. SlotsHeld \in [Threads -> 0..BatchCount]
  BY <1>1, <1>2 DEF SlotsHeld
<1>4. CommandsHeld \in [Threads -> 0..BatchCount]
  BY <1>1, <1>2 DEF CommandsHeld
<1>. QED BY <1>2, <1>3, <1>4, Sizes DEF TypeOK

LEMMA OnlyOne == \A t : (CHOOSE u \in {t} : TRUE) = t
OBVIOUS

LEMMA CopyingFacts ==
  /\ Copying = {} => Claimed = 0 /\ Copied = 0
  /\ \A t \in Threads :
       Copying = {t} => Claimed = count[t] /\ Copied = Len(data[t])
BY OnlyOne DEF Claimed, Copied

LEMMA WhoCopies ==
  ASSUME GuardsInv, NEW t \in Threads, pc[t] \in ConsumerSection
  PROVE  Copying = IF pc[t] \in {"copy", "advanceStart"} THEN {t} ELSE {}
BY DEF GuardsInv, ConsumerSection, Copying

LEMMA WindowBounds ==
  ASSUME TypeOK, GuardsInv, ClaimsInv
  PROVE  /\ Claimed \in Nat /\ Copied \in Nat /\ Copied <= Claimed
         /\ \/ Copying = {} /\ Claimed = 0
            \/ \E t \in Threads : /\ pc[t] \in {"copy", "advanceStart"}
                                  /\ Claimed = count[t]
                                  /\ Copied = Len(data[t])
<1>1. CASE Copying = {}
  BY <1>1, CopyingFacts
<1>2. CASE Copying # {}
  <2>1. PICK t \in Threads : pc[t] \in {"copy", "advanceStart"}
    BY <1>2 DEF Copying
  <2>2. Copying = {t}
    BY <2>1, WhoCopies DEF ConsumerSection
  <2>3. Claimed = count[t] /\ Copied = Len(data[t])
    BY <2>2, CopyingFacts
  <2>. QED BY <2>1, <2>3, TypeFacts DEF ClaimsInv
<1>. QED BY <1>1, <1>2

\* The window and the slot being written fit in the ring.
LEMMA RoomInRing ==
  ASSUME TypeOK, GuardsInv, ClaimsInv, CountsInv
  PROVE  /\ Claimed + outSize <= Capacity
         /\ \A t \in Threads :
              pc[t] \in Producing => Claimed + outSize + 1 <= Capacity
<1>1. /\ SlotsHeld \in [Threads -> 0..BatchCount]
      /\ outSize \in Nat /\ inSize = outSize + Total(SlotsHeld)
      /\ inSize <= Capacity /\ inSize \in Nat
      /\ Total(SlotsHeld) \in Nat
  BY TypeFacts, UnitsFinite DEF CountsInv
<1>2. CASE Copying = {} /\ Claimed = 0
  <2>1. \A t \in Threads : pc[t] \in Producing => SlotsHeld[t] = 1
    BY DEF SlotsHeld
  <2>2. \A t \in Threads : pc[t] \in Producing => 1 <= Total(SlotsHeld)
    BY <1>1, <2>1, TotalBounds
  <2>. QED BY <1>1, <1>2, <2>2, Sizes
<1>3. CASE \E u \in Threads : /\ pc[u] \in {"copy", "advanceStart"}
                              /\ Claimed = count[u]
                              /\ Copied = Len(data[u])
  <2>1. PICK u \in Threads : pc[u] \in {"copy", "advanceStart"} /\ Claimed = count[u]
    BY <1>3
  <2>2. SlotsHeld[u] = Claimed /\ Claimed \in Nat
    BY <2>1, TypeFacts DEF SlotsHeld, Claiming, Producing
  <2>3. \A t \in Threads : pc[t] \in Producing => SlotsHeld[t] = 1 /\ t # u
    BY <2>1 DEF SlotsHeld, Producing
  <2>4. Claimed <= Total(SlotsHeld)
    BY <1>1, <2>2, TotalBounds
  <2>5. \A t \in Threads : pc[t] \in Producing => Claimed + 1 <= Total(SlotsHeld)
    BY <1>1, <2>2, <2>3, TotalBounds
  <2>. QED BY <1>1, <2>2, <2>4, <2>5, Sizes
<1>. QED BY <1>2, <1>3, WindowBounds

LEMMA PositionFacts ==
  ASSUME TypeOK
  PROVE  /\ \A n \in Int : Position(n) \in Slots
         /\ \A m, n \in Int :
              m < n /\ n - m < Capacity => Position(m) # Position(n)
<1>1. startPos \in Int
  BY Sizes DEF TypeOK, Slots
<1>2. ASSUME NEW n \in Int PROVE Position(n) \in Slots
  <2>1. startPos + n \in Int
    BY <1>1
  <2>. QED BY <2>1, Sizes, SlotInRing DEF Position, Slots
<1>3. ASSUME NEW m \in Int, NEW n \in Int, m < n, n - m < Capacity
      PROVE  Position(m) # Position(n)
  <2>1. /\ startPos + m \in Int /\ startPos + n \in Int
        /\ startPos + m < startPos + n
        /\ (startPos + n) - (startPos + m) < Capacity
    BY <1>1, <1>3, Sizes
  <2>. QED BY <2>1, Sizes, SlotsApart DEF Position
<1>. QED BY <1>2, <1>3

-----------------------------------------------------------------------------
(* What all steps have in common.                                            *)

Step(t) ==
  \/ t \in Submitters /\ Submit(t)
  \/ LockProducer(t) \/ Produce(t) \/ LockConsumer(t) \/ Consume(t)

LEMMA OthersKeep ==
  ASSUME TypeOK, NEW t \in Threads, Step(t)
  PROVE  /\ pc' \in [Threads -> Locations]
         /\ count' \in [Threads -> 0..BatchCount]
         /\ \A u \in Threads : u # t => /\ pc'[u] = pc[u]
                                        /\ item'[u] = item[u]
                                        /\ slot'[u] = slot[u]
                                        /\ count'[u] = count[u]
                                        /\ data'[u] = data[u]
<1>0. /\ pc \in [Threads -> Locations]
      /\ count \in [Threads -> 0..BatchCount]
      /\ item \in [Threads -> Commands \cup {NoCommand}]
      /\ slot \in [Threads -> Slots]
      /\ data \in [Threads -> Seq(Commands \cup {NoCommand})]
      /\ outSize \in Nat
  BY TypeFacts
<1>1. CASE Submit(t)
  BY <1>0, <1>1 DEF Submit, Goes, Locations
<1>2. CASE LockProducer(t)
  BY <1>0, <1>2 DEF LockProducer, Goes, Locations, locals
<1>3. CASE Reserve(t)
  BY <1>0, <1>3 DEF Reserve, Goes, Locations, locals
<1>4. CASE AdvanceEnd(t)
  BY <1>0, <1>4 DEF AdvanceEnd, Goes, Locations
<1>5. CASE Write(t)
  BY <1>0, <1>5 DEF Write, Goes, Locations, locals
<1>6. CASE Publish(t)
  BY <1>0, <1>6 DEF Publish, Goes, Locations, locals
<1>7. CASE UnlockProducer(t)
  BY <1>0, <1>7 DEF UnlockProducer, Goes, Locations, locals
<1>8. CASE ExecuteInline(t)
  BY <1>0, <1>8 DEF ExecuteInline, Goes, Locations, locals
<1>9. CASE CompleteInline(t)
  BY <1>0, <1>9 DEF CompleteInline, Goes, Locations, locals
<1>10. CASE LockConsumer(t)
  BY <1>0, <1>10 DEF LockConsumer, Goes, Locations, locals
<1>11. CASE Check(t)
  BY <1>0, <1>11 DEF Check, Goes, Locations, locals
<1>12. CASE Claim(t)
  BY <1>0, <1>12, Sizes DEF Claim, Goes, Locations
<1>13. CASE Copy(t)
  BY <1>0, <1>13 DEF Copy, Goes, Locations
<1>14. CASE AdvanceStart(t)
  BY <1>0, <1>14 DEF AdvanceStart, Goes, Locations, locals
<1>15. CASE UnlockConsumer(t)
  BY <1>0, <1>15 DEF UnlockConsumer, Goes, Locations, locals
<1>16. CASE ExecuteClaimed(t)
  BY <1>0, <1>16 DEF ExecuteClaimed, Goes, Locations
<1>17. CASE FreeSlots(t)
  BY <1>0, <1>17 DEF FreeSlots, Goes, Locations, locals
<1>18. CASE Complete(t)
  BY <1>0, <1>18 DEF Complete, Goes, Locations, locals
<1>. QED
  BY <1>1, <1>2, <1>3, <1>4, <1>5, <1>6, <1>7, <1>8, <1>9, <1>10, <1>11, <1>12,
     <1>13, <1>14, <1>15, <1>16, <1>17, <1>18
  DEF Step, Produce, Consume

\* The sums change by what the thread that moves comes to hold.
LEMMA SumsMove ==
  ASSUME TypeOK, NEW t \in Threads, Step(t)
  PROVE  /\ Total(SlotsHeld)' = Total(SlotsHeld) - SlotsHeld[t] + SlotsHeld'[t]
         /\ Total(CommandsHeld)' =
              Total(CommandsHeld) - CommandsHeld[t] + CommandsHeld'[t]
         /\ SlotsHeld' \in [Threads -> 0..BatchCount]
         /\ CommandsHeld' \in [Threads -> 0..BatchCount]
<1>1. 0 \in 0..BatchCount /\ 1 \in 0..BatchCount
  BY Sizes
<1>2. /\ SlotsHeld' \in [Threads -> 0..BatchCount]
      /\ \A u \in Threads : u # t => SlotsHeld'[u] = SlotsHeld[u]
  BY <1>1, OthersKeep DEF SlotsHeld
<1>3. /\ CommandsHeld' \in [Threads -> 0..BatchCount]
      /\ \A u \in Threads : u # t => CommandsHeld'[u] = CommandsHeld[u]
  BY <1>1, OthersKeep DEF CommandsHeld
<1>4. Total(SlotsHeld)' = Total(SlotsHeld') /\ Total(CommandsHeld)' = Total(CommandsHeld')
  BY DEF Total, Units
<1>. QED BY <1>2, <1>3, <1>4, TypeFacts, TotalMoves

LEMMA GuardsStep ==
  ASSUME TypeOK, GuardsInv, NEW t \in Threads, Step(t)
  PROVE  GuardsInv'
<1>0. pc \in [Threads -> Locations]
  BY TypeFacts
<1>1. CASE Submit(t)
  BY <1>0, <1>1 DEF Submit, Goes, GuardsInv, ProducerSection, ConsumerSection
<1>2. CASE LockProducer(t)
  BY <1>0, <1>2 DEF LockProducer, Goes, GuardsInv, ProducerSection, ConsumerSection
<1>3. CASE Reserve(t)
  BY <1>0, <1>3 DEF Reserve, Goes, GuardsInv, ProducerSection, ConsumerSection
<1>4. CASE AdvanceEnd(t)
  BY <1>0, <1>4 DEF AdvanceEnd, Goes, GuardsInv, ProducerSection, ConsumerSection
<1>5. CASE Write(t)
  BY <1>0, <1>5 DEF Write, Goes, GuardsInv, ProducerSection, ConsumerSection
<1>6. CASE Publish(t)
  BY <1>0, <1>6 DEF Publish, Goes, GuardsInv, ProducerSection, ConsumerSection
<1>7. CASE UnlockProducer(t)
  BY <1>0, <1>7 DEF UnlockProducer, Goes, GuardsInv, ProducerSection, ConsumerSection
<1>8. CASE ExecuteInline(t)
  BY <1>0, <1>8 DEF ExecuteInline, Goes, GuardsInv, ProducerSection, ConsumerSection, words
<1>9. CASE CompleteInline(t)
  BY <1>0, <1>9 DEF CompleteInline, Goes, GuardsInv, ProducerSection, ConsumerSection
<1>10. CASE LockConsumer(t)
  BY <1>0, <1>10 DEF LockConsumer, Goes, GuardsInv, ProducerSection, ConsumerSection
<1>11. CASE Check(t)
  BY <1>0, <1>11 DEF Check, Goes, GuardsInv, ProducerSection, ConsumerSection, words
<1>12. CASE Claim(t)
  BY <1>0, <1>12 DEF Claim, Goes, GuardsInv, ProducerSection, ConsumerSection
<1>13. CASE Copy(t)
  BY <1>0, <1>13 DEF Copy, Goes, GuardsInv, ProducerSection, ConsumerSection, words
<1>14. CASE AdvanceStart(t)
  BY <1>0, <1>14 DEF AdvanceStart, Goes, GuardsInv, ProducerSection, ConsumerSection
<1>15. CASE UnlockConsumer(t)
  BY <1>0, <1>15 DEF UnlockConsumer, Goes, GuardsInv, ProducerSection, ConsumerSection
<1>16. CASE ExecuteClaimed(t)
  BY <1>0, <1>16 DEF ExecuteClaimed, Goes, GuardsInv, ProducerSection, ConsumerSection, words
<1>17. CASE FreeSlots(t)
  BY <1>0, <1>17 DEF FreeSlots, Goes, GuardsInv, ProducerSection, ConsumerSection
<1>18. CASE Complete(t)
  BY <1>0, <1>18 DEF Complete, Goes, GuardsInv, ProducerSection, ConsumerSection
<1>. QED
  BY <1>1, <1>2, <1>3, <1>4, <1>5, <1>6, <1>7, <1>8, <1>9, <1>10, <1>11, <1>12,
     <1>13, <1>14, <1>15, <1>16, <1>17, <1>18
  DEF Step, Produce, Consume

LEMMA ClaimsStep ==
  ASSUME TypeOK, GuardsInv, ClaimsInv, NEW t \in Threads, Step(t)
  PROVE  ClaimsInv'
<1>0. /\ pc \in [Threads -> Locations]
      /\ \A u \in Threads : count[u] \in Nat /\ Len(data[u]) \in Nat
      /\ count \in [Threads -> 0..BatchCount]
      /\ data \in [Threads -> Seq(Commands \cup {NoCommand})]
      /\ outSize \in Nat
      /\ BatchCount \in Nat \ {0}
      /\ Len(<< >>) = 0
  BY TypeFacts, Sizes, EmptySeq
<1>1. CASE Submit(t)
  BY <1>0, <1>1 DEF Submit, Goes, GuardsInv, ConsumerSection, ClaimsInv, Claiming,
      locals
<1>2. CASE LockProducer(t)
  BY <1>0, <1>2 DEF LockProducer, Goes, GuardsInv, ConsumerSection, ClaimsInv, Claiming,
      locals
<1>3. CASE Reserve(t)
  BY <1>0, <1>3 DEF Reserve, Goes, GuardsInv, ConsumerSection, ClaimsInv, Claiming,
      locals
<1>4. CASE AdvanceEnd(t)
  BY <1>0, <1>4 DEF AdvanceEnd, Goes, GuardsInv, ConsumerSection, ClaimsInv, Claiming,
      locals
<1>5. CASE Write(t)
  BY <1>0, <1>5 DEF Write, Goes, GuardsInv, ConsumerSection, ClaimsInv, Claiming,
      locals
<1>6. CASE Publish(t)
  BY <1>0, <1>6 DEF Publish, Goes, GuardsInv, ConsumerSection, ClaimsInv, Claiming,
      locals
<1>7. CASE UnlockProducer(t)
  BY <1>0, <1>7 DEF UnlockProducer, Goes, GuardsInv, ConsumerSection, ClaimsInv, Claiming,
      locals
<1>8. CASE ExecuteInline(t)
  BY <1>0, <1>8 DEF ExecuteInline, Goes, GuardsInv, ConsumerSection, ClaimsInv, Claiming,
      locals, words
<1>9. CASE CompleteInline(t)
  BY <1>0, <1>9 DEF CompleteInline, Goes, GuardsInv, ConsumerSection, ClaimsInv, Claiming,
      locals
<1>10. CASE LockConsumer(t)
  BY <1>0, <1>10 DEF LockConsumer, Goes, GuardsInv, ConsumerSection, ClaimsInv, Claiming,
      locals
<1>11. CASE Check(t)
  BY <1>0, <1>11 DEF Check, Goes, GuardsInv, ConsumerSection, ClaimsInv, Claiming,
      locals, words
<1>12. CASE Claim(t)
  BY <1>0, <1>12 DEF Claim, Goes, GuardsInv, ConsumerSection, ClaimsInv, Claiming,
      locals
<1>13. CASE Copy(t)
  <2> DEFINE c == buf[(startPos + Len(data[t])) % Capacity]
  <2>1. c \in Commands \cup {NoCommand}
    <3>1. (startPos + Len(data[t])) % Capacity \in Slots
      BY <1>0, PositionFacts DEF Position
    <3>. QED BY <3>1, TypeFacts
  <2>2. data'[t] = Append(data[t], c)
    BY <1>0, <1>13 DEF Copy
  <2> HIDE DEF c
  <2>3. Len(data'[t]) = Len(data[t]) + 1
    BY <1>0, <2>1, <2>2, AppendProperties
  <2>4. data'[t] # << >>
    BY <1>0, <2>3
  <2>. QED
    BY <1>0, <1>13, <2>3, <2>4, OthersKeep
    DEF Copy, Goes, ClaimsInv, Claiming, words, locals
<1>14. CASE AdvanceStart(t)
  BY <1>0, <1>14 DEF AdvanceStart, Goes, GuardsInv, ConsumerSection, ClaimsInv, Claiming,
      locals
<1>15. CASE UnlockConsumer(t)
  BY <1>0, <1>15 DEF UnlockConsumer, Goes, GuardsInv, ConsumerSection, ClaimsInv, Claiming,
      locals
<1>16. CASE ExecuteClaimed(t)
  <2>1. data'[t] = Tail(data[t]) /\ data[t] # << >>
    BY <1>0, <1>16 DEF ExecuteClaimed
  <2>2. Len(data'[t]) = Len(data[t]) - 1
    BY <1>0, <2>1, HeadTailProperties
  <2>3. Len(data'[t]) = 0 => data'[t] = << >>
    BY <1>0, <2>1, HeadTailProperties, EmptySeq
  <2>. QED
    BY <1>0, <1>16, <2>2, <2>3, OthersKeep
    DEF ExecuteClaimed, Goes, ClaimsInv, Claiming, words
<1>17. CASE FreeSlots(t)
  BY <1>0, <1>17 DEF FreeSlots, Goes, GuardsInv, ConsumerSection, ClaimsInv, Claiming,
      locals
<1>18. CASE Complete(t)
  BY <1>0, <1>18 DEF Complete, Goes, GuardsInv, ConsumerSection, ClaimsInv, Claiming,
      locals
<1>. QED
  BY <1>1, <1>2, <1>3, <1>4, <1>5, <1>6, <1>7, <1>8, <1>9, <1>10, <1>11, <1>12,
     <1>13, <1>14, <1>15, <1>16, <1>17, <1>18
  DEF Step, Produce, Consume

LEMMA CountsStep ==
  ASSUME TypeOK, GuardsInv, ClaimsInv, CountsInv, NEW t \in Threads, Step(t)
  PROVE  /\ CountsInv'
         /\ inSize' \in Nat /\ outSize' \in Nat /\ outstandingCount' \in Nat
<1>0. /\ pc \in [Threads -> Locations]
      /\ count \in [Threads -> 0..BatchCount]
      /\ count[t] \in Nat
      /\ outSize \in Nat /\ inSize \in Nat /\ outstandingCount \in Nat
      /\ BatchCount \in Nat \ {0} /\ Capacity \in Nat
  BY TypeFacts, Sizes
<1>a. /\ Total(SlotsHeld)' = Total(SlotsHeld) - SlotsHeld[t] + SlotsHeld'[t]
      /\ Total(CommandsHeld)' =
           Total(CommandsHeld) - CommandsHeld[t] + CommandsHeld'[t]
      /\ Total(SlotsHeld) \in Nat /\ Total(CommandsHeld) \in Nat
      /\ SlotsHeld[t] \in Nat /\ SlotsHeld'[t] \in Nat
      /\ CommandsHeld[t] \in Nat /\ CommandsHeld'[t] \in Nat
      /\ SlotsHeld[t] <= Total(SlotsHeld)
      /\ CommandsHeld[t] <= Total(CommandsHeld)
  <2>1. SlotsHeld[t] \in 0..BatchCount /\ SlotsHeld'[t] \in 0..BatchCount
    BY TypeFacts, SumsMove
  <2>2. CommandsHeld[t] \in 0..BatchCount /\ CommandsHeld'[t] \in 0..BatchCount
    BY TypeFacts, SumsMove
  <2>3. /\ Total(SlotsHeld) \in Nat /\ SlotsHeld[t] <= Total(SlotsHeld)
        /\ Total(CommandsHeld) \in Nat /\ CommandsHeld[t] <= Total(CommandsHeld)
    BY TypeFacts, TotalBounds
  <2>. QED BY <2>1, <2>2, <2>3, Sizes, SumsMove
<1>b. /\ inSize = outSize + Total(SlotsHeld)
      /\ inSize <= Capacity
      /\ outstandingCount = outSize + Total(CommandsHeld)
  BY DEF CountsInv
<1>1. CASE Submit(t)
  <2>1. /\ SlotsHeld[t] = 0 /\ SlotsHeld'[t] = 0
        /\ CommandsHeld[t] = 0 /\ CommandsHeld'[t] = 1
    BY <1>0, <1>1
    DEF Submit, Goes, SlotsHeld, CommandsHeld, Producing, Claiming
  <2>. QED BY <1>0, <1>a, <1>b, <1>1, <2>1 DEF Submit, CountsInv
<1>2. CASE LockProducer(t)
  <2>1. /\ SlotsHeld[t] = 0 /\ SlotsHeld'[t] = 0
        /\ CommandsHeld[t] = 1 /\ CommandsHeld'[t] = 1
    BY <1>0, <1>2
    DEF LockProducer, Goes, SlotsHeld, CommandsHeld, Producing, Claiming, locals
  <2>. QED BY <1>0, <1>a, <1>b, <1>2, <2>1 DEF LockProducer, CountsInv
<1>3. CASE Reserve(t)
  <2>1. /\ SlotsHeld[t] = 0 /\ CommandsHeld[t] = 1 /\ CommandsHeld'[t] = 1
        /\ SlotsHeld'[t] = IF inSize < Capacity THEN 1 ELSE 0
    BY <1>0, <1>3
    DEF Reserve, Goes, SlotsHeld, CommandsHeld, Producing, Claiming, locals
  <2>2. /\ inSize' = inSize + IF inSize < Capacity THEN 1 ELSE 0
        /\ UNCHANGED <<outSize, outstandingCount>>
    BY <1>0, <1>3 DEF Reserve
  <2>. QED BY <1>0, <1>a, <1>b, <2>1, <2>2 DEF CountsInv
<1>4. CASE AdvanceEnd(t)
  <2>1. /\ SlotsHeld[t] = 1 /\ SlotsHeld'[t] = 1
        /\ CommandsHeld[t] = 1 /\ CommandsHeld'[t] = 1
    BY <1>0, <1>4
    DEF AdvanceEnd, Goes, SlotsHeld, CommandsHeld, Producing, Claiming
  <2>. QED BY <1>0, <1>a, <1>b, <1>4, <2>1 DEF AdvanceEnd, CountsInv
<1>5. CASE Write(t)
  <2>1. /\ SlotsHeld[t] = 1 /\ SlotsHeld'[t] = 1
        /\ CommandsHeld[t] = 1 /\ CommandsHeld'[t] = 1
    BY <1>0, <1>5
    DEF Write, Goes, SlotsHeld, CommandsHeld, Producing, Claiming, locals
  <2>. QED BY <1>0, <1>a, <1>b, <1>5, <2>1 DEF Write, CountsInv
<1>6. CASE Publish(t)
  <2>1. /\ SlotsHeld[t] = 1 /\ SlotsHeld'[t] = 0
        /\ CommandsHeld[t] = 1 /\ CommandsHeld'[t] = 0
    BY <1>0, <1>6
    DEF Publish, Goes, SlotsHeld, CommandsHeld, Producing, Claiming, locals
  <2>. QED BY <1>0, <1>a, <1>b, <1>6, <2>1 DEF Publish, CountsInv
<1>7. CASE UnlockProducer(t)
  <2>1. /\ SlotsHeld[t] = 0 /\ SlotsHeld'[t] = 0
        /\ CommandsHeld'[t] = CommandsHeld[t]
    BY <1>0, <1>7
    DEF UnlockProducer, Goes, SlotsHeld, CommandsHeld, Producing, Claiming, locals
  <2>. QED BY <1>0, <1>a, <1>b, <1>7, <2>1 DEF UnlockProducer, CountsInv
<1>8. CASE ExecuteInline(t)
  <2>1. /\ SlotsHeld[t] = 0 /\ SlotsHeld'[t] = 0
        /\ CommandsHeld[t] = 1 /\ CommandsHeld'[t] = 1
    BY <1>0, <1>8
    DEF ExecuteInline, Goes, SlotsHeld, CommandsHeld, Producing, Claiming, locals
  <2>. QED BY <1>0, <1>a, <1>b, <1>8, <2>1 DEF ExecuteInline, CountsInv, words
<1>9. CASE CompleteInline(t)
  <2>1. /\ SlotsHeld[t] = 0 /\ SlotsHeld'[t] = 0
        /\ CommandsHeld[t] = 1 /\ CommandsHeld'[t] = 0
    BY <1>0, <1>9
    DEF CompleteInline, Goes, SlotsHeld, CommandsHeld, Producing, Claiming, locals
  <2>. QED BY <1>0, <1>a, <1>b, <1>9, <2>1 DEF CompleteInline, CountsInv
<1>10. CASE LockConsumer(t)
  <2>1. /\ SlotsHeld[t] = 0 /\ SlotsHeld'[t] = 0
        /\ CommandsHeld[t] = 0 /\ CommandsHeld'[t] = 0
    BY <1>0, <1>10
    DEF LockConsumer, Goes, SlotsHeld, CommandsHeld, Producing, Claiming, locals
  <2>. QED BY <1>0, <1>a, <1>b, <1>10, <2>1 DEF LockConsumer, CountsInv
<1>11. CASE Check(t)
  <2>1. /\ SlotsHeld[t] = 0 /\ SlotsHeld'[t] = 0
        /\ CommandsHeld[t] = 0 /\ CommandsHeld'[t] = 0
    BY <1>0, <1>11
    DEF Check, Goes, SlotsHeld, CommandsHeld, Producing, Claiming, locals
  <2>. QED BY <1>0, <1>a, <1>b, <1>11, <2>1 DEF Check, CountsInv, words
<1>12. CASE Claim(t)
  <2> DEFINE n == IF outSize < BatchCount THEN outSize ELSE BatchCount
  <2>1. count'[t] = n /\ n \in Nat /\ n <= outSize
    BY <1>0, <1>12 DEF Claim
  <2>2. /\ SlotsHeld[t] = 0 /\ CommandsHeld[t] = 0
        /\ SlotsHeld'[t] = n /\ CommandsHeld'[t] = n
    BY <1>0, <1>12, <2>1
    DEF Claim, Goes, SlotsHeld, CommandsHeld, Producing, Claiming
  <2>3. outSize' = outSize - n /\ UNCHANGED <<inSize, outstandingCount>>
    BY <1>12 DEF Claim
  <2> HIDE DEF n
  <2>. QED BY <1>0, <1>a, <1>b, <2>1, <2>2, <2>3 DEF CountsInv
<1>13. CASE Copy(t)
  <2>1. /\ SlotsHeld[t] = count[t] /\ SlotsHeld'[t] = count[t]
        /\ CommandsHeld[t] = count[t] /\ CommandsHeld'[t] = count[t]
    BY <1>0, <1>13
    DEF Copy, Goes, SlotsHeld, CommandsHeld, Producing, Claiming
  <2>. QED BY <1>0, <1>a, <1>b, <1>13, <2>1 DEF Copy, CountsInv, words
<1>14. CASE AdvanceStart(t)
  <2>1. /\ SlotsHeld[t] = count[t] /\ SlotsHeld'[t] = count[t]
        /\ CommandsHeld[t] = count[t] /\ CommandsHeld'[t] = count[t]
    BY <1>0, <1>14
    DEF AdvanceStart, Goes, SlotsHeld, CommandsHeld, Producing, Claiming, locals
  <2>. QED BY <1>0, <1>a, <1>b, <1>14, <2>1 DEF AdvanceStart, CountsInv
<1>15. CASE UnlockConsumer(t)
  <2>1. /\ SlotsHeld'[t] = SlotsHeld[t]
        /\ CommandsHeld'[t] = CommandsHeld[t]
    BY <1>0, <1>15
    DEF UnlockConsumer, Goes, SlotsHeld, CommandsHeld, Producing, Claiming, locals
  <2>. QED BY <1>0, <1>a, <1>b, <1>15, <2>1 DEF UnlockConsumer, CountsInv
<1>16. CASE ExecuteClaimed(t)
  <2>1. /\ SlotsHeld[t] = count[t] /\ SlotsHeld'[t] = count[t]
        /\ CommandsHeld[t] = count[t] /\ CommandsHeld'[t] = count[t]
    BY <1>0, <1>16
    DEF ExecuteClaimed, Goes, SlotsHeld, CommandsHeld, Producing, Claiming
  <2>. QED BY <1>0, <1>a, <1>b, <1>16, <2>1 DEF ExecuteClaimed, CountsInv, words
<1>17. CASE FreeSlots(t)
  <2>1. /\ SlotsHeld[t] = count[t] /\ SlotsHeld'[t] = 0
        /\ CommandsHeld[t] = count[t] /\ CommandsHeld'[t] = count[t]
    BY <1>0, <1>17
    DEF FreeSlots, Goes, SlotsHeld, CommandsHeld, Producing, Claiming, locals
  <2>. QED BY <1>0, <1>a, <1>b, <1>17, <2>1 DEF FreeSlots, CountsInv
<1>18. CASE Complete(t)
  <2>1. /\ SlotsHeld[t] = 0 /\ SlotsHeld'[t] = 0
        /\ CommandsHeld[t] = count[t] /\ CommandsHeld'[t] = 0
    BY <1>0, <1>18
    DEF Complete, Goes, SlotsHeld, CommandsHeld, Producing, Claiming, locals
  <2>. QED BY <1>0, <1>a, <1>b, <1>18, <2>1 DEF Complete, CountsInv
<1>. QED
  BY <1>1, <1>2, <1>3, <1>4, <1>5, <1>6, <1>7, <1>8, <1>9, <1>10, <1>11, <1>12,
     <1>13, <1>14, <1>15, <1>16, <1>17, <1>18
  DEF Step, Produce, Consume

\* The values.
LEMMA TypeStep ==
  ASSUME QueueInv, NEW t \in Threads, Step(t)
  PROVE  TypeOK'
<1>0. /\ TypeOK /\ GuardsInv /\ ClaimsInv /\ CountsInv /\ CarriedInv /\ CopiedInv
      /\ Capacity \in Nat \ {0} /\ BatchCount \in Nat \ {0} /\ MaxCommands \in Nat
      /\ startPos \in Slots /\ endPos \in Slots
      /\ producerGuard \in BOOLEAN /\ consumerGuard \in BOOLEAN
      /\ buf \in [Slots -> Commands \cup {NoCommand}]
      /\ item \in [Threads -> Commands \cup {NoCommand}]
      /\ slot \in [Threads -> Slots]
      /\ data \in [Threads -> Seq(Commands \cup {NoCommand})]
      /\ submitted \in 0..MaxCommands
      /\ executed \in [Commands -> Nat]
      /\ count[t] \in Nat /\ Len(data[t]) \in Nat
  <2>1. TypeOK
    BY DEF QueueInv
  <2>. QED BY <2>1, TypeFacts, Sizes DEF QueueInv
<1>i. startPos \in Int /\ endPos \in Int
  BY <1>0 DEF Slots
<1>a. /\ pc' \in [Threads -> Locations]
      /\ count' \in [Threads -> 0..BatchCount]
  BY <1>0, OthersKeep
<1>b. inSize' \in 0..Capacity /\ outSize' \in 0..Capacity /\ outstandingCount' \in Nat
  <2>1. CountsInv' /\ inSize' \in Nat /\ outSize' \in Nat /\ outstandingCount' \in Nat
    BY <1>0, CountsStep
  <2>2. Total(SlotsHeld)' \in Nat
    BY UnitsFinite DEF Total, Units
  <2>3. inSize' = outSize' + Total(SlotsHeld)' /\ inSize' <= Capacity
    BY <2>1 DEF CountsInv
  <2>. QED BY <1>0, <2>1, <2>2, <2>3
<1>c. TRUE \in BOOLEAN /\ FALSE \in BOOLEAN
  OBVIOUS
<1>d. \A n \in Int : n % Capacity \in Slots
  BY <1>0, SlotInRing DEF Slots
<1>1. CASE Submit(t)
  <2>1. item' \in [Threads -> Commands \cup {NoCommand}]
    BY <1>0, <1>1 DEF Submit
  <2>2. submitted' \in 0..MaxCommands
    BY <1>0, <1>1 DEF Submit, Commands
  <2>. QED BY <1>0, <1>a, <1>b, <1>1, <2>1, <2>2 DEF Submit, TypeOK
<1>2. CASE LockProducer(t)
  BY <1>0, <1>a, <1>b, <1>c, <1>2 DEF LockProducer, TypeOK, locals
<1>3. CASE Reserve(t)
  BY <1>0, <1>a, <1>b, <1>c, <1>3 DEF Reserve, TypeOK, locals
<1>4. CASE AdvanceEnd(t)
  <2>1. endPos' \in Slots
    <3>1. endPos + 1 \in Int
      BY <1>i
    <3>2. (endPos + 1) % Capacity \in Slots
      BY <1>d, <3>1
    <3>. QED BY <1>4, <3>2 DEF AdvanceEnd
  <2>2. slot' \in [Threads -> Slots]
    BY <1>0, <1>4 DEF AdvanceEnd
  <2>. QED BY <1>0, <1>a, <1>b, <1>4, <2>1, <2>2 DEF AdvanceEnd, TypeOK
<1>5. CASE Write(t)
  <2>1. buf' \in [Slots -> Commands \cup {NoCommand}]
    BY <1>0, <1>5 DEF Write
  <2>. QED BY <1>0, <1>a, <1>b, <1>5, <2>1 DEF Write, TypeOK, locals
<1>6. CASE Publish(t)
  BY <1>0, <1>a, <1>b, <1>c, <1>6 DEF Publish, TypeOK, locals
<1>7. CASE UnlockProducer(t)
  BY <1>0, <1>a, <1>b, <1>c, <1>7 DEF UnlockProducer, TypeOK, locals
<1>8. CASE ExecuteInline(t)
  <2>1. item[t] \in Commands
    BY <1>0, <1>8 DEF ExecuteInline, Goes, CarriedInv, Carries, Waits, Commands
  <2>2. executed' \in [Commands -> Nat]
    BY <1>0, <1>8, <2>1 DEF ExecuteInline, Execute
  <2>. QED BY <1>0, <1>a, <1>b, <1>8, <2>2 DEF ExecuteInline, TypeOK, words, locals
<1>9. CASE CompleteInline(t)
  BY <1>0, <1>a, <1>b, <1>c, <1>9 DEF CompleteInline, TypeOK, locals
<1>10. CASE LockConsumer(t)
  BY <1>0, <1>a, <1>b, <1>c, <1>10 DEF LockConsumer, TypeOK, locals
<1>11. CASE Check(t)
  BY <1>0, <1>a, <1>b, <1>c, <1>11 DEF Check, TypeOK, locals, words
<1>12. CASE Claim(t)
  <2>1. data' \in [Threads -> Seq(Commands \cup {NoCommand})]
    BY <1>0, <1>12, EmptySeq DEF Claim
  <2>. QED BY <1>0, <1>a, <1>b, <1>12, <2>1 DEF Claim, TypeOK
<1>13. CASE Copy(t)
  <2> DEFINE c == buf[(startPos + Len(data[t])) % Capacity]
  <2>1. c \in Commands \cup {NoCommand}
    <3>1. (startPos + Len(data[t])) % Capacity \in Slots
      <4>1. startPos + Len(data[t]) \in Int
        BY <1>0, <1>i
      <4>. QED BY <1>d, <4>1
    <3>. QED BY <1>0, <3>1
  <2>2. data' = [data EXCEPT ![t] = Append(@, c)]
    BY <1>13 DEF Copy
  <2> HIDE DEF c
  <2>3. data' \in [Threads -> Seq(Commands \cup {NoCommand})]
    BY <1>0, <2>1, <2>2, AppendProperties
  <2>. QED BY <1>0, <1>a, <1>b, <1>13, <2>3 DEF Copy, TypeOK, words
<1>14. CASE AdvanceStart(t)
  <2>1. startPos' \in Slots
    <3>1. startPos + count[t] \in Int
      BY <1>0, <1>i
    <3>2. (startPos + count[t]) % Capacity \in Slots
      BY <1>d, <3>1
    <3>. QED BY <1>14, <3>2 DEF AdvanceStart
  <2>. QED BY <1>0, <1>a, <1>b, <1>14, <2>1 DEF AdvanceStart, TypeOK, locals
<1>15. CASE UnlockConsumer(t)
  BY <1>0, <1>a, <1>b, <1>c, <1>15 DEF UnlockConsumer, TypeOK, locals
<1>16. CASE ExecuteClaimed(t)
  <2>1. Len(data[t]) >= 1 /\ data[t] # << >>
    BY <1>0, <1>16 DEF ExecuteClaimed
  <2>2. Head(data[t]) = data[t][1]
    BY <1>0, <2>1, HeadTailProperties
  <2>3. data[t][1] \in Commands
    BY <1>0, <2>1 DEF CopiedInv, Waits, Commands
  <2>4. executed' \in [Commands -> Nat]
    BY <1>0, <1>16, <2>2, <2>3 DEF ExecuteClaimed, Execute
  <2>5. data' \in [Threads -> Seq(Commands \cup {NoCommand})]
    BY <1>0, <1>16, <2>1, HeadTailProperties DEF ExecuteClaimed
  <2>. QED BY <1>0, <1>a, <1>b, <1>16, <2>4, <2>5 DEF ExecuteClaimed, TypeOK, words
<1>17. CASE FreeSlots(t)
  BY <1>0, <1>a, <1>b, <1>c, <1>17 DEF FreeSlots, TypeOK, locals
<1>18. CASE Complete(t)
  BY <1>0, <1>a, <1>b, <1>c, <1>18 DEF Complete, TypeOK, locals
<1>. QED
  BY <1>1, <1>2, <1>3, <1>4, <1>5, <1>6, <1>7, <1>8, <1>9, <1>10, <1>11, <1>12,
     <1>13, <1>14, <1>15, <1>16, <1>17, <1>18
  DEF Step, Produce, Consume

\* A thread outside the copying leaves the copying as it is.
LEMMA CopyingStays ==
  ASSUME TypeOK, GuardsInv, NEW t \in Threads, Step(t),
         pc[t] \notin {"copy", "advanceStart"},
         pc'[t] \notin {"copy", "advanceStart"}
  PROVE  Claimed' = Claimed /\ Copied' = Copied
<1>1. /\ \A u \in Threads : u # t =>
           pc'[u] = pc[u] /\ count'[u] = count[u] /\ data'[u] = data[u]
  BY OthersKeep
<1>2. Copying' = Copying
  BY <1>1 DEF Copying
<1>3. CASE Copying = {}
  BY <1>2, <1>3 DEF Claimed, Copied
<1>4. CASE Copying # {}
  <2>1. PICK u \in Threads : pc[u] \in {"copy", "advanceStart"}
    BY <1>4 DEF Copying
  <2>2. u # t /\ Copying = {u}
    BY <2>1, WhoCopies DEF ConsumerSection
  <2>3. Claimed = count[u] /\ Copied = Len(data[u])
    BY <2>2, CopyingFacts
  <2>4. Claimed' = count'[u] /\ Copied' = Len(data'[u])
    <3>1. (CHOOSE v \in Copying' : TRUE) = u /\ Copying' # {}
      BY <1>2, <2>2, OnlyOne
    <3>. QED BY <3>1 DEF Claimed, Copied
  <2>. QED BY <1>1, <2>2, <2>3, <2>4
<1>. QED BY <1>3, <1>4

LEMMA WindowSame ==
  ASSUME startPos' = startPos, outSize' = outSize,
         Claimed' = Claimed, Copied' = Copied
  PROVE  /\ Window' = Window
         /\ \A n : Position(n)' = Position(n)
BY DEF Window, Position

\* At most one thread fills a slot, and no slot of the window.
LEMMA Filling ==
  ASSUME TypeOK, GuardsInv, ClaimsInv, CountsInv, WindowInv, NEW t \in Threads
  PROVE  /\ pc[t] \in Producing => \A u \in Threads : pc[u] \in Producing => u = t
         /\ pc[t] \in {"write", "publish"} =>
              /\ slot[t] = Position(Claimed + outSize) /\ slot[t] \notin Window
              /\ endPos = Position(Claimed + outSize + 1)
         /\ pc[t] \in Producing /\ pc[t] \notin {"write", "publish"} =>
              endPos = Position(Claimed + outSize)
<1>1. /\ Claimed \in Nat /\ Copied \in Nat /\ outSize \in Nat /\ Capacity \in Nat \ {0}
      /\ pc[t] \in Producing => Claimed + outSize + 1 <= Capacity
  BY TypeFacts, WindowBounds, RoomInRing, Sizes
<1>2. pc[t] \in Producing => \A u \in Threads : pc[u] \in Producing => u = t
  BY DEF GuardsInv, Producing, ProducerSection
<1>3. ASSUME pc[t] \in {"write", "publish"}
      PROVE  /\ slot[t] = Position(Claimed + outSize) /\ slot[t] \notin Window
             /\ endPos = Position(Claimed + outSize + 1)
  <2>1. slot[t] = Position(Claimed + outSize)
    BY <1>3 DEF WindowInv
  <2>2. endPos = Position(Claimed + outSize + 1)
    BY <1>3 DEF WindowInv
  <2>3. ASSUME NEW n \in Copied..Claimed + outSize - 1
        PROVE  Position(n) # Position(Claimed + outSize)
    <3> DEFINE k == Claimed + outSize
    <3>1. n \in Int /\ k \in Int /\ n < k /\ k - n < Capacity
      BY <1>1, <1>3 DEF Producing
    <3> HIDE DEF k
    <3>2. Position(n) # Position(k)
      BY <3>1, PositionFacts
    <3>. QED BY <3>2 DEF k
  <2>. QED BY <2>1, <2>2, <2>3 DEF Window
<1>4. ASSUME pc[t] \in Producing, pc[t] \notin {"write", "publish"}
      PROVE  endPos = Position(Claimed + outSize)
  <2>1. ~ \E u \in Threads : pc[u] \in {"write", "publish"}
    BY <1>2, <1>4 DEF Producing
  <2>2. endPos = Position(Claimed + outSize + 0)
    BY <2>1 DEF WindowInv
  <2>3. Claimed + outSize + 0 = Claimed + outSize
    BY <1>1
  <2>. QED BY <2>2, <2>3
<1>. QED BY <1>2, <1>3, <1>4

\* What the thread that copies makes of it.
LEMMA CopyingMoves ==
  ASSUME TypeOK, GuardsInv, NEW t \in Threads, Step(t),
         pc[t] \in {"claim", "copy", "advanceStart"}
  PROVE  /\ pc'[t] \in {"copy", "advanceStart"} =>
              Claimed' = count'[t] /\ Copied' = Len(data'[t])
         /\ pc'[t] \notin {"copy", "advanceStart"} => Claimed' = 0 /\ Copied' = 0
<1>1. Copying \subseteq {t}
  BY WhoCopies DEF ConsumerSection
<1>2. \A u \in Threads : u # t => pc'[u] = pc[u]
  BY OthersKeep
<1>3. Copying' = IF pc'[t] \in {"copy", "advanceStart"} THEN {t} ELSE {}
  BY <1>1, <1>2 DEF Copying
<1>4. CASE pc'[t] \in {"copy", "advanceStart"}
  <2>1. (CHOOSE v \in Copying' : TRUE) = t /\ Copying' # {}
    BY <1>3, <1>4, OnlyOne
  <2>. QED BY <1>4, <2>1 DEF Claimed, Copied
<1>5. CASE pc'[t] \notin {"copy", "advanceStart"}
  BY <1>3, <1>5 DEF Claimed, Copied
<1>. QED BY <1>4, <1>5

\* The window gains the slot that is published and loses the one that is copied.
LEMMA WindowStep ==
  ASSUME QueueInv, NEW t \in Threads, Step(t)
  PROVE  /\ WindowInv'
         /\ \A s \in Window : buf'[s] = buf[s]
         /\ pc[t] \notin {"publish", "copy"} => Window' = Window
         /\ pc[t] = "publish" =>
              /\ Window' = Window \cup {slot[t]} /\ slot[t] \notin Window
              /\ buf[slot[t]] = item[t]
         /\ pc[t] = "copy" =>
              /\ Position(Len(data[t])) \in Window
              /\ Window' = Window \ {Position(Len(data[t]))}
<1>0. /\ TypeOK /\ GuardsInv /\ ClaimsInv /\ CountsInv /\ WindowInv
  BY DEF QueueInv
<1>t. /\ pc \in [Threads -> Locations]
      /\ buf \in [Slots -> Commands \cup {NoCommand}]
      /\ slot \in [Threads -> Slots] /\ slot[t] \in Slots
      /\ item \in [Threads -> Commands \cup {NoCommand}]
      /\ count \in [Threads -> 0..BatchCount] /\ count[t] \in Nat
      /\ data \in [Threads -> Seq(Commands \cup {NoCommand})] /\ Len(data[t]) \in Nat
      /\ outSize \in Nat /\ Capacity \in Nat \ {0} /\ startPos \in Int
      /\ BatchCount \in Nat \ {0}
      /\ Claimed \in Nat /\ Copied \in Nat /\ Copied <= Claimed
  <2>1. startPos \in Slots
    BY <1>0, TypeFacts
  <2>2. startPos \in Int
    BY <2>1 DEF Slots
  <2>. QED BY <1>0, <2>2, TypeFacts, Sizes, WindowBounds
<1>u. \A u \in Threads : u # t => /\ pc'[u] = pc[u] /\ item'[u] = item[u]
                                 /\ slot'[u] = slot[u]
  BY <1>0, OthersKeep
<1>v. /\ pc[t] \in Producing => \A u \in Threads : pc[u] \in Producing => u = t
      /\ pc[t] \in {"write", "publish"} =>
           /\ slot[t] = Position(Claimed + outSize) /\ slot[t] \notin Window
           /\ endPos = Position(Claimed + outSize + 1)
      /\ pc[t] = "advanceEnd" => endPos = Position(Claimed + outSize)
  BY <1>0, Filling DEF Producing
<1>w. \A s \in Window : s \in Slots
  BY <1>0, <1>t, PositionFacts DEF Window
<1>x. /\ pc[t] \in {"copy", "advanceStart"} =>
           /\ Claimed = count[t] /\ Copied = Len(data[t])
      /\ pc[t] = "claim" => Claimed = 0 /\ Copied = 0
  <2>1. pc[t] \in {"copy", "advanceStart"} => Copying = {t}
    BY <1>0, WhoCopies DEF ConsumerSection
  <2>2. pc[t] = "claim" => Copying = {}
    BY <1>0, WhoCopies DEF ConsumerSection
  <2>. QED BY <2>1, <2>2, CopyingFacts
<1>z. ASSUME startPos' = startPos, outSize' = outSize, endPos' = endPos,
             buf' = buf, slot' = slot,
             pc[t] \notin {"claim", "copy", "advanceStart", "write", "publish"},
             pc'[t] \notin {"copy", "advanceStart", "write", "publish"}
      PROVE  WindowInv' /\ Window' = Window /\ buf' = buf
  <2>1. /\ Window' = Window /\ Claimed' = Claimed
        /\ \A n : Position(n)' = Position(n)
    BY <1>0, <1>z, CopyingStays, WindowSame
  <2>2. \A u \in Threads : pc'[u] \in {"write", "publish"} <=> pc[u] \in {"write", "publish"}
    BY <1>u, <1>z
  <2>3. \A u \in Threads : pc'[u] = "publish" =>
                             pc[u] = "publish" /\ item'[u] = item[u]
    BY <1>u, <1>z
  <2>4. WindowInv'
    BY <1>0, <1>z, <2>1, <2>2, <2>3 DEF WindowInv
  <2>. QED BY <1>z, <2>1, <2>4
<1>1. CASE Submit(t)
  <2>1. /\ startPos' = startPos /\ outSize' = outSize /\ endPos' = endPos
        /\ buf' = buf /\ slot' = slot
        /\ pc[t] \notin {"claim", "copy", "advanceStart", "write", "publish"}
        /\ pc'[t] \notin {"copy", "advanceStart", "write", "publish"}
    BY <1>t, <1>1 DEF Submit, Goes
  <2>. QED BY <1>z, <2>1
<1>2. CASE LockProducer(t)
  <2>1. /\ startPos' = startPos /\ outSize' = outSize /\ endPos' = endPos
        /\ buf' = buf /\ slot' = slot
        /\ pc[t] \notin {"claim", "copy", "advanceStart", "write", "publish"}
        /\ pc'[t] \notin {"copy", "advanceStart", "write", "publish"}
    BY <1>t, <1>2 DEF LockProducer, Goes, locals
  <2>. QED BY <1>z, <2>1
<1>3. CASE Reserve(t)
  <2>1. /\ startPos' = startPos /\ outSize' = outSize /\ endPos' = endPos
        /\ buf' = buf /\ slot' = slot
        /\ pc[t] \notin {"claim", "copy", "advanceStart", "write", "publish"}
        /\ pc'[t] \notin {"copy", "advanceStart", "write", "publish"}
    BY <1>t, <1>3 DEF Reserve, Goes, locals
  <2>. QED BY <1>z, <2>1
<1>4. CASE AdvanceEnd(t)
  <2>1. /\ startPos' = startPos /\ outSize' = outSize /\ buf' = buf
        /\ pc[t] = "advanceEnd" /\ pc'[t] = "write"
        /\ slot'[t] = endPos /\ endPos' = (endPos + 1) % Capacity
    BY <1>t, <1>4 DEF AdvanceEnd, Goes
  <2>2. /\ Window' = Window /\ Claimed' = Claimed
        /\ \A n : Position(n)' = Position(n)
    BY <1>0, <2>1, CopyingStays, WindowSame
  <2>3. endPos' = Position(Claimed + outSize + 1)
    <3>1. startPos + (Claimed + outSize) \in Int
      BY <1>t
    <3>2. (((startPos + (Claimed + outSize)) % Capacity) + 1) % Capacity =
            (startPos + (Claimed + outSize) + 1) % Capacity
      <4>1. ASSUME NEW a \in Int PROVE ((a % Capacity) + 1) % Capacity = (a + 1) % Capacity
        <5>1. Capacity \in Nat \ {0} /\ 1 \in Int
          BY <1>t
        <5>. QED BY <5>1, SlotGoesOn
      <4>. QED BY <3>1, <4>1
    <3>3. startPos + (Claimed + outSize) + 1 = startPos + (Claimed + outSize + 1)
      BY <1>t
    <3>. QED BY <1>v, <2>1, <3>2, <3>3 DEF Position
  <2>4. \A u \in Threads : pc'[u] \in {"write", "publish"} <=> u = t
    BY <1>u, <1>v, <2>1 DEF Producing
  <2>5. slot'[t] = Position(Claimed + outSize)
    BY <1>v, <2>1
  <2>. QED BY <2>1, <2>2, <2>3, <2>4, <2>5 DEF WindowInv
<1>5. CASE Write(t)
  <2>1. /\ startPos' = startPos /\ outSize' = outSize /\ endPos' = endPos
        /\ buf' = [buf EXCEPT ![slot[t]] = item[t]] /\ slot' = slot /\ item' = item
        /\ pc[t] = "write" /\ pc'[t] = "publish"
    BY <1>t, <1>5 DEF Write, Goes, locals
  <2>2. /\ Window' = Window /\ Claimed' = Claimed
        /\ \A n : Position(n)' = Position(n)
    BY <1>0, <2>1, CopyingStays, WindowSame
  <2>3. buf'[slot[t]] = item[t] /\ \A s \in Window : buf'[s] = buf[s]
    BY <1>t, <1>v, <1>w, <2>1
  <2>4. \A u \in Threads : pc'[u] \in {"write", "publish"} <=> u = t
    BY <1>u, <1>v, <2>1 DEF Producing
  <2>. QED BY <1>v, <2>1, <2>2, <2>3, <2>4 DEF WindowInv
<1>6. CASE Publish(t)
  <2>1. /\ startPos' = startPos /\ outSize' = outSize + 1 /\ endPos' = endPos
        /\ buf' = buf /\ slot' = slot /\ item' = item
        /\ pc[t] = "publish" /\ pc'[t] = "unlockProducer"
    BY <1>t, <1>6 DEF Publish, Goes, locals
  <2>2. Claimed' = Claimed /\ Copied' = Copied
    BY <1>0, <2>1, CopyingStays
  <2>3. \A n : Position(n)' = Position(n)
    BY <2>1 DEF Position
  <2>4. Window' = Window \cup {Position(Claimed + outSize)}
    <3>1. Copied..Claimed + (outSize + 1) - 1 =
            (Copied..Claimed + outSize - 1) \cup {Claimed + outSize}
      <4>1. \A m : m \in Copied..Claimed + (outSize + 1) - 1 <=>
                    m \in Copied..Claimed + outSize - 1 \/ m = Claimed + outSize
        <5>1. Copied \in Nat /\ Claimed \in Nat /\ outSize \in Nat /\ Copied <= Claimed
          BY <1>t
        <5>. QED BY <5>1
      <4>. QED BY <4>1
    <3>2. Window' = {Position(n) : n \in Copied..Claimed + (outSize + 1) - 1}
      BY <2>1, <2>2, <2>3 DEF Window
    <3>. QED BY <3>1, <3>2 DEF Window
  <2>5. \A u \in Threads : pc'[u] \notin {"write", "publish"}
    BY <1>u, <1>v, <2>1 DEF Producing
  <2>6. buf[slot[t]] = item[t]
    BY <1>0, <2>1 DEF WindowInv
  <2>7. Claimed' + outSize' + 0 = Claimed + outSize + 1
    BY <1>t, <2>1, <2>2
  <2>8. WindowInv'
    <3>1. endPos' = (Position(Claimed + outSize + 0))'
      BY <1>v, <2>1, <2>3, <2>7
    <3>. QED BY <2>5, <3>1 DEF WindowInv
  <2>. QED BY <1>v, <2>1, <2>4, <2>6, <2>8
<1>7. CASE UnlockProducer(t)
  <2>1. /\ startPos' = startPos /\ outSize' = outSize /\ endPos' = endPos
        /\ buf' = buf /\ slot' = slot
        /\ pc[t] \notin {"claim", "copy", "advanceStart", "write", "publish"}
        /\ pc'[t] \notin {"copy", "advanceStart", "write", "publish"}
    BY <1>t, <1>7 DEF UnlockProducer, Goes, locals
  <2>. QED BY <1>z, <2>1
<1>8. CASE ExecuteInline(t)
  <2>1. /\ startPos' = startPos /\ outSize' = outSize /\ endPos' = endPos
        /\ buf' = buf /\ slot' = slot
        /\ pc[t] \notin {"claim", "copy", "advanceStart", "write", "publish"}
        /\ pc'[t] \notin {"copy", "advanceStart", "write", "publish"}
    BY <1>t, <1>8 DEF ExecuteInline, Goes, words, locals
  <2>. QED BY <1>z, <2>1
<1>9. CASE CompleteInline(t)
  <2>1. /\ startPos' = startPos /\ outSize' = outSize /\ endPos' = endPos
        /\ buf' = buf /\ slot' = slot
        /\ pc[t] \notin {"claim", "copy", "advanceStart", "write", "publish"}
        /\ pc'[t] \notin {"copy", "advanceStart", "write", "publish"}
    BY <1>t, <1>9 DEF CompleteInline, Goes, locals
  <2>. QED BY <1>z, <2>1
<1>10. CASE LockConsumer(t)
  <2>1. /\ startPos' = startPos /\ outSize' = outSize /\ endPos' = endPos
        /\ buf' = buf /\ slot' = slot
        /\ pc[t] \notin {"claim", "copy", "advanceStart", "write", "publish"}
        /\ pc'[t] \notin {"copy", "advanceStart", "write", "publish"}
    BY <1>t, <1>10 DEF LockConsumer, Goes, locals
  <2>. QED BY <1>z, <2>1
<1>11. CASE Check(t)
  <2>1. /\ startPos' = startPos /\ outSize' = outSize /\ endPos' = endPos
        /\ buf' = buf /\ slot' = slot
        /\ pc[t] \notin {"claim", "copy", "advanceStart", "write", "publish"}
        /\ pc'[t] \notin {"copy", "advanceStart", "write", "publish"}
    BY <1>t, <1>11 DEF Check, Goes, words, locals
  <2>. QED BY <1>z, <2>1
<1>12. CASE Claim(t)
  <2> DEFINE n == IF outSize < BatchCount THEN outSize ELSE BatchCount
  <2>1. /\ startPos' = startPos /\ outSize' = outSize - n /\ endPos' = endPos
        /\ buf' = buf /\ slot' = slot /\ item' = item
        /\ pc[t] = "claim" /\ pc'[t] = "copy" /\ count'[t] = n /\ data'[t] = << >>
    BY <1>t, <1>12 DEF Claim, Goes
  <2>2. n \in Nat
    BY <1>t
  <2> HIDE DEF n
  <2>3. Claimed' = n /\ Copied' = 0 /\ Claimed = 0 /\ Copied = 0
    BY <1>0, <1>x, <2>1, CopyingMoves
  <2>4. \A m : Position(m)' = Position(m)
    BY <2>1 DEF Position
  <2>5. Claimed' + outSize' = Claimed + outSize
    BY <1>t, <2>1, <2>2, <2>3
  <2>6. Window' = Window
    <3>1. Copied' = Copied
      BY <2>3
    <3>2. Window' = {Position(m) : m \in Copied..Claimed' + outSize' - 1}
      BY <2>4, <3>1 DEF Window
    <3>3. Claimed' + outSize' - 1 = Claimed + outSize - 1
      BY <1>t, <2>1, <2>2, <2>3
    <3>. QED BY <3>2, <3>3 DEF Window
  <2>7. \A u \in Threads : pc'[u] \in {"write", "publish"} <=> pc[u] \in {"write", "publish"}
    BY <1>u, <2>1
  <2>8. \A u \in Threads : pc'[u] = "publish" <=> pc[u] = "publish"
    BY <1>u, <2>1
  <2>9. WindowInv'
    BY <1>0, <2>1, <2>4, <2>5, <2>7, <2>8 DEF WindowInv
  <2>. QED BY <2>1, <2>6, <2>9
<1>13. CASE Copy(t)
  <2>1. /\ startPos' = startPos /\ outSize' = outSize /\ endPos' = endPos
        /\ buf' = buf /\ slot' = slot /\ item' = item /\ count' = count
        /\ pc[t] = "copy" /\ pc'[t] \in {"copy", "advanceStart"}
    BY <1>t, <1>13 DEF Copy, Goes, words
  <2>2. Len(data'[t]) = Len(data[t]) + 1
    <3>1. (startPos + Len(data[t])) % Capacity \in Slots
      <4> DEFINE k == Len(data[t])
      <4>1. k \in Int
        BY <1>t
      <4> HIDE DEF k
      <4>2. Position(k) \in Slots
        BY <1>0, <4>1, PositionFacts
      <4>. QED BY <4>2 DEF Position, k
    <3>2. buf[(startPos + Len(data[t])) % Capacity] \in Commands \cup {NoCommand}
      BY <1>t, <3>1
    <3>3. data'[t] = Append(data[t], buf[(startPos + Len(data[t])) % Capacity])
      BY <1>t, <1>13 DEF Copy
    <3>. QED BY <1>t, <3>2, <3>3, AppendProperties
  <2>3. Claimed' = Claimed /\ Copied' = Copied + 1 /\ Copied < Claimed
    BY <1>0, <1>x, <2>1, <2>2, CopyingMoves DEF ClaimsInv
  <2>4. \A m : Position(m)' = Position(m)
    BY <2>1 DEF Position
  <2>5. /\ Position(Copied) \in Window
        /\ Window' = Window \ {Position(Copied)}
    <3>1. /\ Copied \in Copied..Claimed + outSize - 1
          /\ Copied..Claimed + outSize - 1 =
               {Copied} \cup (Copied + 1..Claimed + outSize - 1)
      BY <1>t, <2>3
    <3>2. Window' = {Position(m) : m \in Copied + 1..Claimed + outSize - 1}
      BY <2>1, <2>3, <2>4 DEF Window
    <3>3. ASSUME NEW m \in Copied + 1..Claimed + outSize - 1
          PROVE  Position(m) # Position(Copied)
      <4>1. Claimed + outSize <= Capacity
        BY <1>0, RoomInRing
      <4>2. m \in Int /\ Copied \in Int /\ Copied < m /\ m - Copied < Capacity
        BY <1>t, <3>3, <4>1
      <4>. QED BY <1>0, <4>2, PositionFacts
    <3>. QED BY <3>1, <3>2, <3>3 DEF Window
  <2>6. \A u \in Threads : pc'[u] \in {"write", "publish"} <=> pc[u] \in {"write", "publish"}
    BY <1>u, <2>1
  <2>7. \A u \in Threads : pc'[u] = "publish" <=> pc[u] = "publish"
    BY <1>u, <2>1
  <2>8. WindowInv'
    BY <1>0, <2>1, <2>3, <2>4, <2>6, <2>7 DEF WindowInv
  <2>. QED BY <1>x, <2>1, <2>5, <2>8
<1>14. CASE AdvanceStart(t)
  <2>1. /\ startPos' = (startPos + count[t]) % Capacity
        /\ outSize' = outSize /\ endPos' = endPos
        /\ buf' = buf /\ slot' = slot /\ item' = item
        /\ pc[t] = "advanceStart" /\ pc'[t] = "unlockConsumer"
    BY <1>t, <1>14 DEF AdvanceStart, Goes, locals
  <2>2. Claimed = Copied /\ Claimed' = 0 /\ Copied' = 0 /\ count[t] = Claimed
    BY <1>0, <1>x, <2>1, CopyingMoves DEF ClaimsInv
  <2>3. \A m \in Int : Position(m)' = Position(Claimed + m)
    <3>1. SUFFICES ASSUME NEW m \in Int PROVE Position(m)' = Position(Claimed + m)
      OBVIOUS
    <3>2. Position(m)' = (((startPos + Claimed) % Capacity) + m) % Capacity
      BY <2>1, <2>2 DEF Position
    <3>3. startPos + Claimed \in Int /\ startPos + Claimed + m = startPos + (Claimed + m)
      BY <1>t
    <3>4. (((startPos + Claimed) % Capacity) + m) % Capacity =
          (startPos + Claimed + m) % Capacity
      BY <1>t, <3>3, SlotGoesOn
    <3>. QED BY <3>2, <3>3, <3>4 DEF Position
  <2>4. Window' = Window
    <3>1. Window' = {Position(Claimed + m) : m \in 0..outSize - 1}
      <4>1. Window' = {Position(m)' : m \in 0..0 + outSize - 1}
        BY <2>1, <2>2 DEF Window
      <4>2. 0 + outSize - 1 = outSize - 1
        BY <1>t
      <4>. QED BY <2>3, <4>1, <4>2
    <3>2. Window = {Position(n) : n \in Claimed..Claimed + outSize - 1}
      BY <2>2 DEF Window
    <3>3. ASSUME NEW n \in Claimed..Claimed + outSize - 1
          PROVE  n - Claimed \in 0..outSize - 1 /\ Claimed + (n - Claimed) = n
      BY <1>t
    <3>4. ASSUME NEW m \in 0..outSize - 1
          PROVE  Claimed + m \in Claimed..Claimed + outSize - 1
      BY <1>t
    <3>5. Window \subseteq Window'
      BY <3>1, <3>2, <3>3
    <3>6. Window' \subseteq Window
      BY <3>1, <3>2, <3>4
    <3>. QED BY <3>5, <3>6
  <2>5. \A u \in Threads : pc'[u] \in {"write", "publish"} <=> pc[u] \in {"write", "publish"}
    BY <1>u, <2>1
  <2>6. \A u \in Threads : pc'[u] = "publish" <=> pc[u] = "publish"
    BY <1>u, <2>1
  <2>7. \A k \in {0, 1} : Position(Claimed + outSize + k) =
                            (Position(Claimed + outSize + k))'
    <3>1. SUFFICES ASSUME NEW k \in {0, 1}
                   PROVE  Position(Claimed + outSize + k) =
                            (Position(Claimed + outSize + k))'
      OBVIOUS
    <3>2. 0 + outSize + k \in Int /\ Claimed + (0 + outSize + k) = Claimed + outSize + k
      BY <1>t
    <3>3. (Position(Claimed + outSize + k))' = (startPos' + (0 + outSize + k)) % Capacity
      BY <2>1, <2>2 DEF Position
    <3>4. (startPos' + (0 + outSize + k)) % Capacity = Position(Claimed + (0 + outSize + k))
      BY <2>3, <3>2 DEF Position
    <3>. QED BY <3>2, <3>3, <3>4
  <2>8. Position(Claimed + outSize) = (Position(Claimed + outSize))'
    <3>1. 0 + outSize \in Int /\ Claimed + (0 + outSize) = Claimed + outSize
      BY <1>t
    <3>2. (Position(Claimed + outSize))' = (startPos' + (0 + outSize)) % Capacity
      BY <2>1, <2>2 DEF Position
    <3>3. (startPos' + (0 + outSize)) % Capacity = Position(Claimed + (0 + outSize))
      BY <2>3, <3>1 DEF Position
    <3>. QED BY <3>1, <3>2, <3>3
  <2>9. WindowInv'
    BY <1>0, <2>1, <2>5, <2>6, <2>7, <2>8 DEF WindowInv
  <2>. QED BY <2>1, <2>4, <2>9
<1>15. CASE UnlockConsumer(t)
  <2>1. /\ startPos' = startPos /\ outSize' = outSize /\ endPos' = endPos
        /\ buf' = buf /\ slot' = slot
        /\ pc[t] \notin {"claim", "copy", "advanceStart", "write", "publish"}
        /\ pc'[t] \notin {"copy", "advanceStart", "write", "publish"}
    BY <1>t, <1>15 DEF UnlockConsumer, Goes, locals
  <2>. QED BY <1>z, <2>1
<1>16. CASE ExecuteClaimed(t)
  <2>1. /\ startPos' = startPos /\ outSize' = outSize /\ endPos' = endPos
        /\ buf' = buf /\ slot' = slot
        /\ pc[t] \notin {"claim", "copy", "advanceStart", "write", "publish"}
        /\ pc'[t] \notin {"copy", "advanceStart", "write", "publish"}
    BY <1>t, <1>16 DEF ExecuteClaimed, Goes, words
  <2>. QED BY <1>z, <2>1
<1>17. CASE FreeSlots(t)
  <2>1. /\ startPos' = startPos /\ outSize' = outSize /\ endPos' = endPos
        /\ buf' = buf /\ slot' = slot
        /\ pc[t] \notin {"claim", "copy", "advanceStart", "write", "publish"}
        /\ pc'[t] \notin {"copy", "advanceStart", "write", "publish"}
    BY <1>t, <1>17 DEF FreeSlots, Goes, locals
  <2>. QED BY <1>z, <2>1
<1>18. CASE Complete(t)
  <2>1. /\ startPos' = startPos /\ outSize' = outSize /\ endPos' = endPos
        /\ buf' = buf /\ slot' = slot
        /\ pc[t] \notin {"claim", "copy", "advanceStart", "write", "publish"}
        /\ pc'[t] \notin {"copy", "advanceStart", "write", "publish"}
    BY <1>t, <1>18 DEF Complete, Goes, locals
  <2>. QED BY <1>z, <2>1
<1>. QED
  BY <1>1, <1>2, <1>3, <1>4, <1>5, <1>6, <1>7, <1>8, <1>9, <1>10, <1>11, <1>12,
     <1>13, <1>14, <1>15, <1>16, <1>17, <1>18
  DEF Step, Produce, Consume

-----------------------------------------------------------------------------
(* Where the commands are.                                                   *)

TokensInv == CarriedInv /\ QueuedInv /\ CopiedInv /\ DoneInv

LEMMA TokensStay ==
  ASSUME TokensInv,
         \A t \in Threads : Carries(t)' <=> Carries(t),
         item' = item, data' = data, submitted' = submitted, executed' = executed,
         Window' = Window, \A s \in Window : buf'[s] = buf[s]
  PROVE  TokensInv'
<1>1. \A c : Waits(c)' <=> Waits(c)
  BY DEF Waits
<1>2. CarriedInv'
  BY <1>1 DEF TokensInv, CarriedInv
<1>3. QueuedInv'
  BY <1>1 DEF TokensInv, QueuedInv
<1>4. CopiedInv'
  BY <1>1 DEF TokensInv, CopiedInv
<1>5. DoneInv'
  BY DEF TokensInv, DoneInv
<1>. QED BY <1>2, <1>3, <1>4, <1>5 DEF TokensInv

\* A thread that did not carry a command takes up a new one.
LEMMA TokensSubmit ==
  ASSUME TypeOK, TokensInv, NEW t \in Threads, Submit(t),
         Window' = Window, \A s \in Window : buf'[s] = buf[s]
  PROVE  TokensInv'
<1>0. PICK c \in Commands : c = submitted + 1
  BY DEF Submit
<1>1. /\ c \in Commands /\ submitted \in Nat /\ c > submitted
      /\ submitted' = c /\ executed' = executed /\ data' = data
      /\ item' = [item EXCEPT ![t] = c]
      /\ pc[t] = "idle" /\ pc'[t] \in {"lockProducer", "executeInline"}
      /\ \A u \in Threads : u # t => pc'[u] = pc[u]
  <2>1. submitted \in Nat /\ pc \in [Threads -> Locations]
    BY TypeFacts
  <2>. QED BY <1>0, <2>1 DEF Submit, Goes
<1>2. /\ item' \in [Threads -> Commands \cup {NoCommand}] /\ item'[t] = c
      /\ \A u \in Threads : u # t => item'[u] = item[u]
  BY <1>1, TypeFacts
<1>3. ~ Waits(c)
  BY <1>1 DEF Waits
<1>4. executed[c] = 0
  <2>1. \A u \in Threads : Carries(u) => item[u] # c
    BY <1>3 DEF TokensInv, CarriedInv
  <2>2. \A s \in Window : buf[s] # c
    BY <1>3 DEF TokensInv, QueuedInv
  <2>3. \A u \in Threads : \A i \in 1..Len(data[u]) : data[u][i] # c
    BY <1>3 DEF TokensInv, CopiedInv
  <2>4. \/ c > submitted /\ executed[c] = 0
        \/ c <= submitted /\ executed[c] = 1
    BY <2>1, <2>2, <2>3 DEF TokensInv, DoneInv
  <2>. QED BY <1>0, <1>1, <2>4
<1>5. /\ Waits(c)'
      /\ \A d : Waits(d) => Waits(d)' /\ d # c
  <2>1. Waits(c)'
    BY <1>0, <1>1, <1>4 DEF Waits
  <2>2. ASSUME NEW d, Waits(d) PROVE Waits(d)' /\ d # c
    BY <1>0, <1>1, <1>3, <2>2 DEF Waits
  <2>. QED BY <2>1, <2>2
<1>6. \A u \in Threads : Carries(u)' <=> Carries(u) \/ u = t
  BY <1>1 DEF Carries, Producing
<1>7. ~ Carries(t)
  BY <1>1 DEF Carries, Producing
<1>8. CarriedInv'
  BY <1>2, <1>5, <1>6, <1>7 DEF TokensInv, CarriedInv
<1>9. QueuedInv'
  BY <1>2, <1>5, <1>6, <1>7 DEF TokensInv, QueuedInv
<1>10. CopiedInv'
  BY <1>1, <1>2, <1>5, <1>6, <1>7 DEF TokensInv, CopiedInv
<1>11. DoneInv'
  <2>1. \A d \in Commands : d > submitted /\ d # c => d > submitted'
    BY <1>0, <1>1 DEF Commands
  <2>2. \A d \in Commands : d <= submitted => d <= submitted'
    BY <1>1 DEF Commands
  <2>3. \A d \in Commands : d # c => 
          \/ d > submitted' /\ executed'[d] = 0
          \/ d <= submitted' /\ executed'[d] = 1
          \/ \E u \in Threads : Carries(u)' /\ item'[u] = d
          \/ \E s \in Window' : buf'[s] = d
          \/ \E u \in Threads : \E i \in 1..Len(data'[u]) : data'[u][i] = d
    BY <1>1, <1>2, <1>6, <1>7, <2>1, <2>2 DEF TokensInv, DoneInv
  <2>4. Carries(t)' /\ item'[t] = c
    BY <1>2, <1>6
  <2>. QED BY <2>3, <2>4 DEF DoneInv
<1>. QED BY <1>8, <1>9, <1>10, <1>11 DEF TokensInv

\* The command a thread carries goes to a slot of the ring.
LEMMA TokensPublish ==
  ASSUME TokensInv, NEW t \in Threads, Carries(t),
         \A u \in Threads : Carries(u)' <=> Carries(u) /\ u # t,
         UNCHANGED <<item, data, submitted, executed, buf>>,
         NEW s \in Slots, s \notin Window, Window' = Window \cup {s},
         buf[s] = item[t]
  PROVE  TokensInv'
<1>1. \A c : Waits(c)' <=> Waits(c)
  BY DEF Waits
<1>2. Waits(item[t])
  BY DEF TokensInv, CarriedInv
<1>3. CarriedInv'
  BY <1>1 DEF TokensInv, CarriedInv
<1>4. QueuedInv'
  BY <1>1, <1>2 DEF TokensInv, QueuedInv, CarriedInv
<1>5. CopiedInv'
  BY <1>1 DEF TokensInv, CopiedInv
<1>6. DoneInv'
  BY DEF TokensInv, DoneInv
<1>. QED BY <1>3, <1>4, <1>5, <1>6 DEF TokensInv

\* The command in a slot goes to the copies of a thread.
LEMMA TokensCopy ==
  ASSUME TypeOK, TokensInv, NEW t \in Threads,
         \A u \in Threads : Carries(u)' <=> Carries(u),
         UNCHANGED <<item, submitted, executed, buf>>,
         NEW s \in Slots, s \in Window, Window' = Window \ {s},
         data' = [data EXCEPT ![t] = Append(@, buf[s])]
  PROVE  TokensInv'
<1>1. \A c : Waits(c)' <=> Waits(c)
  BY DEF Waits
<1>2. Waits(buf[s])
  BY DEF TokensInv, QueuedInv
<1> DEFINE l == Len(data[t])
<1>3. /\ l \in Nat /\ Len(data'[t]) = l + 1
      /\ data'[t][l + 1] = buf[s]
      /\ \A i \in 1..l : data'[t][i] = data[t][i]
      /\ \A u \in Threads : u # t => data'[u] = data[u]
  <2>1. /\ data \in [Threads -> Seq(Commands \cup {NoCommand})] /\ l \in Nat
        /\ buf[s] \in Commands \cup {NoCommand}
    BY TypeFacts
  <2>2. data'[t] = Append(data[t], buf[s])
    BY <2>1
  <2>. QED BY <2>1, <2>2, AppendProperties
<1>4. ASSUME NEW u \in Threads, NEW i \in 1..Len(data'[u])
      PROVE  \/ i \in 1..Len(data[u]) /\ data'[u][i] = data[u][i]
             \/ u = t /\ i = l + 1 /\ data'[u][i] = buf[s]
  BY <1>3
<1> HIDE DEF l
<1>5. CarriedInv'
  BY <1>1 DEF TokensInv, CarriedInv
<1>6. QueuedInv'
  BY <1>1 DEF TokensInv, QueuedInv
<1>7. CopiedInv'
  <2>1. SUFFICES ASSUME NEW u \in Threads, NEW i \in 1..Len(data'[u])
                 PROVE  /\ data'[u][i] \in 1..submitted /\ executed[data'[u][i]] = 0
                        /\ \A v \in Threads : \A j \in 1..Len(data'[v]) :
                             data'[v][j] = data'[u][i] => v = u /\ j = i
                        /\ \A v \in Threads : Carries(v) => item[v] # data'[u][i]
                        /\ \A r \in Window \ {s} : buf[r] # data'[u][i]
    BY DEF CopiedInv, Waits
  <2>2. CASE i \in 1..Len(data[u]) /\ data'[u][i] = data[u][i]
    BY <1>1, <1>4, <2>2 DEF TokensInv, CopiedInv, Waits
  <2>3. CASE u = t /\ i = l + 1 /\ data'[u][i] = buf[s]
    BY <1>1, <1>2, <1>4, <2>3 DEF TokensInv, CopiedInv, QueuedInv, Waits
  <2>. QED BY <1>4, <2>2, <2>3
<1>8. DoneInv'
  <2>1. \A u \in Threads : \A i \in 1..Len(data[u]) :
          i \in 1..Len(data'[u]) /\ data'[u][i] = data[u][i]
    BY <1>3 DEF l
  <2>2. \E i \in 1..Len(data'[t]) : data'[t][i] = buf[s]
    BY <1>3 DEF l
  <2>. QED BY <2>1, <2>2 DEF TokensInv, DoneInv
<1>. QED BY <1>5, <1>6, <1>7, <1>8 DEF TokensInv

LEMMA WaitingCommand ==
  ASSUME TypeOK, NEW c, Waits(c)
  PROVE  c \in Commands
BY TypeFacts, Sizes DEF Waits, Commands

\* One command is executed, and no other.
LEMMA OnlyThisOne ==
  ASSUME TypeOK, NEW c, Waits(c), Execute(c), submitted' = submitted
  PROVE  /\ c \in Commands /\ c <= submitted /\ executed'[c] = 1
         /\ \A d \in Commands : d # c => executed'[d] = executed[d]
         /\ \A d : d # c => (Waits(d)' <=> Waits(d))
<1>1. /\ executed \in [Commands -> Nat] /\ submitted \in 0..MaxCommands
      /\ c \in 1..submitted /\ executed[c] = 0 /\ MaxCommands \in Nat
  BY TypeFacts, Sizes DEF Waits
<1>2. c \in Commands /\ c <= submitted /\ 1..submitted \subseteq Commands
  BY <1>1 DEF Commands
<1>3. executed' = [executed EXCEPT ![c] = executed[c] + 1]
  BY DEF Execute
<1>4. /\ executed'[c] = 1
      /\ \A d \in Commands : d # c => executed'[d] = executed[d]
  BY <1>1, <1>2, <1>3
<1>5. ASSUME NEW d, d # c PROVE Waits(d)' <=> Waits(d)
  BY <1>2, <1>4, <1>5 DEF Waits
<1>. QED BY <1>2, <1>4, <1>5

\* A thread executes the command it carries.
LEMMA TokensInline ==
  ASSUME TypeOK, TokensInv, NEW t \in Threads, Carries(t),
         \A u \in Threads : Carries(u)' <=> Carries(u) /\ u # t,
         UNCHANGED <<item, data, submitted, buf>>,
         Window' = Window, Execute(item[t])
  PROVE  TokensInv'
<1>1. PICK c \in Commands : c = item[t] /\ Waits(c)
  BY WaitingCommand DEF TokensInv, CarriedInv
<1>2. /\ c <= submitted /\ executed'[c] = 1
      /\ \A d \in Commands : d # c => executed'[d] = executed[d]
      /\ \A d : d # c => (Waits(d)' <=> Waits(d))
  BY <1>1, OnlyThisOne
<1>3. CarriedInv'
  BY <1>1, <1>2 DEF TokensInv, CarriedInv
<1>4. QueuedInv'
  BY <1>1, <1>2 DEF TokensInv, QueuedInv
<1>5. CopiedInv'
  BY <1>1, <1>2 DEF TokensInv, CopiedInv
<1>6. DoneInv'
  <2>1. ASSUME NEW d \in Commands, d # c
        PROVE  \/ d > submitted' /\ executed'[d] = 0
               \/ d <= submitted' /\ executed'[d] = 1
               \/ \E u \in Threads : Carries(u)' /\ item'[u] = d
               \/ \E s \in Window' : buf'[s] = d
               \/ \E u \in Threads : \E i \in 1..Len(data'[u]) : data'[u][i] = d
    BY <1>1, <1>2, <2>1 DEF TokensInv, DoneInv
  <2>. QED BY <1>2, <2>1 DEF DoneInv
<1>. QED BY <1>3, <1>4, <1>5, <1>6 DEF TokensInv

\* A thread executes the first command of its copies.
LEMMA TokensExecute ==
  ASSUME TypeOK, TokensInv, NEW t \in Threads, data[t] # << >>,
         \A u \in Threads : Carries(u)' <=> Carries(u),
         UNCHANGED <<item, submitted, buf>>, Window' = Window,
         Execute(Head(data[t])), data' = [data EXCEPT ![t] = Tail(@)]
  PROVE  TokensInv'
<1> DEFINE l == Len(data[t])
<1>1. /\ l \in Nat \ {0} /\ Len(data'[t]) = l - 1
      /\ Head(data[t]) = data[t][1]
      /\ \A i \in 1..l - 1 : data'[t][i] = data[t][i + 1]
      /\ \A u \in Threads : u # t => data'[u] = data[u]
  <2>1. data \in [Threads -> Seq(Commands \cup {NoCommand})] /\ l \in Nat
    BY TypeFacts
  <2>2. data'[t] = Tail(data[t])
    BY <2>1
  <2>3. l # 0
    BY <2>1, EmptySeq
  <2>. QED BY <2>1, <2>2, <2>3, HeadTailProperties
<1>2. PICK c \in Commands : c = data[t][1] /\ Waits(c)
  <2>1. 1 \in 1..Len(data[t])
    BY <1>1
  <2>2. Waits(data[t][1])
    BY <2>1 DEF TokensInv, CopiedInv
  <2>. QED BY <2>2, WaitingCommand
<1>3. /\ c <= submitted /\ executed'[c] = 1
      /\ \A d \in Commands : d # c => executed'[d] = executed[d]
      /\ \A d : d # c => (Waits(d)' <=> Waits(d))
  BY <1>1, <1>2, OnlyThisOne
\* What is left of the copies was there before, one place further on.
<1> DEFINE old(u, i) == IF u = t THEN i + 1 ELSE i
<1>4. ASSUME NEW u \in Threads, NEW i \in 1..Len(data'[u])
      PROVE  /\ old(u, i) \in 1..Len(data[u]) /\ data'[u][i] = data[u][old(u, i)]
             /\ data'[u][i] # c
  <2>1. old(u, i) \in 1..Len(data[u]) /\ data'[u][i] = data[u][old(u, i)]
    BY <1>1
  <2>2. 1 \in 1..Len(data[t]) /\ (u = t => old(u, i) # 1)
    BY <1>1
  <2>3. data[u][old(u, i)] # c
    BY <1>2, <2>1, <2>2 DEF TokensInv, CopiedInv
  <2>. QED BY <2>1, <2>3
<1>5. \A u \in Threads : \A i \in Int, j \in Int :
        old(u, i) = old(u, j) => i = j
  OBVIOUS
<1>6. ASSUME NEW u \in Threads, NEW k \in 1..Len(data[u]), data[u][k] # c
      PROVE  \E i \in 1..Len(data'[u]) : data'[u][i] = data[u][k]
  <2>1. CASE u # t
    BY <1>1, <2>1
  <2>2. CASE u = t
    <3>1. k # 1 /\ k - 1 \in 1..l - 1 /\ k - 1 + 1 = k
      BY <1>1, <1>2, <1>6, <2>2
    <3>2. k - 1 \in 1..Len(data'[u]) /\ data'[u][k - 1] = data[u][k]
      BY <1>1, <2>2, <3>1
    <3>. QED BY <3>2
  <2>. QED BY <2>1, <2>2
<1> HIDE DEF l, old
<1>7. \A u \in Threads : Carries(u) => item[u] # c
  <2>1. 1 \in 1..Len(data[t])
    BY <1>1 DEF l
  <2>. QED BY <1>2, <2>1 DEF TokensInv, CopiedInv
<1>8. \A s \in Window : buf[s] # c
  <2>1. 1 \in 1..Len(data[t])
    BY <1>1 DEF l
  <2>. QED BY <1>2, <2>1 DEF TokensInv, CopiedInv
<1>9. CarriedInv'
  BY <1>3, <1>7 DEF TokensInv, CarriedInv
<1>10. QueuedInv'
  BY <1>3, <1>8 DEF TokensInv, QueuedInv
<1>11. CopiedInv'
  <2>1. SUFFICES ASSUME NEW u \in Threads, NEW i \in 1..Len(data'[u])
                 PROVE  /\ data'[u][i] \in 1..submitted' /\ executed'[data'[u][i]] = 0
                        /\ \A v \in Threads : \A j \in 1..Len(data'[v]) :
                             data'[v][j] = data'[u][i] => v = u /\ j = i
                        /\ \A v \in Threads : Carries(v)' => item'[v] # data'[u][i]
                        /\ \A r \in Window' : buf'[r] # data'[u][i]
    BY DEF CopiedInv, Waits
  <2>k. PICK k \in 1..Len(data[u]) :
               k = old(u, i) /\ data[u][k] = data'[u][i] /\ data[u][k] # c
    BY <1>4
  <2>2. PICK d : /\ k \in 1..Len(data[u]) /\ k = old(u, i)
                 /\ d = data[u][k] /\ d = data'[u][i] /\ d # c
    BY <2>k
  <2>3. /\ Waits(d)
        /\ \A v \in Threads : \A j \in 1..Len(data[v]) :
             data[v][j] = d => v = u /\ j = k
        /\ \A v \in Threads : Carries(v) => item[v] # d
        /\ \A r \in Window : buf[r] # d
    <3>1. CopiedInv
      BY DEF TokensInv
    <3>2. /\ Waits(data[u][k])
          /\ \A v \in Threads : \A j \in 1..Len(data[v]) :
               data[v][j] = data[u][k] => v = u /\ j = k
          /\ \A v \in Threads : Carries(v) => item[v] # data[u][k]
          /\ \A r \in Window : buf[r] # data[u][k]
      BY <3>1 DEF CopiedInv
    <3>. QED BY <2>2, <3>2
  <2>4. d \in 1..submitted /\ executed'[d] = 0
    BY <1>3, <2>2, <2>3, WaitingCommand DEF Waits
  <2>5. ASSUME NEW v \in Threads, NEW j \in 1..Len(data'[v]), data'[v][j] = d
        PROVE  v = u /\ j = i
    <3>1. old(v, j) \in 1..Len(data[v]) /\ data[v][old(v, j)] = d
      BY <1>4, <2>5
    <3>2. v = u /\ old(v, j) = old(u, i)
      BY <2>2, <2>3, <3>1
    <3>3. i \in Int /\ j \in Int
      OBVIOUS
    <3>. QED BY <1>5, <3>2, <3>3
  <2>. QED BY <2>2, <2>3, <2>4, <2>5
<1>12. DoneInv'
  <2>1. ASSUME NEW d \in Commands, d # c
        PROVE  \/ d > submitted' /\ executed'[d] = 0
               \/ d <= submitted' /\ executed'[d] = 1
               \/ \E u \in Threads : Carries(u)' /\ item'[u] = d
               \/ \E s \in Window' : buf'[s] = d
               \/ \E u \in Threads : \E i \in 1..Len(data'[u]) : data'[u][i] = d
    <3>1. CASE \E u \in Threads : \E i \in 1..Len(data[u]) : data[u][i] = d
      <4>0. PICK u \in Threads : \E k \in 1..Len(data[u]) : data[u][k] = d
        BY <3>1
      <4>1. PICK k \in 1..Len(data[u]) : data[u][k] = d
        BY <4>0
      <4>2. \E i \in 1..Len(data'[u]) : data'[u][i] = data[u][k]
        BY <1>6, <2>1, <4>1
      <4>. QED BY <4>1, <4>2
    <3>2. CASE ~ \E u \in Threads : \E i \in 1..Len(data[u]) : data[u][i] = d
      BY <1>3, <2>1, <3>2 DEF TokensInv, DoneInv
    <3>. QED BY <3>1, <3>2
  <2>. QED BY <1>3, <2>1 DEF DoneInv
<1>. QED BY <1>9, <1>10, <1>11, <1>12 DEF TokensInv

LEMMA TokensStep ==
  ASSUME QueueInv, NEW t \in Threads, Step(t)
  PROVE  TokensInv'
<1>0. /\ TypeOK /\ GuardsInv /\ ClaimsInv /\ CountsInv /\ WindowInv /\ TokensInv
  BY DEF QueueInv, TokensInv
<1>t. /\ pc \in [Threads -> Locations] /\ slot[t] \in Slots
      /\ data \in [Threads -> Seq(Commands \cup {NoCommand})]
  BY <1>0, TypeFacts
<1>u. \A u \in Threads : u # t => pc'[u] = pc[u]
  BY <1>0, OthersKeep
<1>v. /\ \A s \in Window : buf'[s] = buf[s]
      /\ pc[t] \notin {"publish", "copy"} => Window' = Window
      /\ pc[t] = "publish" =>
           /\ Window' = Window \cup {slot[t]} /\ slot[t] \notin Window
           /\ buf[slot[t]] = item[t]
      /\ pc[t] = "copy" =>
           /\ Position(Len(data[t])) \in Window
           /\ Window' = Window \ {Position(Len(data[t]))}
  BY WindowStep
<1>z. ASSUME pc[t] \notin {"publish", "copy"}, Carries(t)' <=> Carries(t),
             item' = item, data' = data, submitted' = submitted, executed' = executed
      PROVE  TokensInv'
  <2>1. \A u \in Threads : Carries(u)' <=> Carries(u)
    BY <1>u, <1>z DEF Carries
  <2>. QED BY <1>0, <1>v, <1>z, <2>1, TokensStay
<1>1. CASE Submit(t)
  <2>1. pc[t] \notin {"publish", "copy"}
    BY <1>1 DEF Submit, Goes
  <2>. QED BY <1>0, <1>v, <1>1, <2>1, TokensSubmit
<1>2. CASE LockProducer(t)
  BY <1>t, <1>z, <1>2 DEF LockProducer, Goes, Carries, Producing, locals
<1>3. CASE Reserve(t)
  BY <1>t, <1>z, <1>3 DEF Reserve, Goes, Carries, Producing, locals
<1>4. CASE AdvanceEnd(t)
  BY <1>t, <1>z, <1>4 DEF AdvanceEnd, Goes, Carries, Producing
<1>5. CASE Write(t)
  BY <1>t, <1>z, <1>5 DEF Write, Goes, Carries, Producing, locals
<1>6. CASE Publish(t)
  <2>1. /\ pc[t] = "publish" /\ pc'[t] = "unlockProducer"
        /\ UNCHANGED <<item, data, submitted, executed, buf>>
    BY <1>t, <1>6 DEF Publish, Goes, locals
  <2>2. Carries(t) /\ \A u \in Threads : Carries(u)' <=> Carries(u) /\ u # t
    BY <1>u, <2>1 DEF Carries, Producing
  <2>. QED BY <1>0, <1>t, <1>v, <2>1, <2>2, TokensPublish
<1>7. CASE UnlockProducer(t)
  BY <1>t, <1>z, <1>7 DEF UnlockProducer, Goes, Carries, Producing, locals
<1>8. CASE ExecuteInline(t)
  <2>1. /\ pc[t] = "executeInline" /\ pc'[t] = "completeInline"
        /\ UNCHANGED <<item, data, submitted, buf>> /\ Execute(item[t])
    BY <1>t, <1>8 DEF ExecuteInline, Goes, words, locals
  <2>2. Carries(t) /\ \A u \in Threads : Carries(u)' <=> Carries(u) /\ u # t
    BY <1>u, <2>1 DEF Carries, Producing
  <2>. QED BY <1>0, <1>v, <2>1, <2>2, TokensInline
<1>9. CASE CompleteInline(t)
  BY <1>t, <1>z, <1>9 DEF CompleteInline, Goes, Carries, Producing, locals
<1>10. CASE LockConsumer(t)
  BY <1>t, <1>z, <1>10 DEF LockConsumer, Goes, Carries, Producing, locals
<1>11. CASE Check(t)
  BY <1>t, <1>z, <1>11 DEF Check, Goes, Carries, Producing, locals, words
<1>12. CASE Claim(t)
  <2>1. /\ pc[t] = "claim" /\ pc'[t] = "copy" /\ data' = [data EXCEPT ![t] = << >>]
        /\ UNCHANGED <<item, submitted, executed>>
    BY <1>t, <1>12 DEF Claim, Goes
  <2>2. data[t] = << >>
    BY <1>0, <2>1 DEF ClaimsInv, Claiming
  <2>3. data' = data
    BY <1>t, <2>1, <2>2
  <2>. QED BY <1>z, <2>1, <2>3 DEF Carries, Producing
<1>13. CASE Copy(t)
  <2> DEFINE s == Position(Len(data[t]))
  <2>1. /\ pc[t] = "copy" /\ pc'[t] \in {"copy", "advanceStart"}
        /\ UNCHANGED <<item, submitted, executed, buf>>
        /\ data' = [data EXCEPT ![t] = Append(@, buf[s])]
    BY <1>t, <1>13 DEF Copy, Goes, words, Position
  <2>2. \A u \in Threads : Carries(u)' <=> Carries(u)
    BY <1>u, <2>1 DEF Carries, Producing
  <2>3. s \in Window /\ Window' = Window \ {s}
    BY <1>v, <2>1
  <2>4. s \in Slots
    <3>1. Len(data[t]) \in Int
      BY <1>0, TypeFacts
    <3>. QED BY <1>0, <3>1, PositionFacts
  <2> HIDE DEF s
  <2>. QED BY <1>0, <2>1, <2>2, <2>3, <2>4, TokensCopy
<1>14. CASE AdvanceStart(t)
  BY <1>t, <1>z, <1>14 DEF AdvanceStart, Goes, Carries, Producing, locals
<1>15. CASE UnlockConsumer(t)
  BY <1>t, <1>z, <1>15 DEF UnlockConsumer, Goes, Carries, Producing, locals
<1>16. CASE ExecuteClaimed(t)
  <2>1. /\ pc[t] = "execute" /\ pc'[t] \in {"execute", "freeSlots"}
        /\ UNCHANGED <<item, submitted, buf>> /\ Execute(Head(data[t]))
        /\ data' = [data EXCEPT ![t] = Tail(@)]
    BY <1>t, <1>16 DEF ExecuteClaimed, Goes, words
  <2>2. \A u \in Threads : Carries(u)' <=> Carries(u)
    BY <1>u, <2>1 DEF Carries, Producing
  <2>3. data[t] # << >>
    BY <1>0, <2>1 DEF ClaimsInv
  <2>. QED BY <1>0, <1>v, <2>1, <2>2, <2>3, TokensExecute
<1>17. CASE FreeSlots(t)
  BY <1>t, <1>z, <1>17 DEF FreeSlots, Goes, Carries, Producing, locals
<1>18. CASE Complete(t)
  BY <1>t, <1>z, <1>18 DEF Complete, Goes, Carries, Producing, locals
<1>. QED
  BY <1>1, <1>2, <1>3, <1>4, <1>5, <1>6, <1>7, <1>8, <1>9, <1>10, <1>11, <1>12,
     <1>13, <1>14, <1>15, <1>16, <1>17, <1>18
  DEF Step, Produce, Consume

-----------------------------------------------------------------------------
(* The theorems.                                                             *)

LEMMA InitInv == Init => QueueInv
<1> SUFFICES ASSUME Init PROVE QueueInv
  OBVIOUS
<1>0. Capacity \in Nat \ {0} /\ BatchCount \in Nat \ {0} /\ MaxCommands \in Nat
  BY Sizes
<1>1. 0 \in Slots /\ 0 \in 0..Capacity /\ 0 \in 0..BatchCount /\ 0 \in 0..MaxCommands
      /\ FALSE \in BOOLEAN
  BY <1>0 DEF Slots
<1>2. pc \in [Threads -> {"idle"}] /\ \A t \in Threads : pc[t] = "idle"
  BY DEF Init
<1>3. \A t \in Threads : data[t] = << >> /\ Len(data[t]) = 0 /\ count[t] = 0
  <2>1. \A t \in Threads : data[t] = << >> /\ count[t] = 0
    BY DEF Init
  <2>2. Len(<< >>) = 0
    BY EmptySeq
  <2>. QED BY <2>1, <2>2
<1>4. TypeOK
  <2>1. data \in [Threads -> Seq(Commands \cup {NoCommand})]
    BY EmptySeq DEF Init
  <2>2. pc \in [Threads -> Locations]
    BY DEF Init, Locations
  <2>3. executed \in [Commands -> Nat]
    BY DEF Init
  <2>. QED BY <1>1, <2>1, <2>2, <2>3 DEF Init, TypeOK
<1>5. GuardsInv
  BY <1>2 DEF GuardsInv, ProducerSection, ConsumerSection
<1>6. CountsInv
  <2>1. /\ \A t \in Threads : SlotsHeld[t] = 0
        /\ \A t \in Threads : CommandsHeld[t] = 0
    BY <1>2 DEF SlotsHeld, CommandsHeld, Producing, Claiming
  <2>2. Total(SlotsHeld) = 0 /\ Total(CommandsHeld) = 0
    BY <2>1, TotalOfNothing
  <2>. QED BY <1>0, <2>2 DEF Init, CountsInv
<1>7. ClaimsInv
  BY <1>2, <1>3 DEF ClaimsInv, Claiming
<1>8. Claimed = 0 /\ Copied = 0
  BY <1>2, CopyingFacts DEF Copying
<1>9. Window = {}
  <2>1. 0..0 + outSize - 1 = {}
    BY DEF Init
  <2>. QED BY <1>8, <2>1 DEF Window
<1>10. WindowInv
  <2>1. Position(0) = 0
    <3>1. 0 % Capacity = 0
      <4>1. 0 \in 0..Capacity - 1
        BY <1>0
      <4>. QED BY <1>0, <4>1, FirstLap
    <3>. QED BY <3>1 DEF Init, Position
  <2>2. Claimed + outSize + 0 = 0
    BY <1>8 DEF Init
  <2>. QED BY <1>2, <2>1, <2>2 DEF Init, WindowInv
<1>11. \A t \in Threads : ~ Carries(t)
  BY <1>2 DEF Carries, Producing
<1>12. CarriedInv /\ QueuedInv
  BY <1>9, <1>11 DEF CarriedInv, QueuedInv
<1>13. CopiedInv
  BY <1>3 DEF CopiedInv
<1>14. DoneInv
  BY DEF Init, DoneInv, Commands
<1>. QED
  BY <1>4, <1>5, <1>6, <1>7, <1>10, <1>12, <1>13, <1>14 DEF QueueInv

LEMMA StepInv == QueueInv /\ [Next]_vars => QueueInv'
<1> SUFFICES ASSUME QueueInv, [Next]_vars PROVE QueueInv'
  OBVIOUS
<1>1. CASE Next
  <2>1. PICK t \in Threads : Step(t)
    BY <1>1 DEF Next, Step
  <2>2. TypeOK /\ GuardsInv /\ ClaimsInv /\ CountsInv
    BY DEF QueueInv
  <2>3. TypeOK'
    BY <2>1, TypeStep
  <2>4. GuardsInv' /\ ClaimsInv' /\ CountsInv'
    BY <2>1, <2>2, GuardsStep, ClaimsStep, CountsStep
  <2>5. WindowInv'
    BY <2>1, WindowStep
  <2>6. TokensInv'
    BY <2>1, TokensStep
  <2>. QED BY <2>3, <2>4, <2>5, <2>6 DEF QueueInv, TokensInv
<1>2. CASE UNCHANGED vars
  <2>0. UNCHANGED <<startPos, endPos, producerGuard, inSize, outSize, consumerGuard,
                    outstandingCount, buf, pc, item, slot, count, data, submitted,
                    executed>>
    BY <1>2 DEF vars, words, locals
  <2>1. /\ Copying' = Copying /\ Claimed' = Claimed /\ Copied' = Copied
        /\ SlotsHeld' = SlotsHeld /\ CommandsHeld' = CommandsHeld
    BY <2>0 DEF Copying, Claimed, Copied, SlotsHeld, CommandsHeld
  <2>2. Window' = Window
    BY <2>0, <2>1, WindowSame
  <2>3. TypeOK'
    BY <2>0 DEF QueueInv, TypeOK
  <2>4. GuardsInv' /\ ClaimsInv'
    BY <2>0 DEF QueueInv, GuardsInv, ClaimsInv
  <2>5. CountsInv'
    BY <2>0, <2>1 DEF QueueInv, CountsInv, Total, Units
  <2>6. WindowInv'
    BY <2>0, <2>1 DEF QueueInv, WindowInv, Position
  <2>7. TokensInv'
    <3>1. \A t \in Threads : Carries(t)' <=> Carries(t)
      BY <2>0 DEF Carries
    <3>2. TokensInv
      BY DEF QueueInv, TokensInv
    <3>. QED BY <2>0, <2>2, <3>1, <3>2, TokensStay
  <2>. QED BY <2>3, <2>4, <2>5, <2>6, <2>7 DEF QueueInv, TokensInv
<1>. QED BY <1>1, <1>2

\* The words of the queue, what the threads hold and the commands agree, however
\* many threads there are.
THEOREM Invariance == Spec => []QueueInv
<1>1. Init => QueueInv
  BY InitInv
<1>2. QueueInv /\ [Next]_vars => QueueInv'
  BY StepInv
<1>. QED BY <1>1, <1>2, PTL DEF Spec

\* No command that is queued is lost, overwritten before it is copied or
\* executed twice (AddWorkerCmd, R_ProcessWorkerCmd).
THEOREM Once == Spec => []ExecutedOnce
<1>1. QueueInv => ExecutedOnce
  <2>1. SUFFICES ASSUME QueueInv, NEW c \in Commands
                 PROVE  executed[c] <= IF c <= submitted THEN 1 ELSE 0
    BY DEF ExecutedOnce
  <2>2. submitted \in Nat /\ c \in Nat /\ executed[c] \in Nat
    BY <2>1, TypeFacts, Sizes DEF QueueInv, Commands
  <2>3. CASE c > submitted /\ executed[c] = 0
    BY <2>2, <2>3
  <2>4. CASE c <= submitted /\ executed[c] = 1
    BY <2>2, <2>4
  <2>5. CASE Waits(c)
    BY <2>2, <2>5 DEF Waits
  <2>6. \/ c > submitted /\ executed[c] = 0
        \/ c <= submitted /\ executed[c] = 1
        \/ Waits(c)
    BY <2>1 DEF QueueInv, DoneInv, CarriedInv, QueuedInv, CopiedInv
  <2>. QED BY <2>3, <2>4, <2>5, <2>6
<1>. QED BY <1>1, Invariance, PTL

\* When no command is outstanding, all have been executed (R_WorkerQueuePending).
THEOREM Drained == Spec => []DrainedMeansDone
<1>1. QueueInv => DrainedMeansDone
  <2>1. SUFFICES ASSUME QueueInv, outstandingCount = 0, NEW c \in 1..submitted
                 PROVE  executed[c] = 1
    BY DEF DrainedMeansDone
  <2>2. TypeOK /\ GuardsInv /\ CountsInv /\ ClaimsInv /\ DoneInv
    BY <2>1 DEF QueueInv
  <2>3. outSize = 0 /\ Total(CommandsHeld) = 0
    <3>1. outSize \in Nat /\ Total(CommandsHeld) \in Nat
      BY <2>2, TypeFacts, UnitsFinite
    <3>. QED BY <2>1, <2>2, <3>1 DEF CountsInv
  <2>4. ASSUME NEW t \in Threads PROVE CommandsHeld[t] = 0
    BY <2>2, <2>3, TypeFacts, TotalOfNothingOnly
  <2>5. ASSUME NEW t \in Threads
        PROVE  /\ ~ Carries(t)
               /\ pc[t] \notin Claiming \cup {"complete"}
               /\ data[t] = << >>
    <3>1. ~ Carries(t)
      BY <2>4 DEF CommandsHeld, Carries, Producing
    <3>2. pc[t] \notin Claiming \cup {"complete"}
      <4>1. SUFFICES ASSUME pc[t] \in Claiming \cup {"complete"} PROVE FALSE
        OBVIOUS
      <4>2. CommandsHeld[t] = count[t]
        BY <4>1 DEF CommandsHeld, Producing, Claiming
      <4>3. count[t] > 0 /\ count[t] \in Nat
        BY <2>2, <4>1, TypeFacts DEF ClaimsInv
      <4>. QED BY <2>4, <4>2, <4>3
    <3>3. data[t] = << >>
      BY <2>2, <3>2 DEF ClaimsInv
    <3>. QED BY <3>1, <3>2, <3>3
  <2>6. Claimed = 0 /\ Copied = 0
    <3>1. Copying = {}
      BY <2>5 DEF Copying, Claiming
    <3>. QED BY <3>1, CopyingFacts
  <2>7. Window = {}
    <3>1. 0..0 + 0 - 1 = {}
      OBVIOUS
    <3>. QED BY <2>3, <2>6, <3>1 DEF Window
  <2>8. \A t \in Threads : 1..Len(data[t]) = {}
    <3>1. Len(<< >>) = 0 /\ 1..0 = {}
      BY EmptySeq
    <3>. QED BY <2>5, <3>1
  <2>9. submitted \in Nat /\ submitted <= MaxCommands /\ MaxCommands \in Nat
    BY <2>2, TypeFacts, Sizes
  <2>10. c \in Commands /\ c <= submitted /\ c \in Nat
    BY <2>9 DEF Commands
  <2>11. \/ c > submitted /\ executed[c] = 0
         \/ c <= submitted /\ executed[c] = 1
    BY <2>2, <2>5, <2>7, <2>8, <2>10 DEF DoneInv
  <2>. QED BY <2>9, <2>10, <2>11
<1>. QED BY <1>1, Invariance, PTL

\* None of the checks the queue makes of its own words fails
\* (R_WorkerQueueInvariantFailure).
THEOREM Checks == Spec => []ChecksHold
<1>1. QueueInv => ChecksHold
  <2>1. SUFFICES ASSUME QueueInv, NEW t \in Threads
                 PROVE  /\ pc[t] = "publish" => outSize < Capacity
                        /\ pc[t] = "check" => outSize <= Capacity
                        /\ pc[t] = "claim" => outSize \in 1..Capacity
                        /\ pc[t] \in {"unlockProducer", "giveUp"} => producerGuard
                        /\ pc[t] \in {"unlockConsumer", "leave"} => consumerGuard
                        /\ pc[t] = "freeSlots" => inSize \in count[t]..Capacity
                        /\ pc[t] = "complete" => outstandingCount >= count[t]
                        /\ pc[t] = "completeInline" => outstandingCount > 0
    BY DEF ChecksHold
  <2>2. TypeOK /\ GuardsInv /\ CountsInv /\ ClaimsInv
    BY <2>1 DEF QueueInv
  <2>3. /\ outSize \in Nat /\ outSize <= Capacity /\ Capacity \in Nat
        /\ inSize \in Nat /\ inSize <= Capacity
        /\ count[t] \in Nat /\ Claimed \in Nat
        /\ Total(SlotsHeld) \in Nat /\ Total(CommandsHeld) \in Nat
        /\ SlotsHeld[t] <= Total(SlotsHeld) /\ CommandsHeld[t] <= Total(CommandsHeld)
    <3>1. outSize \in 0..Capacity /\ inSize \in 0..Capacity /\ Capacity \in Nat
      BY <2>2, Sizes DEF TypeOK
    <3>2. /\ Total(SlotsHeld) \in Nat /\ SlotsHeld[t] <= Total(SlotsHeld)
          /\ Total(CommandsHeld) \in Nat /\ CommandsHeld[t] <= Total(CommandsHeld)
      BY <2>2, TypeFacts, TotalBounds
    <3>. QED BY <2>2, <3>1, <3>2, TypeFacts, WindowBounds
  <2>4. pc[t] = "publish" => outSize < Capacity
    <3>1. pc[t] = "publish" => Claimed + outSize + 1 <= Capacity
      BY <2>2, RoomInRing DEF Producing
    <3>. QED BY <2>3, <3>1
  <2>5. pc[t] = "claim" => outSize \in 1..Capacity
    BY <2>2, <2>3 DEF ClaimsInv
  <2>6. /\ pc[t] \in {"unlockProducer", "giveUp"} => producerGuard
        /\ pc[t] \in {"unlockConsumer", "leave"} => consumerGuard
    BY <2>2 DEF GuardsInv, ProducerSection, ConsumerSection
  <2>7. pc[t] = "freeSlots" => inSize \in count[t]..Capacity
    <3>1. pc[t] = "freeSlots" => SlotsHeld[t] = count[t]
      BY DEF SlotsHeld, Producing, Claiming
    <3>. QED BY <2>2, <2>3, <3>1 DEF CountsInv
  <2>8. pc[t] = "complete" => outstandingCount >= count[t]
    <3>1. pc[t] = "complete" => CommandsHeld[t] = count[t]
      BY DEF CommandsHeld, Producing, Claiming
    <3>. QED BY <2>2, <2>3, <3>1 DEF CountsInv
  <2>9. pc[t] = "completeInline" => outstandingCount > 0
    <3>1. pc[t] = "completeInline" => CommandsHeld[t] = 1
      BY DEF CommandsHeld, Producing, Claiming
    <3>. QED BY <2>2, <2>3, <3>1 DEF CountsInv
  <2>. QED BY <2>3, <2>4, <2>5, <2>6, <2>7, <2>8, <2>9
<1>. QED BY <1>1, Invariance, PTL

=============================================================================
