------------------------- MODULE ServerCommands_proofs -------------------------
(***************************************************************************)
(* Proofs about ServerCommands, for every window, all commands and any     *)
(* number of messages under way.                                           *)
(***************************************************************************)
EXTENDS ServerCommands, RingFacts, FiniteSetTheorems, SequenceTheorems

LEMMA Sizes ==
  /\ WindowSize \in Nat \ {0} /\ MaxInFlight \in Nat \ {0} /\ MaxLevels \in Nat
  /\ Backlog \in Nat
BY ServerCommandsAssumption

-----------------------------------------------------------------------------
(* Slots, least and greatest numbers.                                        *)

LEMMA SlotFacts ==
  /\ \A n \in Int : Slot(n) \in Slots
  /\ \A m, n \in Int : m < n /\ n - m < WindowSize => Slot(m) # Slot(n)
  /\ \A n \in Int : Slot(Slot(n) + 1) = Slot(n + 1)
  /\ 0 \in Slots
<1>1. ASSUME NEW n \in Int PROVE Slot(n) \in Slots
  BY Sizes, SlotInRing DEF Slot, Slots
<1>2. ASSUME NEW m \in Int, NEW n \in Int, m < n, n - m < WindowSize
      PROVE  Slot(m) # Slot(n)
  BY <1>2, Sizes, SlotsApart DEF Slot
<1>3. ASSUME NEW n \in Int PROVE Slot(Slot(n) + 1) = Slot(n + 1)
  <2>1. 1 \in Int
    OBVIOUS
  <2>. QED BY <2>1, Sizes, SlotGoesOn DEF Slot
<1>4. 0 \in Slots
  BY Sizes DEF Slots
<1>. QED BY <1>1, <1>2, <1>3, <1>4

LEMMA LeastExists ==
  ASSUME NEW T, T \subseteq Nat, T # {}
  PROVE  \E x \in T : \A y \in T : x <= y
<1>1. PICK x \in T : \A y \in T : ~ (<<y, x>> \in OpToRel(<, Nat))
  BY NatLessThanWellFounded, WFMin
<1>2. ASSUME NEW y \in T PROVE x <= y
  <2>1. x \in Nat /\ y \in Nat
    OBVIOUS
  <2>2. ~ (<<y, x>> \in {ss \in Nat \X Nat : ss[1] < ss[2]})
    BY <1>1 DEF OpToRel
  <2>3. ~ (y < x)
    BY <2>1, <2>2
  <2>. QED BY <2>1, <2>3
<1>. QED BY <1>2

\* A bounded set has a greatest number.
LEMMA MaxFacts ==
  ASSUME NEW l \in Nat, NEW T, T \subseteq 0..l, T # {}
  PROVE  Max(T) \in T /\ \A y \in T : y <= Max(T)
<1> DEFINE U == {l - y : y \in T}
<1>1. U \subseteq Nat /\ U # {}
  OBVIOUS
<1>2. PICK u \in U : \A v \in U : u <= v
  <2> HIDE DEF U
  <2>. QED BY <1>1, LeastExists
<1>3. PICK x \in T : u = l - x
  OBVIOUS
<1>4. ASSUME NEW y \in T PROVE x >= y
  <2>1. l - y \in U /\ x \in 0..l /\ y \in 0..l
    OBVIOUS
  <2>2. l - x <= l - y
    BY <1>2, <1>3, <2>1
  <2>. QED BY <2>1, <2>2
<1>5. \E z \in T : \A y \in T : z >= y
  BY <1>4
<1>6. Max(T) \in T /\ \A y \in T : Max(T) >= y
  BY <1>5 DEF Max
<1>7. \A y \in T : y \in 0..l
  OBVIOUS
<1>. QED BY <1>6, <1>7

\* The j-th element of a set of numbers.
LEMMA NthExists ==
  ASSUME NEW l \in Nat, NEW K, K \subseteq 1..l, NEW j \in 1..Cardinality(K)
  PROVE  \E n \in K : Cardinality(K \cap 0..n) = j
<1> DEFINE upTo(n) == Cardinality(K \cap 0..n)
           T == {n \in 0..l : upTo(n) >= j}
<1>0. K \cap 0..l = K /\ l \in 0..l
  <2>1. ASSUME NEW n \in K PROVE n \in 0..l
    <3>1. n \in 1..l
      OBVIOUS
    <3>. QED BY <3>1
  <2>2. l \in 0..l
    OBVIOUS
  <2>. QED BY <2>1, <2>2
<1>1. ASSUME NEW n \in 0..l
      PROVE  IsFiniteSet(K \cap 0..n) /\ upTo(n) \in Nat
  <2>1. IsFiniteSet(0..n)
    BY FS_Interval
  <2>2. K \cap 0..n \in SUBSET (0..n)
    OBVIOUS
  <2>. QED BY <2>1, <2>2, FS_Subset, FS_CardinalityType
<1>2. l \in T
  <2>2. upTo(l) = Cardinality(K) /\ l \in 0..l
    BY <1>0
  <2>3. Cardinality(K) \in Nat
    BY <1>0, <1>1
  <2>. QED BY <2>2, <2>3
<1>3. PICK x \in T : \A y \in T : x <= y
  <2>1. T \subseteq Nat
    OBVIOUS
  <2> HIDE DEF T
  <2>. QED BY <1>2, <2>1, LeastExists
<1>4. x \in 0..l /\ upTo(x) >= j /\ j \in Nat /\ j >= 1
  <2>1. Cardinality(K) \in Nat
    BY <1>0, <1>1
  <2>. QED BY <2>1
<1>5. x # 0
  <2>1. K \cap 0..0 = {}
    OBVIOUS
  <2>2. upTo(0) = 0
    BY <2>1, FS_EmptySet
  <2>. QED BY <1>4, <2>2
<1>6. x - 1 \in 0..l /\ upTo(x - 1) \in Nat /\ upTo(x) \in Nat
  <2>1. x - 1 \in 0..l
    BY <1>4, <1>5
  <2>. QED BY <1>1, <1>4, <2>1
<1>7. upTo(x - 1) < j
  <2>1. ~ (x <= x - 1)
    BY <1>4
  <2>2. x - 1 \notin T
    BY <1>3, <2>1
  <2>3. ~ (upTo(x - 1) >= j)
    BY <1>6, <2>2
  <2> HIDE DEF upTo
  <2>. QED BY <1>4, <1>6, <2>3
<1>8. x \in K
  <2>1. SUFFICES ASSUME x \notin K PROVE FALSE
    OBVIOUS
  <2>2. K \cap 0..x = K \cap 0..x - 1
    BY <1>4, <2>1
  <2>3. upTo(x) = upTo(x - 1)
    BY <2>2
  <2> HIDE DEF upTo
  <2>. QED BY <1>4, <1>6, <1>7, <2>3
<1>9. upTo(x) = upTo(x - 1) + 1
  <2> DEFINE less == K \cap 0..x - 1
  <2>1. K \cap 0..x = less \cup {x} /\ x \notin less
    BY <1>4, <1>8
  <2>2. IsFiniteSet(less)
    BY <1>1, <1>6
  <2> HIDE DEF less
  <2>3. Cardinality(less \cup {x}) = Cardinality(less) + 1
    BY <2>1, <2>2, FS_AddElement
  <2>. QED BY <2>1, <2>3 DEF less
<1>10. upTo(x) = j
  <2> HIDE DEF upTo
  <2>. QED BY <1>4, <1>6, <1>7, <1>9
<1>. QED BY <1>8, <1>10

-----------------------------------------------------------------------------
(* Sequences.                                                                *)

LEMMA RemoveAtFacts ==
  ASSUME NEW S, NEW s \in Seq(S), NEW n \in 1..Len(s)
  PROVE  /\ RemoveAt(s, n) \in Seq(S) /\ Len(RemoveAt(s, n)) = Len(s) - 1
         /\ \A k \in 1..Len(s) - 1 :
              RemoveAt(s, n)[k] = IF k < n THEN s[k] ELSE s[k + 1]
<1> DEFINE front == SubSeq(s, 1, n - 1)
           back == SubSeq(s, n + 1, Len(s))
<1>0. Len(s) \in Nat /\ \A i \in 1..Len(s) : s[i] \in S
  OBVIOUS
<1>1. /\ front \in Seq(S) /\ Len(front) = n - 1
      /\ \A i \in 1..n - 1 : front[i] = s[i]
  <2>1. 1 \in Int /\ n - 1 \in Int /\ \A i \in 1..n - 1 : s[i] \in S
    BY <1>0
  <2>2. /\ front \in Seq(S)
        /\ Len(front) = IF 1 <= n - 1 THEN (n - 1) - 1 + 1 ELSE 0
        /\ \A i \in 1..(n - 1) - 1 + 1 : front[i] = s[1 + i - 1]
    BY <2>1, SubSeqProperties
  <2>. QED BY <1>0, <2>2
<1>2. /\ back \in Seq(S) /\ Len(back) = Len(s) - n
      /\ \A i \in 1..Len(s) - n : back[i] = s[n + i]
  <2>1. n + 1 \in Int /\ Len(s) \in Int /\ \A i \in n + 1..Len(s) : s[i] \in S
    BY <1>0
  <2>2. /\ back \in Seq(S)
        /\ Len(back) = IF n + 1 <= Len(s) THEN Len(s) - (n + 1) + 1 ELSE 0
        /\ \A i \in 1..Len(s) - (n + 1) + 1 : back[i] = s[(n + 1) + i - 1]
    BY <2>1, SubSeqProperties
  <2>. QED BY <1>0, <2>2
<1>3. RemoveAt(s, n) = front \o back
  BY DEF RemoveAt
<1> HIDE DEF front, back
<1>4. /\ front \o back \in Seq(S) /\ Len(front \o back) = Len(front) + Len(back)
      /\ \A i \in 1..Len(front) + Len(back) :
           (front \o back)[i] = IF i <= Len(front) THEN front[i]
                                ELSE back[i - Len(front)]
  BY <1>1, <1>2, ConcatProperties
<1>5. ASSUME NEW k \in 1..Len(s) - 1
      PROVE  (front \o back)[k] = IF k < n THEN s[k] ELSE s[k + 1]
  <2>1. k \in 1..Len(front) + Len(back)
    BY <1>0, <1>1, <1>2
  <2>2. k \in Int /\ n \in Int /\ k \in 1..Len(s) - 1
    BY <1>0
  <2>3. CASE k < n
    BY <1>0, <1>1, <1>4, <2>1, <2>3
  <2>4. CASE ~ (k < n)
    <3> DEFINE i == k - (n - 1)
    <3>1. i \in 1..Len(s) - n /\ n + i = k + 1 /\ ~ (k <= n - 1)
      BY <1>0, <2>2, <2>4
    <3>2. (front \o back)[k] = back[i]
      BY <1>1, <1>4, <2>1, <3>1
    <3>3. back[i] = s[n + i]
      BY <1>2, <3>1
    <3> HIDE DEF i
    <3>4. (front \o back)[k] = s[k + 1]
      BY <3>1, <3>2, <3>3
    <3>. QED BY <2>4, <3>4
  <2>. QED BY <2>3, <2>4
<1>. QED BY <1>0, <1>1, <1>2, <1>3, <1>4, <1>5

\* What is under way after a message was sent: the new one, last, and older
\* ones in their order.
LEMMA SendFacts ==
  ASSUME NEW S, NEW channel \in Seq(S), NEW m \in S
  PROVE  /\ Send(channel, m) \in Seq(S)
         /\ \E d \in {0, 1} : \A i \in 1..Len(Send(channel, m)) :
              \/ /\ i + d \in 1..Len(channel) /\ Send(channel, m)[i] = channel[i + d]
                 /\ i < Len(Send(channel, m))
              \/ i = Len(Send(channel, m)) /\ Send(channel, m)[i] = m
<1>1. CASE Len(channel) < MaxInFlight
  <2>1. Send(channel, m) = Append(channel, m)
    BY <1>1 DEF Send
  <2>2. /\ Append(channel, m) \in Seq(S) /\ Len(Append(channel, m)) = Len(channel) + 1
        /\ \A i \in 1..Len(channel) : Append(channel, m)[i] = channel[i]
        /\ Append(channel, m)[Len(channel) + 1] = m
    BY AppendProperties
  <2>3. \A i \in 1..Len(Append(channel, m)) :
          \/ /\ i + 0 \in 1..Len(channel) /\ Append(channel, m)[i] = channel[i + 0]
             /\ i < Len(Append(channel, m))
          \/ i = Len(Append(channel, m)) /\ Append(channel, m)[i] = m
    BY <2>2
  <2>. QED BY <2>1, <2>2, <2>3
<1>2. CASE ~ (Len(channel) < MaxInFlight)
  <2> DEFINE rest == Tail(channel)
  <2>1. Send(channel, m) = Append(rest, m)
    BY <1>2 DEF Send
  <2>2. channel # << >>
    <3>1. Len(channel) # 0
      BY <1>2, Sizes
    <3>. QED BY <3>1, EmptySeq
  <2>3. /\ rest \in Seq(S) /\ Len(rest) = Len(channel) - 1
        /\ \A i \in 1..Len(rest) : rest[i] = channel[i + 1]
    BY <2>2, HeadTailProperties
  <2> HIDE DEF rest
  <2>4. /\ Append(rest, m) \in Seq(S) /\ Len(Append(rest, m)) = Len(rest) + 1
        /\ \A i \in 1..Len(rest) : Append(rest, m)[i] = rest[i]
        /\ Append(rest, m)[Len(rest) + 1] = m
    BY <2>3, AppendProperties
  <2>5. \A i \in 1..Len(Append(rest, m)) :
          \/ /\ i + 1 \in 1..Len(channel) /\ Append(rest, m)[i] = channel[i + 1]
             /\ i < Len(Append(rest, m))
          \/ i = Len(Append(rest, m)) /\ Append(rest, m)[i] = m
    BY <2>3, <2>4
  <2>. QED BY <2>1, <2>4, <2>5
<1>. QED BY <1>1, <1>2

\* What is under way after message number d was taken or lost.
LEMMA RestFacts ==
  ASSUME NEW S, NEW channel \in Seq(S), NEW d \in 1..Len(channel)
  PROVE  /\ SubSeq(channel, d + 1, Len(channel)) \in Seq(S)
         /\ Len(SubSeq(channel, d + 1, Len(channel))) = Len(channel) - d
         /\ \A i \in 1..Len(channel) - d :
              SubSeq(channel, d + 1, Len(channel))[i] = channel[i + d]
<1>1. /\ d + 1 \in Int /\ Len(channel) \in Int
      /\ \A i \in d + 1..Len(channel) : channel[i] \in S
  OBVIOUS
<1>2. /\ SubSeq(channel, d + 1, Len(channel)) \in Seq(S)
      /\ Len(SubSeq(channel, d + 1, Len(channel))) =
           IF d + 1 <= Len(channel) THEN Len(channel) - (d + 1) + 1 ELSE 0
      /\ \A i \in 1..Len(channel) - (d + 1) + 1 :
           SubSeq(channel, d + 1, Len(channel))[i] = channel[(d + 1) + i - 1]
  BY <1>1, SubSeqProperties
<1>. QED BY <1>1, <1>2

-----------------------------------------------------------------------------
(* What replacing and culling do to the server's ring.                       *)

Types == {"ignorable", "reliable"}

\* What a sequence of entries has under number n.
Named(entries, n) ==
  IF n = 0 THEN Command(NoCommand, "ignorable") ELSE entries[n]

\* A ring holds the entries from number low on that are not a window old.
Holds(ring, entries, low) ==
  \A n \in 0..Len(entries) :
    low <= n /\ Len(entries) - n < WindowSize => ring[Slot(n)] = Named(entries, n)

LEMMA EntryFacts ==
  ASSUME NEW c \in Texts, NEW t \in Types
  PROVE  Command(c, t) \in Entry /\ Command(c, t).cmd = c
BY DEF Command, Entry, Types

\* A culling keeps unsent entries, and no more of them than there were.
LEMMA KeptFacts ==
  ASSUME reliableSent \in Nat, NEW ring \in [Slots -> Entry],
         NEW last \in Nat, reliableSent <= last
  PROVE  /\ Kept(ring, last) \in Seq(Entry)
         /\ Len(Kept(ring, last)) <= last - reliableSent
<1> DEFINE kept == {n \in reliableSent + 1..last : ring[Slot(n)].type = "reliable"}
           nth(j) == CHOOSE n \in kept : Cardinality(kept \cap 0..n) = j
<1>1. /\ kept \subseteq reliableSent + 1..last /\ kept \subseteq 1..last
      /\ \A n \in kept : Slot(n) \in Slots
  BY SlotFacts
<1>2. Kept(ring, last) = [j \in 1..Cardinality(kept) |-> ring[Slot(nth(j))]]
  BY DEF Kept
<1> HIDE DEF kept
<1>3. Cardinality(kept) \in Nat /\ Cardinality(kept) <= last - reliableSent
  <2>1. IsFiniteSet(reliableSent + 1..last)
        /\ Cardinality(reliableSent + 1..last) = last - reliableSent
    <3>1. reliableSent + 1 \in Int /\ last \in Int
      OBVIOUS
    <3>2. IsFiniteSet(reliableSent + 1..last)
          /\ Cardinality(reliableSent + 1..last) =
               IF reliableSent + 1 > last THEN 0 ELSE last - (reliableSent + 1) + 1
      BY <3>1, FS_Interval
    <3>. QED BY <3>2
  <2>2. /\ IsFiniteSet(kept)
        /\ Cardinality(kept) <= Cardinality(reliableSent + 1..last)
    BY <1>1, <2>1, FS_Subset
  <2>3. Cardinality(kept) \in Nat
    BY <2>2, FS_CardinalityType
  <2>. QED BY <2>1, <2>2, <2>3
<1>4. ASSUME NEW j \in 1..Cardinality(kept)
      PROVE  ring[Slot(nth(j))] \in Entry
  <2>1. \E n \in kept : Cardinality(kept \cap 0..n) = j
    BY <1>1, NthExists
  <2>2. nth(j) \in kept
    BY <2>1
  <2> HIDE DEF nth
  <2>. QED BY <1>1, <2>2
<1> HIDE DEF nth
<1>5. [j \in 1..Cardinality(kept) |-> ring[Slot(nth(j))]]
        \in [1..Cardinality(kept) -> Entry]
  BY <1>4
<1> DEFINE k == Cardinality(kept)
           f == [j \in 1..k |-> ring[Slot(nth(j))]]
<1> HIDE DEF k, f
<1>6. k \in Nat /\ f \in [1..k -> Entry]
  BY <1>3, <1>5 DEF k, f
<1>7. f \in Seq(Entry) /\ Len(f) = k
  BY <1>6
<1>. QED BY <1>2, <1>3, <1>7 DEF k, f

\* A culled ring has the entries kept behind the sent ones, and is otherwise
\* what it was.
LEMMA CulledFacts ==
  ASSUME reliableSent \in Nat, NEW ring \in [Slots -> Entry],
         NEW kept \in Seq(Entry)
  PROVE  /\ CulledRing(ring, kept) \in [Slots -> Entry]
         /\ Len(kept) <= WindowSize =>
              /\ \A j \in 1..Len(kept) :
                   CulledRing(ring, kept)[Slot(reliableSent + j)] = kept[j]
              /\ \A n \in Nat : n <= reliableSent
                                /\ (reliableSent + Len(kept)) - n < WindowSize =>
                   CulledRing(ring, kept)[Slot(n)] = ring[Slot(n)]
<1> DEFINE at(s) == CHOOSE j \in 1..Len(kept) : s = Slot(reliableSent + j)
           taken(s) == \E j \in 1..Len(kept) : s = Slot(reliableSent + j)
<1>0. Len(kept) \in Nat /\ \A j \in 1..Len(kept) : kept[j] \in Entry
  OBVIOUS
<1>1. CulledRing(ring, kept) =
        [s \in Slots |-> IF taken(s) THEN kept[at(s)] ELSE ring[s]]
  BY DEF CulledRing
<1>2. \A s : taken(s) => at(s) \in 1..Len(kept) /\ s = Slot(reliableSent + at(s))
  OBVIOUS
<1> HIDE DEF at
<1>3. CulledRing(ring, kept) \in [Slots -> Entry]
  <2> HIDE DEF taken
  <2>. QED BY <1>0, <1>1, <1>2
<1>4. ASSUME Len(kept) <= WindowSize, NEW j \in 1..Len(kept)
      PROVE  CulledRing(ring, kept)[Slot(reliableSent + j)] = kept[j]
  <2> DEFINE s == Slot(reliableSent + j)
  <2>1. s \in Slots /\ taken(s)
    <3>1. reliableSent + j \in Int
      BY <1>0
    <3>2. s \in Slots
      <4> HIDE DEF taken
      <4>. QED BY <3>1, SlotFacts
    <3>3. taken(s)
      OBVIOUS
    <3>. QED BY <3>2, <3>3
  <2>2. at(s) \in 1..Len(kept) /\ Slot(reliableSent + at(s)) = Slot(reliableSent + j)
    BY <1>2, <2>1
  <2> HIDE DEF s, taken
  <2>3. at(s) = j
    <3> DEFINE a == at(s)
    <3>1. a \in 1..Len(kept) /\ Slot(reliableSent + a) = Slot(reliableSent + j)
      BY <2>2
    <3> HIDE DEF a
    <3>2. ASSUME a < j PROVE FALSE
      <4>1. /\ reliableSent + a \in Int /\ reliableSent + j \in Int
            /\ reliableSent + a < reliableSent + j
            /\ (reliableSent + j) - (reliableSent + a) < WindowSize
        BY <1>0, <1>4, <3>1, <3>2, Sizes
      <4>. QED BY <4>1, <3>1, SlotFacts
    <3>3. ASSUME j < a PROVE FALSE
      <4>1. /\ reliableSent + a \in Int /\ reliableSent + j \in Int
            /\ reliableSent + j < reliableSent + a
            /\ (reliableSent + a) - (reliableSent + j) < WindowSize
        BY <1>0, <1>4, <3>1, <3>3, Sizes
      <4>. QED BY <4>1, <3>1, SlotFacts
    <3>4. a \in Int /\ j \in Int
      BY <3>1
    <3>5. a = j
      BY <3>2, <3>3, <3>4
    <3>. QED BY <3>5 DEF a
  <2>4. CulledRing(ring, kept)[s] = kept[j]
    BY <1>1, <2>1, <2>3
  <2>. QED BY <2>4 DEF s
<1>5. ASSUME Len(kept) <= WindowSize, NEW n \in Nat, n <= reliableSent,
             (reliableSent + Len(kept)) - n < WindowSize
      PROVE  CulledRing(ring, kept)[Slot(n)] = ring[Slot(n)]
  <2>1. ASSUME NEW j \in 1..Len(kept) PROVE Slot(n) # Slot(reliableSent + j)
    <3>1. /\ n \in Int /\ reliableSent + j \in Int /\ n < reliableSent + j
          /\ (reliableSent + j) - n < WindowSize
      BY <1>0, <1>5, Sizes
    <3>. QED BY <3>1, SlotFacts
  <2>2. Slot(n) \in Slots /\ ~ taken(Slot(n))
    BY <2>1, SlotFacts
  <2> HIDE DEF taken
  <2>. QED BY <1>1, <2>2
<1>. QED BY <1>3, <1>4, <1>5

\* A shifted ring has the entries from number n on one number lower.
LEMMA ShiftFacts ==
  ASSUME NEW ring \in [Slots -> Entry], NEW n \in Nat, NEW last \in Nat
  PROVE  /\ ShiftedRing(ring, n, last) \in [Slots -> Entry]
         /\ \A k \in n..last - 1 : ShiftedRing(ring, n, last)[Slot(k)] = ring[Slot(k + 1)]
         /\ \A m \in Nat : m < n /\ last - m < WindowSize =>
              ShiftedRing(ring, n, last)[Slot(m)] = ring[Slot(m)]
<1> DEFINE moved(s) == \E k \in n..last - 1 : s = Slot(k)
<1>1. ShiftedRing(ring, n, last) =
        [s \in Slots |-> IF moved(s) THEN ring[Slot(s + 1)] ELSE ring[s]]
  BY DEF ShiftedRing
<1>2. \A s \in Slots : Slot(s + 1) \in Slots
  <2>1. \A s \in Slots : s + 1 \in Int
    BY Sizes DEF Slots
  <2>. QED BY <2>1, SlotFacts
<1>3. ShiftedRing(ring, n, last) \in [Slots -> Entry]
  <2> HIDE DEF moved
  <2>. QED BY <1>1, <1>2
<1>4. ASSUME NEW k \in n..last - 1
      PROVE  ShiftedRing(ring, n, last)[Slot(k)] = ring[Slot(k + 1)]
  <2>1. Slot(k) \in Slots /\ moved(Slot(k)) /\ Slot(Slot(k) + 1) = Slot(k + 1)
    BY SlotFacts
  <2> HIDE DEF moved
  <2>. QED BY <1>1, <2>1
<1>5. ASSUME NEW m \in Nat, m < n, last - m < WindowSize
      PROVE  ShiftedRing(ring, n, last)[Slot(m)] = ring[Slot(m)]
  <2>1. ASSUME NEW k \in n..last - 1 PROVE Slot(m) # Slot(k)
    <3>1. m \in Int /\ k \in Int /\ m < k /\ k - m < WindowSize
      BY <1>5, Sizes
    <3>. QED BY <3>1, SlotFacts
  <2>2. Slot(m) \in Slots /\ ~ moved(Slot(m))
    BY <2>1, SlotFacts
  <2> HIDE DEF moved
  <2>. QED BY <1>1, <2>2
<1>. QED BY <1>3, <1>4, <1>5

\* A new command, which may take the place of an unsent one: the ring goes on
\* holding what the history says.
LEMMA EnqueueFacts ==
  ASSUME reliableSent \in Nat, NEW ring \in [Slots -> Entry],
         NEW entries \in Seq(Entry), reliableSent <= Len(entries),
         NEW c \in Texts, NEW t \in Types,
         Enqueue(ring, entries, Len(entries), c, t)
  PROVE  /\ reliableSequence' \in {Len(entries), Len(entries) + 1}
         /\ reliableSequence' \in Nat /\ reliableSent <= reliableSequence'
         /\ reliableCommandInfo' \in [Slots -> Entry]
         /\ log' \in Seq(Entry) /\ Len(log') = reliableSequence'
         /\ \A n \in 1..reliableSent : log'[n] = entries[n]
         /\ \A low \in Nat : Holds(ring, entries, low) =>
                               Holds(reliableCommandInfo', log', low)
<1> DEFINE last == Len(entries)
           old == Replaceable(ring, last, c)
<1>0. last \in Nat /\ \A i \in 1..last : entries[i] \in Entry
  OBVIOUS
<1>1. PICK entry \in Entry :
        /\ old = {} =>
             /\ reliableSequence' = last + 1
             /\ reliableCommandInfo' = [ring EXCEPT ![Slot(last + 1)] = entry]
             /\ log' = Append(entries, entry)
        /\ old # {} =>
             \E n \in old :
               /\ reliableSequence' = last
               /\ reliableCommandInfo' =
                    [ShiftedRing(ring, n, last) EXCEPT ![Slot(last)] = entry]
               /\ log' = Append(RemoveAt(entries, n), entry)
  <2> DEFINE n == CHOOSE n \in old : \A k \in old : n <= k
             seq == IF old = {} THEN last + 1 ELSE last
             entry == IF Overflows(seq) THEN Command(DropText, "reliable")
                                        ELSE Command(c, t)
  <2>1. entry \in Entry
    <3>1. "reliable" \in Types /\ DropText \in Texts
      BY DEF Types, Texts
    <3>2. Command(DropText, "reliable") \in Entry /\ Command(c, t) \in Entry
      BY <3>1, EntryFacts
    <3>. QED BY <3>2
  <2>2. /\ reliableSequence' = seq
        /\ reliableCommandInfo' =
             [(IF old = {} THEN ring ELSE ShiftedRing(ring, n, last))
                EXCEPT ![Slot(seq)] = entry]
        /\ log' = Append(IF old = {} THEN entries ELSE RemoveAt(entries, n), entry)
    BY DEF Enqueue
  <2>3. old # {} => n \in old
    <3>1. SUFFICES ASSUME old # {} PROVE \E m \in old : \A k \in old : m <= k
      OBVIOUS
    <3>2. old \subseteq Nat
      BY DEF Replaceable
    <3> HIDE DEF old
    <3>. QED BY <3>1, <3>2, LeastExists
  <2> HIDE DEF n, old, entry
  <2>. QED BY <2>1, <2>2, <2>3
<1>2. CASE old = {}
  <2>1. /\ reliableSequence' = last + 1
        /\ reliableCommandInfo' = [ring EXCEPT ![Slot(last + 1)] = entry]
        /\ log' = Append(entries, entry)
    BY <1>1, <1>2
  <2>2. /\ log' \in Seq(Entry) /\ Len(log') = last + 1
        /\ \A i \in 1..last : log'[i] = entries[i]
        /\ log'[last + 1] = entry
    BY <2>1, AppendProperties
  <2>3. Slot(last + 1) \in Slots
    BY <1>0, SlotFacts
  <2>4. /\ reliableCommandInfo' \in [Slots -> Entry]
        /\ reliableCommandInfo'[Slot(last + 1)] = entry
        /\ \A s \in Slots : s # Slot(last + 1) => reliableCommandInfo'[s] = ring[s]
    BY <2>1, <2>3
  <2>5. ASSUME NEW low \in Nat, Holds(ring, entries, low),
               NEW n \in 0..Len(log'), low <= n, Len(log') - n < WindowSize
        PROVE  reliableCommandInfo'[Slot(n)] = Named(log', n)
    <3>1. CASE n = last + 1
      <4>1. Named(log', n) = entry
        BY <1>0, <2>2, <3>1 DEF Named
      <4>. QED BY <2>4, <3>1, <4>1
    <3>2. CASE n # last + 1
      <4>1. n \in 0..last /\ last - n < WindowSize /\ n < last + 1
            /\ (last + 1) - n < WindowSize
        BY <1>0, <2>2, <2>5, <3>2, Sizes
      <4>2. Slot(n) # Slot(last + 1) /\ Slot(n) \in Slots
        BY <1>0, <4>1, SlotFacts
      <4>3. ring[Slot(n)] = Named(entries, n)
        BY <2>5, <4>1 DEF Holds
      <4>4. Named(entries, n) = Named(log', n)
        BY <2>2, <4>1 DEF Named
      <4>. QED BY <2>4, <4>2, <4>3, <4>4
    <3>. QED BY <3>1, <3>2
  <2>6. \A low \in Nat : Holds(ring, entries, low) =>
                           Holds(reliableCommandInfo', log', low)
    BY <2>5 DEF Holds
  <2>7. /\ reliableSequence' \in Nat /\ reliableSent <= reliableSequence'
        /\ \A n \in 1..reliableSent : log'[n] = entries[n]
    BY <1>0, <2>1, <2>2
  <2>. QED BY <2>1, <2>2, <2>4, <2>6, <2>7
<1>3. CASE old # {}
  <2>1. PICK x \in old :
          /\ reliableSequence' = last
          /\ reliableCommandInfo' =
               [ShiftedRing(ring, x, last) EXCEPT ![Slot(last)] = entry]
          /\ log' = Append(RemoveAt(entries, x), entry)
    BY <1>1, <1>3
  <2>2. x \in reliableSent + 1..last /\ x \in 1..Len(entries) /\ x \in Nat
    BY DEF Replaceable
  <2> DEFINE less == RemoveAt(entries, x)
             shifted == ShiftedRing(ring, x, last)
  <2>3. /\ less \in Seq(Entry) /\ Len(less) = last - 1
        /\ \A k \in 1..last - 1 :
             less[k] = IF k < x THEN entries[k] ELSE entries[k + 1]
    BY <2>2, RemoveAtFacts
  <2>4. /\ shifted \in [Slots -> Entry]
        /\ \A k \in x..last - 1 : shifted[Slot(k)] = ring[Slot(k + 1)]
        /\ \A m \in Nat : m < x /\ last - m < WindowSize =>
             shifted[Slot(m)] = ring[Slot(m)]
    BY <1>0, <2>2, ShiftFacts
  <2>5. log' = Append(less, entry)
        /\ reliableCommandInfo' = [shifted EXCEPT ![Slot(last)] = entry]
    BY <2>1
  <2> HIDE DEF old, less, shifted
  <2>6. /\ log' \in Seq(Entry) /\ Len(log') = last
        /\ \A i \in 1..last - 1 : log'[i] = less[i]
        /\ log'[last] = entry
    <3>1. /\ Append(less, entry) \in Seq(Entry)
          /\ Len(Append(less, entry)) = Len(less) + 1
          /\ \A i \in 1..Len(less) : Append(less, entry)[i] = less[i]
          /\ Append(less, entry)[Len(less) + 1] = entry
      BY <2>3, AppendProperties
    <3>2. Len(less) + 1 = last
      BY <1>0, <2>3
    <3>. QED BY <2>3, <2>5, <3>1, <3>2
  <2>7. Slot(last) \in Slots
    BY <1>0, SlotFacts
  <2>8. /\ reliableCommandInfo' \in [Slots -> Entry]
        /\ reliableCommandInfo'[Slot(last)] = entry
        /\ \A s \in Slots : s # Slot(last) => reliableCommandInfo'[s] = shifted[s]
    BY <2>4, <2>5, <2>7
  <2>9. ASSUME NEW low \in Nat, Holds(ring, entries, low),
               NEW n \in 0..Len(log'), low <= n, Len(log') - n < WindowSize
        PROVE  reliableCommandInfo'[Slot(n)] = Named(log', n)
    <3>1. CASE n = last
      <4>1. Named(log', n) = entry
        BY <2>2, <2>6, <3>1 DEF Named
      <4>. QED BY <2>8, <3>1, <4>1
    <3>2. CASE n # last
      <4>1. n \in 0..last - 1 /\ n \in Nat /\ n < last /\ last - n < WindowSize
        BY <1>0, <2>6, <2>9, <3>2, Sizes
      <4>2. Slot(n) # Slot(last) /\ Slot(n) \in Slots
        BY <1>0, <4>1, SlotFacts
      <4>3. reliableCommandInfo'[Slot(n)] = shifted[Slot(n)]
        BY <2>8, <4>2
      <4>4. CASE n < x
        <5>1. shifted[Slot(n)] = ring[Slot(n)]
          BY <2>4, <4>1, <4>4
        <5>2. n \in 0..last
          BY <4>1
        <5>3. ring[Slot(n)] = Named(entries, n)
          BY <2>9, <4>1, <5>2 DEF Holds
        <5>4. Named(entries, n) = Named(log', n)
          <6>1. n # 0 => log'[n] = entries[n]
            BY <2>3, <2>6, <4>1, <4>4
          <6>. QED BY <6>1 DEF Named
        <5>. QED BY <4>3, <5>1, <5>3, <5>4
      <4>5. CASE ~ (n < x)
        <5>1. n \in x..last - 1 /\ n \in 1..last - 1 /\ n # 0
          BY <2>2, <4>1, <4>5
        <5>2. shifted[Slot(n)] = ring[Slot(n + 1)]
          BY <2>4, <5>1
        <5>3. n + 1 \in 0..last /\ low <= n + 1 /\ last - (n + 1) < WindowSize
              /\ n + 1 # 0
          BY <2>9, <4>1, Sizes
        <5>4. ring[Slot(n + 1)] = Named(entries, n + 1)
          <6> DEFINE k == n + 1
          <6>1. k \in 0..last /\ low <= k /\ last - k < WindowSize
            BY <5>3
          <6> HIDE DEF k
          <6>2. ring[Slot(k)] = Named(entries, k)
            BY <2>9, <6>1 DEF Holds
          <6>. QED BY <6>2 DEF k
        <5>5. Named(entries, n + 1) = entries[n + 1]
          BY <5>3 DEF Named
        <5>6. Named(log', n) = entries[n + 1]
          BY <2>3, <2>6, <4>5, <5>1 DEF Named
        <5>. QED BY <4>3, <5>2, <5>4, <5>5, <5>6
      <4>. QED BY <4>4, <4>5
    <3>. QED BY <3>1, <3>2
  <2>10. \A low \in Nat : Holds(ring, entries, low) =>
                            Holds(reliableCommandInfo', log', low)
    BY <2>9 DEF Holds
  <2>11. \A n \in 1..reliableSent : log'[n] = entries[n]
    <3>1. ASSUME NEW n \in 1..reliableSent PROVE log'[n] = entries[n]
      <4>1. n \in 1..last - 1 /\ n < x
        BY <2>2, <1>0
      <4>. QED BY <2>3, <2>6, <4>1
    <3>. QED BY <3>1
  <2>. QED BY <1>0, <2>1, <2>6, <2>8, <2>10, <2>11
<1>. QED BY <1>2, <1>3

\* SV_AddServerCommand without room in the window.
LEMMA AddCullingFacts ==
  ASSUME TypeOK, Len(log) = reliableSequence, reliableSent <= reliableSequence,
         reliableSequence - reliableSent <= WindowSize,
         NEW c \in Texts, NEW t \in Types, AddCulling(c, t)
  PROVE  /\ reliableSequence' \in Nat /\ reliableSequence' <= reliableSequence + 1
         /\ reliableSent <= reliableSequence'
         /\ reliableCommandInfo' \in [Slots -> Entry]
         /\ log' \in Seq(Entry) /\ Len(log') = reliableSequence'
         /\ \A n \in 1..reliableSent : log'[n] = log[n]
         /\ \A low \in Nat :
              reliableSequence - low < WindowSize /\ Holds(reliableCommandInfo, log, low)
                => Holds(reliableCommandInfo', log', low)
<1> DEFINE kept == Kept(reliableCommandInfo, reliableSequence)
           ring == CulledRing(reliableCommandInfo, kept)
           sent == SubSeq(log, 1, reliableSent)
           entries == sent \o kept
<1>0. /\ reliableSent \in Nat /\ reliableSequence \in Nat
      /\ reliableCommandInfo \in [Slots -> Entry] /\ log \in Seq(Entry)
      /\ \A i \in 1..reliableSequence : log[i] \in Entry
  BY DEF TypeOK
<1>1. kept \in Seq(Entry) /\ Len(kept) <= reliableSequence - reliableSent
  BY <1>0, KeptFacts
<1>2. /\ sent \in Seq(Entry) /\ Len(sent) = reliableSent
      /\ \A i \in 1..reliableSent : sent[i] = log[i]
  <2>1. 1 \in Int /\ reliableSent \in Int /\ \A i \in 1..reliableSent : log[i] \in Entry
    BY <1>0
  <2>2. /\ sent \in Seq(Entry)
        /\ Len(sent) = IF 1 <= reliableSent THEN reliableSent - 1 + 1 ELSE 0
        /\ \A i \in 1..reliableSent - 1 + 1 : sent[i] = log[1 + i - 1]
    BY <2>1, SubSeqProperties
  <2>. QED BY <1>0, <2>2
<1>3. /\ IF t = "reliable" THEN Enqueue(ring, entries, reliableSent + Len(kept), c, t)
         ELSE /\ reliableSequence' = reliableSent + Len(kept)
              /\ reliableCommandInfo' = ring
              /\ log' = entries
  BY DEF AddCulling
<1>4. ring \in [Slots -> Entry]
  <2> HIDE DEF kept
  <2>. QED BY <1>0, <1>1, CulledFacts
<1>5. /\ Len(kept) <= WindowSize
      /\ \A j \in 1..Len(kept) : ring[Slot(reliableSent + j)] = kept[j]
      /\ \A n \in Nat : n <= reliableSent
                        /\ (reliableSent + Len(kept)) - n < WindowSize =>
           ring[Slot(n)] = reliableCommandInfo[Slot(n)]
  <2> HIDE DEF kept
  <2>0. Len(kept) \in Nat
    BY <1>1
  <2>1. Len(kept) <= WindowSize
    BY <1>0, <1>1, <2>0, Sizes
  <2>. QED BY <1>0, <1>1, <2>1, CulledFacts
<1> HIDE DEF kept, ring, sent
<1>6. /\ entries \in Seq(Entry) /\ Len(entries) = reliableSent + Len(kept)
      /\ \A i \in 1..reliableSent : entries[i] = log[i]
      /\ \A j \in 1..Len(kept) : entries[reliableSent + j] = kept[j]
  <2>1. /\ entries \in Seq(Entry) /\ Len(entries) = Len(sent) + Len(kept)
        /\ \A i \in 1..Len(sent) + Len(kept) :
             entries[i] = IF i <= Len(sent) THEN sent[i] ELSE kept[i - Len(sent)]
    BY <1>1, <1>2, ConcatProperties
  <2>2. Len(kept) \in Nat
    BY <1>1
  <2> HIDE DEF entries
  <2>3. \A i \in 1..reliableSent : entries[i] = log[i]
    BY <1>0, <1>2, <2>1, <2>2
  <2>4. ASSUME NEW j \in 1..Len(kept) PROVE entries[reliableSent + j] = kept[j]
    <3> DEFINE i == reliableSent + j
    <3>1. i \in 1..Len(sent) + Len(kept) /\ ~ (i <= Len(sent)) /\ i - Len(sent) = j
      BY <1>0, <1>2, <2>2
    <3> HIDE DEF i
    <3>2. entries[i] = kept[j]
      BY <2>1, <3>1
    <3>. QED BY <3>2 DEF i
  <2>. QED BY <1>2, <2>1, <2>3, <2>4
<1> HIDE DEF entries
<1>7. ASSUME NEW low \in Nat, reliableSequence - low < WindowSize,
             Holds(reliableCommandInfo, log, low)
      PROVE  Holds(ring, entries, low)
  <2>1. ASSUME NEW n \in 0..Len(entries), low <= n, Len(entries) - n < WindowSize
        PROVE  ring[Slot(n)] = Named(entries, n)
    <3>0. Len(kept) \in Nat /\ Len(entries) \in Nat /\ n \in Nat
      BY <1>1, <1>6
    <3>1. CASE n <= reliableSent
      <4>1. /\ n \in 0..reliableSequence /\ n \in 0..Len(log)
            /\ reliableSequence - n < WindowSize
            /\ (reliableSent + Len(kept)) - n < WindowSize
        BY <1>0, <1>6, <1>7, <2>1, <3>0, <3>1, Sizes
      <4>2. ring[Slot(n)] = reliableCommandInfo[Slot(n)]
        BY <1>5, <3>0, <3>1, <4>1
      <4>3. reliableCommandInfo[Slot(n)] = Named(log, n)
        BY <1>7, <2>1, <4>1 DEF Holds
      <4>4. n # 0 => n \in 1..reliableSent
        BY <1>0, <3>0, <3>1
      <4>5. Named(log, n) = Named(entries, n)
        BY <1>6, <4>4 DEF Named
      <4>. QED BY <4>2, <4>3, <4>5
    <3>2. CASE ~ (n <= reliableSent)
      <4> DEFINE j == n - reliableSent
      <4>1. j \in 1..Len(kept) /\ n = reliableSent + j /\ n # 0
        BY <1>0, <1>6, <3>0, <3>2
      <4> HIDE DEF j
      <4>. QED BY <1>5, <1>6, <4>1 DEF Named
    <3>. QED BY <3>1, <3>2
  <2>. QED BY <2>1 DEF Holds
<1>8. Len(entries) \in Nat /\ Len(entries) <= reliableSequence
      /\ reliableSent <= Len(entries)
  <2>1. Len(kept) \in Nat
    BY <1>1
  <2>. QED BY <1>0, <1>1, <1>6, <2>1
<1>9. CASE t = "reliable"
  <2>1. Enqueue(ring, entries, Len(entries), c, t)
    BY <1>3, <1>6, <1>9
  <2>2. /\ reliableSequence' \in {Len(entries), Len(entries) + 1}
        /\ reliableSequence' \in Nat /\ reliableSent <= reliableSequence'
        /\ reliableCommandInfo' \in [Slots -> Entry]
        /\ log' \in Seq(Entry) /\ Len(log') = reliableSequence'
        /\ \A n \in 1..reliableSent : log'[n] = entries[n]
        /\ \A low \in Nat : Holds(ring, entries, low) =>
                              Holds(reliableCommandInfo', log', low)
    BY <1>0, <1>4, <1>6, <1>8, <2>1, EnqueueFacts
  <2>3. reliableSequence' <= reliableSequence + 1
    BY <1>0, <1>8, <2>2
  <2>. QED BY <1>6, <1>7, <2>2, <2>3
<1>10. CASE t # "reliable"
  <2>1. /\ reliableSequence' = Len(entries)
        /\ reliableCommandInfo' = ring
        /\ log' = entries
    BY <1>3, <1>6, <1>10
  <2>. QED BY <1>0, <1>4, <1>6, <1>7, <1>8, <2>1
<1>. QED BY <1>9, <1>10

\* SV_AddServerCommand.
LEMMA AddFacts ==
  ASSUME TypeOK, Len(log) = reliableSequence, reliableSent <= reliableSequence,
         reliableSequence - reliableSent <= WindowSize,
         NEW c \in Texts, NEW t \in Types, Add(c, t)
  PROVE  /\ reliableSequence' \in Nat /\ reliableSequence' <= reliableSequence + 1
         /\ reliableSent <= reliableSequence'
         /\ reliableCommandInfo' \in [Slots -> Entry]
         /\ log' \in Seq(Entry) /\ Len(log') = reliableSequence'
         /\ \A n \in 1..reliableSent : log'[n] = log[n]
         /\ \A low \in Nat :
              reliableSequence - low < WindowSize /\ Holds(reliableCommandInfo, log, low)
                => Holds(reliableCommandInfo', log', low)
<1>1. CASE HasRoom
  <2>1. Enqueue(reliableCommandInfo, log, Len(log), c, t)
    BY <1>1 DEF Add
  <2>2. /\ reliableSent \in Nat /\ reliableSequence \in Nat
        /\ reliableCommandInfo \in [Slots -> Entry] /\ log \in Seq(Entry)
        /\ reliableSent <= Len(log)
    BY DEF TypeOK
  <2>3. /\ reliableSequence' \in {Len(log), Len(log) + 1}
        /\ reliableSequence' \in Nat /\ reliableSent <= reliableSequence'
        /\ reliableCommandInfo' \in [Slots -> Entry]
        /\ log' \in Seq(Entry) /\ Len(log') = reliableSequence'
        /\ \A n \in 1..reliableSent : log'[n] = log[n]
        /\ \A low \in Nat : Holds(reliableCommandInfo, log, low) =>
                              Holds(reliableCommandInfo', log', low)
    BY <2>1, <2>2, EnqueueFacts
  <2>4. reliableSequence' <= reliableSequence + 1
    BY <2>2, <2>3
  <2>. QED BY <2>3, <2>4
<1>2. CASE ~ HasRoom
  <2>1. AddCulling(c, t)
    BY <1>2 DEF Add
  <2>. QED BY <2>1, AddCullingFacts
<1>. QED BY <1>1, <1>2

\* SV_SendMessageToClient: the delayed drop it may carry out.
LEMMA DropFacts ==
  ASSUME TypeOK, Len(log) = reliableSequence, reliableSent <= reliableSequence,
         NEW from \in States, CarryOutDrop(from)
  PROVE  /\ state' \in States /\ dropReason' = FALSE
         /\ state' = from \/ state' = "zombie"
         /\ reliableSequence' \in Nat /\ reliableSequence <= reliableSequence'
         /\ reliableCommandInfo' \in [Slots -> Entry]
         /\ log' \in Seq(Entry) /\ Len(log') = reliableSequence'
         /\ \A n \in 1..reliableSequence : log'[n] = log[n]
         /\ dropReason => state' = "zombie"
         /\ ~ dropReason =>
              /\ state' = from /\ reliableSequence' = reliableSequence
              /\ reliableCommandInfo' = reliableCommandInfo /\ log' = log
<1> DEFINE entry == Command(DropText, "reliable")
<1>0. /\ reliableSequence \in Nat /\ log \in Seq(Entry) /\ "zombie" \in States
      /\ reliableCommandInfo \in [Slots -> Entry] /\ entry \in Entry
      /\ Slot(reliableSequence + 1) \in Slots
  <2>1. "reliable" \in Types /\ DropText \in Texts
    BY DEF Types, Texts
  <2>2. entry \in Entry
    BY <2>1, EntryFacts
  <2>3. reliableSequence \in Nat /\ reliableSequence + 1 \in Int
    BY DEF TypeOK
  <2>. QED BY <2>2, <2>3, SlotFacts DEF TypeOK, States
<1>1. state' = (IF dropReason THEN "zombie" ELSE from) /\ dropReason' = FALSE
  BY DEF CarryOutDrop
<1>2. CASE dropReason /\ from = "active"
  <2>1. /\ reliableSequence' = reliableSequence + 1
        /\ reliableCommandInfo' =
             [reliableCommandInfo EXCEPT ![Slot(reliableSequence + 1)] = entry]
        /\ log' = Append(log, entry)
    BY <1>2 DEF CarryOutDrop
  <2> HIDE DEF entry
  <2>2. /\ log' \in Seq(Entry) /\ Len(log') = Len(log) + 1
        /\ \A i \in 1..Len(log) : log'[i] = log[i]
    BY <1>0, <2>1, AppendProperties
  <2>3. reliableCommandInfo' \in [Slots -> Entry]
    BY <1>0, <2>1
  <2>. QED BY <1>0, <1>1, <1>2, <2>1, <2>2, <2>3
<1>3. CASE ~ (dropReason /\ from = "active")
  <2>1. /\ reliableSequence' = reliableSequence
        /\ reliableCommandInfo' = reliableCommandInfo /\ log' = log
    BY <1>3 DEF CarryOutDrop
  <2>. QED BY <1>0, <1>1, <1>3, <2>1
<1>. QED BY <1>2, <1>3

-----------------------------------------------------------------------------
(* What is under way, when it is sent, taken and lost.                       *)

\* The messages under way are messages.
MessagesTyped ==
  /\ toClient \in Seq(Range(toClient))
  /\ \A i \in 1..Len(toClient) : IsMessage(toClient[i])

LEMMA RangeFacts ==
  ASSUME NEW S, NEW s \in Seq(S)
  PROVE  s \in Seq(Range(s))
<1>1. Len(s) \in Nat /\ s \in [1..Len(s) -> Range(s)]
  BY DEF Range
<1>. QED BY <1>1

LEMMA SeqGrows ==
  ASSUME NEW S, NEW T, S \subseteq T, NEW s \in Seq(S)
  PROVE  s \in Seq(T)
<1>1. Len(s) \in Nat /\ s \in [1..Len(s) -> T]
  OBVIOUS
<1>. QED BY <1>1

LEMMA TailIsRest ==
  ASSUME NEW S, NEW s \in Seq(S), s # << >>
  PROVE  /\ 1 \in 1..Len(s) /\ Tail(s) \in Seq(S) /\ Len(Tail(s)) = Len(s) - 1
         /\ \A i \in 1..Len(s) - 1 : Tail(s)[i] = s[i + 1]
<1>1. Len(s) \in Nat /\ Len(s) # 0
  BY EmptySeq
<1>2. /\ Tail(s) \in Seq(S) /\ Len(Tail(s)) = Len(s) - 1
      /\ \A i \in 1..Len(Tail(s)) : Tail(s)[i] = s[i + 1]
  BY HeadTailProperties
<1>. QED BY <1>1, <1>2

\* The numbers commands were sent under only grow, and so do the maps.
SentGrows ==
  /\ reliableSent \in Nat /\ reliableSent' \in Nat /\ reliableSent <= reliableSent'
  /\ sv_serverId_value \in Nat /\ sv_serverId_value' \in Nat
  /\ sv_serverId_value <= sv_serverId_value'

LEMMA MessageGrows ==
  ASSUME SentGrows, NEW m, IsMessage(m)
  PROVE  IsMessage(m)'
<1>1. 1..reliableSent \subseteq 1..reliableSent'
      /\ 0..reliableSent \subseteq 0..reliableSent'
      /\ 1..sv_serverId_value \subseteq 1..sv_serverId_value'
  BY DEF SentGrows
<1>2. [serverId : 1..sv_serverId_value, sequence : 0..reliableSent]
        \subseteq [serverId : 1..sv_serverId_value', sequence : 0..reliableSent']
  BY <1>1
<1>. QED BY <1>1, <1>2 DEF IsMessage

\* What one message may carry.
LEMMA MessageFacts ==
  ASSUME reliableSent \in Nat, NEW m, IsMessage(m)
  PROVE  /\ \A n \in DOMAIN m.commands : n \in Nat /\ n >= 1 /\ n <= reliableSent
         /\ \A n \in DOMAIN m.commands : m.commands[n] \in Texts
         /\ \A g \in m.gameState :
              /\ g.sequence \in Nat /\ g.sequence <= reliableSent
              /\ g.serverId \in 1..sv_serverId_value
<1>1. \A n \in DOMAIN m.commands : n \in 1..reliableSent
  BY DEF IsMessage
<1>2. \A g \in m.gameState : g.sequence \in 0..reliableSent
                             /\ g.serverId \in 1..sv_serverId_value
  BY DEF IsMessage
<1>. QED BY <1>1, <1>2 DEF IsMessage

\* The oldest d messages left.
LEMMA MessagesKept ==
  ASSUME MessagesTyped, SentGrows, NEW S, toClient' \in Seq(S),
         NEW d \in Nat, Len(toClient') = Len(toClient) - d,
         \A i \in 1..Len(toClient') : toClient'[i] = toClient[i + d]
  PROVE  /\ MessagesTyped'
         /\ MessagesOrdered /\ serverCommandSequence' = serverCommandSequence
              => MessagesOrdered'
<1>0. Len(toClient) \in Nat /\ Len(toClient') \in Nat
  BY DEF MessagesTyped
<1>1. ASSUME NEW i \in 1..Len(toClient') PROVE i + d \in 1..Len(toClient)
  BY <1>0
<1>2. MessagesTyped'
  <2>1. ASSUME NEW i \in 1..Len(toClient') PROVE IsMessage(toClient[i])'
    <3>1. PICK m : m = toClient[i + d]
      OBVIOUS
    <3>2. IsMessage(m)
      BY <1>1, <3>1 DEF MessagesTyped
    <3>3. IsMessage(m)'
      BY <3>2, MessageGrows
    <3>4. toClient'[i] = m
      BY <3>1
    <3>. QED BY <3>3, <3>4
  <2>2. toClient' \in Seq(Range(toClient'))
    BY RangeFacts
  <2>. QED BY <2>1, <2>2 DEF MessagesTyped
<1>3. ASSUME MessagesOrdered, serverCommandSequence' = serverCommandSequence
      PROVE  MessagesOrdered'
  <2>1. ASSUME NEW i \in 1..Len(toClient'), NEW g \in toClient'[i].gameState
        PROVE  /\ serverCommandSequence' <= g.sequence
               /\ \A j \in 1..i :
                    /\ \A n \in DOMAIN toClient'[j].commands : n <= g.sequence
                    /\ \A h \in toClient'[j].gameState : h.sequence <= g.sequence
    <3>1. i + d \in 1..Len(toClient) /\ g \in toClient[i + d].gameState
      BY <1>1
    <3>2. /\ serverCommandSequence <= g.sequence
          /\ \A j \in 1..i + d :
               /\ \A n \in DOMAIN toClient[j].commands : n <= g.sequence
               /\ \A h \in toClient[j].gameState : h.sequence <= g.sequence
      BY <1>3, <3>1 DEF MessagesOrdered
    <3>3. ASSUME NEW j \in 1..i
          PROVE  j + d \in 1..i + d /\ toClient'[j] = toClient[j + d]
      BY <1>0
    <3>. QED BY <1>3, <3>2, <3>3
  <2>. QED BY <2>1 DEF MessagesOrdered
<1>. QED BY <1>2, <1>3

\* A message is sent, whose gamestate goes on from the last command sent.
LEMMA MessageSent ==
  ASSUME MessagesTyped, SentGrows, MessagesOrdered,
         serverCommandSequence' = serverCommandSequence,
         serverCommandSequence \in Nat, serverCommandSequence <= reliableSent,
         NEW m, IsMessage(m)', \A g \in m.gameState : g.sequence = reliableSent',
         toClient' = Send(toClient, m)
  PROVE  MessagesTyped' /\ MessagesOrdered'
<1> DEFINE S == Range(toClient) \cup {m}
<1>0. reliableSent \in Nat /\ reliableSent' \in Nat /\ reliableSent <= reliableSent'
  BY DEF SentGrows
<1>1. toClient \in Seq(S) /\ m \in S
  <2>1. Range(toClient) \subseteq S /\ toClient \in Seq(Range(toClient))
    BY DEF MessagesTyped
  <2>. QED BY <2>1, SeqGrows
<1> HIDE DEF S
<1>2. PICK d \in {0, 1} :
        \A i \in 1..Len(toClient') :
          \/ /\ i + d \in 1..Len(toClient) /\ toClient'[i] = toClient[i + d]
             /\ i < Len(toClient')
          \/ i = Len(toClient') /\ toClient'[i] = m
  BY <1>1, SendFacts
<1>3. toClient' \in Seq(S)
  BY <1>1, SendFacts
<1>4. Len(toClient') \in Nat /\ Len(toClient) \in Nat /\ d \in Nat
  BY <1>1, <1>3
<1>5. ASSUME NEW i \in 1..Len(toClient') PROVE IsMessage(toClient[i])'
  <2>1. CASE toClient'[i] = m
    BY <2>1
  <2>2. CASE i + d \in 1..Len(toClient) /\ toClient'[i] = toClient[i + d]
    <3>1. PICK k : k = toClient[i + d]
      OBVIOUS
    <3>2. IsMessage(k)
      BY <2>2, <3>1 DEF MessagesTyped
    <3>3. IsMessage(k)'
      BY <3>2, MessageGrows
    <3>4. toClient'[i] = k
      BY <2>2, <3>1
    <3>. QED BY <3>3, <3>4
  <2>. QED BY <1>2, <2>1, <2>2
<1>6. MessagesTyped'
  <2>1. toClient' \in Seq(Range(toClient'))
    BY <1>3, RangeFacts
  <2>. QED BY <1>5, <2>1 DEF MessagesTyped
<1>7. ASSUME NEW i \in 1..Len(toClient'), NEW g \in toClient'[i].gameState
      PROVE  /\ serverCommandSequence' <= g.sequence
             /\ \A j \in 1..i :
                  /\ \A n \in DOMAIN toClient'[j].commands : n <= g.sequence
                  /\ \A h \in toClient'[j].gameState : h.sequence <= g.sequence
  <2>1. CASE toClient'[i] = m
    <3>1. g.sequence = reliableSent'
      BY <2>1
    <3>2. ASSUME NEW j \in 1..i
          PROVE  /\ \A n \in DOMAIN toClient'[j].commands : n <= g.sequence
                 /\ \A h \in toClient'[j].gameState : h.sequence <= g.sequence
      <4>1. PICK k : k = toClient'[j]
        OBVIOUS
      <4>2. j \in 1..Len(toClient')
        BY <1>4
      <4>3. IsMessage(k)'
        BY <1>5, <4>1, <4>2
      <4>4. DOMAIN k.commands \subseteq 1..reliableSent'
            /\ \A h \in k.gameState : h.sequence \in 0..reliableSent'
        BY <4>3 DEF IsMessage
      <4>. QED BY <1>0, <3>1, <4>1, <4>4
    <3>. QED BY <1>0, <3>1, <3>2
  <2>2. CASE i + d \in 1..Len(toClient) /\ toClient'[i] = toClient[i + d]
             /\ i < Len(toClient')
    <3>1. g \in toClient[i + d].gameState
      BY <2>2
    <3>2. /\ serverCommandSequence <= g.sequence
          /\ \A j \in 1..i + d :
               /\ \A n \in DOMAIN toClient[j].commands : n <= g.sequence
               /\ \A h \in toClient[j].gameState : h.sequence <= g.sequence
      BY <2>2, <3>1 DEF MessagesOrdered
    <3>3. ASSUME NEW j \in 1..i
          PROVE  j + d \in 1..i + d /\ toClient'[j] = toClient[j + d]
      <4>1. j \in 1..Len(toClient') /\ j # Len(toClient') /\ j + d \in 1..i + d
        BY <1>4, <2>2
      <4>. QED BY <1>2, <4>1
    <3>. QED BY <3>2, <3>3
  <2>. QED BY <1>2, <2>1, <2>2
<1>8. MessagesOrdered'
  BY <1>7 DEF MessagesOrdered
<1>. QED BY <1>6, <1>8

LEMMA PacketGrows ==
  ASSUME SentGrows, toServer \in Seq(Packet)
  PROVE  toServer \in Seq(Packet')
<1>1. 0..sv_serverId_value \subseteq 0..sv_serverId_value'
  BY DEF SentGrows
<1>2. Packet \subseteq Packet'
  BY <1>1 DEF Packet
<1>. QED BY <1>2, SeqGrows

\* The oldest d packets left.
LEMMA PacketsKept ==
  ASSUME toServer \in Seq(Packet), PacketsOrdered, NEW S, toServer' \in Seq(S),
         NEW d \in Nat, Len(toServer') = Len(toServer) - d,
         \A i \in 1..Len(toServer') : toServer'[i] = toServer[i + d],
         serverCommandSequence \in Nat, serverCommandSequence' \in Nat,
         serverCommandSequence <= serverCommandSequence'
  PROVE  PacketsOrdered'
<1>0. /\ Len(toServer) \in Nat /\ Len(toServer') \in Nat
      /\ \A i \in 1..Len(toServer) : toServer[i].acknowledge \in Nat
  <2>1. \A p \in Packet : p.acknowledge \in Nat
    BY DEF Packet
  <2>. QED BY <2>1
<1>1. ASSUME NEW i \in 1..Len(toServer')
      PROVE  /\ toServer'[i].acknowledge <= serverCommandSequence'
             /\ \A j \in 1..i : toServer'[j].acknowledge <= toServer'[i].acknowledge
  <2>1. i + d \in 1..Len(toServer)
    BY <1>0
  <2>2. /\ toServer[i + d].acknowledge <= serverCommandSequence
        /\ \A j \in 1..i + d : toServer[j].acknowledge <= toServer[i + d].acknowledge
    BY <2>1 DEF PacketsOrdered
  <2>3. ASSUME NEW j \in 1..i
        PROVE  j + d \in 1..i + d /\ toServer'[j] = toServer[j + d]
    BY <1>0
  <2>4. toServer'[i] = toServer[i + d] /\ toServer[i + d].acknowledge \in Nat
    BY <1>0, <2>1
  <2>5. toServer'[i].acknowledge <= serverCommandSequence'
    <3> DEFINE a == toServer[i + d].acknowledge
    <3>1. a \in Nat /\ a <= serverCommandSequence
      BY <2>2, <2>4
    <3> HIDE DEF a
    <3>2. a <= serverCommandSequence'
      BY <3>1
    <3>. QED BY <2>4, <3>2 DEF a
  <2>. QED BY <2>2, <2>3, <2>4, <2>5
<1>. QED BY <1>1 DEF PacketsOrdered

-----------------------------------------------------------------------------
(* The types and the order of the numbers, whatever the backlog.             *)

\* The part of the invariant that needs no room in the window.
Base == TypeOK /\ NumbersInv

LEMMA BaseFacts ==
  ASSUME Base
  PROVE  /\ sv_serverId_value \in 1..MaxLevels \cup {1} /\ sv_serverId_value \in Nat
         /\ reliableSequence \in Nat /\ reliableAcknowledge \in Nat
         /\ reliableSent \in Nat /\ serverCommandSequence \in Nat
         /\ executedSequence \in Nat
         /\ Len(log) = reliableSequence /\ reliableSent <= reliableSequence
         /\ serverCommandSequence <= reliableSent
         /\ executedSequence <= serverCommandSequence
         /\ reliableCommandInfo \in [Slots -> Entry]
         /\ serverCommands \in [Slots -> Texts]
         /\ state \in States /\ dropReason \in BOOLEAN
         /\ MessagesTyped /\ MessagesOrdered
         /\ toServer \in Seq(Packet) /\ PacketsOrdered
<1>1. sv_serverId_value \in Nat
  BY Sizes DEF Base, TypeOK
<1>. QED BY <1>1 DEF Base, TypeOK, NumbersInv, MessagesTyped

LEMMA InitBase == Init => Base
<1>1. SUFFICES ASSUME Init PROVE Base
  OBVIOUS
<1>2. NoCommand \in Texts /\ "ignorable" \in Types
  BY DEF Texts, Types
<1>3. Command(NoCommand, "ignorable") \in Entry
  BY <1>2, EntryFacts
<1>4. toClient \in Seq(Range(toClient)) /\ toServer \in Seq(Packet) /\ log \in Seq(Entry)
  <2>1. << >> \in Seq(Range(toClient)) /\ << >> \in Seq(Packet) /\ << >> \in Seq(Entry)
    OBVIOUS
  <2>. QED BY <1>1, <2>1 DEF Init
<1>5. /\ reliableCommandInfo \in [Slots -> Entry] /\ serverCommands \in [Slots -> Texts]
      /\ state \in States /\ Len(toClient) = 0 /\ Len(toServer) = 0 /\ Len(log) = 0
  BY <1>1, <1>2, <1>3 DEF Init, States
<1>6. TypeOK
  <2>1. /\ sv_serverId_value \in 1..MaxLevels \cup {1} /\ serverId \in 0..sv_serverId_value
        /\ reliableSequence \in Nat /\ reliableAcknowledge \in Nat /\ reliableSent \in Nat
        /\ serverCommandSequence \in Nat /\ executedSequence \in Nat
    BY <1>1, Sizes DEF Init
  <2>3. dropReason \in BOOLEAN /\ cycledOut \in BOOLEAN
    <3>1. FALSE \in BOOLEAN
      OBVIOUS
    <3>. QED BY <1>1, <3>1 DEF Init
  <2>2. \A i \in 1..Len(toClient) : IsMessage(toClient[i])
    BY <1>5
  <2>. QED BY <1>4, <1>5, <2>1, <2>2, <2>3 DEF TypeOK
<1>7. NumbersInv
  BY <1>1, <1>5 DEF Init, NumbersInv, MessagesOrdered, PacketsOrdered
<1>. QED BY <1>6, <1>7 DEF Base

LEMMA MessagesSame ==
  ASSUME Base, SentGrows, toClient' = toClient,
         serverCommandSequence' = serverCommandSequence
  PROVE  MessagesTyped' /\ MessagesOrdered'
<1>1. MessagesTyped /\ MessagesOrdered /\ toClient' \in Seq(Range(toClient))
  BY BaseFacts DEF MessagesTyped
<1>2. /\ Len(toClient) \in Nat /\ Len(toClient') = Len(toClient) - 0
      /\ \A i \in 1..Len(toClient') : toClient'[i] = toClient[i + 0]
  BY <1>1
<1>3. 0 \in Nat
  OBVIOUS
<1>. QED BY <1>1, <1>2, <1>3, MessagesKept

LEMMA PacketsSame ==
  ASSUME Base, SentGrows, toServer' = toServer,
         serverCommandSequence' \in Nat,
         serverCommandSequence <= serverCommandSequence'
  PROVE  toServer' \in Seq(Packet') /\ PacketsOrdered'
<1>1. toServer \in Seq(Packet) /\ PacketsOrdered /\ serverCommandSequence \in Nat
  BY BaseFacts
<1>2. toServer' \in Seq(Packet')
  BY <1>1, PacketGrows
<1>3. /\ Len(toServer) \in Nat /\ Len(toServer') = Len(toServer) - 0
      /\ \A i \in 1..Len(toServer') : toServer'[i] = toServer[i + 0]
  BY <1>1
<1>4. 0 \in Nat
  OBVIOUS
<1>. QED BY <1>1, <1>2, <1>3, <1>4, PacketsKept

\* What was sent stays what it is.
SentStays ==
  /\ reliableSent' >= reliableSent
  /\ \A n \in 1..reliableSent : log'[n] = log[n]

\* A step of the server.
LEMMA ServerStep ==
  ASSUME Base, SentGrows, sv_serverId_value' \in 1..MaxLevels \cup {1},
         state' \in States, dropReason' \in BOOLEAN,
         reliableSequence' \in Nat, reliableAcknowledge' \in Nat,
         reliableCommandInfo' \in [Slots -> Entry],
         log' \in Seq(Entry), Len(log') = reliableSequence',
         reliableSent' <= reliableSequence',
         UNCHANGED <<clientVars, cgameVars>>,
         MessagesTyped', MessagesOrdered',
         toServer' \in Seq(Packet'), PacketsOrdered'
  PROVE  Base'
<1>0. /\ serverCommandSequence' = serverCommandSequence
      /\ serverCommands' = serverCommands /\ serverId' = serverId
      /\ executedSequence' = executedSequence /\ cycledOut' = cycledOut
  BY DEF clientVars, cgameVars
<1>1. serverId' \in 0..sv_serverId_value'
  BY <1>0 DEF Base, TypeOK, SentGrows
<1>2. serverCommandSequence' <= reliableSent'
  BY <1>0 DEF Base, TypeOK, NumbersInv, SentGrows
<1>3. TypeOK'
  BY <1>0, <1>1 DEF Base, TypeOK, MessagesTyped, SentGrows
<1>4. NumbersInv'
  BY <1>0, <1>2 DEF Base, NumbersInv
<1>. QED BY <1>3, <1>4 DEF Base

LEMMA AddBase ==
  ASSUME Base, NEW c \in Texts, NEW t \in Types, AddServerCommand(c, t)
  PROVE  Base' /\ SentStays
<1>1. /\ Add(c, t) /\ reliableSequence - reliableSent <= WindowSize
      /\ UNCHANGED <<sv_serverId_value, state, reliableAcknowledge, reliableSent,
                     clientVars, cgameVars, toClient, toServer>>
  BY DEF AddServerCommand
<1>2. /\ reliableSequence' \in Nat /\ reliableSent <= reliableSequence'
      /\ reliableCommandInfo' \in [Slots -> Entry]
      /\ log' \in Seq(Entry) /\ Len(log') = reliableSequence'
  BY <1>1, BaseFacts, AddFacts DEF Base
<1>3. dropReason' \in BOOLEAN
  <2>1. dropReason' = (dropReason \/ Overflows(reliableSequence'))
    BY <1>1 DEF Add
  <2>2. Overflows(reliableSequence') \in BOOLEAN /\ dropReason \in BOOLEAN
    BY BaseFacts DEF Overflows
  <2>. QED BY <2>1, <2>2
<1>4. SentGrows
  BY <1>1, BaseFacts DEF SentGrows
<1>5. toClient' = toClient /\ toServer' = toServer
      /\ serverCommandSequence' = serverCommandSequence
  BY <1>1 DEF clientVars
<1>6. MessagesTyped' /\ MessagesOrdered'
  BY <1>4, <1>5, MessagesSame
<1>7. toServer' \in Seq(Packet') /\ PacketsOrdered'
  <2>1. /\ serverCommandSequence' \in Nat
        /\ serverCommandSequence <= serverCommandSequence'
    BY <1>5, BaseFacts
  <2>. QED BY <1>4, <1>5, <2>1, PacketsSame
<1>8. /\ sv_serverId_value' \in 1..MaxLevels \cup {1} /\ state' \in States
      /\ reliableAcknowledge' \in Nat /\ reliableSent' <= reliableSequence'
      /\ UNCHANGED <<clientVars, cgameVars>>
  BY <1>1, <1>2, BaseFacts
<1>9. SentStays
  <2>1. reliableSent' >= reliableSent
    BY <1>1, BaseFacts
  <2>2. \A n \in 1..reliableSent : log'[n] = log[n]
    BY <1>1, BaseFacts, AddFacts DEF Base
  <2>. QED BY <2>1, <2>2 DEF SentStays
<1>. QED BY <1>2, <1>3, <1>4, <1>6, <1>7, <1>8, <1>9, ServerStep

\* What SV_DropClient does to the ring.
LEMMA DropClientFacts ==
  ASSUME Base, DropClient
  PROVE  /\ reliableSequence' \in Nat /\ reliableSent <= reliableSequence'
         /\ reliableSequence' <= reliableSequence + 1
         /\ reliableCommandInfo' \in [Slots -> Entry]
         /\ log' \in Seq(Entry) /\ Len(log') = reliableSequence'
         /\ \A n \in 1..reliableSent : log'[n] = log[n]
         /\ \A low \in Nat :
              reliableSequence - low < WindowSize /\ Holds(reliableCommandInfo, log, low)
                => Holds(reliableCommandInfo', log', low)
<1>1. CASE AddCulling(DropText, "reliable")
  <2>1. DropText \in Texts /\ "reliable" \in Types
    BY DEF Texts, Types
  <2>2. reliableSequence - reliableSent <= WindowSize
    BY DEF DropClient
  <2>. QED BY <1>1, <2>1, <2>2, BaseFacts, AddCullingFacts DEF Base
<1>2. CASE UNCHANGED <<reliableSequence, reliableCommandInfo, log>>
  <2>1. reliableSequence \in Nat /\ log \in Seq(Entry)
    BY DEF Base, TypeOK
  <2>. QED BY <1>2, <2>1, BaseFacts
<1>. QED BY <1>1, <1>2 DEF DropClient

LEMMA DropClientBase ==
  ASSUME Base, DropClient
  PROVE  Base' /\ SentStays
<1>1. /\ state' = "zombie" /\ dropReason' = FALSE
      /\ UNCHANGED <<sv_serverId_value, reliableAcknowledge, reliableSent,
                     clientVars, cgameVars, toClient, toServer>>
  BY DEF DropClient
<1>2. SentGrows
  BY <1>1, BaseFacts DEF SentGrows
<1>3. toClient' = toClient /\ toServer' = toServer
      /\ serverCommandSequence' = serverCommandSequence
  BY <1>1 DEF clientVars
<1>4. MessagesTyped' /\ MessagesOrdered'
  BY <1>2, <1>3, MessagesSame
<1>5. toServer' \in Seq(Packet') /\ PacketsOrdered'
  <2>1. /\ serverCommandSequence' \in Nat
        /\ serverCommandSequence <= serverCommandSequence'
    BY <1>3, BaseFacts
  <2>. QED BY <1>2, <1>3, <2>1, PacketsSame
<1>6. /\ sv_serverId_value' \in 1..MaxLevels \cup {1} /\ state' \in States
      /\ reliableAcknowledge' \in Nat /\ reliableSent' <= reliableSequence'
      /\ UNCHANGED <<clientVars, cgameVars>> /\ dropReason' \in BOOLEAN
  BY <1>1, BaseFacts, DropClientFacts DEF States
<1>7. SentStays
  <2>1. reliableSent' >= reliableSent
    BY <1>1, BaseFacts
  <2>. QED BY <2>1, DropClientFacts DEF SentStays
<1>. QED BY <1>2, <1>4, <1>5, <1>6, <1>7, DropClientFacts, ServerStep

LEMMA SpawnServerBase ==
  ASSUME Base, SpawnServer
  PROVE  Base' /\ SentStays
<1>1. /\ state' = "connected" /\ sv_serverId_value' = sv_serverId_value + 1
      /\ sv_serverId_value < MaxLevels
      /\ UNCHANGED <<reliableSequence, reliableAcknowledge, reliableSent,
                     reliableCommandInfo, dropReason, log, clientVars, cgameVars,
                     toClient, toServer>>
  BY DEF SpawnServer
<1>2. SentGrows /\ sv_serverId_value' \in 1..MaxLevels \cup {1}
  BY <1>1, BaseFacts, Sizes DEF SentGrows
<1>3. toClient' = toClient /\ toServer' = toServer
      /\ serverCommandSequence' = serverCommandSequence
  BY <1>1 DEF clientVars
<1>4. MessagesTyped' /\ MessagesOrdered'
  BY <1>2, <1>3, MessagesSame
<1>5. toServer' \in Seq(Packet') /\ PacketsOrdered'
  <2>1. /\ serverCommandSequence' \in Nat
        /\ serverCommandSequence <= serverCommandSequence'
    BY <1>3, BaseFacts
  <2>. QED BY <1>2, <1>3, <2>1, PacketsSame
<1>6. /\ state' \in States /\ reliableAcknowledge' \in Nat
      /\ reliableSent' <= reliableSequence' /\ reliableSequence' \in Nat
      /\ reliableCommandInfo' \in [Slots -> Entry] /\ log' \in Seq(Entry)
      /\ Len(log') = reliableSequence'
      /\ UNCHANGED <<clientVars, cgameVars>> /\ dropReason' \in BOOLEAN
  <2>1. log \in Seq(Entry)
    BY DEF Base, TypeOK
  <2>. QED BY <1>1, <2>1, BaseFacts DEF States
<1>7. SentStays
  <2>1. reliableSent' >= reliableSent /\ log' = log
    BY <1>1, BaseFacts
  <2>. QED BY <2>1 DEF SentStays
<1>. QED BY <1>2, <1>4, <1>5, <1>6, <1>7, ServerStep

\* The commands of a message.
LEMMA UnacknowledgedFacts ==
  ASSUME reliableCommandInfo \in [Slots -> Entry], NEW a \in Nat, NEW last \in Nat
  PROVE  /\ DOMAIN Unacknowledged(a, last) = a + 1..last
         /\ \A n \in a + 1..last :
              /\ Unacknowledged(a, last)[n] = reliableCommandInfo[Slot(n)].cmd
              /\ Unacknowledged(a, last)[n] \in Texts
<1>1. \A n \in a + 1..last : reliableCommandInfo[Slot(n)].cmd \in Texts
  <2>1. \A n \in a + 1..last : reliableCommandInfo[Slot(n)] \in Entry
    BY SlotFacts
  <2>. QED BY <2>1 DEF Entry
<1>. QED BY <1>1 DEF Unacknowledged

\* A message of the server.
LEMMA SendFactsBase ==
  ASSUME Base, SentGrows, NEW commands, NEW gameState, NEW from,
         SendMessage(commands, gameState, from),
         serverCommandSequence' = serverCommandSequence,
         DOMAIN commands \subseteq 1..reliableSent',
         \A n \in DOMAIN commands : commands[n] \in Texts,
         gameState \subseteq [serverId : 1..sv_serverId_value', sequence : {reliableSent'}]
  PROVE  MessagesTyped' /\ MessagesOrdered'
<1>1. PICK m : m = [commands |-> commands, gameState |-> gameState]
  OBVIOUS
<1>2. m.commands = commands /\ m.gameState = gameState
  BY <1>1
<1>3. toClient' = Send(toClient, m)
  BY <1>1 DEF SendMessage
<1>4. reliableSent' \in 0..reliableSent'
  BY DEF SentGrows
<1>5. IsMessage(m)'
  <2>1. gameState \subseteq [serverId : 1..sv_serverId_value', sequence : 0..reliableSent']
    BY <1>4
  <2>. QED BY <1>2, <2>1 DEF IsMessage
<1>6. \A g \in m.gameState : g.sequence = reliableSent'
  BY <1>2
<1>. QED BY <1>3, <1>5, <1>6, BaseFacts, MessageSent

LEMMA KeepAliveBase ==
  ASSUME Base, SendKeepAlive
  PROVE  Base' /\ SentStays
<1>1. /\ SendMessage(<< >>, {}, state) /\ CarryOutDrop(state)
      /\ UNCHANGED <<sv_serverId_value, reliableAcknowledge, reliableSent,
                     clientVars, cgameVars, toServer>>
      /\ serverCommandSequence' = serverCommandSequence
  BY DEF SendKeepAlive, SendMessage, clientVars
<1>2. SentGrows
  BY <1>1, BaseFacts DEF SentGrows
<1>3. MessagesTyped' /\ MessagesOrdered'
  <2>1. DOMAIN << >> \subseteq 1..reliableSent'
        /\ \A n \in DOMAIN << >> : << >>[n] \in Texts
    OBVIOUS
  <2>2. {} \subseteq [serverId : 1..sv_serverId_value', sequence : {reliableSent'}]
    OBVIOUS
  <2>3. PICK c : c = << >>
    OBVIOUS
  <2>4. SendMessage(c, {}, state)
    BY <1>1, <2>3
  <2>. QED BY <1>1, <1>2, <2>1, <2>2, <2>3, <2>4, SendFactsBase
<1>4. toServer' \in Seq(Packet') /\ PacketsOrdered'
  <2>1. /\ serverCommandSequence' \in Nat
        /\ serverCommandSequence <= serverCommandSequence'
    BY <1>1, BaseFacts
  <2>. QED BY <1>1, <1>2, <2>1, PacketsSame
<1>5. /\ state' \in States /\ dropReason' = FALSE
      /\ reliableSequence' \in Nat /\ reliableSequence <= reliableSequence'
      /\ reliableCommandInfo' \in [Slots -> Entry]
      /\ log' \in Seq(Entry) /\ Len(log') = reliableSequence'
      /\ \A n \in 1..reliableSequence : log'[n] = log[n]
  BY <1>1, BaseFacts, DropFacts DEF Base
<1>6. /\ sv_serverId_value' \in 1..MaxLevels \cup {1}
      /\ reliableAcknowledge' \in Nat /\ reliableSent' <= reliableSequence'
      /\ dropReason' \in BOOLEAN /\ UNCHANGED <<clientVars, cgameVars>>
  <2>1. reliableSent' <= reliableSequence' /\ reliableAcknowledge' \in Nat
    BY <1>1, <1>5, BaseFacts
  <2>2. sv_serverId_value' \in 1..MaxLevels \cup {1}
    BY <1>1, BaseFacts
  <2>3. dropReason' \in BOOLEAN
    BY <1>5
  <2>. QED BY <1>1, <2>1, <2>2, <2>3
<1>7. SentStays
  BY <1>1, <1>5, BaseFacts DEF SentStays
<1>. QED BY <1>2, <1>3, <1>4, <1>5, <1>6, <1>7, ServerStep

LEMMA SnapshotBase ==
  ASSUME Base, NEW last \in Nat, last <= reliableSequence, SendSnapshotUpTo(last)
  PROVE  Base' /\ SentStays
<1> DEFINE commands == Unacknowledged(reliableAcknowledge, last)
<1>1. /\ SendMessage(commands, {}, state) /\ CarryOutDrop(state)
      /\ reliableSent' = reliableSequence
      /\ UNCHANGED <<sv_serverId_value, reliableAcknowledge,
                     clientVars, cgameVars, toServer>>
      /\ serverCommandSequence' = serverCommandSequence
  BY DEF SendSnapshotUpTo, SendMessage, clientVars
<1>2. SentGrows
  BY <1>1, BaseFacts DEF SentGrows
<1>3. MessagesTyped' /\ MessagesOrdered'
  <2>1. /\ DOMAIN commands \subseteq 1..reliableSent'
        /\ \A n \in DOMAIN commands : commands[n] \in Texts
    <3>1. /\ DOMAIN commands = reliableAcknowledge + 1..last
          /\ \A n \in reliableAcknowledge + 1..last : commands[n] \in Texts
      BY BaseFacts, UnacknowledgedFacts
    <3>2. reliableAcknowledge + 1..last \subseteq 1..reliableSent'
      BY <1>1, BaseFacts
    <3>. QED BY <3>1, <3>2
  <2>2. {} \subseteq [serverId : 1..sv_serverId_value', sequence : {reliableSent'}]
    OBVIOUS
  <2>3. PICK c : c = commands
    OBVIOUS
  <2> HIDE DEF commands
  <2>4. SendMessage(c, {}, state)
    BY <1>1, <2>3
  <2>. QED BY <1>1, <1>2, <2>1, <2>2, <2>3, <2>4, SendFactsBase
<1>4. toServer' \in Seq(Packet') /\ PacketsOrdered'
  <2>1. /\ serverCommandSequence' \in Nat
        /\ serverCommandSequence <= serverCommandSequence'
    BY <1>1, BaseFacts
  <2>. QED BY <1>1, <1>2, <2>1, PacketsSame
<1>5. /\ state' \in States /\ dropReason' = FALSE
      /\ reliableSequence' \in Nat /\ reliableSequence <= reliableSequence'
      /\ reliableCommandInfo' \in [Slots -> Entry]
      /\ log' \in Seq(Entry) /\ Len(log') = reliableSequence'
      /\ \A n \in 1..reliableSequence : log'[n] = log[n]
  BY <1>1, BaseFacts, DropFacts DEF Base
<1>6. /\ sv_serverId_value' \in 1..MaxLevels \cup {1}
      /\ reliableAcknowledge' \in Nat /\ reliableSent' <= reliableSequence'
      /\ dropReason' \in BOOLEAN /\ UNCHANGED <<clientVars, cgameVars>>
  BY <1>1, <1>5, BaseFacts
<1>7. SentStays
  BY <1>1, <1>5, BaseFacts DEF SentStays
<1>. QED BY <1>2, <1>3, <1>4, <1>5, <1>6, <1>7, ServerStep

\* What SV_ExecuteClientMessage makes of a packet the window check let through.
LEMMA ExecuteFacts ==
  ASSUME Base, NEW p, p.acknowledge \in Nat, p.acknowledge <= reliableSequence,
         ExecuteClientMessage(p), sv_serverId_value' = sv_serverId_value,
         UNCHANGED <<clientVars, cgameVars>>
  PROVE  /\ SentGrows /\ SentStays /\ MessagesTyped' /\ MessagesOrdered'
         /\ state' \in States /\ dropReason' \in BOOLEAN
         /\ reliableSequence' \in Nat /\ reliableSent' <= reliableSequence'
         /\ reliableCommandInfo' \in [Slots -> Entry]
         /\ log' \in Seq(Entry) /\ Len(log') = reliableSequence'
<1>0. serverCommandSequence' = serverCommandSequence
  BY DEF clientVars
<1>1. CASE /\ state' = IF state = "loading" THEN "active" ELSE state
           /\ UNCHANGED <<reliableSequence, reliableSent, reliableCommandInfo,
                          dropReason, log, toClient>>
  <2>1. SentGrows
    BY <1>1, BaseFacts DEF SentGrows
  <2>2. MessagesTyped' /\ MessagesOrdered'
    BY <1>0, <1>1, <2>1, MessagesSame
  <2>3. state' \in States /\ log \in Seq(Entry)
    BY <1>1 DEF Base, TypeOK, States
  <2>4. SentStays
    BY <1>1, BaseFacts DEF SentStays
  <2>5. reliableSent' <= reliableSequence' /\ reliableSequence' \in Nat
        /\ dropReason' \in BOOLEAN /\ reliableCommandInfo' \in [Slots -> Entry]
    BY <1>1, BaseFacts
  <2>. QED BY <1>1, <2>1, <2>2, <2>3, <2>4, <2>5, BaseFacts
<1>2. CASE SendGameState(p.acknowledge)
  <2> DEFINE commands == Unacknowledged(p.acknowledge, reliableSequence)
             gameState == {[serverId |-> sv_serverId_value,
                            sequence |-> reliableSequence]}
  <2>1. /\ SendMessage(commands, gameState, "loading") /\ CarryOutDrop("loading")
        /\ reliableSent' = reliableSequence
    BY <1>2 DEF SendGameState, SendMessage
  <2>2. SentGrows
    BY <2>1, BaseFacts DEF SentGrows
  <2>3. MessagesTyped' /\ MessagesOrdered'
    <3>1. /\ DOMAIN commands \subseteq 1..reliableSent'
          /\ \A n \in DOMAIN commands : commands[n] \in Texts
      <4>1. /\ DOMAIN commands = p.acknowledge + 1..reliableSequence
            /\ \A n \in p.acknowledge + 1..reliableSequence : commands[n] \in Texts
        BY BaseFacts, UnacknowledgedFacts
      <4>2. p.acknowledge + 1..reliableSequence \subseteq 1..reliableSent'
        BY <2>1, BaseFacts
      <4>. QED BY <4>1, <4>2
    <3>2. gameState \subseteq [serverId : 1..sv_serverId_value', sequence : {reliableSent'}]
      <4>1. sv_serverId_value \in 1..sv_serverId_value'
        BY BaseFacts
      <4>. QED BY <2>1, <4>1
    <3>3. PICK c : c = commands
      OBVIOUS
    <3>4. PICK g : g = gameState
      OBVIOUS
    <3> HIDE DEF commands, gameState
    <3>5. SendMessage(c, g, "loading")
      BY <2>1, <3>3, <3>4
    <3>. QED BY <1>0, <2>2, <3>1, <3>2, <3>3, <3>4, <3>5, SendFactsBase
  <2>4. /\ state' \in States /\ dropReason' = FALSE
        /\ reliableSequence' \in Nat /\ reliableSequence <= reliableSequence'
        /\ reliableCommandInfo' \in [Slots -> Entry]
        /\ log' \in Seq(Entry) /\ Len(log') = reliableSequence'
        /\ \A n \in 1..reliableSequence : log'[n] = log[n]
    <3>1. "loading" \in States
      BY DEF States
    <3>. QED BY <2>1, <3>1, BaseFacts, DropFacts DEF Base
  <2>5. SentStays
    BY <2>1, <2>4, BaseFacts DEF SentStays
  <2>6. reliableSent' <= reliableSequence' /\ dropReason' \in BOOLEAN
    BY <2>1, <2>4
  <2>. QED BY <2>2, <2>3, <2>4, <2>5, <2>6
<1>. QED BY <1>1, <1>2 DEF ExecuteClientMessage

LEMMA ReceivePacketBase ==
  ASSUME Base, ReceivePacket
  PROVE  Base' /\ SentStays
<1>1. PICK i \in 1..Len(toServer) :
        /\ toServer' = SubSeq(toServer, i + 1, Len(toServer))
        /\ reliableAcknowledge' = IF WithinWindow(toServer[i])
                                  THEN toServer[i].acknowledge ELSE reliableSequence
        /\ \/ ExecuteClientMessage(toServer[i])
           \/ UNCHANGED <<state, reliableSequence, reliableSent,
                          reliableCommandInfo, dropReason, log, toClient>>
        /\ UNCHANGED <<sv_serverId_value, clientVars, cgameVars>>
  BY DEF ReceivePacket
<1>2. PICK p \in Packet : p = toServer[i]
  BY BaseFacts
<1>3. p.acknowledge \in Nat /\ p.acknowledge <= reliableSequence
  <2>1. p.acknowledge \in Nat
    BY DEF Packet
  <2>2. p.acknowledge <= serverCommandSequence
    BY <1>2, BaseFacts DEF PacketsOrdered
  <2>. QED BY <2>1, <2>2, BaseFacts
<1>4. reliableAcknowledge' \in Nat
  BY <1>1, <1>2, <1>3, BaseFacts
<1>5. Packet' = Packet
  BY <1>1 DEF Packet
<1>6. serverCommandSequence' = serverCommandSequence
  BY <1>1 DEF clientVars
<1>7. toServer' \in Seq(Packet') /\ PacketsOrdered'
  <2>1. /\ toServer' \in Seq(Packet) /\ Len(toServer') = Len(toServer) - i
        /\ \A j \in 1..Len(toServer) - i : toServer'[j] = toServer[j + i]
    BY <1>1, BaseFacts, RestFacts
  <2>2. /\ i \in Nat /\ Len(toServer') = Len(toServer) - i
        /\ \A j \in 1..Len(toServer') : toServer'[j] = toServer[j + i]
    BY <2>1
  <2>3. /\ serverCommandSequence \in Nat /\ serverCommandSequence' \in Nat
        /\ serverCommandSequence <= serverCommandSequence'
        /\ toServer \in Seq(Packet) /\ PacketsOrdered
    BY <1>6, BaseFacts
  <2>4. PacketsOrdered'
    BY <2>1, <2>2, <2>3, PacketsKept
  <2>. QED BY <1>5, <2>1, <2>4
<1>8. /\ SentGrows /\ SentStays /\ MessagesTyped' /\ MessagesOrdered'
      /\ state' \in States /\ dropReason' \in BOOLEAN
      /\ reliableSequence' \in Nat /\ reliableSent' <= reliableSequence'
      /\ reliableCommandInfo' \in [Slots -> Entry]
      /\ log' \in Seq(Entry) /\ Len(log') = reliableSequence'
  <2>1. CASE ExecuteClientMessage(p)
    BY <1>1, <1>3, <2>1, ExecuteFacts
  <2>2. CASE UNCHANGED <<state, reliableSequence, reliableSent,
                         reliableCommandInfo, dropReason, log, toClient>>
    <3>1. SentGrows
      BY <1>1, <2>2, BaseFacts DEF SentGrows
    <3>2. MessagesTyped' /\ MessagesOrdered'
      BY <1>6, <2>2, <3>1, MessagesSame
    <3>3. SentStays
      BY <2>2, BaseFacts DEF SentStays
    <3>4. log \in Seq(Entry)
      BY DEF Base, TypeOK
    <3>5. reliableSent' <= reliableSequence' /\ reliableSequence' \in Nat
      BY <2>2, BaseFacts
    <3>. QED BY <2>2, <3>1, <3>2, <3>3, <3>4, <3>5, BaseFacts
  <2>. QED BY <1>1, <1>2, <2>1, <2>2
<1>9. sv_serverId_value' \in 1..MaxLevels \cup {1} /\ UNCHANGED <<clientVars, cgameVars>>
  BY <1>1, BaseFacts
<1>. QED BY <1>4, <1>7, <1>8, <1>9, ServerStep

\* The commands of a message that the client lacks, and the number it has the
\* commands up to then.
NewIn(m) == {n \in DOMAIN m.commands : n > serverCommandSequence}
LastIn(m) ==
  IF m.gameState = {} THEN Max(NewIn(m) \cup {serverCommandSequence})
                      ELSE Max({g.sequence : g \in m.gameState})

\* What the client takes from a message.
LEMMA ReceiveFacts ==
  ASSUME Base, NEW i \in 1..Len(toClient), NEW m, m = toClient[i],
         NEW new, new = NewIn(m), NEW next, next = LastIn(m)
  PROVE  /\ next \in Nat /\ serverCommandSequence <= next /\ next <= reliableSent
         /\ new \subseteq serverCommandSequence + 1..next
         /\ next = serverCommandSequence \/ next \in new
              \/ \E g \in m.gameState : next = g.sequence
         /\ \A k \in i..Len(toClient) : \A g \in toClient[k].gameState :
              next <= g.sequence
<1>0. /\ serverCommandSequence \in Nat /\ reliableSent \in Nat
      /\ serverCommandSequence <= reliableSent /\ Len(toClient) \in Nat
  BY BaseFacts DEF MessagesTyped
<1>9. /\ new = {n \in DOMAIN m.commands : n > serverCommandSequence}
      /\ m.gameState = {} => next = Max(new \cup {serverCommandSequence})
      /\ m.gameState # {} => next = Max({g.sequence : g \in m.gameState})
  BY DEF NewIn, LastIn
<1>1. /\ \A n \in DOMAIN m.commands : n \in Nat /\ n >= 1 /\ n <= reliableSent
      /\ \A g \in m.gameState : g.sequence \in Nat /\ g.sequence <= reliableSent
  <2>1. IsMessage(m)
    BY BaseFacts DEF MessagesTyped
  <2>. QED BY <1>0, <2>1, MessageFacts
<1>2. ASSUME NEW k \in i..Len(toClient), NEW g \in toClient[k].gameState
      PROVE  /\ g.sequence \in Nat /\ serverCommandSequence <= g.sequence
             /\ \A n \in DOMAIN m.commands : n <= g.sequence
             /\ \A h \in m.gameState : h.sequence <= g.sequence
  <2>1. k \in 1..Len(toClient) /\ i \in 1..k
    BY <1>0
  <2>2. PICK t : t = toClient[k]
    OBVIOUS
  <2>3. IsMessage(t)
    BY <2>1, <2>2, BaseFacts DEF MessagesTyped
  <2>4. g.sequence \in Nat
    BY <1>0, <2>2, <2>3, MessageFacts
  <2>5. MessagesOrdered
    BY BaseFacts
  <2>6. /\ serverCommandSequence <= g.sequence
        /\ \A j \in 1..k : /\ \A n \in DOMAIN toClient[j].commands : n <= g.sequence
                           /\ \A h \in toClient[j].gameState : h.sequence <= g.sequence
    BY <2>1, <2>5 DEF MessagesOrdered
  <2>. QED BY <2>1, <2>4, <2>6
<1>3. CASE m.gameState = {}
  <2> DEFINE T == new \cup {serverCommandSequence}
  <2>1. T \subseteq 0..reliableSent /\ T # {} /\ serverCommandSequence \in T
        /\ new \subseteq T
    BY <1>0, <1>1, <1>9
  <2>2. next = Max(T)
    BY <1>3, <1>9
  <2>3. \A n \in T : n = serverCommandSequence \/ n \in new
    OBVIOUS
  <2> HIDE DEF T
  <2>4. next \in T /\ \A y \in T : y <= next
    BY <1>0, <2>1, <2>2, MaxFacts
  <2>5. next \in Nat /\ serverCommandSequence <= next /\ next <= reliableSent
    <3>1. next \in 0..reliableSent /\ serverCommandSequence <= next
      BY <2>1, <2>4
    <3>. QED BY <1>0, <3>1
  <2>6. new \subseteq serverCommandSequence + 1..next
    <3>1. ASSUME NEW n \in new PROVE n \in serverCommandSequence + 1..next
      <4>1. n \in Nat /\ n > serverCommandSequence /\ n <= next
        BY <1>1, <1>9, <2>1, <2>4
      <4>. QED BY <1>0, <2>5, <4>1
    <3>. QED BY <3>1
  <2>7. next = serverCommandSequence \/ next \in new
    BY <2>3, <2>4
  <2>8. ASSUME NEW k \in i..Len(toClient), NEW g \in toClient[k].gameState
        PROVE  next <= g.sequence
    <3>1. next = serverCommandSequence \/ next \in DOMAIN m.commands
      BY <1>9, <2>7
    <3>. QED BY <1>2, <3>1
  <2>. QED BY <2>5, <2>6, <2>7, <2>8
<1>4. CASE m.gameState # {}
  <2> DEFINE T == {g.sequence : g \in m.gameState}
  <2>1. T \subseteq 0..reliableSent /\ T # {}
    <3>1. \A g \in m.gameState : g.sequence \in 0..reliableSent
      BY <1>0, <1>1
    <3>. QED BY <1>4, <3>1
  <2>2. next = Max(T)
    BY <1>4, <1>9
  <2>3. \A n \in T : \E g \in m.gameState : n = g.sequence
    OBVIOUS
  <2> HIDE DEF T
  <2>4. next \in T
    BY <1>0, <2>1, <2>2, MaxFacts
  <2>5. PICK g \in m.gameState : next = g.sequence
    BY <2>3, <2>4
  <2>6. i \in i..Len(toClient) /\ g \in toClient[i].gameState
    BY <1>0
  <2>7. /\ next \in Nat /\ serverCommandSequence <= next
        /\ \A n \in DOMAIN m.commands : n <= next
    BY <1>2, <2>5, <2>6
  <2>8. new \subseteq serverCommandSequence + 1..next
    <3>1. ASSUME NEW n \in new PROVE n \in serverCommandSequence + 1..next
      <4>1. n \in Nat /\ n > serverCommandSequence /\ n <= next
        BY <1>1, <1>9, <2>7
      <4>. QED BY <1>0, <2>7, <4>1
    <3>. QED BY <3>1
  <2>9. \A k \in i..Len(toClient) : \A h \in toClient[k].gameState : next <= h.sequence
    BY <1>2, <2>5
  <2>10. next <= reliableSent
    BY <1>1, <2>5
  <2>. QED BY <2>5, <2>7, <2>8, <2>9, <2>10
<1>. QED BY <1>3, <1>4

LEMMA ReceiveMessageBase ==
  ASSUME Base, ReceiveMessage
  PROVE  Base' /\ SentStays
<1>1. PICK i \in 1..Len(toClient) :
        LET m == toClient[i]
            new == {n \in DOMAIN m.commands : n > serverCommandSequence}
        IN  /\ toClient' = SubSeq(toClient, i + 1, Len(toClient))
            /\ serverCommandSequence' =
                 IF m.gameState = {} THEN Max(new \cup {serverCommandSequence})
                                     ELSE Max({g.sequence : g \in m.gameState})
            /\ serverId' = Max({serverId} \cup {g.serverId : g \in m.gameState})
            /\ serverCommands' =
                 [s \in Slots |-> LET here == {n \in new : Slot(n) = s}
                                  IN  IF here = {} THEN serverCommands[s]
                                                   ELSE m.commands[Max(here)]]
            /\ UNCHANGED <<serverVars, cgameVars, toServer>>
  BY DEF ReceiveMessage
<1>2. PICK m : m = toClient[i]
  OBVIOUS
<1>3. PICK new : /\ new = {n \in DOMAIN m.commands : n > serverCommandSequence}
                 /\ new = NewIn(m)
  BY DEF NewIn
<1>4. /\ toClient' = SubSeq(toClient, i + 1, Len(toClient))
      /\ serverCommandSequence' =
           IF m.gameState = {} THEN Max(new \cup {serverCommandSequence})
                               ELSE Max({g.sequence : g \in m.gameState})
      /\ serverId' = Max({serverId} \cup {g.serverId : g \in m.gameState})
      /\ serverCommands' =
           [s \in Slots |-> LET here == {n \in new : Slot(n) = s}
                            IN  IF here = {} THEN serverCommands[s]
                                             ELSE m.commands[Max(here)]]
      /\ UNCHANGED <<serverVars, cgameVars, toServer>>
  BY <1>1, <1>2, <1>3
<1>5. /\ sv_serverId_value' = sv_serverId_value /\ state' = state
      /\ reliableSequence' = reliableSequence
      /\ reliableAcknowledge' = reliableAcknowledge
      /\ reliableSent' = reliableSent /\ reliableCommandInfo' = reliableCommandInfo
      /\ dropReason' = dropReason /\ log' = log
      /\ executedSequence' = executedSequence /\ cycledOut' = cycledOut
      /\ toServer' = toServer
  BY <1>4 DEF serverVars, cgameVars
<1>6. SentGrows
  BY <1>5, BaseFacts DEF SentGrows
<1>7. PICK next : next = LastIn(m)
  OBVIOUS
<1>8. /\ next \in Nat /\ serverCommandSequence <= next /\ next <= reliableSent
      /\ \A k \in i..Len(toClient) : \A g \in toClient[k].gameState : next <= g.sequence
      /\ new \subseteq serverCommandSequence + 1..next
  BY <1>2, <1>3, <1>7, ReceiveFacts
<1>9. serverCommandSequence' = next
  BY <1>3, <1>4, <1>7 DEF LastIn
<1>10. IsMessage(m)
  BY <1>2, BaseFacts DEF MessagesTyped
<1>11. /\ \A n \in DOMAIN m.commands : m.commands[n] \in Texts
       /\ \A g \in m.gameState : g.serverId \in 1..sv_serverId_value
  BY <1>10, BaseFacts, MessageFacts
<1>12. serverId' \in 0..sv_serverId_value'
  <2> DEFINE T == {serverId} \cup {g.serverId : g \in m.gameState}
  <2>1. T \subseteq 0..sv_serverId_value
    <3>1. serverId \in 0..sv_serverId_value
      BY DEF Base, TypeOK
    <3>2. \A g \in m.gameState : g.serverId \in 0..sv_serverId_value
      BY <1>11, BaseFacts
    <3>. QED BY <3>1, <3>2
  <2>2. T # {} /\ serverId' = Max(T)
    BY <1>4
  <2> HIDE DEF T
  <2>3. Max(T) \in T
    BY <2>1, <2>2, BaseFacts, MaxFacts
  <2>. QED BY <1>5, <2>1, <2>2, <2>3
<1>13. serverCommands' \in [Slots -> Texts]
  <2>1. ASSUME NEW s \in Slots, NEW here, here = {n \in new : Slot(n) = s}, here # {}
        PROVE  m.commands[Max(here)] \in Texts
    <3>1. here \subseteq new /\ here \subseteq 0..reliableSent
      <4>1. \A n \in new : n \in serverCommandSequence + 1..next
        BY <1>8
      <4>2. \A n \in new : n \in 0..reliableSent
        BY <1>8, <4>1, BaseFacts
      <4>. QED BY <2>1, <4>2
    <3>2. Max(here) \in here
      BY <2>1, <3>1, BaseFacts, MaxFacts
    <3>3. Max(here) \in DOMAIN m.commands
      BY <1>3, <3>1, <3>2
    <3>. QED BY <1>11, <3>3
  <2>2. \A s \in Slots : serverCommands[s] \in Texts
    BY BaseFacts
  <2>. QED BY <1>4, <2>1, <2>2
<1>14. /\ Len(toClient') = Len(toClient) - i
       /\ \A j \in 1..Len(toClient') : toClient'[j] = toClient[j + i]
       /\ toClient' \in Seq(Range(toClient))
       /\ i \in Nat /\ Len(toClient) \in Nat
  <2>1. toClient \in Seq(Range(toClient))
    BY BaseFacts DEF MessagesTyped
  <2>. QED BY <1>4, <2>1, RestFacts
<1>15. MessagesTyped'
  BY <1>6, <1>14, BaseFacts, MessagesKept
<1>16. MessagesOrdered'
  <2>1. ASSUME NEW j \in 1..Len(toClient'), NEW g \in toClient'[j].gameState
        PROVE  /\ serverCommandSequence' <= g.sequence
               /\ \A k \in 1..j :
                    /\ \A n \in DOMAIN toClient'[k].commands : n <= g.sequence
                    /\ \A h \in toClient'[k].gameState : h.sequence <= g.sequence
    <3>1. j + i \in 1..Len(toClient) /\ j + i \in i..Len(toClient)
          /\ g \in toClient[j + i].gameState
      BY <1>14
    <3>2. MessagesOrdered
      BY BaseFacts
    <3>3. \A k \in 1..j + i :
               /\ \A n \in DOMAIN toClient[k].commands : n <= g.sequence
               /\ \A h \in toClient[k].gameState : h.sequence <= g.sequence
      BY <3>1, <3>2 DEF MessagesOrdered
    <3>4. ASSUME NEW k \in 1..j
          PROVE  k + i \in 1..j + i /\ toClient'[k] = toClient[k + i]
      BY <1>14
    <3>5. next <= g.sequence
      BY <1>8, <3>1
    <3>. QED BY <1>9, <3>3, <3>4, <3>5
  <2>. QED BY <2>1 DEF MessagesOrdered
<1>17. toServer' \in Seq(Packet') /\ PacketsOrdered'
  BY <1>5, <1>6, <1>8, <1>9, PacketsSame
<1>18. TypeOK'
  BY <1>5, <1>8, <1>9, <1>12, <1>13, <1>15, <1>17 DEF Base, TypeOK, MessagesTyped
<1>19. NumbersInv'
  <2>1. executedSequence <= next
    BY <1>8, BaseFacts
  <2>. QED BY <1>5, <1>8, <1>9, <1>16, <1>17, <2>1, BaseFacts DEF NumbersInv
<1>20. SentStays
  BY <1>5, BaseFacts DEF SentStays
<1>. QED BY <1>18, <1>19, <1>20 DEF Base

LEMMA SendPacketBase ==
  ASSUME Base, SendPacket
  PROVE  Base' /\ SentStays
<1>1. PICK p : p = [serverId |-> serverId, acknowledge |-> serverCommandSequence,
                    key |-> PacketKey]
  OBVIOUS
<1>2. /\ toServer' = Send(toServer, p)
      /\ UNCHANGED <<serverVars, clientVars, cgameVars, toClient>>
  BY <1>1 DEF SendPacket
<1>3. /\ sv_serverId_value' = sv_serverId_value /\ state' = state
      /\ reliableSequence' = reliableSequence
      /\ reliableAcknowledge' = reliableAcknowledge
      /\ reliableSent' = reliableSent /\ reliableCommandInfo' = reliableCommandInfo
      /\ dropReason' = dropReason /\ log' = log
      /\ serverCommandSequence' = serverCommandSequence
      /\ UNCHANGED <<clientVars, cgameVars>> /\ toClient' = toClient
  BY <1>2 DEF serverVars, clientVars
<1>4. p \in Packet /\ p.acknowledge = serverCommandSequence
  <2>1. serverId \in 0..sv_serverId_value
    BY DEF Base, TypeOK
  <2>2. PacketKey \in Texts
    <3>1. Slot(serverCommandSequence) \in Slots
      BY BaseFacts, SlotFacts
    <3>. QED BY <3>1, BaseFacts DEF PacketKey
  <2>. QED BY <1>1, <2>1, <2>2, BaseFacts DEF Packet
<1>5. SentGrows /\ Packet' = Packet
  BY <1>3, BaseFacts DEF SentGrows, Packet
<1>6. toServer' \in Seq(Packet)
  BY <1>2, <1>4, BaseFacts, SendFacts
<1>7. PICK d \in {0, 1} :
        \A i \in 1..Len(toServer') :
          \/ /\ i + d \in 1..Len(toServer) /\ toServer'[i] = toServer[i + d]
             /\ i < Len(toServer')
          \/ i = Len(toServer') /\ toServer'[i] = p
  BY <1>2, <1>4, BaseFacts, SendFacts
<1>8. PacketsOrdered'
  <2>1. ASSUME NEW i \in 1..Len(toServer')
        PROVE  toServer'[i].acknowledge <= serverCommandSequence
    <3>1. CASE i + d \in 1..Len(toServer) /\ toServer'[i] = toServer[i + d]
      <4>1. PacketsOrdered
        BY BaseFacts
      <4>. QED BY <3>1, <4>1 DEF PacketsOrdered
    <3>2. CASE toServer'[i] = p
      BY <1>4, <3>2, BaseFacts
    <3>. QED BY <1>7, <3>1, <3>2
  <2>2. ASSUME NEW i \in 1..Len(toServer'), NEW j \in 1..i
        PROVE  toServer'[j].acknowledge <= toServer'[i].acknowledge
    <3>0. Len(toServer') \in Nat /\ j \in 1..Len(toServer')
      BY <1>6
    <3>1. CASE i + d \in 1..Len(toServer) /\ toServer'[i] = toServer[i + d]
               /\ i < Len(toServer')
      <4>1. PacketsOrdered
        BY BaseFacts
      <4>2. j + d \in 1..i + d /\ j # Len(toServer')
        BY <3>0, <3>1
      <4>3. toServer'[j] = toServer[j + d]
        BY <1>7, <3>0, <4>2
      <4>4. \A k \in 1..i + d : toServer[k].acknowledge <= toServer[i + d].acknowledge
        BY <3>1, <4>1 DEF PacketsOrdered
      <4>. QED BY <3>1, <4>2, <4>3, <4>4
    <3>2. CASE toServer'[i] = p
      BY <1>4, <2>1, <3>0, <3>2
    <3>. QED BY <1>7, <3>1, <3>2
  <2>. QED BY <1>3, <2>1, <2>2 DEF PacketsOrdered
<1>9. MessagesTyped' /\ MessagesOrdered'
  BY <1>3, <1>5, MessagesSame
<1>10. SentStays
  BY <1>3, BaseFacts DEF SentStays
<1>11. /\ reliableSent' <= reliableSequence' /\ log \in Seq(Entry)
       /\ reliableSequence' \in Nat /\ reliableAcknowledge' \in Nat
  BY <1>3, BaseFacts DEF Base, TypeOK
<1>12. /\ sv_serverId_value' \in 1..MaxLevels \cup {1} /\ state' \in States
       /\ dropReason' \in BOOLEAN /\ reliableCommandInfo' \in [Slots -> Entry]
       /\ Len(log') = reliableSequence'
  BY <1>3, BaseFacts
<1>. QED BY <1>3, <1>5, <1>6, <1>8, <1>9, <1>10, <1>11, <1>12, ServerStep

\* The steps that change nothing but what is under way or was executed.
LEMMA ExecuteBase ==
  ASSUME Base, ExecuteServerCommand
  PROVE  Base' /\ SentStays
<1>1. /\ executedSequence < serverCommandSequence
      /\ executedSequence' = executedSequence + 1
      /\ cycledOut' = Overwritten(executedSequence + 1)
      /\ UNCHANGED <<serverVars, clientVars, toClient, toServer>>
  BY DEF ExecuteServerCommand
<1>2. executedSequence' \in Nat /\ executedSequence' <= serverCommandSequence
  BY <1>1, BaseFacts
<1>3. cycledOut' \in BOOLEAN
  <2>1. Overwritten(executedSequence + 1) \in BOOLEAN
    BY DEF Overwritten
  <2>. QED BY <1>1, <2>1
<1>4. SentGrows
  BY <1>1, BaseFacts DEF serverVars, SentGrows
<1>5. MessagesTyped' /\ MessagesOrdered'
  BY <1>1, <1>4, MessagesSame DEF clientVars
<1>6. toServer' \in Seq(Packet') /\ PacketsOrdered'
  <2>1. serverCommandSequence' = serverCommandSequence /\ toServer' = toServer
    BY <1>1 DEF clientVars
  <2>2. /\ serverCommandSequence' \in Nat
        /\ serverCommandSequence <= serverCommandSequence'
    BY <2>1, BaseFacts
  <2>. QED BY <1>4, <2>1, <2>2, PacketsSame
<1>7. TypeOK'
  BY <1>1, <1>2, <1>3, <1>5, <1>6
     DEF Base, TypeOK, MessagesTyped, serverVars, clientVars
<1>8. NumbersInv'
  BY <1>1, <1>2, <1>5, <1>6, BaseFacts DEF NumbersInv, serverVars, clientVars
<1>9. SentStays
  BY <1>1, BaseFacts DEF SentStays, serverVars
<1>. QED BY <1>7, <1>8, <1>9 DEF Base

LEMMA LoseMessageBase ==
  ASSUME Base, LoseMessage
  PROVE  Base' /\ SentStays
<1>1. /\ toClient # << >> /\ toClient' = Tail(toClient)
      /\ UNCHANGED <<serverVars, clientVars, cgameVars, toServer>>
  BY DEF LoseMessage
<1>2. SentGrows
  BY <1>1, BaseFacts DEF serverVars, SentGrows
<1>3. toServer' = toServer /\ serverCommandSequence' = serverCommandSequence
  BY <1>1 DEF clientVars
<1>4. toClient \in Seq(Range(toClient)) /\ MessagesTyped /\ MessagesOrdered
  BY BaseFacts DEF MessagesTyped
<1>5. /\ toClient' \in Seq(Range(toClient)) /\ Len(toClient') = Len(toClient) - 1
      /\ \A i \in 1..Len(toClient') : toClient'[i] = toClient[i + 1]
  BY <1>1, <1>4, TailIsRest
<1>6. MessagesTyped' /\ MessagesOrdered'
  <2>1. 1 \in Nat
    OBVIOUS
  <2>. QED BY <1>2, <1>3, <1>4, <1>5, <2>1, MessagesKept
<1>7. toServer' \in Seq(Packet') /\ PacketsOrdered'
  <2>1. /\ serverCommandSequence' \in Nat
        /\ serverCommandSequence <= serverCommandSequence'
    BY <1>3, BaseFacts
  <2>. QED BY <1>2, <1>3, <2>1, PacketsSame
<1>8. TypeOK'
  BY <1>1, <1>6, <1>7
     DEF Base, TypeOK, MessagesTyped, serverVars, clientVars, cgameVars
<1>9. NumbersInv'
  BY <1>1, <1>6, <1>7, BaseFacts DEF NumbersInv, serverVars, clientVars, cgameVars
<1>10. SentStays
  BY <1>1, BaseFacts DEF SentStays, serverVars
<1>. QED BY <1>8, <1>9, <1>10 DEF Base

LEMMA LosePacketBase ==
  ASSUME Base, LosePacket
  PROVE  Base' /\ SentStays
<1>1. /\ toServer # << >> /\ toServer' = Tail(toServer)
      /\ UNCHANGED <<serverVars, clientVars, cgameVars, toClient>>
  BY DEF LosePacket
<1>2. SentGrows /\ Packet' = Packet
  BY <1>1, BaseFacts DEF serverVars, SentGrows, Packet
<1>3. toClient' = toClient /\ serverCommandSequence' = serverCommandSequence
  BY <1>1 DEF clientVars
<1>4. /\ toServer' \in Seq(Packet) /\ Len(toServer') = Len(toServer) - 1
      /\ \A i \in 1..Len(toServer') : toServer'[i] = toServer[i + 1]
  BY <1>1, BaseFacts, TailIsRest
<1>5. PacketsOrdered'
  <2>1. 1 \in Nat
    OBVIOUS
  <2>2. /\ serverCommandSequence \in Nat /\ serverCommandSequence' \in Nat
        /\ serverCommandSequence <= serverCommandSequence'
    BY <1>3, BaseFacts
  <2>. QED BY <1>4, <2>1, <2>2, BaseFacts, PacketsKept
<1>6. MessagesTyped' /\ MessagesOrdered'
  BY <1>2, <1>3, MessagesSame
<1>7. TypeOK'
  BY <1>1, <1>2, <1>4, <1>6
     DEF Base, TypeOK, MessagesTyped, serverVars, clientVars, cgameVars
<1>8. NumbersInv'
  BY <1>1, <1>5, <1>6, BaseFacts DEF NumbersInv, serverVars, clientVars, cgameVars
<1>9. SentStays
  BY <1>1, BaseFacts DEF SentStays, serverVars
<1>. QED BY <1>7, <1>8, <1>9 DEF Base

LEMMA StutterBase ==
  ASSUME Base, UNCHANGED vars
  PROVE  Base' /\ SentStays
<1>1. /\ UNCHANGED <<serverVars, clientVars, cgameVars>>
      /\ toClient' = toClient /\ toServer' = toServer
  BY DEF vars
<1>2. TypeOK'
  BY <1>1 DEF Base, TypeOK, IsMessage, Packet, serverVars, clientVars, cgameVars
<1>3. NumbersInv'
  BY <1>1 DEF Base, NumbersInv, MessagesOrdered, PacketsOrdered,
              serverVars, clientVars, cgameVars
<1>4. SentStays
  BY <1>1, BaseFacts DEF SentStays, serverVars
<1>. QED BY <1>2, <1>3, <1>4 DEF Base

\* The commands the game issues are texts.
LEMMA IssuedFacts ==
  /\ \A c \in IgnorableOf \cup ReliableOf : c \in Texts
  /\ "ignorable" \in Types /\ "reliable" \in Types
BY ServerCommandsAssumption DEF Texts, Types

LEMMA NextBase ==
  ASSUME Base, [Next]_vars
  PROVE  Base' /\ SentStays
<1>1. ASSUME NEW c \in IgnorableOf, AddServerCommand(c, "ignorable")
      PROVE  Base' /\ SentStays
  BY <1>1, IssuedFacts, AddBase
<1>2. ASSUME NEW c \in ReliableOf, AddServerCommand(c, "reliable")
      PROVE  Base' /\ SentStays
  BY <1>2, IssuedFacts, AddBase
<1>3. CASE SendSnapshot
  <2>1. /\ reliableSequence \in Nat /\ reliableSequence <= reliableSequence
        /\ SendSnapshotUpTo(reliableSequence)
    BY <1>3, BaseFacts DEF SendSnapshot
  <2>. QED BY <2>1, SnapshotBase
<1>4. CASE SendOverflowedSnapshot
  <2>1. PICK last \in reliableAcknowledge..reliableSequence - 1 :
          SendSnapshotUpTo(last)
    BY <1>4 DEF SendOverflowedSnapshot
  <2>2. last \in Nat /\ last <= reliableSequence
    BY BaseFacts
  <2>. QED BY <2>1, <2>2, SnapshotBase
<1>. QED BY <1>1, <1>2, <1>3, <1>4, DropClientBase, SpawnServerBase, KeepAliveBase,
            ReceivePacketBase, ReceiveMessageBase, SendPacketBase, ExecuteBase,
            LoseMessageBase, LosePacketBase, StutterBase DEF Next

LEMMA BaseHolds == Spec => []Base
<1>1. Init => Base
  BY InitBase
<1>2. Base /\ [Next]_vars => Base'
  BY NextBase
<1>. QED BY <1>1, <1>2, PTL DEF Spec

\* Every variable always has the type it is declared with, however far the
\* acknowledgements lag behind.
THEOREM TypeCorrect == Spec => []TypeOK
<1>1. Base => TypeOK
  BY DEF Base
<1>. QED BY <1>1, BaseHolds, PTL

\* A command that was taken for sent is never changed, renumbered or withdrawn.
THEOREM Final == Spec => SentIsFinal
<1>1. Base /\ [Next]_vars =>
        [/\ reliableSent' >= reliableSent
         /\ \A n \in 1..reliableSent : n \in DOMAIN log' /\ log'[n] = log[n]]_vars
  <2>1. SUFFICES ASSUME Base, [Next]_vars
                 PROVE  /\ reliableSent' >= reliableSent
                        /\ \A n \in 1..reliableSent :
                             n \in DOMAIN log' /\ log'[n] = log[n]
    OBVIOUS
  <2>2. Base' /\ SentStays
    BY <2>1, NextBase
  <2>3. /\ log' \in Seq(Entry) /\ Len(log') = reliableSequence'
        /\ reliableSent' <= reliableSequence' /\ reliableSequence' \in Nat
        /\ reliableSent' \in Nat /\ reliableSent \in Nat
    BY <2>1, <2>2 DEF Base, TypeOK, NumbersInv
  <2>4. DOMAIN log' = 1..reliableSequence'
    BY <2>3
  <2>. QED BY <2>2, <2>3, <2>4 DEF SentStays
<1>. QED BY <1>1, BaseHolds, PTL DEF Spec, SentIsFinal

\* Only SV_AddServerCommand lets the window overrun, and marks the client.
LEMMA AddOverrun ==
  ASSUME Base, OverrunIsFatal, NEW c \in Texts, NEW t \in Types,
         AddServerCommand(c, t)
  PROVE  OverrunIsFatal'
<1>1. /\ Add(c, t) /\ reliableSequence - reliableSent <= WindowSize
      /\ state # "zombie" /\ state' = state
      /\ reliableAcknowledge' = reliableAcknowledge
  BY DEF AddServerCommand
<1>2. reliableSequence' \in Nat /\ reliableSequence' <= reliableSequence + 1
  BY <1>1, BaseFacts, AddFacts DEF Base
<1>3. dropReason \/ Overflows(reliableSequence') => dropReason'
  BY <1>1 DEF Add
<1>4. SUFFICES ASSUME reliableSequence' - reliableAcknowledge > WindowSize
               PROVE  dropReason'
  BY <1>1 DEF OverrunIsFatal
<1>5. CASE reliableSequence - reliableAcknowledge > WindowSize
  BY <1>1, <1>3, <1>5 DEF OverrunIsFatal
<1>6. CASE ~ (reliableSequence - reliableAcknowledge > WindowSize)
  <2>1. reliableSequence' - reliableAcknowledge = WindowSize + 1
    BY <1>2, <1>4, <1>6, BaseFacts, Sizes
  <2>. QED BY <1>3, <2>1 DEF Overflows
<1>. QED BY <1>5, <1>6

\* A message takes the mark away only with the client.
LEMMA SendOverrun ==
  ASSUME Base, OverrunIsFatal, state' = "zombie" \/ ~ dropReason,
         state = "zombie" => state' = "zombie",
         ~ dropReason => reliableSequence' = reliableSequence,
         reliableAcknowledge' = reliableAcknowledge
  PROVE  OverrunIsFatal'
BY DEF OverrunIsFatal

LEMMA NextOverrun ==
  ASSUME Base, OverrunIsFatal, [Next]_vars
  PROVE  OverrunIsFatal'
<1>1. ASSUME NEW c \in IgnorableOf, AddServerCommand(c, "ignorable")
      PROVE  OverrunIsFatal'
  BY <1>1, IssuedFacts, AddOverrun
<1>2. ASSUME NEW c \in ReliableOf, AddServerCommand(c, "reliable")
      PROVE  OverrunIsFatal'
  BY <1>2, IssuedFacts, AddOverrun
<1>3. CASE DropClient
  BY <1>3 DEF DropClient, OverrunIsFatal
<1>4. CASE SpawnServer
  BY <1>4 DEF SpawnServer, OverrunIsFatal
<1>5. ASSUME CarryOutDrop(state), reliableAcknowledge' = reliableAcknowledge
      PROVE  OverrunIsFatal'
  <2>1. ~ dropReason => /\ state' = state /\ reliableSequence' = reliableSequence
    BY <1>5, BaseFacts, DropFacts DEF Base
  <2>2. state = "zombie" => state' = "zombie"
    BY <1>5 DEF CarryOutDrop
  <2>3. dropReason => state' = "zombie"
    BY <1>5 DEF CarryOutDrop
  <2>. QED BY <1>5, <2>1, <2>2, <2>3, SendOverrun
<1>6. CASE SendKeepAlive
  BY <1>5, <1>6 DEF SendKeepAlive, SendMessage
<1>7. ASSUME NEW last, SendSnapshotUpTo(last) PROVE OverrunIsFatal'
  BY <1>5, <1>7 DEF SendSnapshotUpTo, SendMessage
<1>8. CASE SendSnapshot \/ SendOverflowedSnapshot
  BY <1>7, <1>8 DEF SendSnapshot, SendOverflowedSnapshot
<1>9. CASE ReceivePacket
  <2>1. PICK i \in 1..Len(toServer) :
          /\ reliableAcknowledge' = IF WithinWindow(toServer[i])
                                    THEN toServer[i].acknowledge ELSE reliableSequence
          /\ \/ ExecuteClientMessage(toServer[i])
             \/ reliableSequence' = reliableSequence
    BY <1>9 DEF ReceivePacket
  <2>2. reliableSequence' = reliableSequence
    <3>1. CASE SendGameState(toServer[i].acknowledge)
      BY <3>1 DEF SendGameState, SendMessage, CarryOutDrop
    <3>. QED BY <2>1, <3>1 DEF ExecuteClientMessage
  <2>3. reliableSequence' - reliableAcknowledge' <= WindowSize
    <3>1. CASE WithinWindow(toServer[i])
      <4>1. reliableSequence - toServer[i].acknowledge \in 0..WindowSize - 1
            /\ reliableAcknowledge' = toServer[i].acknowledge
        BY <2>1, <3>1 DEF WithinWindow
      <4>2. \A d \in 0..WindowSize - 1 : d <= WindowSize
        BY Sizes
      <4>. QED BY <2>2, <4>1, <4>2
    <3>2. CASE ~ WithinWindow(toServer[i])
      BY <2>1, <2>2, <3>2, BaseFacts, Sizes
    <3>. QED BY <3>1, <3>2
  <2>4. ~ (reliableSequence' - reliableAcknowledge' > WindowSize)
    <3>1. reliableSequence' \in Nat /\ reliableAcknowledge' \in Nat
      <4>1. Base'
        BY <1>9, ReceivePacketBase
      <4>. QED BY <4>1 DEF Base, TypeOK
    <3> DEFINE d == reliableSequence' - reliableAcknowledge'
    <3>2. d \in Int /\ d <= WindowSize
      BY <2>3, <3>1
    <3> HIDE DEF d
    <3>3. ~ (d > WindowSize)
      BY <3>2, Sizes
    <3>. QED BY <3>3 DEF d
  <2>. QED BY <2>4 DEF OverrunIsFatal
<1>10. CASE \/ ReceiveMessage \/ SendPacket \/ ExecuteServerCommand
            \/ LoseMessage \/ LosePacket \/ UNCHANGED vars
  <2>1. UNCHANGED serverVars
    BY <1>10 DEF ReceiveMessage, SendPacket, ExecuteServerCommand, LoseMessage,
                 LosePacket, vars
  <2>. QED BY <2>1 DEF serverVars, OverrunIsFatal
<1>. QED BY <1>1, <1>2, <1>3, <1>4, <1>6, <1>8, <1>9, <1>10 DEF Next

\* A command is only overwritten before its acknowledgement when the client is
\* being dropped for it.
THEOREM Overrun == Spec => []OverrunIsFatal
<1>1. Init => OverrunIsFatal
  BY Sizes DEF Init, OverrunIsFatal
<1>2. Base /\ OverrunIsFatal /\ [Next]_vars => OverrunIsFatal'
  BY NextOverrun
<1>. QED BY <1>1, <1>2, BaseHolds, PTL DEF Spec

-----------------------------------------------------------------------------
(* What was sent, what is held and what is under way agree, when the game    *)
(* leaves a slot of the window free.                                         *)

\* The server believes what the client told it.
Believes ==
  /\ reliableAcknowledge <= serverCommandSequence
  /\ \A i \in 1..Len(toServer) : reliableAcknowledge <= toServer[i].acknowledge
  /\ reliableSequence - reliableAcknowledge <= WindowSize
  /\ state = "zombie" \/ reliableSequence - reliableAcknowledge < WindowSize
  /\ Holds(reliableCommandInfo, log, reliableAcknowledge)

\* It has given up the commands of a dropped client.
GaveUp ==
  /\ state = "zombie"
  /\ reliableAcknowledge = reliableSequence
  /\ Holds(reliableCommandInfo, log, 0)

LEMMA RingParts ==
  ASSUME Len(log) = reliableSequence
  PROVE  RingInv <=> ~ dropReason /\ (Believes \/ GaveUp)
<1>1. \A low : HeldFrom(low) <=> Holds(reliableCommandInfo, log, low)
  BY DEF HeldFrom, Holds, Queued, Named
<1>. QED BY <1>1 DEF RingInv, Believes, GaveUp

LEMMA RingPartsNext ==
  ASSUME Len(log') = reliableSequence', ~ dropReason', Believes' \/ GaveUp'
  PROVE  RingInv'
<1>1. ASSUME NEW low, Holds(reliableCommandInfo', log', low) PROVE HeldFrom(low)'
  BY <1>1 DEF HeldFrom, Holds, Queued, Named
<1>2. PICK a, b : a = reliableAcknowledge' /\ b = 0
  OBVIOUS
<1>3. CASE Believes'
  <2>1. Holds(reliableCommandInfo', log', a)
    BY <1>2, <1>3 DEF Believes, Holds
  <2>2. HeldFrom(a)'
    BY <1>1, <2>1
  <2>3. HeldFrom(reliableAcknowledge)'
    BY <1>2, <2>2 DEF HeldFrom
  <2>. QED BY <1>3, <2>3 DEF Believes, RingInv
<1>4. CASE GaveUp'
  <2>1. Holds(reliableCommandInfo', log', b)
    BY <1>2, <1>4 DEF GaveUp, Holds
  <2>2. HeldFrom(b)'
    BY <1>1, <2>1
  <2>3. HeldFrom(0)'
    BY <1>2, <2>2
  <2>. QED BY <1>4, <2>3 DEF GaveUp, RingInv
<1>. QED BY <1>3, <1>4

\* Everything under way was under way before.
PacketsFromBefore ==
  \A i \in 1..Len(toServer') : \E k \in 1..Len(toServer) : toServer'[i] = toServer[k]

LEMMA RingStays ==
  ASSUME Base, RingInv,
         UNCHANGED <<reliableSequence, reliableAcknowledge, reliableCommandInfo,
                     log, state>>,
         ~ dropReason',
         serverCommandSequence' \in Nat, serverCommandSequence <= serverCommandSequence',
         \A i \in 1..Len(toServer') :
           \/ \E k \in 1..Len(toServer) : toServer'[i] = toServer[k]
           \/ toServer'[i].acknowledge = serverCommandSequence
  PROVE  RingInv'
<1>1. ~ dropReason /\ (Believes \/ GaveUp)
  BY BaseFacts, RingParts
<1>2. Holds(reliableCommandInfo', log', reliableAcknowledge') <=>
        Holds(reliableCommandInfo, log, reliableAcknowledge)
  BY DEF Holds
<1>3. Len(log') = reliableSequence'
  BY BaseFacts
<1>4. CASE Believes
  <2>1. \A i \in 1..Len(toServer') : reliableAcknowledge <= toServer'[i].acknowledge
    BY <1>4 DEF Believes
  <2>2. reliableAcknowledge <= serverCommandSequence'
    BY <1>4, BaseFacts DEF Believes
  <2>3. Believes'
    BY <1>2, <1>4, <2>1, <2>2 DEF Believes
  <2>. QED BY <1>3, <2>3, RingPartsNext
<1>5. CASE GaveUp
  <2>1. GaveUp'
    BY <1>5 DEF GaveUp, Holds
  <2>. QED BY <1>3, <2>1, RingPartsNext
<1>. QED BY <1>1, <1>4, <1>5

\* A message leaves out none of the commands that the client lacks.
MessageOk(m) ==
  /\ \A n \in DOMAIN m.commands :
       /\ m.commands[n] = log[n].cmd
       /\ serverCommandSequence + 1..n \subseteq DOMAIN m.commands
  /\ \A g \in m.gameState :
       serverCommandSequence + 1..g.sequence \subseteq DOMAIN m.commands

LEMMA MessagesParts ==
  MessagesInv <=> \A i \in 1..Len(toClient) : MessageOk(toClient[i])
BY DEF MessagesInv, MessageOk

LEMMA MessageStays ==
  ASSUME Base, SentStays, NEW m, IsMessage(m), MessageOk(m),
         serverCommandSequence' \in Nat, serverCommandSequence <= serverCommandSequence'
  PROVE  MessageOk(m)'
<1>1. \A n \in DOMAIN m.commands : log'[n] = log[n]
  BY DEF IsMessage, SentStays
<1>2. ASSUME NEW n PROVE serverCommandSequence' + 1..n \subseteq serverCommandSequence + 1..n
  BY BaseFacts
<1>. QED BY <1>1, <1>2 DEF MessageOk

LEMMA MessagesStay ==
  ASSUME Base, MessagesInv, SentStays,
         serverCommandSequence' \in Nat, serverCommandSequence <= serverCommandSequence',
         \A i \in 1..Len(toClient') :
           \/ \E k \in 1..Len(toClient) : toClient'[i] = toClient[k]
           \/ \E m : toClient'[i] = m /\ MessageOk(m)'
  PROVE  MessagesInv'
<1>1. ASSUME NEW i \in 1..Len(toClient')
      PROVE  \E m : toClient'[i] = m /\ MessageOk(m)'
  <2>1. CASE \E k \in 1..Len(toClient) : toClient'[i] = toClient[k]
    <3>1. PICK k \in 1..Len(toClient) : toClient'[i] = toClient[k]
      BY <2>1
    <3>2. PICK m : m = toClient[k]
      OBVIOUS
    <3>3. IsMessage(m)
      BY <3>2, BaseFacts DEF MessagesTyped
    <3>4. MessageOk(m)
      BY <3>2, MessagesParts
    <3>5. MessageOk(m)'
      BY <3>3, <3>4, MessageStays
    <3>. QED BY <3>1, <3>2, <3>5
  <2>. QED BY <2>1
<1>. QED BY <1>1 DEF MessagesInv, MessageOk

\* A message with the commands from number a on.
LEMMA MessageOfRing ==
  ASSUME Base, NEW a \in Nat, NEW last \in Nat, last <= reliableSequence,
         NEW m, m.commands = Unacknowledged(a, last),
         \/ /\ a <= serverCommandSequence
            /\ reliableSequence - a <= WindowSize
            /\ Holds(reliableCommandInfo, log, a)
            /\ \A g \in m.gameState : g.sequence = last
         \/ a >= last /\ m.gameState = {},
         log' = log, serverCommandSequence' = serverCommandSequence
  PROVE  MessageOk(m)'
<1>1. /\ DOMAIN m.commands = a + 1..last
      /\ \A n \in a + 1..last : m.commands[n] = reliableCommandInfo[Slot(n)].cmd
  <2>1. reliableCommandInfo \in [Slots -> Entry]
    BY BaseFacts
  <2>2. /\ DOMAIN Unacknowledged(a, last) = a + 1..last
        /\ \A n \in a + 1..last :
             Unacknowledged(a, last)[n] = reliableCommandInfo[Slot(n)].cmd
    BY <2>1, UnacknowledgedFacts
  <2>. QED BY <2>2
<1>2. CASE /\ a <= serverCommandSequence
           /\ reliableSequence - a <= WindowSize
           /\ Holds(reliableCommandInfo, log, a)
           /\ \A g \in m.gameState : g.sequence = last
  <2>1. ASSUME NEW n \in a + 1..last
        PROVE  /\ m.commands[n] = log[n].cmd
               /\ serverCommandSequence + 1..n \subseteq a + 1..last
    <3>1. n \in 0..Len(log) /\ a <= n /\ Len(log) - n < WindowSize /\ n # 0
      BY <1>2, BaseFacts, Sizes
    <3>2. reliableCommandInfo[Slot(n)] = log[n]
      BY <1>2, <3>1 DEF Holds, Named
    <3>3. serverCommandSequence + 1..n \subseteq a + 1..last
      BY <1>2, BaseFacts
    <3>. QED BY <1>1, <3>2, <3>3
  <2>2. serverCommandSequence + 1..last \subseteq a + 1..last
    BY <1>2, BaseFacts
  <2>. QED BY <1>1, <1>2, <2>1, <2>2 DEF MessageOk
<1>3. CASE a >= last /\ m.gameState = {}
  <2>1. a + 1..last = {}
    BY <1>3
  <2>. QED BY <1>1, <1>3, <2>1 DEF MessageOk
<1>. QED BY <1>2, <1>3

LEMMA QueuedStays ==
  ASSUME Base, SentStays, NEW n \in 0..reliableSent
  PROVE  Queued(n)' = Queued(n)
<1>1. n # 0 => n \in 1..reliableSent
  BY BaseFacts
<1>. QED BY <1>1 DEF SentStays, Queued

\* What is stored and the keys under way, when the client stores nothing.
LEMMA ClientStays ==
  ASSUME Base, SentStays, ClientInv,
         serverCommandSequence' = serverCommandSequence,
         serverCommands' = serverCommands,
         \A i \in 1..Len(toServer') :
           \/ \E k \in 1..Len(toServer) : toServer'[i] = toServer[k]
           \/ /\ toServer'[i].acknowledge = serverCommandSequence
              /\ toServer'[i].key = PacketKey
  PROVE  ClientInv'
<1>1. \A n \in 0..serverCommandSequence : n \in 0..reliableSent
  BY BaseFacts
<1>2. \A n \in 0..serverCommandSequence : Queued(n)' = Queued(n)
  BY <1>1, QueuedStays
<1>3. ASSUME NEW n \in 0..serverCommandSequence', serverCommandSequence' - n < WindowSize
      PROVE  serverCommands'[Slot(n)] = Queued(n).cmd
  BY <1>3 DEF ClientInv
<1>4. ASSUME NEW i \in 1..Len(toServer')
      PROVE  \E a \in 0..serverCommandSequence :
               toServer'[i].acknowledge = a /\ toServer'[i].key = Queued(a).cmd
  <2>1. CASE \E k \in 1..Len(toServer) : toServer'[i] = toServer[k]
    <3>1. PICK k \in 1..Len(toServer) : toServer'[i] = toServer[k]
      BY <2>1
    <3>2. toServer[k].acknowledge \in 0..serverCommandSequence
      <4>1. toServer[k] \in Packet /\ PacketsOrdered
        BY BaseFacts
      <4>2. toServer[k].acknowledge \in Nat
        BY <4>1 DEF Packet
      <4>3. toServer[k].acknowledge <= serverCommandSequence
        BY <4>1 DEF PacketsOrdered
      <4>. QED BY <4>2, <4>3, BaseFacts
    <3>. QED BY <3>1, <3>2 DEF ClientInv
  <2>2. CASE /\ toServer'[i].acknowledge = serverCommandSequence
             /\ toServer'[i].key = PacketKey
    <3>1. serverCommandSequence \in 0..serverCommandSequence
          /\ serverCommandSequence - serverCommandSequence < WindowSize
      BY BaseFacts, Sizes
    <3>2. PacketKey = Queued(serverCommandSequence).cmd
      BY <3>1 DEF ClientInv, PacketKey
    <3>. QED BY <2>2, <3>1, <3>2
  <2>. QED BY <2>1, <2>2
<1>5. ASSUME NEW i \in 1..Len(toServer')
      PROVE  toServer'[i].key =
               (IF toServer'[i].acknowledge = 0 THEN Command(NoCommand, "ignorable")
                ELSE log'[toServer'[i].acknowledge]).cmd
  <2>1. PICK a \in 0..serverCommandSequence :
          toServer'[i].acknowledge = a /\ toServer'[i].key = Queued(a).cmd
    BY <1>4
  <2>2. Queued(a)' = Queued(a)
    BY <1>2
  <2>. QED BY <2>1, <2>2 DEF Queued
<1>6. ASSUME NEW n \in 0..serverCommandSequence', serverCommandSequence' - n < WindowSize
      PROVE  serverCommands'[Slot(n)] = Queued(n)'.cmd
  <2>1. Queued(n)' = Queued(n)
    BY <1>2
  <2>. QED BY <1>3, <1>6, <2>1
<1>7. ASSUME NEW n \in 0..serverCommandSequence', serverCommandSequence' - n < WindowSize
      PROVE  serverCommands'[Slot(n)] =
               (IF n = 0 THEN Command(NoCommand, "ignorable") ELSE log'[n]).cmd
  BY <1>6, <1>7 DEF Queued
<1>. QED BY <1>5, <1>7 DEF ClientInv, Queued

LEMMA ServerInvParts ==
  ServerInv <=> Base /\ RingInv /\ MessagesInv /\ ClientInv
BY DEF ServerInv, Base

\* In the window, what is stored, sent and under way stays.
LEMMA SameUnderWay ==
  ASSUME ServerInv, SentStays, UNCHANGED <<clientVars, toClient, toServer>>
  PROVE  MessagesInv' /\ ClientInv'
<1>1. /\ serverCommandSequence' = serverCommandSequence
      /\ serverCommands' = serverCommands
      /\ toClient' = toClient /\ toServer' = toServer
  BY DEF clientVars
<1>2. Base /\ MessagesInv /\ ClientInv
  BY DEF ServerInv, Base
<1>3. serverCommandSequence' \in Nat /\ serverCommandSequence <= serverCommandSequence'
  BY <1>1, <1>2, BaseFacts
<1>4. MessagesInv'
  <2>1. \A i \in 1..Len(toClient') : \E k \in 1..Len(toClient) : toClient'[i] = toClient[k]
    BY <1>1
  <2>. QED BY <1>2, <1>3, <2>1, MessagesStay
<1>5. ClientInv'
  <2>1. \A i \in 1..Len(toServer') : \E k \in 1..Len(toServer) : toServer'[i] = toServer[k]
    BY <1>1
  <2>. QED BY <1>1, <1>2, <2>1, ClientStays
<1>. QED BY <1>4, <1>5

\* The ring of a client that is not being dropped.
LEMMA InGame ==
  ASSUME ServerInv, state # "zombie"
  PROVE  /\ Base /\ Believes /\ ~ dropReason
         /\ reliableSequence - reliableAcknowledge < WindowSize
<1>1. Base /\ RingInv
  BY DEF ServerInv, Base
<1>2. ~ dropReason /\ (Believes \/ GaveUp)
  BY <1>1, BaseFacts, RingParts
<1>. QED BY <1>1, <1>2 DEF Believes, GaveUp

\* One command more in the window.
LEMMA OneMore ==
  ASSUME NEW a \in Nat, NEW b \in Nat, NEW c \in Nat, NEW w \in Nat, b <= a + 1
  PROVE  /\ a - c < w => b - c <= w
         /\ a - c < w - 1 => b - c < w /\ b - c # w + 1
OBVIOUS

LEMMA AddInv ==
  ASSUME Backlog < WindowSize, ServerInv, NEW c \in Texts, NEW t \in Types,
         AddServerCommand(c, t)
  PROVE  ServerInv'
<1>1. /\ Add(c, t) /\ reliableSequence - reliableSent <= WindowSize
      /\ reliableSequence - reliableAcknowledge < Backlog
      /\ state # "zombie" /\ state' = state
      /\ UNCHANGED <<reliableAcknowledge, clientVars, toClient, toServer>>
  BY DEF AddServerCommand
<1>2. Base /\ Believes /\ ~ dropReason
  BY <1>1, InGame
<1>3. Base' /\ SentStays
  BY <1>2, AddBase
<1>4. /\ reliableSequence \in Nat /\ reliableAcknowledge \in Nat
      /\ reliableSequence - reliableAcknowledge < WindowSize - 1
  BY <1>1, <1>2, BaseFacts, Sizes
<1>5. /\ reliableSequence' \in Nat /\ reliableSequence' <= reliableSequence + 1
      /\ Len(log') = reliableSequence'
      /\ \A low \in Nat :
           reliableSequence - low < WindowSize /\ Holds(reliableCommandInfo, log, low)
             => Holds(reliableCommandInfo', log', low)
  BY <1>1, <1>2, BaseFacts, AddFacts DEF Base
<1>6. /\ reliableSequence' - reliableAcknowledge < WindowSize
      /\ reliableSequence' - reliableAcknowledge <= WindowSize
      /\ reliableSequence' - reliableAcknowledge # WindowSize + 1
      /\ reliableSequence - reliableAcknowledge < WindowSize
  <2>1. WindowSize \in Nat
    BY Sizes
  <2>2. /\ reliableSequence' - reliableAcknowledge < WindowSize
        /\ reliableSequence' - reliableAcknowledge # WindowSize + 1
    BY <1>4, <1>5, <2>1, OneMore
  <2>3. reliableSequence - reliableAcknowledge < WindowSize
    BY <1>4, <2>1
  <2>4. reliableSequence' - reliableAcknowledge <= WindowSize
    BY <1>4, <1>5, <2>1, <2>3, OneMore
  <2>. QED BY <2>2, <2>3, <2>4
<1>7. ~ dropReason'
  <2>1. dropReason' = (dropReason \/ Overflows(reliableSequence'))
    BY <1>1 DEF Add
  <2>2. ~ Overflows(reliableSequence')
    BY <1>1, <1>6 DEF Overflows
  <2>. QED BY <1>2, <2>1, <2>2
<1>8. Holds(reliableCommandInfo', log', reliableAcknowledge)
  <2>1. Holds(reliableCommandInfo, log, reliableAcknowledge)
    BY <1>2 DEF Believes
  <2>. QED BY <1>4, <1>5, <1>6, <2>1
<1>9. Believes'
  <2>1. reliableSequence' - reliableAcknowledge <= WindowSize
    BY <1>6
  <2>2. Holds(reliableCommandInfo', log', reliableAcknowledge')
    BY <1>1, <1>8 DEF Holds
  <2>. QED BY <1>1, <1>2, <1>6, <2>1, <2>2 DEF Believes, clientVars
<1>10. RingInv'
  BY <1>5, <1>7, <1>9, RingPartsNext
<1>11. MessagesInv' /\ ClientInv'
  BY <1>1, <1>3, SameUnderWay
<1>. QED BY <1>3, <1>10, <1>11 DEF ServerInv, Base

LEMMA DropClientInv ==
  ASSUME ServerInv, DropClient
  PROVE  ServerInv'
<1>1. /\ state # "zombie" /\ state' = "zombie" /\ dropReason' = FALSE
      /\ UNCHANGED <<reliableAcknowledge, clientVars, toClient, toServer>>
  BY DEF DropClient
<1>2. /\ Base /\ Believes
      /\ reliableSequence - reliableAcknowledge < WindowSize
      /\ reliableSequence \in Nat /\ reliableAcknowledge \in Nat
  BY <1>1, InGame, BaseFacts
<1>3. Base' /\ SentStays
  BY <1>2, DropClientBase
<1>4. /\ reliableSequence' \in Nat /\ reliableSequence' <= reliableSequence + 1
      /\ Len(log') = reliableSequence'
      /\ \A low \in Nat :
           reliableSequence - low < WindowSize /\ Holds(reliableCommandInfo, log, low)
             => Holds(reliableCommandInfo', log', low)
  BY <1>2, DropClientFacts
<1>5. Holds(reliableCommandInfo', log', reliableAcknowledge)
  BY <1>2, <1>4 DEF Believes
<1>6. Believes'
  <2>1. reliableSequence' - reliableAcknowledge <= WindowSize
    <3>1. WindowSize \in Nat
      BY Sizes
    <3>. QED BY <1>2, <1>4, <3>1, OneMore
  <2>2. Holds(reliableCommandInfo', log', reliableAcknowledge')
    BY <1>1, <1>5 DEF Holds
  <2>. QED BY <1>1, <1>2, <2>1, <2>2 DEF Believes, clientVars
<1>7. RingInv'
  BY <1>1, <1>4, <1>6, RingPartsNext
<1>8. MessagesInv' /\ ClientInv'
  BY <1>1, <1>3, SameUnderWay
<1>. QED BY <1>3, <1>7, <1>8 DEF ServerInv, Base

LEMMA SpawnServerInv ==
  ASSUME ServerInv, SpawnServer
  PROVE  ServerInv'
<1>1. /\ state # "zombie" /\ dropReason' = dropReason
      /\ UNCHANGED <<reliableSequence, reliableAcknowledge, reliableCommandInfo,
                     log, clientVars, toClient, toServer>>
  BY DEF SpawnServer
<1>2. /\ Base /\ Believes /\ ~ dropReason
      /\ reliableSequence - reliableAcknowledge < WindowSize
  BY <1>1, InGame
<1>3. Base' /\ SentStays
  BY <1>2, SpawnServerBase
<1>4. Believes'
  BY <1>1, <1>2 DEF Believes, Holds, clientVars
<1>5. RingInv'
  <2>1. Len(log') = reliableSequence'
    BY <1>1, <1>2, BaseFacts
  <2>. QED BY <1>1, <1>2, <1>4, <2>1, RingPartsNext
<1>6. MessagesInv' /\ ClientInv'
  BY <1>1, <1>3, SameUnderWay
<1>. QED BY <1>3, <1>5, <1>6 DEF ServerInv, Base

\* A message to the client, from number a on.
LEMMA SendInv ==
  ASSUME ServerInv, Base', SentStays,
         NEW m, toClient' = Send(toClient, m), MessageOk(m)',
         UNCHANGED <<reliableSequence, reliableAcknowledge, reliableCommandInfo,
                     log, state, toServer, clientVars>>, ~ dropReason'
  PROVE  ServerInv'
<1>1. /\ serverCommandSequence' = serverCommandSequence
      /\ serverCommands' = serverCommands /\ toServer' = toServer
  BY DEF clientVars
<1>2. Base /\ RingInv /\ MessagesInv /\ ClientInv
  BY DEF ServerInv, Base
<1>3. /\ serverCommandSequence' \in Nat
      /\ serverCommandSequence <= serverCommandSequence'
  BY <1>1, <1>2, BaseFacts
<1>4. \A i \in 1..Len(toServer') : \E k \in 1..Len(toServer) : toServer'[i] = toServer[k]
  BY <1>1
<1>5. RingInv'
  BY <1>2, <1>3, <1>4, RingStays
<1>6. ClientInv'
  BY <1>1, <1>2, <1>4, ClientStays
<1>7. MessagesInv'
  <2>1. \A i \in 1..Len(toClient') :
          (\E k \in 1..Len(toClient) : toClient'[i] = toClient[k]) \/ toClient'[i] = m
    <3> DEFINE S == Range(toClient) \cup {m}
    <3>1. toClient \in Seq(S) /\ m \in S
      <4>1. Range(toClient) \subseteq S /\ toClient \in Seq(Range(toClient))
        BY <1>2, BaseFacts DEF MessagesTyped
      <4>. QED BY <4>1, SeqGrows
    <3> HIDE DEF S
    <3>2. \E d \in {0, 1} : \A i \in 1..Len(toClient') :
            \/ /\ i + d \in 1..Len(toClient) /\ toClient'[i] = toClient[i + d]
               /\ i < Len(toClient')
            \/ i = Len(toClient') /\ toClient'[i] = m
      BY <3>1, SendFacts
    <3>. QED BY <3>2
  <2>2. \A i \in 1..Len(toClient') :
          \/ \E k \in 1..Len(toClient) : toClient'[i] = toClient[k]
          \/ \E n : toClient'[i] = n /\ MessageOk(n)'
    BY <2>1
  <2>. QED BY <1>2, <1>3, <2>2, MessagesStay
<1>. QED BY <1>5, <1>6, <1>7 DEF ServerInv, Base

LEMMA KeepAliveInv ==
  ASSUME ServerInv, SendKeepAlive
  PROVE  ServerInv'
<1>1. Base /\ RingInv
  BY DEF ServerInv, Base
<1>2. Base' /\ SentStays
  BY <1>1, KeepAliveBase
<1>3. ~ dropReason
  BY <1>1 DEF RingInv
<1>4. PICK m : m = [commands |-> << >>, gameState |-> {}]
  OBVIOUS
<1>5. /\ toClient' = Send(toClient, m) /\ CarryOutDrop(state)
      /\ UNCHANGED <<reliableAcknowledge, clientVars, toServer>>
  BY <1>4 DEF SendKeepAlive, SendMessage
<1>6. /\ state' = state /\ ~ dropReason'
      /\ UNCHANGED <<reliableSequence, reliableCommandInfo, log>>
  BY <1>3, <1>5 DEF CarryOutDrop
<1>7. MessageOk(m)'
  <2>1. DOMAIN m.commands = {} /\ m.gameState = {}
    BY <1>4
  <2>. QED BY <2>1 DEF MessageOk
<1>. QED BY <1>2, <1>5, <1>6, <1>7, SendInv

LEMMA SnapshotInv ==
  ASSUME ServerInv, NEW last \in Nat, last <= reliableSequence, SendSnapshotUpTo(last)
  PROVE  ServerInv'
<1>1. Base /\ RingInv
  BY DEF ServerInv, Base
<1>2. Base' /\ SentStays
  BY <1>1, SnapshotBase
<1>3. ~ dropReason /\ (Believes \/ GaveUp)
  BY <1>1, BaseFacts, RingParts
<1>4. PICK m : m = [commands |-> Unacknowledged(reliableAcknowledge, last),
                    gameState |-> {}]
  OBVIOUS
<1>5. /\ toClient' = Send(toClient, m) /\ CarryOutDrop(state)
      /\ UNCHANGED <<reliableAcknowledge, clientVars, toServer>>
  BY <1>4 DEF SendSnapshotUpTo, SendMessage
<1>6. /\ state' = state /\ ~ dropReason'
      /\ UNCHANGED <<reliableSequence, reliableCommandInfo, log>>
  BY <1>3, <1>5 DEF CarryOutDrop
<1>7. MessageOk(m)'
  <2>1. m.commands = Unacknowledged(reliableAcknowledge, last) /\ m.gameState = {}
    BY <1>4
  <2>2. reliableAcknowledge \in Nat /\ serverCommandSequence' = serverCommandSequence
    BY <1>1, <1>5, BaseFacts DEF clientVars
  <2>3. CASE Believes
    <3>1. /\ reliableAcknowledge <= serverCommandSequence
          /\ reliableSequence - reliableAcknowledge <= WindowSize
          /\ Holds(reliableCommandInfo, log, reliableAcknowledge)
          /\ \A g \in m.gameState : g.sequence = last
      BY <2>1, <2>3 DEF Believes
    <3>. QED BY <1>1, <1>6, <2>1, <2>2, <3>1, MessageOfRing
  <2>4. CASE GaveUp
    <3>1. reliableAcknowledge >= last
      BY <1>1, <2>4, BaseFacts DEF GaveUp
    <3>. QED BY <1>1, <1>6, <2>1, <2>2, <3>1, MessageOfRing
  <2>. QED BY <1>3, <2>3, <2>4
<1>. QED BY <1>2, <1>5, <1>6, <1>7, SendInv

LEMMA HoldsLess ==
  ASSUME NEW ring, NEW entries, Len(entries) \in Nat, NEW a \in Nat, NEW b \in Nat,
         a <= b, Holds(ring, entries, a)
  PROVE  Holds(ring, entries, b)
<1>1. ASSUME NEW n \in 0..Len(entries), b <= n PROVE a <= n
  BY <1>1
<1>. QED BY <1>1 DEF Holds

\* What a packet does to the server.
LEMMA ReceivePacketInv ==
  ASSUME ServerInv, ReceivePacket
  PROVE  ServerInv'
<1>1. PICK i \in 1..Len(toServer) :
        /\ toServer' = SubSeq(toServer, i + 1, Len(toServer))
        /\ reliableAcknowledge' = IF WithinWindow(toServer[i])
                                  THEN toServer[i].acknowledge ELSE reliableSequence
        /\ \/ /\ WithinWindow(toServer[i]) /\ state # "zombie"
              /\ ExecuteClientMessage(toServer[i])
           \/ UNCHANGED <<state, reliableSequence, reliableSent,
                          reliableCommandInfo, dropReason, log, toClient>>
        /\ UNCHANGED <<sv_serverId_value, clientVars, cgameVars>>
  BY DEF ReceivePacket
<1>2. PICK p : p = toServer[i]
  OBVIOUS
<1>3. Base /\ RingInv /\ MessagesInv /\ ClientInv
  BY DEF ServerInv, Base
<1>4. ~ dropReason /\ (Believes \/ GaveUp)
  BY <1>3, BaseFacts, RingParts
<1>5. Base' /\ SentStays
  BY <1>3, ReceivePacketBase
<1>6. /\ serverCommandSequence' = serverCommandSequence
      /\ serverCommands' = serverCommands
  BY <1>1 DEF clientVars
<1>7. /\ p.acknowledge \in Nat /\ p.acknowledge <= serverCommandSequence
      /\ p.acknowledge <= reliableSequence
  <2>1. p \in Packet /\ PacketsOrdered
    BY <1>2, <1>3, BaseFacts
  <2>2. p.acknowledge \in Nat
    BY <2>1 DEF Packet
  <2>3. p.acknowledge <= serverCommandSequence
    BY <1>2, <2>1 DEF PacketsOrdered
  <2>. QED BY <1>3, <2>2, <2>3, BaseFacts
<1>8. ASSUME NEW j \in 1..Len(toServer')
      PROVE  /\ \E k \in 1..Len(toServer) : toServer'[j] = toServer[k]
             /\ p.acknowledge <= toServer'[j].acknowledge
  <2>1. /\ Len(toServer') = Len(toServer) - i /\ Len(toServer) \in Nat
        /\ \A k \in 1..Len(toServer) - i : toServer'[k] = toServer[k + i]
    <3>1. toServer \in Seq(Packet)
      BY <1>3, BaseFacts
    <3>2. /\ Len(SubSeq(toServer, i + 1, Len(toServer))) = Len(toServer) - i
          /\ \A k \in 1..Len(toServer) - i :
               SubSeq(toServer, i + 1, Len(toServer))[k] = toServer[k + i]
      BY <3>1, RestFacts
    <3>3. Len(toServer) \in Nat
      BY <3>1
    <3>. QED BY <1>1, <3>2, <3>3
  <2>2. /\ toServer'[j] = toServer[j + i] /\ j + i \in 1..Len(toServer)
        /\ i \in 1..j + i
    BY <2>1
  <2>3. PacketsOrdered
    BY <1>3, BaseFacts
  <2>4. toServer[i].acknowledge <= toServer[j + i].acknowledge
    BY <2>2, <2>3 DEF PacketsOrdered
  <2>. QED BY <1>2, <2>2, <2>4
<1>9. /\ reliableSequence' = reliableSequence
      /\ reliableCommandInfo' = reliableCommandInfo /\ log' = log
      /\ ~ dropReason'
  <2>1. CASE SendGameState(p.acknowledge)
    BY <1>4, <2>1 DEF SendGameState, SendMessage, CarryOutDrop
  <2>. QED BY <1>1, <1>2, <1>4, <2>1 DEF ExecuteClientMessage
<1>10. Len(log') = reliableSequence'
  BY <1>5, <1>3, <1>9, BaseFacts
<1>11. /\ reliableSequence \in Nat /\ reliableAcknowledge \in Nat
       /\ WindowSize \in Nat /\ Len(log) = reliableSequence
  BY <1>3, BaseFacts, Sizes
<1>12. Believes => /\ reliableAcknowledge <= p.acknowledge
                   /\ reliableSequence - p.acknowledge <= WindowSize
                   /\ Holds(reliableCommandInfo, log, p.acknowledge)
  <2>1. SUFFICES ASSUME Believes
                 PROVE  /\ reliableAcknowledge <= p.acknowledge
                        /\ reliableSequence - p.acknowledge <= WindowSize
                        /\ Holds(reliableCommandInfo, log, p.acknowledge)
    OBVIOUS
  <2>2. /\ reliableAcknowledge <= p.acknowledge
        /\ reliableSequence - reliableAcknowledge <= WindowSize
        /\ Holds(reliableCommandInfo, log, reliableAcknowledge)
    BY <1>2, <2>1 DEF Believes
  <2>3. reliableSequence - p.acknowledge <= WindowSize
    BY <1>7, <1>11, <2>2
  <2>4. Holds(reliableCommandInfo, log, p.acknowledge)
    BY <1>7, <1>11, <2>2, HoldsLess
  <2>. QED BY <2>2, <2>3, <2>4
<1>13. CASE WithinWindow(p)
  <2>1. reliableAcknowledge' = p.acknowledge
    BY <1>1, <1>2, <1>13
  <2>2. /\ reliableSequence - p.acknowledge < WindowSize
        /\ reliableSequence - p.acknowledge <= WindowSize
    BY <1>11, <1>13 DEF WithinWindow
  <2>3. Holds(reliableCommandInfo, log, p.acknowledge)
    <3>1. CASE GaveUp
      <4>1. Holds(reliableCommandInfo, log, 0)
        BY <3>1 DEF GaveUp
      <4>2. 0 \in Nat /\ 0 <= p.acknowledge
        BY <1>7
      <4>. QED BY <1>7, <1>11, <4>1, <4>2, HoldsLess
    <3>. QED BY <1>4, <1>12, <3>1
  <2>4. Holds(reliableCommandInfo', log', reliableAcknowledge')
    BY <1>9, <2>1, <2>3
  <2>5. Believes'
    BY <1>6, <1>7, <1>8, <1>9, <2>1, <2>2, <2>4 DEF Believes
  <2>6. RingInv'
    BY <1>9, <1>10, <2>5, RingPartsNext
  <2>7. MessagesInv'
    <3>1. /\ serverCommandSequence' \in Nat
          /\ serverCommandSequence <= serverCommandSequence'
      BY <1>3, <1>6, BaseFacts
    <3>2. CASE toClient' = toClient
      <4>1. \A k \in 1..Len(toClient') : \E j \in 1..Len(toClient) :
              toClient'[k] = toClient[j]
        BY <3>2
      <4>. QED BY <1>3, <1>5, <3>1, <4>1, MessagesStay
    <3>3. CASE state # "zombie" /\ SendGameState(p.acknowledge)
      <4>1. PICK m : m = [commands |-> Unacknowledged(p.acknowledge, reliableSequence),
                          gameState |-> {[serverId |-> sv_serverId_value,
                                          sequence |-> reliableSequence]}]
        OBVIOUS
      <4>2. toClient' = Send(toClient, m)
        BY <3>3, <4>1 DEF SendGameState, SendMessage
      <4>3. /\ m.commands = Unacknowledged(p.acknowledge, reliableSequence)
            /\ \A g \in m.gameState : g.sequence = reliableSequence
        BY <4>1
      <4>4. Believes
        BY <1>4, <3>3 DEF GaveUp
      <4>5. reliableSequence <= reliableSequence
        BY <1>11
      <4>6. MessageOk(m)'
        BY <1>3, <1>6, <1>7, <1>9, <1>11, <1>12, <4>3, <4>4, <4>5, MessageOfRing
      <4>7. \A k \in 1..Len(toClient') :
              (\E j \in 1..Len(toClient) : toClient'[k] = toClient[j])
              \/ toClient'[k] = m
        <5> DEFINE S == Range(toClient) \cup {m}
        <5>1. toClient \in Seq(S) /\ m \in S
          <6>1. Range(toClient) \subseteq S /\ toClient \in Seq(Range(toClient))
            BY <1>3, BaseFacts DEF MessagesTyped
          <6>. QED BY <6>1, SeqGrows
        <5> HIDE DEF S
        <5>2. \E d \in {0, 1} : \A k \in 1..Len(toClient') :
                \/ /\ k + d \in 1..Len(toClient) /\ toClient'[k] = toClient[k + d]
                   /\ k < Len(toClient')
                \/ k = Len(toClient') /\ toClient'[k] = m
          BY <4>2, <5>1, SendFacts
        <5>. QED BY <5>2
      <4>8. \A k \in 1..Len(toClient') :
              \/ \E j \in 1..Len(toClient) : toClient'[k] = toClient[j]
              \/ \E n : toClient'[k] = n /\ MessageOk(n)'
        BY <4>6, <4>7
      <4>. QED BY <1>3, <1>5, <3>1, <4>8, MessagesStay
    <3>. QED BY <1>1, <1>2, <3>2, <3>3 DEF ExecuteClientMessage
  <2>8. ClientInv'
    BY <1>3, <1>5, <1>6, <1>8, ClientStays
  <2>. QED BY <1>5, <2>6, <2>7, <2>8 DEF ServerInv, Base
<1>14. CASE ~ WithinWindow(p)
  <2>1. /\ reliableAcknowledge' = reliableSequence
        /\ state' = state /\ toClient' = toClient
    BY <1>1, <1>2, <1>14
  <2>2. reliableSequence - p.acknowledge >= WindowSize
    BY <1>7, <1>11, <1>14 DEF WithinWindow
  <2>3. state = "zombie" /\ Holds(reliableCommandInfo, log, 0)
    <3>1. CASE GaveUp
      BY <3>1 DEF GaveUp
    <3>2. CASE Believes
      <4>1. /\ reliableAcknowledge <= p.acknowledge
            /\ Holds(reliableCommandInfo, log, p.acknowledge)
            /\ reliableSequence - p.acknowledge <= WindowSize
        BY <1>12, <3>2
      <4>2. ~ (reliableSequence - reliableAcknowledge < WindowSize)
        BY <1>7, <1>11, <2>2, <4>1
      <4>3. state = "zombie"
        BY <3>2, <4>2 DEF Believes
      <4>4. ASSUME NEW n \in 0..Len(log), Len(log) - n < WindowSize
            PROVE  p.acknowledge <= n
        BY <1>7, <1>11, <2>2, <4>1, <4>4
      <4>5. Holds(reliableCommandInfo, log, 0)
        BY <4>1, <4>4 DEF Holds
      <4>. QED BY <4>3, <4>5
    <3>. QED BY <1>4, <3>1, <3>2
  <2>4. GaveUp'
    BY <1>9, <2>1, <2>3 DEF GaveUp
  <2>5. RingInv'
    BY <1>9, <1>10, <2>4, RingPartsNext
  <2>6. MessagesInv'
    <3>1. /\ serverCommandSequence' \in Nat
          /\ serverCommandSequence <= serverCommandSequence'
      BY <1>3, <1>6, BaseFacts
    <3>2. \A k \in 1..Len(toClient') : \E j \in 1..Len(toClient) :
            toClient'[k] = toClient[j]
      BY <2>1
    <3>. QED BY <1>3, <1>5, <3>1, <3>2, MessagesStay
  <2>7. ClientInv'
    BY <1>3, <1>5, <1>6, <1>8, ClientStays
  <2>. QED BY <1>5, <2>5, <2>6, <2>7 DEF ServerInv, Base
<1>. QED BY <1>13, <1>14

LEMMA ReceiveMessageInv ==
  ASSUME ServerInv, ReceiveMessage
  PROVE  ServerInv'
<1>1. PICK i \in 1..Len(toClient) :
        LET m == toClient[i]
            new == {n \in DOMAIN m.commands : n > serverCommandSequence}
        IN  /\ toClient' = SubSeq(toClient, i + 1, Len(toClient))
            /\ serverCommandSequence' =
                 IF m.gameState = {} THEN Max(new \cup {serverCommandSequence})
                                     ELSE Max({g.sequence : g \in m.gameState})
            /\ serverCommands' =
                 [s \in Slots |-> LET here == {n \in new : Slot(n) = s}
                                  IN  IF here = {} THEN serverCommands[s]
                                                   ELSE m.commands[Max(here)]]
            /\ UNCHANGED <<serverVars, cgameVars, toServer>>
  BY DEF ReceiveMessage
<1>2. PICK m : m = toClient[i]
  OBVIOUS
<1>3. PICK new : /\ new = {n \in DOMAIN m.commands : n > serverCommandSequence}
                 /\ new = NewIn(m)
  BY DEF NewIn
<1>4. /\ toClient' = SubSeq(toClient, i + 1, Len(toClient))
      /\ serverCommandSequence' = LastIn(m)
      /\ serverCommands' =
           [s \in Slots |-> LET here == {n \in new : Slot(n) = s}
                            IN  IF here = {} THEN serverCommands[s]
                                             ELSE m.commands[Max(here)]]
      /\ UNCHANGED <<serverVars, cgameVars, toServer>>
  BY <1>1, <1>2, <1>3 DEF LastIn
<1>5. /\ Base /\ RingInv /\ MessagesInv /\ ClientInv
      /\ serverCommandSequence \in Nat /\ WindowSize \in Nat /\ reliableSent \in Nat
  BY BaseFacts, Sizes DEF ServerInv, Base
<1>6. Base' /\ SentStays
  BY <1>5, ReceiveMessageBase
<1>7. PICK next : next = LastIn(m)
  OBVIOUS
<1>8. /\ next \in Nat /\ serverCommandSequence <= next /\ next <= reliableSent
      /\ new \subseteq serverCommandSequence + 1..next
      /\ next = serverCommandSequence \/ next \in new
           \/ \E g \in m.gameState : next = g.sequence
  BY <1>2, <1>3, <1>5, <1>7, ReceiveFacts
<1>9. /\ UNCHANGED <<reliableSequence, reliableAcknowledge, reliableCommandInfo,
                     log, state>>
      /\ dropReason' = dropReason /\ toServer' = toServer
      /\ serverCommandSequence' = next
  BY <1>4, <1>7 DEF serverVars
<1>10. RingInv'
  <2>1. ~ dropReason'
    BY <1>5, <1>9 DEF RingInv
  <2>2. \A k \in 1..Len(toServer') : \E j \in 1..Len(toServer) : toServer'[k] = toServer[j]
    BY <1>9
  <2>. QED BY <1>5, <1>8, <1>9, <2>1, <2>2, RingStays
<1>11. MessagesInv'
  <2>1. \A k \in 1..Len(toClient') : \E j \in 1..Len(toClient) : toClient'[k] = toClient[j]
    <3>1. toClient \in Seq(Range(toClient))
      BY <1>5, BaseFacts DEF MessagesTyped
    <3>2. /\ Len(SubSeq(toClient, i + 1, Len(toClient))) = Len(toClient) - i
          /\ \A k \in 1..Len(toClient) - i :
               SubSeq(toClient, i + 1, Len(toClient))[k] = toClient[k + i]
      BY <3>1, RestFacts
    <3>3. \A k \in 1..Len(toClient) - i : k + i \in 1..Len(toClient)
      BY <3>1
    <3>. QED BY <1>4, <3>2, <3>3
  <2>. QED BY <1>5, <1>6, <1>8, <1>9, <2>1, MessagesStay
<1>12. /\ MessageOk(m) /\ IsMessage(m)
  BY <1>2, <1>5, BaseFacts, MessagesParts DEF MessagesTyped
<1>13. \A n : n \in new <=> n \in serverCommandSequence + 1..next
  <2>1. serverCommandSequence + 1..next \subseteq DOMAIN m.commands
    <3>1. CASE next = serverCommandSequence
      BY <1>5, <3>1
    <3>2. CASE next \in new
      BY <1>3, <1>12, <3>2 DEF MessageOk
    <3>3. CASE \E g \in m.gameState : next = g.sequence
      BY <1>12, <3>3 DEF MessageOk
    <3>. QED BY <1>8, <3>1, <3>2, <3>3
  <2>2. ASSUME NEW n \in serverCommandSequence + 1..next PROVE n \in new
    <3>1. n > serverCommandSequence
      BY <1>5, <1>8
    <3>. QED BY <1>3, <2>1, <3>1
  <2>. QED BY <1>8, <2>2
<1>14. ASSUME NEW n \in 0..next, next - n < WindowSize
       PROVE  serverCommands'[Slot(n)] = Queued(n).cmd
  <2>1. PICK here : here = {k \in new : Slot(k) = Slot(n)}
    OBVIOUS
  <2>2. Slot(n) \in Slots
    BY SlotFacts
  <2>3. serverCommands'[Slot(n)] =
          IF here = {} THEN serverCommands[Slot(n)] ELSE m.commands[Max(here)]
    BY <1>4, <2>1, <2>2
  <2>4. ASSUME NEW k \in here
        PROVE  k \in serverCommandSequence + 1..next /\ Slot(k) = Slot(n) /\ k <= n
    <3>1. k \in serverCommandSequence + 1..next /\ Slot(k) = Slot(n)
      BY <1>13, <2>1
    <3>2. CASE k > n
      <4>1. n \in Int /\ k \in Int /\ n < k /\ k - n < WindowSize
        BY <1>5, <1>8, <1>14, <3>1, <3>2
      <4>. QED BY <3>1, <4>1, SlotFacts
    <3>3. k \in Int /\ n \in Int
      BY <3>1
    <3>. QED BY <3>1, <3>2, <3>3
  <2>5. CASE n <= serverCommandSequence
    <3>1. here = {}
      <4>1. ASSUME NEW k \in here PROVE FALSE
        <5>1. k \in serverCommandSequence + 1..next /\ k <= n
          BY <2>4
        <5>. QED BY <1>5, <1>8, <2>5, <5>1
      <4>. QED BY <4>1
    <3>2. n \in 0..serverCommandSequence /\ serverCommandSequence - n < WindowSize
      BY <1>5, <1>8, <1>14, <2>5
    <3>3. serverCommands[Slot(n)] = Queued(n).cmd
      BY <1>5, <3>2 DEF ClientInv
    <3>. QED BY <2>3, <3>1, <3>3
  <2>6. CASE n > serverCommandSequence
    <3>1. n \in serverCommandSequence + 1..next /\ n # 0
      BY <1>5, <1>8, <2>6
    <3>2. n \in here
      BY <1>13, <2>1, <3>1
    <3>3. here \subseteq 0..reliableSent
      BY <1>5, <1>8, <2>4
    <3>4. Max(here) \in here /\ \A k \in here : k <= Max(here)
      BY <1>5, <3>2, <3>3, MaxFacts
    <3>5. Max(here) = n
      <4> DEFINE x == Max(here)
      <4>1. x \in 0..reliableSent /\ x <= n /\ n <= x
        BY <2>4, <3>2, <3>3, <3>4
      <4>2. n \in Int
        OBVIOUS
      <4> HIDE DEF x
      <4>3. x = n
        BY <1>5, <4>1, <4>2
      <4>. QED BY <4>3 DEF x
    <3>6. serverCommands'[Slot(n)] = m.commands[n]
      BY <2>3, <3>2, <3>5
    <3>7. n \in DOMAIN m.commands
      BY <1>3, <1>13, <3>1
    <3>. QED BY <1>12, <3>1, <3>6, <3>7 DEF MessageOk, Queued
  <2>7. n \in Int
    OBVIOUS
  <2>. QED BY <1>5, <2>5, <2>6, <2>7
<1>15. ClientInv'
  <2>1. log' = log
    BY <1>9
  <2>2. \A k \in 1..Len(toServer) : toServer[k].key = Queued(toServer[k].acknowledge).cmd
    BY <1>5 DEF ClientInv
  <2>. QED BY <1>9, <1>14, <2>1, <2>2 DEF ClientInv, Queued
<1>. QED BY <1>6, <1>10, <1>11, <1>15 DEF ServerInv, Base

LEMMA SendPacketInv ==
  ASSUME ServerInv, SendPacket
  PROVE  ServerInv'
<1>1. PICK p : p = [serverId |-> serverId, acknowledge |-> serverCommandSequence,
                    key |-> PacketKey]
  OBVIOUS
<1>2. /\ toServer' = Send(toServer, p)
      /\ UNCHANGED <<serverVars, clientVars, cgameVars, toClient>>
  BY <1>1 DEF SendPacket
<1>3. /\ UNCHANGED <<reliableSequence, reliableAcknowledge, reliableCommandInfo,
                     log, state>>
      /\ dropReason' = dropReason
      /\ serverCommandSequence' = serverCommandSequence
      /\ serverCommands' = serverCommands /\ toClient' = toClient
  BY <1>2 DEF serverVars, clientVars
<1>4. Base /\ RingInv /\ MessagesInv /\ ClientInv /\ ~ dropReason
  BY DEF ServerInv, Base, RingInv
<1>5. Base' /\ SentStays
  BY <1>4, SendPacketBase
<1>6. p.acknowledge = serverCommandSequence /\ p.key = PacketKey
  BY <1>1
<1>7. \A i \in 1..Len(toServer') :
        \/ \E k \in 1..Len(toServer) : toServer'[i] = toServer[k]
        \/ toServer'[i] = p
  <2> DEFINE S == Packet \cup {p}
  <2>1. toServer \in Seq(S) /\ p \in S
    <3>1. Packet \subseteq S /\ toServer \in Seq(Packet)
      BY <1>4, BaseFacts
    <3>. QED BY <3>1, SeqGrows
  <2> HIDE DEF S
  <2>2. \E d \in {0, 1} : \A k \in 1..Len(toServer') :
          \/ /\ k + d \in 1..Len(toServer) /\ toServer'[k] = toServer[k + d]
             /\ k < Len(toServer')
          \/ k = Len(toServer') /\ toServer'[k] = p
    BY <1>2, <2>1, SendFacts
  <2>. QED BY <2>2
<1>8. /\ serverCommandSequence' \in Nat
      /\ serverCommandSequence <= serverCommandSequence'
  BY <1>3, <1>4, BaseFacts
<1>9. RingInv'
  <2>1. \A i \in 1..Len(toServer') :
          \/ \E k \in 1..Len(toServer) : toServer'[i] = toServer[k]
          \/ toServer'[i].acknowledge = serverCommandSequence
    BY <1>6, <1>7
  <2>. QED BY <1>3, <1>4, <1>8, <2>1, RingStays
<1>10. ClientInv'
  <2>1. \A i \in 1..Len(toServer') :
          \/ \E k \in 1..Len(toServer) : toServer'[i] = toServer[k]
          \/ /\ toServer'[i].acknowledge = serverCommandSequence
             /\ toServer'[i].key = PacketKey
    BY <1>6, <1>7
  <2>. QED BY <1>3, <1>4, <1>5, <2>1, ClientStays
<1>11. MessagesInv'
  <2>1. \A i \in 1..Len(toClient') : \E k \in 1..Len(toClient) : toClient'[i] = toClient[k]
    BY <1>3
  <2>. QED BY <1>4, <1>5, <1>8, <2>1, MessagesStay
<1>. QED BY <1>5, <1>9, <1>10, <1>11 DEF ServerInv, Base

\* What executes, loses or repeats: the server and what the client stored stay.
LEMMA LessUnderWayInv ==
  ASSUME ServerInv, Base', SentStays, UNCHANGED <<serverVars, clientVars>>,
         \A i \in 1..Len(toServer') : \E k \in 1..Len(toServer) : toServer'[i] = toServer[k],
         \A i \in 1..Len(toClient') : \E k \in 1..Len(toClient) : toClient'[i] = toClient[k]
  PROVE  ServerInv'
<1>1. /\ UNCHANGED <<reliableSequence, reliableAcknowledge, reliableCommandInfo,
                     log, state>>
      /\ dropReason' = dropReason
      /\ serverCommandSequence' = serverCommandSequence
      /\ serverCommands' = serverCommands
  BY DEF serverVars, clientVars
<1>2. Base /\ RingInv /\ MessagesInv /\ ClientInv /\ ~ dropReason
  BY DEF ServerInv, Base, RingInv
<1>3. /\ serverCommandSequence' \in Nat
      /\ serverCommandSequence <= serverCommandSequence'
  BY <1>1, <1>2, BaseFacts
<1>4. RingInv'
  BY <1>1, <1>2, <1>3, RingStays
<1>5. ClientInv'
  BY <1>1, <1>2, ClientStays
<1>6. MessagesInv'
  BY <1>2, <1>3, MessagesStay
<1>. QED BY <1>4, <1>5, <1>6 DEF ServerInv, Base

LEMMA LossInv ==
  ASSUME ServerInv,
         ExecuteServerCommand \/ LoseMessage \/ LosePacket \/ UNCHANGED vars
  PROVE  ServerInv'
<1>1. Base
  BY DEF ServerInv, Base
<1>2. Base' /\ SentStays
  BY <1>1, ExecuteBase, LoseMessageBase, LosePacketBase, StutterBase
<1>3. /\ UNCHANGED <<serverVars, clientVars>>
      /\ \/ toServer' = toServer
         \/ toServer # << >> /\ toServer' = Tail(toServer)
      /\ \/ toClient' = toClient
         \/ toClient # << >> /\ toClient' = Tail(toClient)
  BY DEF ExecuteServerCommand, LoseMessage, LosePacket, vars
<1>4. \A i \in 1..Len(toServer') : \E k \in 1..Len(toServer) : toServer'[i] = toServer[k]
  <2>1. CASE toServer # << >> /\ toServer' = Tail(toServer)
    <3>1. toServer \in Seq(Packet)
      BY <1>1, BaseFacts
    <3>2. /\ Len(toServer') = Len(toServer) - 1 /\ Len(toServer) \in Nat
          /\ \A i \in 1..Len(toServer) - 1 : toServer'[i] = toServer[i + 1]
      BY <2>1, <3>1, TailIsRest
    <3>. QED BY <3>2
  <2>. QED BY <1>3, <2>1
<1>5. \A i \in 1..Len(toClient') : \E k \in 1..Len(toClient) : toClient'[i] = toClient[k]
  <2>1. CASE toClient # << >> /\ toClient' = Tail(toClient)
    <3>1. toClient \in Seq(Range(toClient))
      BY <1>1, BaseFacts DEF MessagesTyped
    <3>2. /\ Len(toClient') = Len(toClient) - 1 /\ Len(toClient) \in Nat
          /\ \A i \in 1..Len(toClient) - 1 : toClient'[i] = toClient[i + 1]
      BY <2>1, <3>1, TailIsRest
    <3>. QED BY <3>2
  <2>. QED BY <1>3, <2>1
<1>. QED BY <1>2, <1>3, <1>4, <1>5, LessUnderWayInv

LEMMA InitInv == Init => ServerInv
<1>1. SUFFICES ASSUME Init PROVE ServerInv
  OBVIOUS
<1>2. Base
  BY <1>1, InitBase
<1>3. /\ reliableSequence = 0 /\ reliableAcknowledge = 0 /\ serverCommandSequence = 0
      /\ ~ dropReason /\ Len(toClient) = 0 /\ Len(toServer) = 0
      /\ log = << >> /\ Len(log) = 0
      /\ reliableCommandInfo = [s \in Slots |-> Command(NoCommand, "ignorable")]
      /\ serverCommands = [s \in Slots |-> NoCommand]
  BY <1>1 DEF Init
<1>4. \A n \in 0..0 : n = 0 /\ Slot(n) \in Slots
  BY SlotFacts
<1>5. Holds(reliableCommandInfo, log, reliableAcknowledge)
  BY <1>3, <1>4 DEF Holds, Named
<1>6. Believes
  <2>1. 0 - 0 <= WindowSize /\ 0 - 0 < WindowSize
    BY Sizes
  <2>. QED BY <1>3, <1>5, <2>1 DEF Believes
<1>7. RingInv
  BY <1>3, <1>6, RingParts
<1>8. MessagesInv
  BY <1>3 DEF MessagesInv
<1>9. ClientInv
  <2>1. Command(NoCommand, "ignorable").cmd = NoCommand
    BY DEF Command
  <2>. QED BY <1>3, <1>4, <2>1 DEF ClientInv, Queued
<1>. QED BY <1>2, <1>7, <1>8, <1>9 DEF ServerInv, Base

LEMMA NextInv ==
  ASSUME Backlog < WindowSize, ServerInv, [Next]_vars
  PROVE  ServerInv'
<1>1. ASSUME NEW c \in IgnorableOf, AddServerCommand(c, "ignorable")
      PROVE  ServerInv'
  BY <1>1, IssuedFacts, AddInv
<1>2. ASSUME NEW c \in ReliableOf, AddServerCommand(c, "reliable")
      PROVE  ServerInv'
  BY <1>2, IssuedFacts, AddInv
<1>3. reliableSequence \in Nat /\ reliableAcknowledge \in Nat
  BY DEF ServerInv, TypeOK
<1>4. CASE SendSnapshot
  <2>1. reliableSequence <= reliableSequence /\ SendSnapshotUpTo(reliableSequence)
    BY <1>3, <1>4 DEF SendSnapshot
  <2>. QED BY <1>3, <2>1, SnapshotInv
<1>5. CASE SendOverflowedSnapshot
  <2>1. PICK last \in reliableAcknowledge..reliableSequence - 1 :
          SendSnapshotUpTo(last)
    BY <1>5 DEF SendOverflowedSnapshot
  <2>2. last \in Nat /\ last <= reliableSequence
    BY <1>3
  <2>. QED BY <2>1, <2>2, SnapshotInv
<1>. QED BY <1>1, <1>2, <1>4, <1>5, DropClientInv, SpawnServerInv, KeepAliveInv,
            ReceivePacketInv, ReceiveMessageInv, SendPacketInv, LossInv DEF Next

\* As long as the game leaves one slot of the window free, the server's ring,
\* the client's ring and everything under way agree with what was sent.
THEOREM Invariance ==
  ASSUME Backlog < WindowSize
  PROVE  Spec => []ServerInv
<1>1. Init => ServerInv
  BY InitInv
<1>2. ServerInv /\ [Next]_vars => ServerInv'
  BY NextInv
<1>. QED BY <1>1, <1>2, PTL DEF Spec

\* The ring still holds every command that may have to be sent again.
THEOREM WindowHeld ==
  ASSUME Backlog < WindowSize
  PROVE  Spec => []RingHoldsWindow
<1>1. ASSUME ServerInv PROVE RingHoldsWindow
  <2>1. Base /\ (Believes \/ GaveUp)
    BY <1>1, BaseFacts, RingParts DEF ServerInv, Base
  <2>2. /\ reliableSequence \in Nat /\ reliableAcknowledge \in Nat
        /\ WindowSize \in Nat /\ Len(log) = reliableSequence
    BY <2>1, BaseFacts, Sizes
  <2>3. ASSUME NEW n \in reliableAcknowledge + 1..reliableSequence
        PROVE  reliableCommandInfo[Slot(n)] = log[n]
    <3>1. n \in 0..Len(log) /\ n # 0 /\ reliableAcknowledge <= n
          /\ reliableAcknowledge # reliableSequence
      BY <2>2
    <3>2. Believes
      BY <2>1, <3>1 DEF GaveUp
    <3>3. Len(log) - n < WindowSize
      BY <2>2, <3>2 DEF Believes
    <3>. QED BY <3>1, <3>2, <3>3 DEF Believes, Holds, Named
  <2>. QED BY <2>2, <2>3 DEF RingHoldsWindow
<1>. QED BY <1>1, Invariance, PTL

\* Every message under way carries, under each number, the one command that was
\* ever sent under it.
THEOREM SameUnderEachNumber ==
  ASSUME Backlog < WindowSize
  PROVE  Spec => []MessagesAgree
<1>1. ASSUME ServerInv PROVE MessagesAgree
  <2>1. Base /\ MessagesInv
    BY <1>1 DEF ServerInv, Base
  <2>2. ASSUME NEW i \in 1..Len(toClient), NEW n \in DOMAIN toClient[i].commands
        PROVE  n <= reliableSent /\ toClient[i].commands[n] = log[n].cmd
    <3>1. PICK m : m = toClient[i]
      OBVIOUS
    <3>2. IsMessage(m) /\ n \in DOMAIN m.commands
      BY <2>1, <3>1, BaseFacts DEF MessagesTyped
    <3>3. n <= reliableSent
      BY <2>1, <3>2, BaseFacts, MessageFacts
    <3>. QED BY <2>1, <3>3 DEF MessagesInv
  <2>. QED BY <2>2 DEF MessagesAgree
<1>. QED BY <1>1, Invariance, PTL

\* The server takes no command for acknowledged that the client has not stored.
THEOREM NoneForgotten ==
  ASSUME Backlog < WindowSize
  PROVE  Spec => []NothingForgotten
<1>1. ASSUME ServerInv PROVE NothingForgotten
  BY <1>1, InGame DEF NothingForgotten, Believes
<1>. QED BY <1>1, Invariance, PTL

\* A packet the window check lets through is decoded with the command it was
\* encoded with.
THEOREM KeysFound ==
  ASSUME Backlog < WindowSize
  PROVE  Spec => []KeysAgree
<1>1. ASSUME ServerInv PROVE KeysAgree
  <2>1. Base /\ ClientInv /\ (Believes \/ GaveUp)
    BY <1>1, BaseFacts, RingParts DEF ServerInv, Base
  <2>2. ASSUME NEW i \in 1..Len(toServer), WithinWindow(toServer[i])
        PROVE  reliableCommandInfo[Slot(toServer[i].acknowledge)].cmd = toServer[i].key
    <3>1. PICK n : n = toServer[i].acknowledge
      OBVIOUS
    <3>2. /\ reliableSequence \in Nat /\ reliableAcknowledge \in Nat
          /\ WindowSize \in Nat /\ Len(log) = reliableSequence
          /\ serverCommandSequence \in Nat /\ serverCommandSequence <= reliableSequence
      BY <2>1, BaseFacts, Sizes
    <3>3. n \in Nat /\ n <= serverCommandSequence
      <4>1. toServer[i] \in Packet /\ PacketsOrdered
        BY <2>1, BaseFacts
      <4>2. n \in Nat
        BY <3>1, <4>1 DEF Packet
      <4>. QED BY <3>1, <4>1, <4>2 DEF PacketsOrdered
    <3>4. n \in 0..Len(log) /\ Len(log) - n < WindowSize
      BY <2>2, <3>1, <3>2, <3>3 DEF WithinWindow
    <3>5. reliableCommandInfo[Slot(n)] = Named(log, n)
      <4>1. CASE Believes
        <5>1. reliableAcknowledge <= n
          BY <3>1, <4>1 DEF Believes
        <5>. QED BY <3>4, <4>1, <5>1 DEF Believes, Holds
      <4>2. CASE GaveUp
        <5>1. 0 <= n
          BY <3>3
        <5>. QED BY <3>4, <4>2, <5>1 DEF GaveUp, Holds
      <4>. QED BY <2>1, <4>1, <4>2
    <3>. QED BY <2>1, <3>1, <3>5 DEF ClientInv, Queued, Named
  <2>. QED BY <2>2 DEF KeysAgree
<1>. QED BY <1>1, Invariance, PTL

\* The client executes under each number the command that was sent under it.
THEOREM Execution ==
  ASSUME Backlog < WindowSize
  PROVE  Spec => ExecutesWhatWasSent
<1>1. ServerInv /\ [Next]_vars =>
        [executedSequence' # executedSequence /\ ~cycledOut' =>
           serverCommands[Slot(executedSequence')] = log[executedSequence'].cmd]_vars
  <2>1. SUFFICES ASSUME ServerInv, Next, executedSequence' # executedSequence,
                        ~cycledOut'
                 PROVE  serverCommands[Slot(executedSequence')] =
                          log[executedSequence'].cmd
    BY DEF vars, cgameVars
  <2>2. ExecuteServerCommand
    <3>1. ExecuteServerCommand \/ UNCHANGED cgameVars
      BY <2>1 DEF Next, AddServerCommand, DropClient, SpawnServer, SendKeepAlive,
                  SendSnapshot, SendOverflowedSnapshot, SendSnapshotUpTo,
                  ReceivePacket, ReceiveMessage, SendPacket, LoseMessage, LosePacket
    <3>. QED BY <2>1, <3>1 DEF cgameVars
  <2>3. /\ executedSequence' = executedSequence + 1
        /\ executedSequence < serverCommandSequence
        /\ ~ Overwritten(executedSequence + 1)
    BY <2>1, <2>2 DEF ExecuteServerCommand
  <2>4. Base /\ ClientInv
    BY <2>1 DEF ServerInv, Base
  <2>5. /\ executedSequence \in Nat /\ serverCommandSequence \in Nat
        /\ WindowSize \in Nat
    BY <2>4, BaseFacts, Sizes
  <2>6. PICK n : n = executedSequence + 1
    OBVIOUS
  <2>7. /\ n \in 0..serverCommandSequence /\ n # 0
        /\ serverCommandSequence - n < WindowSize
    BY <2>3, <2>5, <2>6 DEF Overwritten
  <2>8. serverCommands[Slot(n)] = Queued(n).cmd
    BY <2>4, <2>7 DEF ClientInv
  <2>. QED BY <2>3, <2>6, <2>7, <2>8 DEF Queued
<1>. QED BY <1>1, Invariance, PTL DEF Spec, ExecutesWhatWasSent

=============================================================================
