------------------------------- MODULE RingFacts -------------------------------
(* Arithmetic of rings: which numbers share a slot n % w, and moving a      *)
(* position around the ring.                                                *)
EXTENDS Integers, TLAPS

LEMMA QuotientAndSlot ==
  ASSUME NEW w \in Nat \ {0}, NEW n \in Int
  PROVE  \E q \in Int, r \in 0..w - 1 : n = (w * q) + r /\ n % w = r
<1>1. n % w \in 0..w - 1 /\ n \div w \in Int /\ n = (w * (n \div w)) + (n % w)
  OBVIOUS
<1>. QED BY <1>1

LEMMA SlotInRing ==
  ASSUME NEW w \in Nat \ {0}, NEW n \in Int
  PROVE  n % w \in 0..w - 1
OBVIOUS

LEMMA FirstLap ==
  ASSUME NEW w \in Nat \ {0}, NEW n \in 0..w - 1
  PROVE  n % w = n
OBVIOUS

LEMMA SmallMultiple ==
  ASSUME NEW w \in Nat \ {0}, NEW p \in Int, NEW q \in Int,
         (w * p) - (w * q) < w, (w * q) - (w * p) < w
  PROVE  p = q
<1>1. (w * p) - (w * q) = w * (p - q) /\ (w * q) - (w * p) = w * (q - p)
  OBVIOUS
<1>2. ASSUME NEW d \in Int, d >= 1 PROVE w * d >= w
  BY <1>2
<1>. QED BY <1>1, <1>2

\* Two numbers less than a lap apart have different slots.
LEMMA SlotsApart ==
  ASSUME NEW w \in Nat \ {0}, NEW a \in Int, NEW b \in Int, a < b, b - a < w
  PROVE  a % w # b % w
<1>1. SUFFICES ASSUME a % w = b % w PROVE FALSE
  OBVIOUS
<1>2. PICK p \in Int, r \in 0..w - 1 : a = (w * p) + r /\ a % w = r
  BY QuotientAndSlot
<1>3. PICK q \in Int, s \in 0..w - 1 : b = (w * q) + s /\ b % w = s
  BY QuotientAndSlot
<1>4. w * p \in Int /\ w * q \in Int
  OBVIOUS
<1>5. p = q
  BY <1>1, <1>2, <1>3, <1>4, SmallMultiple
<1>. QED BY <1>1, <1>2, <1>3, <1>5

\* Going on from a slot is going on from its number.
LEMMA SlotGoesOn ==
  ASSUME NEW w \in Nat \ {0}, NEW a \in Int, NEW b \in Int
  PROVE  ((a % w) + b) % w = (a + b) % w
<1>1. PICK p \in Int, r \in 0..w - 1 : a = (w * p) + r /\ a % w = r
  BY QuotientAndSlot
<1>2. PICK q \in Int, s \in 0..w - 1 : r + b = (w * q) + s /\ (r + b) % w = s
  <2>1. r + b \in Int
    BY <1>1
  <2>. QED BY <2>1, QuotientAndSlot
<1>3. PICK k \in Int, u \in 0..w - 1 : a + b = (w * k) + u /\ (a + b) % w = u
  <2>1. a + b \in Int
    OBVIOUS
  <2>. QED BY <2>1, QuotientAndSlot
<1>4. /\ w * p \in Int /\ w * q \in Int /\ w * k \in Int
      /\ w * (p + q) = (w * p) + (w * q)
  OBVIOUS
<1>5. p + q = k
  BY <1>1, <1>2, <1>3, <1>4, SmallMultiple
<1>. QED BY <1>1, <1>2, <1>3, <1>4, <1>5

=============================================================================
