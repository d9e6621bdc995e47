--------------------------- MODULE WrapArithmetic ---------------------------
(***************************************************************************)
(* Unsigned arithmetic modulo M, for the indices of the black box ring and *)
(* the uint32_t millisecond clocks: what % computes for sums and           *)
(* differences that leave the range 0 .. M - 1 by less than a lap.         *)
(***************************************************************************)
EXTENDS Integers, TLAPS

(* A value in range is its own remainder.                                  *)
LEMMA ModSmall ==
    ASSUME NEW n \in Nat \ {0}, NEW a \in 0 .. n - 1
    PROVE  a % n = a
BY SMT

(* One lap ahead: an index or a clock that ran off the end.                *)
LEMMA ModWrap ==
    ASSUME NEW n \in Nat \ {0}, NEW a \in n .. 2 * n - 1
    PROVE  a % n = a - n
BY SMT

(* One lap behind: an unsigned difference that went below zero.            *)
LEMMA ModNegative ==
    ASSUME NEW n \in Nat \ {0}, NEW a \in Int, a < 0, a >= -n
    PROVE  a % n = a + n
BY SMT

(* The unsigned difference of two readings of a clock.                     *)
LEMMA Difference ==
    ASSUME NEW M \in Nat \ {0}, NEW w \in 0 .. M - 1, NEW t \in 0 .. M - 1
    PROVE  /\ (w - t) % M = IF w >= t THEN w - t ELSE w - t + M
           /\ (w - t) % M \in 0 .. M - 1
<1> DEFINE a == w - t
<1>1. a \in Int /\ a < M /\ a >= -M
  OBVIOUS
<1>2. CASE a >= 0
  <2>1. a \in 0 .. M - 1
    BY <1>1, <1>2
  <2> HIDE DEF a
  <2>2. a % M = a
    BY <2>1, ModSmall
  <2> QED BY <1>2, <2>1, <2>2 DEF a
<1>3. CASE a < 0
  <2>1. a + M \in 0 .. M - 1
    BY <1>1, <1>3
  <2> HIDE DEF a
  <2>2. a % M = a + M
    BY <1>1, <1>3, ModNegative
  <2> QED BY <1>3, <2>1, <2>2 DEF a
<1> QED BY <1>1, <1>2, <1>3

(* A clock that goes on by at most a lap.                                  *)
LEMMA Later ==
    ASSUME NEW M \in Nat \ {0}, NEW w \in 0 .. M - 1, NEW d \in 0 .. M
    PROVE  /\ (w + d) % M = IF w + d < M THEN w + d ELSE w + d - M
           /\ (w + d) % M \in 0 .. M - 1
<1> DEFINE a == w + d
<1>1. a \in 0 .. 2 * M - 1
  OBVIOUS
<1>2. CASE a < M
  <2>1. a \in 0 .. M - 1
    BY <1>1, <1>2
  <2> HIDE DEF a
  <2>2. a % M = a
    BY <2>1, ModSmall
  <2> QED BY <1>2, <2>1, <2>2 DEF a
<1>3. CASE a >= M
  <2>1. a \in M .. 2 * M - 1 /\ a - M \in 0 .. M - 1
    BY <1>1, <1>3
  <2> HIDE DEF a
  <2>2. a % M = a - M
    BY <2>1, ModWrap
  <2> QED BY <1>3, <2>1, <2>2 DEF a
<1> QED BY <1>1, <1>2, <1>3

(* An age grows with the clock, until it would pass a lap.                 *)
LEMMA AgeGrows ==
    ASSUME NEW M \in Nat \ {0}, NEW w \in 0 .. M - 1, NEW t \in 0 .. M - 1,
           NEW d \in 0 .. M, ((w - t) % M) + d < M
    PROVE  (((w + d) % M) - t) % M = ((w - t) % M) + d
<1> DEFINE v == (w + d) % M
           a == (w - t) % M
<1>1. v = (IF w + d < M THEN w + d ELSE w + d - M) /\ v \in 0 .. M - 1
  BY Later
<1>2. a = IF w >= t THEN w - t ELSE w - t + M
  BY Difference
<1> HIDE DEF v
<1>3. (v - t) % M = IF v >= t THEN v - t ELSE v - t + M
  BY <1>1, Difference
<1> DEFINE b == (v - t) % M
<1>4. a + d < M
  OBVIOUS
<1> HIDE DEF a, b
<1>5. b = IF v >= t THEN v - t ELSE v - t + M
  BY <1>3 DEF b
<1>6. b = a + d
  BY <1>1, <1>2, <1>4, <1>5
<1> QED BY <1>6 DEF a, b, v

(* The age of one stamp when a later one was made.                         *)
LEMMA AgeThen ==
    ASSUME NEW M \in Nat \ {0}, NEW c \in 0 .. M - 1, NEW w \in 0 .. M - 1,
           NEW r \in 0 .. M - 1, (c - w) % M <= (c - r) % M
    PROVE  (w - r) % M = ((c - r) % M) - ((c - w) % M)
<1> DEFINE x == (c - w) % M
           y == (c - r) % M
           z == (w - r) % M
<1>1. x = IF c >= w THEN c - w ELSE c - w + M
  BY Difference
<1>2. y = IF c >= r THEN c - r ELSE c - r + M
  BY Difference
<1>3. z = IF w >= r THEN w - r ELSE w - r + M
  BY Difference
<1>4. x <= y
  OBVIOUS
<1> HIDE DEF x, y, z
<1>5. z = y - x
  BY <1>1, <1>2, <1>3, <1>4
<1> QED BY <1>5 DEF x, y, z
=============================================================================
