---------------------------- MODULE CounterLemmas ----------------------------
(***************************************************************************)
(* Arithmetic of the sequence number and of smallest elements, for the     *)
(* proofs about the sensor and about the gateway.                          *)
(***************************************************************************)
EXTENDS Messages, TLAPS, WellFoundedInduction

(* Multiplication respects the order.                                      *)
LEMMA Mono == \A a, b, c \in Nat : a <= b => a * c <= b * c
  OBVIOUS

(* A word has room for more than one block.                                *)
LEMMA HalfSquare == HALF * HALF \in Nat /\ HALF < HALF * HALF
  <1>1. \A a \in Nat : a > 1 => a * a \in Nat /\ a < a * a
    OBVIOUS
  <1> QED BY <1>1, HalfAssumption

LEMMA ZeroWord == 0 \in Word /\ 0 \in 0 .. HALF - 1
  <1>1. HALF * HALF - 1 \in Nat
    BY HalfSquare, HalfAssumption
  <1> QED BY <1>1, HalfAssumption DEF Word

(* A number is its block and its place in the block.                       *)
LEMMA DivMod == \A x \in Nat : /\ x % HALF \in 0 .. HALF - 1
                               /\ x \div HALF \in Nat
                               /\ x = HALF * (x \div HALF) + (x % HALF)
  BY HalfAssumption

(* The block of a boot starts at boot * HALF.                              *)
LEMMA BaseOf == \A b \in 0 .. HALF - 1 : BootBase(b) = b * HALF
  <1> SUFFICES ASSUME NEW b \in 0 .. HALF - 1 PROVE b % HALF = b
    BY DEF BootBase
  <1> QED BY HalfAssumption

(* While messages are left, the next number stays below the block's end.   *)
LEMMA InBlock ==
  \A x, k \in Nat : x < k * HALF /\ MessageLeft(x) => x + 1 < k * HALF
  <1> SUFFICES ASSUME NEW x \in Nat, NEW k \in Nat, x < k * HALF, MessageLeft(x), x + 1 >= k * HALF
      PROVE FALSE
    BY HalfAssumption
  <1> DEFINE q == x \div HALF
  <1>1. q \in Nat /\ x = HALF * q + (x % HALF) /\ x % HALF \in 0 .. HALF - 2
    BY DivMod, HalfAssumption DEF MessageLeft
  <1>2. CASE k <= q
    <2>1. k * HALF <= q * HALF
      BY Mono, <1>1, <1>2, HalfAssumption
    <2> QED BY <2>1, <1>1, HalfAssumption
  <1>3. CASE k >= q + 1
    <2>1. (q + 1) * HALF <= k * HALF
      BY Mono, <1>1, <1>3, HalfAssumption
    <2> QED BY <2>1, <1>1, HalfAssumption
  <1> QED BY <1>1, <1>2, <1>3

(* A set of naturals has a smallest element.                              *)
LEMMA Smallest ==
  ASSUME NEW S \in SUBSET Nat, S # {}
  PROVE  \E c \in S : \A d \in S : c <= d
  <1> DEFINE R == OpToRel(<, Nat)
  <1>1. IsWellFoundedOn(R, Nat)
    BY NatLessThanWellFounded
  <1>2. \A c, d \in Nat : d < c => <<d, c>> \in R
    BY DEF OpToRel
  <1> HIDE DEF R
  <1>3. PICK c \in S : \A d \in S : ~(<<d, c>> \in R)
    BY <1>1, WFMin
  <1> SUFFICES ASSUME NEW d \in S PROVE c <= d
    OBVIOUS
  <1>4. c \in Nat /\ d \in Nat
    OBVIOUS
  <1>5. ~(d < c)
    BY <1>2, <1>3, <1>4
  <1> QED BY <1>4, <1>5

(* The boot half of a word is a half.                                      *)
LEMMA BootOfWord == \A x \in Word : BootOf(x) \in 0 .. HALF - 1
  <1> SUFFICES ASSUME NEW x \in Word PROVE BootOf(x) \in 0 .. HALF - 1
      OBVIOUS
  <1> DEFINE q == x \div HALF
  <1>1. x \in Nat /\ x < HALF * HALF
    BY HalfSquare DEF Word
  <1>2. q \in Nat /\ x = HALF * q + (x % HALF) /\ x % HALF \in 0 .. HALF - 1
    BY <1>1, DivMod
  <1>3. CASE q >= HALF
    <2>1. HALF * HALF <= q * HALF
      BY Mono, <1>2, <1>3, HalfAssumption
    <2> QED BY <2>1, <1>1, <1>2, HalfAssumption
  <1> QED BY <1>2, <1>3, HalfAssumption DEF BootOf

(* A boot's block starts at a word.                                        *)
LEMMA BaseIsWord == \A b \in Nat : BootBase(b) \in Word
  <1> SUFFICES ASSUME NEW b \in Nat PROVE BootBase(b) \in Word
      OBVIOUS
  <1>1. b % HALF \in Nat /\ b % HALF <= HALF - 1 /\ HALF - 1 \in Nat
    BY HalfAssumption
  <1>2. (b % HALF) * HALF \in Nat /\ (b % HALF) * HALF <= (HALF - 1) * HALF
    BY Mono, <1>1, HalfAssumption
  <1>3. (HALF - 1) * HALF <= HALF * HALF - 1
    BY HalfAssumption
  <1> QED BY <1>2, <1>3, HalfSquare, HalfAssumption DEF BootBase, Word

(* seq++ gives a word.                                                     *)
LEMMA NextIsWord == \A x \in Word : NextSeq(x) \in Word
  <1> SUFFICES ASSUME NEW x \in Word PROVE NextSeq(x) \in Word
      OBVIOUS
  <1> DEFINE m == HALF * HALF
  <1>1. m \in Nat /\ m > 0 /\ x \in Nat
    BY HalfSquare, HalfAssumption DEF Word
  <1> HIDE DEF m
  <1>2. (x + 1) % m \in 0 .. m - 1
    BY <1>1
  <1> QED BY <1>2 DEF m, NextSeq, Word

=============================================================================
