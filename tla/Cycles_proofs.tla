---------------------------- MODULE Cycles_proofs ----------------------------
(***************************************************************************)
(* Facts about naturals that the proofs about arrays walked cyclically     *)
(* need (the probing of hash_map.c, get_relay_batch of relay_manager.c):   *)
(* least elements, which stand in for induction, loops of a bounded number *)
(* of turns, and remainders.                                               *)
(***************************************************************************)
EXTENDS Integers, WellFoundedInduction, TLAPS

(* A nonempty set of naturals has a least element; the proofs that would   *)
(* be inductions take the least counterexample.                            *)
LEMMA NatLeast ==
  ASSUME NEW T \in SUBSET Nat, T # {}
  PROVE  \E x \in T : \A y \in T : x <= y
<1> DEFINE R == OpToRel(<, Nat)
<1>1. IsWellFoundedOn(R, Nat)
  BY NatLessThanWellFounded
<1>2. \A y, x \in Nat : <<y, x>> \in R <=> y < x
  BY DEF OpToRel
<1> HIDE DEF R
<1>3. PICK x \in T : \A y \in T : ~(<<y, x>> \in R)
  BY <1>1, WFMin
<1>4. \A y \in T : y \in Nat /\ x \in Nat
  OBVIOUS
<1>5. \A y \in T : ~(y < x)
  BY <1>2, <1>3, <1>4
<1>6. \A y \in T : x <= y
  BY <1>4, <1>5
<1>7. QED
  BY <1>6

(* What holds of 0 and of n + 1 whenever it holds of n holds of 0 .. max;  *)
(* the property is the set G of the numbers it holds of.                   *)
LEMMA UpTo ==
  ASSUME NEW G, NEW max \in Nat, 0 \in G,
         \A n \in 0 .. max - 1 : n \in G => n + 1 \in G
  PROVE  \A n \in 0 .. max : n \in G
<1> DEFINE T == {n \in 0 .. max : n \notin G}
<1> SUFFICES ASSUME T # {}
             PROVE  FALSE
  OBVIOUS
<1>1. PICK x \in T : \A y \in T : x <= y
  <2>1. T \in SUBSET Nat
    OBVIOUS
  <2> HIDE DEF T
  <2>2. QED
    BY <2>1, NatLeast
<1>2. x # 0 /\ x \in 1 .. max
  BY <1>1
<1>3. x - 1 \in 0 .. max - 1 /\ x - 1 \in G
  <2>1. x - 1 \notin T
    BY <1>1, <1>2
  <2>2. QED
    BY <1>2, <2>1
<1>4. (x - 1) + 1 \in G
  BY <1>3
<1>5. QED
  BY <1>1, <1>2, <1>4

(* The states a loop goes through in max turns, each the step of the one   *)
(* before it: there is such a sequence of states.                          *)
Turning(f, first, step, S, max) ==
    /\ f \in [0 .. max -> S]
    /\ f[0] = first
    /\ \A n \in 1 .. max : f[n] = step[f[n - 1]]

(* Whatever a turn does, a loop of max turns has its sequence of states. *)
LEMMA LoopHasStates ==
  ASSUME NEW S, NEW first \in S, NEW step \in [S -> S], NEW max \in Nat
  PROVE  \E f : Turning(f, first, step, S, max)
<1> DEFINE G == {n \in Nat : \E f : Turning(f, first, step, S, n)}
<1>1. 0 \in G
  <2>1. Turning([k \in 0 .. 0 |-> first], first, step, S, 0)
    BY DEF Turning
  <2>2. QED
    BY <2>1
<1>2. ASSUME NEW n \in 0 .. max - 1, n \in G
      PROVE  n + 1 \in G
  <2>1. PICK f : Turning(f, first, step, S, n)
    BY <1>2
  <2> DEFINE g == [k \in 0 .. n + 1 |-> IF k = n + 1 THEN step[f[n]] ELSE f[k]]
  <2>2. f[n] \in S /\ step[f[n]] \in S
    BY <2>1 DEF Turning
  <2>3. g \in [0 .. n + 1 -> S]
    BY <2>1, <2>2 DEF Turning
  <2>4. g[0] = first
    BY <2>1 DEF Turning
  <2>5. \A k \in 1 .. n + 1 : g[k] = step[g[k - 1]]
    BY <2>1 DEF Turning
  <2>6. Turning(g, first, step, S, n + 1)
    BY <2>3, <2>4, <2>5 DEF Turning
  <2>7. QED
    BY <2>6
<1>3. max \in G
  <2> HIDE DEF G
  <2>1. \A n \in 0 .. max : n \in G
    BY <1>1, <1>2, UpTo
  <2>2. QED
    BY <2>1
<1>4. QED
  BY <1>3

-----------------------------------------------------------------------------
(* Dividing with a remainder. *)
LEMMA Division ==
  ASSUME NEW n \in Nat \ {0}, NEW a \in Nat
  PROVE  a \div n \in Nat /\ a % n \in 0 .. n - 1 /\ a = n * (a \div n) + (a % n)
<1> DEFINE q == a \div n
           r == a % n
<1> SUFFICES q \in Nat /\ r \in 0 .. n - 1 /\ a = n * q + r
  OBVIOUS
<1>1. q \in Int /\ r \in 0 .. n - 1 /\ a = n * q + r
  OBVIOUS
<1> HIDE DEF q, r
<1>2. ~(q <= -1)
  <2>1. q <= -1 => n * q <= -n
    BY <1>1
  <2>2. n * q \in Int
    BY <1>1
  <2>3. QED
    BY <1>1, <2>1, <2>2
<1>3. q \in Nat
  BY <1>1, <1>2
<1>4. QED
  BY <1>1, <1>3

(* A product grows with its factors. *)
LEMMA Growing ==
  ASSUME NEW n \in Nat, NEW p \in Nat, NEW q \in Nat, p <= q
  PROVE  n * p \in Nat /\ n * q \in Nat /\ n * p <= n * q
OBVIOUS

(* A number has one remainder. *)
LEMMA Remainder ==
  ASSUME NEW n \in Nat \ {0}, NEW q \in Int, NEW r \in 0 .. n - 1
  PROVE  (n * q + r) % n = r
<1> DEFINE a == n * q + r
           p == a \div n
           s == a % n
<1>1. a \in Int /\ p \in Int /\ s \in 0 .. n - 1 /\ a = n * p + s
  OBVIOUS
<1> HIDE DEF p, s
<1>2. n * (p - q) = r - s
  BY <1>1
<1>3. ~(p - q >= 1)
  <2>1. p - q >= 1 => n * (p - q) >= n
    BY <1>1
  <2>2. QED
    BY <1>1, <1>2, <2>1
<1>4. ~(p - q <= -1)
  <2>1. p - q <= -1 => n * (p - q) <= -n
    BY <1>1
  <2>2. QED
    BY <1>1, <1>2, <2>1
<1>5. p = q
  BY <1>1, <1>3, <1>4
<1>6. QED
  BY <1>1, <1>5 DEF s

(* n turns from s on visit every slot of an array of n ... *)
LEMMA CycleIsOnto ==
  ASSUME NEW n \in Nat \ {0}, NEW s \in Nat, NEW i \in 0 .. n - 1
  PROVE  \E k \in 0 .. n - 1 : (s + k) % n = i
<1> DEFINE q == s \div n
           h == s % n
           k == IF i >= h THEN i - h ELSE i - h + n
<1>1. q \in Int /\ h \in 0 .. n - 1 /\ s = n * q + h
  OBVIOUS
<1> HIDE DEF q, h
<1>2. k \in 0 .. n - 1
  BY <1>1
<1>3. n * (q + 1) = n * q + n
  BY <1>1
<1>4. s + k = n * q + i \/ s + k = n * (q + 1) + i
  BY <1>1, <1>3
<1>5. (n * q + i) % n = i /\ (n * (q + 1) + i) % n = i
  <2>1. q + 1 \in Int
    BY <1>1
  <2>2. QED
    BY ONLY <1>1, <2>1, n \in Nat \ {0}, i \in 0 .. n - 1, Remainder
<1>6. QED
  BY <1>2, <1>4, <1>5

(* ... once. *)
LEMMA CycleIsOneToOne ==
  ASSUME NEW n \in Nat \ {0}, NEW s \in Nat, NEW j \in 0 .. n - 1, NEW k \in 0 .. n - 1,
         (s + j) % n = (s + k) % n
  PROVE  j = k
<1> DEFINE p == (s + j) \div n
           q == (s + k) \div n
           r == (s + k) % n
<1>1. p \in Int /\ q \in Int /\ r \in Int /\ s + j = n * p + r /\ s + k = n * q + r
  OBVIOUS
<1> HIDE DEF p, q, r
<1>2. n * (p - q) = j - k
  <2>1. n * (p - q) = n * p - n * q
    BY <1>1
  <2>2. n * p \in Int /\ n * q \in Int
    BY <1>1
  <2>3. QED
    BY <1>1, <2>1, <2>2
<1>3. p - q >= 1 => n * (p - q) >= n
  BY <1>1
<1>4. p - q <= -1 => n * (p - q) <= -n
  BY <1>1
<1>5. p = q
  BY <1>1, <1>2, <1>3, <1>4
<1>6. n * (p - q) = 0
  BY <1>1, <1>5
<1>7. QED
  BY <1>2, <1>6

(* Moving on from a remainder is the remainder of moving on. *)
LEMMA RemainderMoves ==
  ASSUME NEW n \in Nat \ {0}, NEW s \in Nat, NEW k \in Nat
  PROVE  ((s % n) + k) % n = (s + k) % n
<1> DEFINE q == s \div n
           h == s % n
           p == (h + k) \div n
           r == (h + k) % n
<1>1. q \in Int /\ h \in 0 .. n - 1 /\ s = n * q + h
  OBVIOUS
<1>2. p \in Int /\ r \in 0 .. n - 1 /\ h + k = n * p + r
  BY <1>1
<1> HIDE DEF q, h, p, r
<1>3. n * (q + p) = n * q + n * p
  BY <1>1, <1>2
<1>4. s + k = n * (q + p) + r
  BY <1>1, <1>2, <1>3
<1>5. (n * (q + p) + r) % n = r
  <2>1. q + p \in Int
    BY <1>1, <1>2
  <2>2. QED
    BY ONLY <1>2, <2>1, n \in Nat \ {0}, Remainder
<1>6. QED
  BY <1>4, <1>5 DEF r, h
=============================================================================
