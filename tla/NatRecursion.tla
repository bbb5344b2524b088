---------------------------- MODULE NatRecursion ----------------------------
(***************************************************************************)
(* Facts about the natural numbers that proofs about sizes need: induction *)
(* and recursion over them, and remainders.  Induction is stated with a    *)
(* set in place of a predicate, so that every prover can instantiate it;   *)
(* it follows from the well-foundedness of < alone.                        *)
(***************************************************************************)
EXTENDS Integers, WellFoundedInduction, TLAPS

-----------------------------------------------------------------------------
(* Induction.                                                              *)

\* Every set of natural numbers with an element has a least one.
LEMMA LeastNatural ==
    ASSUME NEW T, T \subseteq Nat, T # {}
    PROVE  \E x \in T : \A y \in T : x <= y
<1> DEFINE R == OpToRel(<, Nat)
<1>1. IsWellFoundedOn(R, Nat)
  BY NatLessThanWellFounded, Zenon
<1>2. \A x, y \in Nat : y < x => <<y, x>> \in R
  BY Zenon DEF OpToRel
<1> HIDE DEF R
<1>3. PICK x \in T : \A y \in T : ~ (<<y, x>> \in R)
  BY <1>1, WFMin
<1>4. \A y \in T : ~(y < x)
  BY <1>2, <1>3
<1>5. \A y \in T : x <= y
  BY <1>4
<1> QED
  BY <1>5

\* A set that has 0 and, with each number, the next has all of them.
LEMMA Induction ==
    ASSUME NEW S, 0 \in S, \A n \in Nat : n \in S => n + 1 \in S
    PROVE  Nat \subseteq S
<1> SUFFICES ASSUME Nat \ S # {} PROVE FALSE
  OBVIOUS
<1>1. PICK x \in Nat \ S : \A y \in Nat \ S : x <= y
  BY LeastNatural
<1>2. x - 1 \in Nat /\ ~(x <= x - 1)
  BY <1>1
<1>3. x - 1 \in S
  BY <1>1, <1>2
<1> QED
  BY <1>1, <1>2, <1>3

-----------------------------------------------------------------------------
(* Recursion.                                                              *)

\* f starts with b and goes on by step, as far as N.
Follows(f, b, step, N) ==
    f[0] = b /\ \A k \in 1 .. N : f[k] = step[k][f[k - 1]]

\* A sequence of values can be defined by its first one and a step.
LEMMA Recursion ==
    ASSUME NEW S, NEW b \in S, NEW N \in Nat, NEW step \in [1 .. N -> [S -> S]]
    PROVE  \E f \in [0 .. N -> S] : Follows(f, b, step, N)
<1> DEFINE Ok == {n \in Nat : n <= N => \E f \in [0 .. n -> S] : Follows(f, b, step, n)}
<1>1. 0 \in Ok
  <2> DEFINE f == [k \in 0 .. 0 |-> b]
  <2>1. f \in [0 .. 0 -> S] /\ Follows(f, b, step, 0)
    BY DEF Follows
  <2> QED
    BY <2>1
<1>2. ASSUME NEW n \in Nat, n \in Ok PROVE n + 1 \in Ok
  <2> SUFFICES ASSUME n + 1 <= N
               PROVE  \E f \in [0 .. n + 1 -> S] : Follows(f, b, step, n + 1)
    OBVIOUS
  <2>1. PICK f \in [0 .. n -> S] : Follows(f, b, step, n)
    BY <1>2
  <2> DEFINE g == [k \in 0 .. n + 1 |-> IF k = n + 1 THEN step[n + 1][f[n]] ELSE f[k]]
  <2>2. step[n + 1] \in [S -> S] /\ f[n] \in S
    OBVIOUS
  <2>3. g \in [0 .. n + 1 -> S]
    BY <2>2
  <2>4. g[0] = b /\ g[n + 1] = step[n + 1][g[n]]
    BY <2>1 DEF Follows
  <2>5. ASSUME NEW k \in 1 .. n PROVE g[k] = step[k][g[k - 1]]
    <3>1. g[k] = f[k] /\ g[k - 1] = f[k - 1]
      OBVIOUS
    <3> QED
      BY <2>1, <3>1 DEF Follows
  <2>6. Follows(g, b, step, n + 1)
    <3>1. \A k \in 1 .. n + 1 : k \in 1 .. n \/ k = n + 1
      OBVIOUS
    <3>2. (n + 1) - 1 = n
      OBVIOUS
    <3> HIDE DEF g
    <3> QED
      BY <2>4, <2>5, <3>1, <3>2 DEF Follows
  <2> QED
    BY <2>3, <2>6
<1> HIDE DEF Ok
<1>3. N \in Ok
  BY <1>1, <1>2, Induction
<1> QED
  BY <1>3 DEF Ok

-----------------------------------------------------------------------------
(* Remainders.                                                             *)

\* What SMT knows of quotients and remainders.
LEMMA Quotient ==
    ASSUME NEW W \in Nat \ {0}, NEW a \in Nat
    PROVE  a = W * (a \div W) + (a % W) /\ a \div W \in Nat /\ a % W \in 0 .. W - 1
OBVIOUS

\* W times a positive number is at least W.
LEMMA AtLeastOnce ==
    ASSUME NEW W \in Nat \ {0}, NEW q \in Int, q >= 1
    PROVE  W * q >= W
OBVIOUS

\* There is one remainder only.
LEMMA RemainderUnique ==
    ASSUME NEW W \in Nat \ {0}, NEW p \in Int, NEW q \in Int,
           NEW r \in 0 .. W - 1, NEW s \in 0 .. W - 1, W * p + r = W * q + s
    PROVE  r = s
<1>1. W * (p - q) = s - r /\ W * (q - p) = r - s
  OBVIOUS
<1>2. ~(p - q >= 1)
  BY <1>1, AtLeastOnce
<1>3. ~(q - p >= 1)
  BY <1>1, AtLeastOnce
<1> QED
  BY <1>1, <1>2, <1>3

\* A number below W is its own remainder.
LEMMA SmallRemainder ==
    ASSUME NEW W \in Nat \ {0}, NEW a \in Nat, a < W
    PROVE  a % W = a
<1>1. a = W * (a \div W) + (a % W) /\ a \div W \in Nat /\ a % W \in 0 .. W - 1
  BY Quotient
<1>2. W * 0 + a = a /\ a \in 0 .. W - 1
  OBVIOUS
<1> DEFINE q == a \div W
           r == a % W
<1> HIDE DEF q, r
<1>3. q \in Int /\ r \in 0 .. W - 1 /\ W * q + r = W * 0 + a
  BY <1>1, <1>2 DEF q, r
<1>4. r = a
  BY <1>2, <1>3, RemainderUnique
<1> QED
  BY <1>4 DEF r

\* Taking the remainder twice changes nothing.
LEMMA RemainderTwice ==
    ASSUME NEW W \in Nat \ {0}, NEW a \in Nat
    PROVE  (a % W) % W = a % W
<1> DEFINE r == a % W
<1>1. r \in Nat /\ r < W
  BY Quotient
<1> HIDE DEF r
<1>2. r % W = r
  BY <1>1, SmallRemainder
<1> QED
  BY <1>2 DEF r

\* A factor may be cut to a word before it is multiplied.
LEMMA ProductRemainder ==
    ASSUME NEW W \in Nat \ {0}, NEW a \in Nat, NEW d \in Nat
    PROVE  ((a % W) * d) % W = (a * d) % W
<1> DEFINE q == a \div W
           r == a % W
<1>1. a = W * q + r /\ q \in Nat /\ r \in 0 .. W - 1
  BY Quotient
<1> HIDE DEF q, r
<1>2. r * d \in Nat /\ a * d \in Nat /\ q * d \in Nat
  BY <1>1
<1>3. a * d = W * (q * d) + r * d
  BY <1>1
<1> DEFINE x == r * d
           y == a * d
           m == q * d
<1>4. x \in Nat /\ y \in Nat /\ m \in Nat /\ y = W * m + x
  BY <1>2, <1>3
<1> HIDE DEF x, y, m
<1>5. /\ x = W * (x \div W) + (x % W) /\ x \div W \in Nat /\ x % W \in 0 .. W - 1
      /\ y = W * (y \div W) + (y % W) /\ y \div W \in Nat /\ y % W \in 0 .. W - 1
  BY <1>4, Quotient
<1>6. W * (m + (x \div W)) + (x % W) = W * (y \div W) + (y % W)
  BY <1>4, <1>5
<1>7. x % W = y % W
  <2> DEFINE p == m + (x \div W)
             v == y \div W
             r1 == x % W
             r2 == y % W
  <2>1. p \in Int /\ v \in Int /\ r1 \in 0 .. W - 1 /\ r2 \in 0 .. W - 1
    BY <1>4, <1>5
  <2>2. W * p + r1 = W * v + r2
    BY <1>6
  <2> HIDE DEF p, v, r1, r2
  <2>3. r1 = r2
    BY <2>1, <2>2, RemainderUnique
  <2> QED
    BY <2>3 DEF r1, r2
<1> QED
  BY <1>7 DEF x, y, r
=============================================================================
