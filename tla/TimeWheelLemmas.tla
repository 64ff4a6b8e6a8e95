--------------------------- MODULE TimeWheelLemmas ---------------------------
(***************************************************************************)
(* Facts about numbers and recursive functions that the proofs about       *)
(* TimeWheelExecutor rest on: quotients and remainders by the width of a   *)
(* level, and that recursive functions exist.                              *)
(***************************************************************************)
EXTENDS Integers, WellFoundedInduction, TLAPS

(* A nonempty set of natural numbers has a least element: the form in      *)
(* which induction is used here.                                           *)
LEMMA LeastNat ==
  ASSUME NEW T, T \subseteq Nat, T # {}
  PROVE  \E x \in T : \A y \in T : x <= y
<1>1. \E x \in T : \A y \in T : ~ (<<y, x>> \in OpToRel(<, Nat))
  BY NatLessThanWellFounded, WFMin
<1>2. PICK x \in T : \A y \in T : ~ (<<y, x>> \in OpToRel(<, Nat))
  BY <1>1
<1>3. \A y \in T : x <= y
  <2> SUFFICES ASSUME NEW y \in T PROVE ~(y < x)
    BY SMT
  <2>1. ~ (<<y, x>> \in OpToRel(<, Nat))
    BY <1>2
  <2>2. <<y, x>> \in Nat \X Nat
    OBVIOUS
  <2>3. y < x => <<y, x>> \in OpToRel(<, Nat)
    BY <2>2, Zenon DEF OpToRel
  <2> QED
    BY <2>1, <2>3
<1> QED
  BY <1>3

(* Quotient and remainder, as the levels of the wheel use them.            *)
LEMMA DivMod ==
  ASSUME NEW x \in Int, NEW w \in Nat \ {0}
  PROVE  /\ x \div w \in Int
         /\ x % w \in 0 .. w - 1
         /\ x = w * (x \div w) + (x % w)
BY SMT

(* They are determined by their equation.                                  *)
LEMMA DivUnique ==
  ASSUME NEW x \in Int, NEW w \in Nat \ {0}, NEW q \in Int, NEW r \in 0 .. w - 1,
         x = w * q + r
  PROVE  x \div w = q /\ x % w = r
BY SMTT(30)

(* f records the results of step[1], ..., step[m], started from base.      *)
Iterates(f, S, m, base, step) ==
  /\ f \in [0 .. m -> S]
  /\ f[0] = base
  /\ \A i \in 1 .. m : f[i] = step[i][f[i - 1]]

(* A recursive function on 0 .. n exists: the definitions of Scale,         *)
(* Odometer and SplicedWheel mean what they say.                           *)
LEMMA Recursion ==
  ASSUME NEW S, NEW n \in Nat, NEW base \in S, NEW step \in [1 .. n -> [S -> S]]
  PROVE  \E f : Iterates(f, S, n, base, step)
<1> DEFINE Fails == {m \in 0 .. n : ~ \E f : Iterates(f, S, m, base, step)}
<1>1. SUFFICES Fails = {}
  <2>1. n \in 0 .. n
    BY SMT
  <2> QED
    BY <1>1, <2>1
<1>2. SUFFICES ASSUME Fails # {} PROVE FALSE
  OBVIOUS
<1>3. PICK m \in Fails : \A y \in Fails : m <= y
  <2>1. Fails \subseteq Nat
    BY SMT
  <2> HIDE DEF Fails
  <2> QED
    BY <1>2, <2>1, LeastNat
<1>4. m \in 0 .. n /\ ~ \E f : Iterates(f, S, m, base, step)
  OBVIOUS
<1>5. CASE m = 0
  <2>1. Iterates([i \in 0 .. 0 |-> base], S, 0, base, step)
    BY SMT DEF Iterates
  <2> QED
    BY <1>4, <1>5, <2>1
<1>6. CASE m # 0
  <2>1. m - 1 \in 0 .. n /\ ~ (m <= m - 1)
    BY <1>4, <1>6, SMT
  <2>2. m - 1 \notin Fails
    BY <1>3, <2>1
  <2>3. PICK f : Iterates(f, S, m - 1, base, step)
    BY <2>1, <2>2
  <2> DEFINE g == [i \in 0 .. m |-> IF i = m THEN step[m][f[m - 1]] ELSE f[i]]
  <2>4. step[m][f[m - 1]] \in S
    <3>1. m - 1 \in 0 .. m - 1 /\ m \in 1 .. n
      BY <1>4, <1>6, SMT
    <3>2. f[m - 1] \in S
      BY <2>3, <3>1 DEF Iterates
    <3> QED
      BY <3>1, <3>2
  <2>5. g \in [0 .. m -> S]
    BY <1>4, <1>6, <2>3, <2>4, SMT DEF Iterates
  <2>6. g[0] = base
    BY <1>4, <1>6, <2>3, SMT DEF Iterates
  <2>7. ASSUME NEW i \in 1 .. m PROVE g[i] = step[i][g[i - 1]]
    <3>1. g[i - 1] = f[i - 1]
      BY <1>4, <1>6, SMT
    <3>2. CASE i = m
      BY <1>4, <3>1, <3>2, SMT
    <3>3. CASE i # m
      <4>1. i \in 1 .. m - 1 /\ i \in 0 .. m
        BY <1>4, <3>3, SMT
      <4>2. g[i] = f[i]
        BY <3>3, <4>1
      <4> QED
        BY <2>3, <3>1, <4>1, <4>2 DEF Iterates
    <3> QED
      BY <3>2, <3>3
  <2>8. Iterates(g, S, m, base, step)
    BY <2>5, <2>6, <2>7 DEF Iterates
  <2> QED
    BY <1>4, <2>8
<1> QED
  BY <1>5, <1>6

(* What counting one tick on does to quotient and remainder: a carry       *)
(* happens exactly at the last slot.                                       *)
LEMMA NextDivMod ==
  ASSUME NEW x \in Int, NEW w \in Nat \ {0}
  PROVE  /\ (x + 1) \div w = IF x % w = w - 1 THEN (x \div w) + 1 ELSE x \div w
         /\ (x + 1) % w = IF x % w = w - 1 THEN 0 ELSE (x % w) + 1
<1> DEFINE q == x \div w
           r == x % w
<1>1. q \in Int /\ r \in 0 .. w - 1 /\ x = w * q + r
  BY DivMod
<1> HIDE DEF q, r
<1>2. CASE r = w - 1
  <2>1. x + 1 = w * (q + 1) + 0 /\ q + 1 \in Int /\ 0 \in 0 .. w - 1
    BY <1>1, <1>2, SMT
  <2>2. (x + 1) \div w = q + 1 /\ (x + 1) % w = 0
    BY <2>1, DivUnique
  <2> QED
    BY <1>2, <2>2 DEF q, r
<1>3. CASE r # w - 1
  <2>1. x + 1 = w * q + (r + 1) /\ r + 1 \in 0 .. w - 1
    BY <1>1, <1>3, SMT
  <2>2. (x + 1) \div w = q /\ (x + 1) % w = r + 1
    BY <1>1, <2>1, DivUnique
  <2> QED
    BY <1>3, <2>2 DEF q, r
<1> QED
  BY <1>2, <1>3

(* Within one revolution a slot belongs to one tick.                       *)
LEMMA ModInjective ==
  ASSUME NEW w \in Nat \ {0}, NEW x \in Int, NEW y \in x - w + 1 .. x + w - 1,
         x % w = y % w
  PROVE  x = y
<1> DEFINE q == x \div w
           p == y \div w
           r == x % w
<1>1. y \in Int
  BY SMT
<1>2. q \in Int /\ p \in Int /\ r \in Int /\ x = w * q + r /\ y = w * p + r
  BY <1>1, DivMod
<1>3. x - y = w * (q - p) /\ -w < x - y /\ x - y < w
  BY <1>1, <1>2, SMT
<1> HIDE DEF q, p, r
<1>4. q - p < 1 /\ q - p > -1
  BY <1>2, <1>3, SMT
<1>5. q = p
  BY <1>2, <1>4, SMT
<1> QED
  BY <1>2, <1>5

(* Advancing a position modulo w follows the count.                        *)
LEMMA ModNext ==
  ASSUME NEW w \in Nat \ {0}, NEW x \in Int
  PROVE  ((x % w) + 1) % w = (x + 1) % w
<1>1. x % w \in 0 .. w - 1
  BY DivMod
<1>2. CASE x % w = w - 1
  <2>1. ((x % w) + 1) % w = 0
    <3>1. /\ (x % w) + 1 = w * 1 + 0
          /\ 1 \in Int /\ 0 \in 0 .. w - 1 /\ (x % w) + 1 \in Int
      BY <1>1, <1>2, SMT
    <3> QED
      BY <3>1, DivUnique
  <2> QED
    BY <1>2, <2>1, NextDivMod
<1>3. CASE x % w # w - 1
  <2>1. ((x % w) + 1) % w = (x % w) + 1
    <3>1. /\ (x % w) + 1 = w * 0 + ((x % w) + 1)
          /\ 0 \in Int /\ (x % w) + 1 \in 0 .. w - 1 /\ (x % w) + 1 \in Int
      BY <1>1, <1>3, SMT
    <3> QED
      BY <3>1, DivUnique
  <2> QED
    BY <1>3, <2>1, NextDivMod
<1> QED
  BY <1>2, <1>3

(* Division by a level's width keeps the order.                           *)
LEMMA DivAtLeast ==
  ASSUME NEW x \in Int, NEW w \in Nat \ {0}, NEW q \in Int, x >= q * w
  PROVE  x \div w >= q
<1> DEFINE p == x \div w
           r == x % w
<1>1. p \in Int /\ r \in 0 .. w - 1 /\ x = w * p + r
  BY DivMod
<1> HIDE DEF p, r
<1>2. w * (p + 1) > w * q
  BY <1>1, SMT
<1>3. p + 1 > q
  BY <1>1, <1>2, SMT
<1> QED
  BY <1>1, <1>3, SMT DEF p

(* Induction on 0 .. n, for a set given by enumeration of what it holds.   *)
LEMMA Induction ==
  ASSUME NEW n \in Nat, NEW T, 0 \in T,
         \A m \in 0 .. n - 1 : m \in T => m + 1 \in T
  PROVE  0 .. n \subseteq T
<1> DEFINE Fails == (0 .. n) \ T
<1>1. SUFFICES ASSUME Fails # {} PROVE FALSE
  OBVIOUS
<1>2. PICK m \in Fails : \A y \in Fails : m <= y
  <2>1. Fails \subseteq Nat
    BY SMT
  <2> HIDE DEF Fails
  <2> QED
    BY <1>1, <2>1, LeastNat
<1>3. m \in 0 .. n /\ m \notin T /\ m # 0
  OBVIOUS
<1>4. m - 1 \in 0 .. n - 1 /\ m - 1 \in 0 .. n /\ ~ (m <= m - 1)
      /\ (m - 1) + 1 = m
  BY <1>3, SMT
<1>5. m - 1 \in T
  BY <1>2, <1>4
<1> QED
  BY <1>3, <1>4, <1>5

LEMMA DivNat ==
  ASSUME NEW x \in Nat, NEW w \in Nat \ {0}
  PROVE  x \div w \in Nat
<1>1. x \div w \in Int /\ x \in Int /\ x >= 0 * w /\ 0 \in Int
  BY DivMod, SMT
<1>2. x \div w >= 0
  BY <1>1, DivAtLeast
<1> QED
  BY <1>1, <1>2, SMT
=============================================================================
