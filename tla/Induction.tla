------------------------------ MODULE Induction ------------------------------
(***************************************************************************)
(* Induction over natural numbers with sets in the place of predicates:    *)
(* the library's induction theorems take an operator as a parameter, which *)
(* the provers cannot instantiate, but a set is a value.  Well-foundedness *)
(* of < on Nat gives least elements, these give induction over an          *)
(* interval, and that gives functions defined by recursion on a number,    *)
(* which is how map of memory.cpp and the writes of an AXI burst are       *)
(* modelled.                                                               *)
(***************************************************************************)
EXTENDS Integers, WellFoundedInduction, TLAPS

\* A set of natural numbers that is not empty has a least element.
LEMMA Least ==
    ASSUME NEW T \in SUBSET Nat, T # {}
    PROVE  \E x \in T : \A y \in T : x <= y
  <1> DEFINE R == {p \in Nat \X Nat : p[1] < p[2]}
  <1>1. OpToRel(<, Nat) = R
    BY DEF OpToRel
  <1>2. IsWellFoundedOn(R, Nat)
    BY <1>1, NatLessThanWellFounded
  <1>3. PICK x \in T : \A y \in T : ~ (<<y, x>> \in R)
    BY <1>2, WFMin
  <1>4. ASSUME NEW y \in T PROVE x <= y
    <2>1. x \in Nat /\ y \in Nat /\ ~(<<y, x>> \in R)
      BY <1>3
    <2>2. <<y, x>> \in R <=> y < x
      BY <2>1
    <2>3. QED
      BY <2>1, <2>2
  <1>5. QED
    BY <1>4

\* Induction from 0 to N, over the members of a set.
LEMMA UpTo ==
    ASSUME NEW N \in Nat, NEW T, 0 \in T, \A n \in 0..(N - 1) : n \in T => n + 1 \in T
    PROVE  0..N \subseteq T
  <1> DEFINE B == {n \in 0..N : n \notin T}
  <1>1. SUFFICES ASSUME B # {} PROVE FALSE
    OBVIOUS
  <1>2. PICK x \in B : \A y \in B : x <= y
    <2>1. B \in SUBSET Nat
      OBVIOUS
    <2>2. QED
      BY <1>1, <2>1, Least
  <1>3. x \in 1..N /\ x \notin T
    OBVIOUS
  <1>4. x - 1 \in 0..(N - 1) /\ x - 1 \in 0..N /\ ~(x <= x - 1) /\ x - 1 + 1 = x
    BY <1>3
  <1>5. x - 1 \in T
    BY <1>2, <1>4
  <1>6. QED
    BY <1>3, <1>4, <1>5

\* The functions on 0..N that start with b and of which step[k] takes the value at k - 1
\* to the value at k.
Runs(N, X, b, step) ==
    {g \in [0..N -> X] : g[0] = b /\ \A k \in 1..N : g[k] = step[k][g[k - 1]]}

\* There is such a function.
LEMMA Recursion ==
    ASSUME NEW N \in Nat, NEW X, NEW b \in X, NEW step \in [1..N -> [X -> X]]
    PROVE  Runs(N, X, b, step) # {}
  <1> DEFINE Def(f, n) == f[0] = b /\ \A k \in 1..n : f[k] = step[k][f[k - 1]]
             T == {n \in 0..N : \E f \in [0..n -> X] : Def(f, n)}
  <1>1. 0 \in T
    <2> DEFINE f == [k \in 0..0 |-> b]
    <2>1. f \in [0..0 -> X] /\ Def(f, 0)
      OBVIOUS
    <2> HIDE DEF f, Def
    <2>2. \E ff \in [0..0 -> X] : Def(ff, 0)
      BY <2>1
    <2>3. QED
      BY <2>2
  <1>2. ASSUME NEW n \in 0..(N - 1), n \in T PROVE n + 1 \in T
    <2>1. PICK f \in [0..n -> X] : Def(f, n)
      BY <1>2
    <2> DEFINE h == [k \in 0..(n + 1) |-> IF k = n + 1 THEN step[n + 1][f[n]] ELSE f[k]]
    <2>2. n + 1 \in 1..N /\ n \in 0..n /\ step[n + 1][f[n]] \in X
      OBVIOUS
    <2>3. h \in [0..(n + 1) -> X]
      BY <2>2
    <2>4. ASSUME NEW k \in 1..(n + 1) PROVE h[k] = step[k][h[k - 1]]
      <3>1. CASE k = n + 1
        BY <3>1
      <3>2. CASE k \in 1..n
        <4>1. f[k] = step[k][f[k - 1]]
          BY <2>1, <3>2
        <4>2. h[k] = f[k] /\ h[k - 1] = f[k - 1]
          BY <3>2
        <4>3. QED
          BY <4>1, <4>2
      <3>3. QED
        BY <3>1, <3>2
    <2>5. h[0] = b
      BY <2>1
    <2>6. Def(h, n + 1)
      BY <2>4, <2>5
    <2> HIDE DEF h, Def
    <2>7. \E ff \in [0..(n + 1) -> X] : Def(ff, n + 1)
      BY <2>3, <2>6
    <2>8. n + 1 \in 0..N
      OBVIOUS
    <2>9. QED
      BY <2>7, <2>8
  <1>3. 0..N \subseteq T
    BY <1>1, <1>2, UpTo
  <1>4. N \in T
    BY <1>3
  <1>5. QED
    BY <1>4 DEF Runs

\* Two of them, one of which goes on further, agree as far as the shorter one goes.
LEMMA SameRecursion ==
    ASSUME NEW N \in Nat, NEW M \in Nat, N <= M, NEW X, NEW b, NEW step, NEW more,
           NEW f \in Runs(N, X, b, step), NEW g \in Runs(M, X, b, more),
           \A k \in 1..N : more[k] = step[k]
    PROVE  \A k \in 0..N : f[k] = g[k]
  <1> DEFINE T == {k \in 0..N : f[k] = g[k]}
  <1>1. 0 \in T
    BY DEF Runs
  <1>2. ASSUME NEW n \in 0..(N - 1), n \in T PROVE n + 1 \in T
    <2>1. n + 1 \in 1..N /\ n + 1 - 1 = n /\ f[n] = g[n]
      BY <1>2
    <2>2. f[n + 1] = step[n + 1][f[n]] /\ g[n + 1] = step[n + 1][g[n]]
      BY <2>1 DEF Runs
    <2>3. QED
      BY <2>1, <2>2
  <1>3. 0..N \subseteq T
    BY <1>1, <1>2, UpTo
  <1>4. QED
    BY <1>3
=============================================================================
